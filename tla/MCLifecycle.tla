--------------------------- MODULE MCLifecycle ---------------------------
(* Instances of Lifecycle for TLC. *)
EXTENDS Lifecycle

Base == [primaries |-> 2, replicas |-> 0, ephemeral |-> FALSE, purge |-> FALSE,
         kube |-> "k1", redis |-> "r", robin |-> "r1", auth |-> "a1"]

\* Persistent and fast-scaling clusters, topologies of up to four nodes, two
\* images (but for three primaries), and on the smallest two Robin settings and
\* two passwords.
Topologies == {<<0, 0>>, <<1, 0>>, <<1, 1>>, <<2, 0>>, <<2, 1>>, <<3, 0>>}

MCSpecs ==
  {s \in {[Base EXCEPT !.primaries = t[1], !.replicas = t[2], !.ephemeral = e,
                       !.purge = e, !.kube = k, !.robin = r, !.auth = a] :
            t \in Topologies, e \in BOOLEAN, k \in {"k1", "k2"},
            r \in {"r1", "r2"}, a \in {"a1", "a2"}} :
     /\ s.robin = "r2" \/ s.auth = "a2" => Total(s) = 1 /\ s.kube = "k1"
     /\ s.primaries = 3 => ~s.ephemeral /\ s.kube = "k1"}

\* The changes of topology whose steps Lifecycle models: all but fewer
\* primaries with more replicas each.
ModelledResize(a, b) ==
  a.primaries <= b.primaries \/ a.replicas >= b.replicas \/ b.primaries = 0

\* One kind of change per config.
SingleChanges ==
  {c \in MCSpecs \X MCSpecs :
     /\ c[1].ephemeral = c[2].ephemeral
     /\ \/ c[2] = [c[1] EXCEPT !.primaries = c[2].primaries,
                               !.replicas = c[2].replicas]
           /\ ModelledResize(c[1], c[2])
        \/ c[2] = [c[1] EXCEPT !.kube = c[2].kube]
        \/ c[2] = [c[1] EXCEPT !.robin = c[2].robin, !.auth = c[2].auth]}

-----------------------------------------------------------------------------
(* Instances for one change each.                                          *)

Bigger == [Base EXCEPT !.primaries = 3]
BiggerNewImage == [Bigger EXCEPT !.kube = "k2"]

\* More primaries and another image in one config.
GrowAndUpgradeSpecs == {Base, BiggerNewImage}
GrowAndUpgrade == {<<Base, BiggerNewImage>>}

\* One more primary.
GrowSpecs == {Base, Bigger}
Grow == {<<Base, Bigger>>}
=============================================================================
