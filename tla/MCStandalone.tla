---------------------------- MODULE MCStandalone ----------------------------
(* Instances of Standalone for TLC. *)
EXTENDS Standalone

Node == [primaries |-> 1, replicas |-> 0, ephemeral |-> FALSE, purge |-> FALSE,
         kube |-> "k1", redis |-> "r", robin |-> "r1", auth |-> "a1"]

\* Zero or one node, two images, two passwords.
MCSpecs == {[Node EXCEPT !.primaries = p, !.kube = k] : p \in {0, 1}, k \in {"k1", "k2"}}
             \cup {[Node EXCEPT !.auth = "a2"]}

\* Any change, except for one: an upgrade of a deployment without nodes finds
\* no StatefulSet to update and never ends.
LiveChanges == {c \in MCSpecs \X MCSpecs :
                  c[1].primaries = 0 /\ c[2].primaries = 0 => c[1].kube = c[2].kube}
=============================================================================
