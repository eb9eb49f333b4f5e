----------------------------- MODULE ConfigQueue -----------------------------
(***************************************************************************)
(* What Robin promises about the RedkeyConfig resources of a cluster, seen *)
(* from outside: a queue worked off strictly in sequence order. Only the   *)
(* oldest unresolved config ever moves; it is either carried out (Start,   *)
(* Finish) or skipped in favour of its direct successor, and it is skipped *)
(* only if it allows that and nothing but topology is lost by it.          *)
(*                                                                         *)
(* There is no failure, no retry and no in-memory copy at this level:      *)
(* ConfigPlan shows that the reconciler, with all of those, implements it. *)
(***************************************************************************)
EXTENDS Naturals

CONSTANTS MaxConfigs,   \* bound on the number of RedkeyConfigs created
          Specs         \* records [skip, other]

VARIABLES n,            \* configs 1..n exist
          spec,         \* spec[i]: what config i asks for
          phase         \* phase[i]: how far config i is

Ids == 1..MaxConfigs
Resolved == {"Applied", "Superseded"}

vars == <<n, spec, phase>>

Init ==
  /\ n = 0
  /\ spec \in [Ids -> Specs]
  /\ phase = [i \in Ids |-> "Waiting"]

\* Config i is the oldest one with something left to do.
IsHead(i) ==
  /\ i \in 1..n
  /\ phase[i] \notin Resolved
  /\ \A j \in 1..(i - 1) : phase[j] \in Resolved

\* Config b is the last one carried out before config i: what the cluster runs.
IsLive(b, i) ==
  /\ b \in 1..(i - 1)
  /\ phase[b] = "Applied"
  /\ \A j \in (b + 1)..(i - 1) : phase[j] # "Applied"

Create(s) ==
  /\ n < MaxConfigs
  /\ n' = n + 1
  /\ spec' = [spec EXCEPT ![n + 1] = s]
  /\ UNCHANGED phase

Supersede(i) ==
  /\ IsHead(i)
  /\ phase[i] = "Waiting"
  /\ i < n
  /\ spec[i].skip
  /\ spec[i + 1].other = spec[i].other
  /\ \A b \in Ids : IsLive(b, i) => spec[b].other = spec[i].other
  /\ phase' = [phase EXCEPT ![i] = "Superseded"]
  /\ UNCHANGED <<n, spec>>

Start(i) ==
  /\ IsHead(i)
  /\ phase[i] = "Waiting"
  /\ phase' = [phase EXCEPT ![i] = "InProgress"]
  /\ UNCHANGED <<n, spec>>

Finish(i) ==
  /\ IsHead(i)
  /\ phase[i] = "InProgress"
  /\ phase' = [phase EXCEPT ![i] = "Applied"]
  /\ UNCHANGED <<n, spec>>

Next ==
  \/ \E s \in Specs : Create(s)
  \/ \E i \in Ids : Supersede(i) \/ Start(i) \/ Finish(i)

Spec == Init /\ [][Next]_vars
=============================================================================
