----------------------------- MODULE ConfigPlan -----------------------------
(***************************************************************************)
(* The configuration plan of Robin's reconciliation loop: selectConfig and *)
(* the phase handling of reconcile (internal/reconciler/config_plan.go,    *)
(* config_superseding.go, reconciler.go), running against an API server    *)
(* whose writes fail, next to an Operator that keeps creating configs, in  *)
(* a process that may be restarted between any two calls.                  *)
(*                                                                         *)
(* One cycle of the loop is a sequence of steps, one per API call, that    *)
(* work on the copy of the phases (snap) the cycle listed at its start.    *)
(* What ReconcileCluster does to the cluster is module Lifecycle's; here   *)
(* it either leaves the config in its phase or completes it.               *)
(***************************************************************************)
EXTENDS ConfigSelection

CONSTANTS MaxConfigs,   \* bound on the number of RedkeyConfigs created
          Specs         \* the specs the Operator may ask for

ASSUME MaxConfigsAssumption == MaxConfigs \in Nat

ASSUME SpecsAssumption ==
  /\ Specs # {}
  /\ \A s \in Specs : s.skip \in BOOLEAN

VARIABLES
  \* the API server
  n,        \* configs 1..n exist, in Sequence order
  spec,     \* spec[i]: Spec of config i
  phase,    \* phase[i]: Status.ConfigPhase of config i as stored
  \* one cycle of the loop
  pc,       \* the next call of the cycle
  snap,     \* the phases in memory
  seen,     \* number of configs the cycle listed
  cursor,   \* next config to mark Superseded
  target,   \* targetConfig
  stale     \* configs whose resourceVersion in memory is outdated

store == <<n, spec, phase>>
cycle == <<pc, snap, seen, cursor, target, stale>>
vars == <<n, spec, phase, pc, snap, seen, cursor, target, stale>>

Ids == 1..MaxConfigs

(***************************************************************************)
(* client.Status().Update: it is stored and answered; it is not stored and *)
(* an error is returned; or it is stored and the answer is lost, so that   *)
(* the caller sees an error too and keeps an outdated resourceVersion, with *)
(* which every later write of the same object is refused as a conflict.    *)
(***************************************************************************)
Outcomes == {"ok", "refused", "unanswered"}

StatusUpdate(i, p, outcome) ==
  /\ i \in stale => outcome = "refused"
  /\ phase' = IF outcome = "refused" THEN phase ELSE [phase EXCEPT ![i] = p]

\* The cycle returns, or the process dies: nothing in memory survives.
Abandon ==
  /\ pc' = "idle"
  /\ snap' = [i \in Ids |-> "Unset"]
  /\ seen' = 0
  /\ cursor' = None
  /\ target' = None
  /\ stale' = {}

Init ==
  /\ n = 0
  /\ spec = [i \in Ids |-> CHOOSE s \in Specs : TRUE]
  /\ phase = [i \in Ids |-> "Unset"]
  /\ pc = "idle"
  /\ snap = [i \in Ids |-> "Unset"]
  /\ seen = 0
  /\ cursor = None
  /\ target = None
  /\ stale = {}

-----------------------------------------------------------------------------
(* The Operator creates the next RedkeyConfig, without a status.           *)

OperatorCreates(s) ==
  /\ n < MaxConfigs
  /\ n' = n + 1
  /\ spec' = [spec EXCEPT ![n + 1] = s]
  /\ UNCHANGED <<phase, cycle>>

-----------------------------------------------------------------------------
(* One cycle of the loop.                                                  *)

\* selectConfig lists the configs; with none there is nothing to do.
listConfigs ==
  /\ pc = "idle"
  /\ n > 0
  /\ pc' = "initialising"
  /\ snap' = phase
  /\ seen' = n
  /\ UNCHANGED <<store, cursor, target, stale>>

\* The first listed config without a phase gets Pending. A failed write is
\* only logged: in memory the config is Pending whatever the outcome.
initConfigPhase(outcome) ==
  /\ pc = "initialising"
  /\ \E i \in 1..seen :
       /\ snap[i] = "Unset"
       /\ \A j \in 1..(i - 1) : snap[j] # "Unset"
       /\ StatusUpdate(i, "Pending", outcome)
       /\ snap' = [snap EXCEPT ![i] = "Pending"]
       /\ stale' = IF outcome = "unanswered" THEN stale \union {i} ELSE stale
  /\ UNCHANGED <<n, spec, pc, seen, cursor, target>>

\* SelectConfig and ApplySuperseding decide, in memory, on this cycle's
\* target and on the configs to skip on the way to it.
selectConfig ==
  /\ pc = "initialising"
  /\ \A i \in 1..seen : snap[i] # "Unset"
  /\ LET selected == SelectConfig(snap, seen)
     IN  /\ cursor' = selected
         /\ target' = ApplySuperseding(spec, snap, seen, selected)
  /\ pc' = "superseding"
  /\ UNCHANGED <<store, snap, seen, stale>>

\* Faulty variants of applySupersedingStatus: the loop runs one config too far;
\* and it goes on after a failed write.
applySupersedingStatusTooFar(outcome) ==
  /\ pc = "superseding"
  /\ cursor <= target
  /\ StatusUpdate(cursor, "Superseded", outcome)
  /\ IF outcome = "ok"
     THEN /\ cursor' = cursor + 1
          /\ snap' = [snap EXCEPT ![cursor] = "Superseded"]
          /\ UNCHANGED <<pc, seen, target, stale>>
     ELSE Abandon
  /\ UNCHANGED <<n, spec>>

applySupersedingStatusIgnoringErrors(outcome) ==
  /\ pc = "superseding"
  /\ cursor < target
  /\ StatusUpdate(cursor, "Superseded", outcome)
  /\ cursor' = cursor + 1
  /\ snap' = [snap EXCEPT ![cursor] = "Superseded"]
  /\ UNCHANGED <<n, spec, pc, seen, target, stale>>

\* The configs before the target are marked Superseded one by one. When a
\* write fails, that config is returned as the target with its phase in
\* memory already Superseded: reconcile refuses it and the cycle ends.
applySupersedingStatus(outcome) ==
  /\ pc = "superseding"
  /\ cursor < target
  /\ StatusUpdate(cursor, "Superseded", outcome)
  /\ IF outcome = "ok"
     THEN /\ cursor' = cursor + 1
          /\ snap' = [snap EXCEPT ![cursor] = "Superseded"]
          /\ UNCHANGED <<pc, seen, target, stale>>
     ELSE Abandon
  /\ UNCHANGED <<n, spec>>

\* reconcile dispatches on the phase of the target.
dispatch ==
  /\ pc = "superseding"
  /\ cursor = target
  /\ IF validConfigPhase(snap[target])
     THEN /\ pc' = IF snap[target] = "Pending" THEN "starting" ELSE "cluster"
          /\ UNCHANGED <<snap, seen, cursor, target, stale>>
     ELSE Abandon
  /\ UNCHANGED store

\* Faulty variant: the cycle goes on although the write failed.
setConfigPhaseInProgressIgnoringErrors(outcome) ==
  /\ pc = "starting"
  /\ StatusUpdate(target, "InProgress", outcome)
  /\ pc' = "cluster"
  /\ snap' = [snap EXCEPT ![target] = "InProgress"]
  /\ UNCHANGED <<n, spec, seen, cursor, target, stale>>

setConfigPhaseInProgress(outcome) ==
  /\ pc = "starting"
  /\ StatusUpdate(target, "InProgress", outcome)
  /\ IF outcome = "ok"
     THEN /\ pc' = "cluster"
          /\ snap' = [snap EXCEPT ![target] = "InProgress"]
          /\ UNCHANGED <<seen, cursor, target, stale>>
     ELSE Abandon
  /\ UNCHANGED <<n, spec>>

\* A pass of ReconcileCluster that does not complete the config: it waits, it
\* fails, or the config was complete before and is only health-checked.
reconcileClusterWaits ==
  /\ pc = "cluster"
  /\ Abandon
  /\ UNCHANGED store

\* A pass of ReconcileCluster that ends with setConfigPhaseApplied.
setConfigPhaseApplied(outcome) ==
  /\ pc = "cluster"
  /\ snap[target] = "InProgress"
  /\ StatusUpdate(target, "Applied", outcome)
  /\ Abandon
  /\ UNCHANGED <<n, spec>>

\* The process is killed between two calls and started again.
restart ==
  /\ pc # "idle"
  /\ Abandon
  /\ UNCHANGED store

reconcile ==
  \/ listConfigs
  \/ \E o \in Outcomes : initConfigPhase(o)
  \/ selectConfig
  \/ \E o \in Outcomes : applySupersedingStatus(o)
  \/ dispatch
  \/ \E o \in Outcomes : setConfigPhaseInProgress(o)
  \/ reconcileClusterWaits
  \/ \E o \in Outcomes : setConfigPhaseApplied(o)

Next ==
  \/ \E s \in Specs : OperatorCreates(s)
  \/ reconcile
  \/ restart

Spec == Init /\ [][Next]_vars

(***************************************************************************)
(* The loop of Start never stops; a call that it repeats for ever succeeds *)
(* in the end (failures and restarts are transient), and so does the work  *)
(* on the cluster. Nothing obliges the Operator to create a config.        *)
(***************************************************************************)
Fairness ==
  /\ WF_vars(reconcile)
  /\ SF_vars(listConfigs)
  /\ SF_vars(initConfigPhase("ok"))
  /\ SF_vars(selectConfig)
  /\ SF_vars(applySupersedingStatus("ok"))
  /\ SF_vars(dispatch)
  /\ SF_vars(setConfigPhaseInProgress("ok"))
  /\ SF_vars(setConfigPhaseApplied("ok"))

FairSpec == Spec /\ Fairness

-----------------------------------------------------------------------------
(* Properties.                                                             *)

\* The types of the stored statuses and of what a cycle holds in memory.
TypeOK ==
  /\ n \in 0..MaxConfigs
  /\ spec \in [Ids -> Specs]
  /\ phase \in [Ids -> Phases]
  /\ pc \in {"idle", "initialising", "superseding", "starting", "cluster"}
  /\ snap \in [Ids -> Phases]
  /\ seen \in 0..n
  /\ cursor \in 0..seen
  /\ target \in 0..seen
  /\ stale \subseteq Ids

\* Configs are resolved strictly in sequence order, whatever writes fail and
\* wherever Robin is restarted: one that has left Pending has only Applied and
\* Superseded ones before it. In particular two configs are never InProgress
\* at once, although no step of reconcile looks at the other configs' phases.
InOrder ==
  \A i, j \in Ids :
     /\ i < j
     /\ phase[j] \in {"InProgress", "Applied", "Superseded"}
     => phase[i] \in Terminal

\* Skipping a config loses nothing but topology: it allowed to be skipped,
\* and the first later config that is not skipped itself asks for the same
\* values of every other field. So the last config is never Superseded, and
\* SelectConfig's "all are Superseded with none Applied" case cannot arise.
SupersededIsCovered ==
  \A i \in Ids : phase[i] = "Superseded" =>
     /\ spec[i].skip
     /\ \E j \in (i + 1)..n :
          /\ phase[j] # "Superseded"
          /\ \A k \in (i + 1)..(j - 1) : phase[k] = "Superseded"
          /\ spec[j].other = spec[i].other

(***************************************************************************)
(* InOrder and SupersededIsCovered are not inductive as they stand: a step *)
(* decides from memory. The invariant that is inductive relates what the   *)
(* running cycle remembers to what is stored.                              *)
(***************************************************************************)

\* SelectConfig does not tell these two apart.
Waiting == {"Unset", "Pending"}

\* Memory and store agree on every listed config, up to a Pending whose write
\* failed; no status exists for a config that does not.
MemoryAgrees ==
  /\ \A i \in Ids : i > n => phase[i] = "Unset"
  /\ pc # "idle" =>
       /\ seen \in 1..n
       /\ \A i \in 1..seen :
            \/ snap[i] = phase[i]
            \/ snap[i] \in Waiting /\ phase[i] \in Waiting

\* Once a target is chosen, the config at the cursor is the oldest unresolved
\* one (or nothing is unresolved).
CursorIsHead ==
  pc \in {"superseding", "starting", "cluster"} =>
    /\ cursor \in 1..target
    /\ phase[cursor] \notin Terminal =>
         \A j \in 1..(cursor - 1) : phase[j] \in Terminal

\* The part of the chain that is not marked yet may still be skipped.
ChainIsSkippable ==
  pc = "superseding" /\ cursor < target =>
    /\ \A k \in cursor..target : phase[k] \in Waiting
    /\ \A k \in cursor..(target - 1) :
         spec[k].skip /\ spec[k + 1].other = spec[k].other
    /\ \A b \in 1..(cursor - 1) :
         (/\ phase[b] = "Applied"
          /\ \A j \in (b + 1)..(cursor - 1) : phase[j] # "Applied")
         => spec[b].other = spec[cursor].other

\* What the last calls of a cycle rely on.
TargetIsCurrent ==
  /\ pc \in {"starting", "cluster"} => cursor = target
  /\ pc = "starting" => phase[target] \in Waiting
  /\ pc = "cluster" => snap[target] = phase[target]

\* The inductive invariant of the loop: what a running cycle remembers and has
\* decided still fits what the API server stores, at every point where the
\* process may be restarted or a write may fail.
IInv ==
  /\ TypeOK
  /\ MemoryAgrees
  /\ InOrder
  /\ SupersededIsCovered
  /\ CursorIsHead
  /\ ChainIsSkippable
  /\ TargetIsCurrent

\* What Robin has decided is never taken back: no write made from an outdated
\* snapshot moves a config back to Pending, reopens one that was Applied or
\* Superseded, or supersedes one already being carried out.
NoPhaseIsTakenBack ==
  [][\A i \in Ids :
       /\ phase[i] \in Terminal => phase'[i] = phase[i]
       /\ phase[i] = "InProgress" => phase'[i] \in {"InProgress", "Applied"}
       /\ phase[i] = "Pending" => phase'[i] # "Unset"]_vars

\* The loop implements the queue of module ConfigQueue.
Queue == INSTANCE ConfigQueue
  WITH phase <- [i \in Ids |-> IF phase[i] \in {"Unset", "Pending"}
                               THEN "Waiting" ELSE phase[i]]

QueueSpec == Queue!Spec

\* Every config the Operator creates is carried out or skipped in the end.
EveryConfigIsResolved ==
  \A i \in Ids : (i <= n) ~> (phase[i] \in Terminal)
=============================================================================
