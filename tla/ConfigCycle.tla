----------------------------- MODULE ConfigCycle -----------------------------
(***************************************************************************)
(* The part of a reconciliation cycle that is the same for every kind of   *)
(* deployment: reconcile of internal/reconciler/reconciler.go chooses a    *)
(* RedkeyConfig, starts it, hands on the status of the cluster, and the    *)
(* handlers, which modules Lifecycle and Standalone add, write the status  *)
(* and the ConfigPhase back.                                               *)
(*                                                                         *)
(* Robin keeps nothing of its own between two cycles: it resumes from the  *)
(* ConfigPhase and the Status stored in each config. A step ends with a    *)
(* write, which may fail; the process may be restarted between any two.    *)
(*                                                                         *)
(* Configs are created Pending and none is superseded: module ConfigPlan   *)
(* covers that.                                                            *)
(***************************************************************************)
EXTENDS Integers, ConfigSelection, ChangeDetection

CONSTANTS MaxConfigs,   \* bound on the number of RedkeyConfigs created
          Specs,        \* the specs of module ChangeDetection to choose from
          Changes,      \* the pairs of consecutive specs the Operator creates
          MaxFaults     \* bound on failed writes, failed auth changes, restarts

ASSUME ConstantsAssumption ==
  /\ MaxConfigs \in Nat /\ MaxFaults \in Nat
  /\ Specs # {}
  /\ \A s \in Specs : s.primaries \in Nat /\ s.replicas \in Nat
  /\ Changes \subseteq Specs \X Specs

VARIABLES
  \* the RedkeyConfigs
  n, spec, phase,
  status,     \* status[i]: Status.Status of config i
  \* the running cycle
  pc,         \* the next call of the cycle
  tgt,        \* targetConfig
  faults      \* faults so far

configs == <<n, spec, phase, status>>
cycle == <<pc, tgt, faults>>

Ids == 1..MaxConfigs

\* targetConfig.Spec and previousConfig
want == spec[tgt]
prev == lastAppliedBefore(phase, tgt)
report == DetectChanges(spec[prev], want)

CycleInit ==
  /\ n = 0
  /\ spec = [i \in Ids |-> CHOOSE s \in Specs : TRUE]
  /\ phase = [i \in Ids |-> "Unset"]
  /\ status = [i \in Ids |-> "None"]
  /\ pc = "idle"
  /\ tgt = None
  /\ faults = 0

OperatorCreates(s) ==
  /\ n < MaxConfigs
  /\ n > 0 => <<spec[n], s>> \in Changes
  /\ n' = n + 1
  /\ spec' = [spec EXCEPT ![n + 1] = s]
  /\ phase' = [phase EXCEPT ![n + 1] = "Pending"]
  /\ UNCHANGED <<status, cycle>>

-----------------------------------------------------------------------------
(* Writing the status of the target, and the end of a cycle.               *)

\* client.Status().Update: stored; not stored; or stored with the answer lost.
Outcomes == {"ok", "refused", "unanswered"}

Write(p, st, o) ==
  /\ IF o = "refused" THEN UNCHANGED <<phase, status>>
     ELSE /\ phase' = [phase EXCEPT ![tgt] = p]
          /\ status' = [status EXCEPT ![tgt] = st]
  /\ IF o = "ok" THEN faults' = faults
     ELSE faults < MaxFaults /\ faults' = faults + 1
  /\ UNCHANGED <<n, spec>>

Return == pc' = "idle" /\ tgt' = None

\* Every handler returns when a write fails; otherwise it goes on at `next'.
Continue(o, next) ==
  IF o = "ok" /\ next # "idle" THEN pc' = next /\ tgt' = tgt ELSE Return

\* A call fails, or the process is killed, with nothing written.
Fault ==
  /\ faults < MaxFaults
  /\ faults' = faults + 1
  /\ Return
  /\ UNCHANGED configs

\* The process is killed between two calls and started again.
restart == pc # "idle" /\ Fault

-----------------------------------------------------------------------------
(* The start of a cycle, and of a config.                                  *)

\* selectConfig and the dispatch of reconcile on the ConfigPhase.
reconcile ==
  /\ pc = "idle"
  /\ n > 0
  /\ tgt' = SelectConfig(phase, n)
  /\ pc' = IF phase[tgt'] = "Pending" THEN "starting" ELSE "cluster"
  /\ UNCHANGED <<configs, faults>>

setConfigPhaseInProgress(o) ==
  /\ pc = "starting"
  /\ Write("InProgress", status[tgt], o)
  /\ Continue(o, IF prev = None THEN "cluster" ELSE "copying")

copyPreviousClusterStatus(o) ==
  /\ pc = "copying"
  /\ Write(phase[tgt], status[prev], o)
  /\ Continue(o, "changing")

\* reconcile calls the handler of config changes after the copy; it is called
\* too for a config that was left without a status.
AtConfigChange ==
  \/ pc = "changing"
  \/ pc = "cluster" /\ status[tgt] = "None" /\ prev # None

\* A changed password is set on every node before anything else is decided; a
\* node that cannot be reached ends the cycle.
applyAuthToAllNodesFails == AtConfigChange /\ report.auth /\ Fault

AtStatus(st) == pc = "cluster" /\ status[tgt] = st

\* Faulty variant: the two writes in the wrong order.
BecomeReadyAppliedFirst(o) ==
  /\ Write("Applied", status[tgt], o)
  /\ Continue(o, "applying")

\* updateClusterStatus(Ready) or its equivalent, on the way to Applied.
BecomeReady(o) ==
  /\ Write(phase[tgt], "Ready", o)
  /\ Continue(o, "applying")

setConfigPhaseApplied(o) ==
  /\ pc = "applying"
  /\ Write("Applied", status[tgt], o)
  /\ Return

\* The steps that look at nothing but the configs.
CycleNext ==
  \/ reconcile
  \/ \E o \in Outcomes :
       \/ setConfigPhaseInProgress(o)
       \/ copyPreviousClusterStatus(o)
       \/ setConfigPhaseApplied(o)
  \/ applyAuthToAllNodesFails

-----------------------------------------------------------------------------
(* Properties of the configs, whatever the handlers are.                   *)

\* The types of the stored configs and of a cycle's memory.
CycleTypeOK ==
  /\ n \in 0..MaxConfigs
  /\ spec \in [Ids -> Specs]
  /\ phase \in [Ids -> {"Unset", "Pending", "InProgress", "Applied"}]
  /\ status \in [Ids -> Statuses]
  /\ pc \in {"idle", "starting", "copying", "changing", "restoring", "cluster",
             "applying"}
  /\ tgt \in 0..n
  /\ faults \in 0..MaxFaults

\* Config i is Applied and nothing later has been started.
IsCurrent(i) ==
  /\ i \in 1..n
  /\ phase[i] = "Applied"
  /\ \A j \in (i + 1)..n : phase[j] = "Pending"

\* The configs are in order: created one after the other, and none is started
\* before those below it are Applied.
InOrder ==
  /\ \A i \in Ids : phase[i] = "Unset" <=> i > n
  /\ \A i \in Ids : phase[i] \in {"InProgress", "Applied"} =>
       \A j \in 1..(i - 1) : phase[j] = "Applied"

\* At most one operation on the cluster is open, whatever writes fail: only the
\* config in progress has a status other than Ready, and the statuses that
\* copyPreviousClusterStatus hands on are never those of an operation.
OneOperationAtATime ==
  \A i \in Ids : status[i] \notin {"None", "Ready"} =>
     /\ phase[i] = "InProgress"
     /\ \A j \in 1..(i - 1) : phase[j] = "Applied"
     /\ \A j \in (i + 1)..n : phase[j] = "Pending"

\* The configs are carried out strictly one after the other.
Queue == INSTANCE ConfigQueue
  WITH Specs <- {[skip |-> FALSE, other |-> s] : s \in Specs},
       spec  <- [i \in Ids |-> [skip |-> FALSE, other |-> spec[i]]],
       phase <- [i \in Ids |-> IF phase[i] \in {"Unset", "Pending"}
                               THEN "Waiting" ELSE phase[i]]

QueueSpec == Queue!Spec

\* Every config the Operator creates is carried out in the end.
EveryConfigIsApplied == \A i \in Ids : (i <= n) ~> (phase[i] = "Applied")
=============================================================================
