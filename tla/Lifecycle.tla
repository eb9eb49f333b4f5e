------------------------------ MODULE Lifecycle ------------------------------
(***************************************************************************)
(* The cluster state machine of Robin: how ReconcileCluster carries out    *)
(* the RedkeyConfigs of a cluster one after the other, one handler per     *)
(* cluster status (internal/reconciler/cluster_reconciler.go,              *)
(* scale_reconciler.go, scale_zero_reconciler.go, upgrade_reconciler.go),  *)
(* and how far the Kubernetes objects and the Redis cluster have followed. *)
(*                                                                         *)
(* The cluster is abstracted to numbers: pods, and how many of them serve  *)
(* as primaries and replicas. Which pod has which role, and the movement   *)
(* of slots between them, is not part of this module.                      *)
(***************************************************************************)
EXTENDS ConfigCycle

VARIABLES
  sts,        \* the StatefulSet: [replicas, template], or NoSts
  pods,       \* number of its pods that run and are ready
  outdated,   \* how many of them run an older template than the StatefulSet's
  formed,     \* the Redis cluster: its numbers of primaries and of replicas
  substatus,  \* Status.Substatus of the config in progress, while upgrading
  partition   \* its UpgradingPartition

upgrade == <<substatus, partition>>
cluster == <<sts, pods, outdated, formed, upgrade>>
vars == <<configs, cycle, cluster>>

NoSts == [replicas |-> 0, template |-> <<>>]
NotFormed == [primaries |-> 0, replicas |-> 0]

\* The Redis cluster a spec asks for.
Layout(s) == [primaries |-> s.primaries, replicas |-> s.primaries * s.replicas]
Members == formed.primaries + formed.replicas

Init ==
  /\ CycleInit
  /\ sts = NoSts
  /\ pods = 0
  /\ outdated = 0
  /\ formed = NotFormed
  /\ substatus = "None"
  /\ partition = 0

-----------------------------------------------------------------------------
(* The environment: the StatefulSet controller.                            *)

KubeStartsPod ==
  /\ pods < sts.replicas
  /\ pods' = pods + 1
  /\ UNCHANGED <<configs, cycle, sts, outdated, formed, upgrade>>

\* A pod that is still a member of the Redis cluster leaves it.
KubeStopsPod ==
  /\ pods > sts.replicas
  /\ pods' = pods - 1
  /\ outdated' = Min({outdated, pods - 1})
  /\ \/ Members < pods /\ formed' = formed
     \/ /\ Members = pods /\ formed.replicas > 0
        /\ formed' = [formed EXCEPT !.replicas = @ - 1]
     \/ /\ Members = pods /\ formed.primaries > 0
        /\ formed' = [formed EXCEPT !.primaries = @ - 1]
  /\ UNCHANGED <<configs, cycle, sts, upgrade>>

-----------------------------------------------------------------------------
(* A new config for a running cluster.                                     *)

\* The status that the change calls for; reconcile falls through to
\* ReconcileCluster with it.
handleConfigChange(o) ==
  /\ AtConfigChange
  /\ LET newStatus == DetermineStatusTransition(report)
     IN  IF newStatus # "None"
         THEN /\ Write(phase[tgt], newStatus, o)
              /\ Continue(o, IF pc = "changing" THEN "cluster" ELSE "idle")
         ELSE /\ Write("Applied", status[tgt], o)
              /\ Continue(o, IF status[tgt] # status[prev] THEN "restoring"
                             ELSE "idle")
  /\ UNCHANGED cluster

\* Its second write when no operation is needed.
restorePreviousStatus(o) ==
  /\ pc = "restoring"
  /\ Write(phase[tgt], status[prev], o)
  /\ Return
  /\ UNCHANGED cluster

-----------------------------------------------------------------------------
(* ReconcileCluster: one handler per status.                               *)

\* A handler that waits for something, or fails without having changed
\* anything: the next cycle tries again.
handlerReturns ==
  /\ pc = "cluster"
  /\ ~AtConfigChange
  /\ Return
  /\ UNCHANGED <<configs, cluster, faults>>

\* ensureStatefulSet leaves an existing StatefulSet alone.
EnsureClusterObjects ==
  sts' = IF sts # NoSts THEN sts
         ELSE [replicas |-> Total(want), template |-> Template(want)]

handleNew(o) ==
  /\ AtStatus("None")
  /\ prev = None
  /\ IF want.primaries = 0
     THEN BecomeReady(o) /\ UNCHANGED sts
     ELSE /\ EnsureClusterObjects
          /\ Write(phase[tgt], "Initializing", o)
          /\ Return
  /\ UNCHANGED <<pods, outdated, formed, upgrade>>

AllPodsReady == sts # NoSts /\ pods >= Total(want)

handleInitializing(o) ==
  /\ AtStatus("Initializing")
  /\ AllPodsReady
  /\ Write(phase[tgt], "Configuring", o)
  /\ Return
  /\ UNCHANGED cluster

handleConfiguring(o) ==
  /\ AtStatus("Configuring")
  /\ pods >= Total(want)
  /\ formed' = Layout(want)
  /\ BecomeReady(o)
  /\ UNCHANGED <<sts, pods, outdated, upgrade>>

-----------------------------------------------------------------------------
(* Ready: health check, remediation, and what is left of a config.         *)

\* buildHealthNodes: only pods below the size of the target are looked at.
Checked == Min({pods, Total(want)})

\* Check: every checked pod is a member and nothing else is, and the roles
\* are right. Without replicas the number of primaries is not compared.
Healthy ==
  /\ Checked > 0
  /\ Members = Checked
  /\ IF want.replicas = 0 THEN formed.replicas = 0
     ELSE formed = Layout(want)

\* No status is written: the config is complete and the cluster is healthy.
handleReadyApplied ==
  /\ AtStatus("Ready")
  /\ phase[tgt] = "Applied"
  /\ Healthy
  /\ Return
  /\ UNCHANGED <<configs, cluster, faults>>

\* A config that is still InProgress continues with an upgrade if it changes
\* more than topology, and is Applied otherwise.
handleReadyInProgress(o) ==
  /\ AtStatus("Ready")
  /\ phase[tgt] = "InProgress"
  /\ Healthy
  /\ IF prev # None /\ (report.kube \/ report.redis)
     THEN Write(phase[tgt], "Upgrading", o)
     ELSE Write("Applied", status[tgt], o)
  /\ Return
  /\ UNCHANGED cluster

\* HealMembership forgets the members that are not among the checked pods.
\* One that owns slots is replaced by a replica, if there is one; without one
\* it is left alone in a persistent cluster.
forgetSurplusMembers ==
  /\ Members > Checked
  /\ \E p \in 1..formed.primaries, r \in 0..formed.replicas :
       /\ p + r = Checked
       /\ p < formed.primaries => want.ephemeral
       /\ formed' = [primaries |-> p, replicas |-> r]

\* HealMembership meets the checked pods that are not members: they join as
\* primaries without slots.
meetMissingMembers ==
  /\ Members < Checked
  /\ formed' = [formed EXCEPT !.primaries = @ + (Checked - Members)]

\* remediateExcessPrimaries: empty primaries become replicas where some lack.
demoteExcessPrimaries ==
  LET k == Min({formed.primaries - want.primaries,
                Layout(want).replicas - formed.replicas})
  IN  /\ Members = Checked
      /\ k > 0
      /\ formed' = [primaries |-> formed.primaries - k,
                    replicas  |-> formed.replicas + k]

\* remediatePrimaryDeficit: replicas the target does not need become primaries.
promoteSurplusReplicas ==
  LET k == Min({want.primaries - formed.primaries,
                formed.replicas - Layout(want).replicas})
  IN  /\ Members = Checked
      /\ k > 0
      /\ formed' = [primaries |-> formed.primaries + k,
                    replicas  |-> formed.replicas - k]

handleReadyRemediates ==
  /\ AtStatus("Ready")
  /\ Checked > 0
  /\ ~Healthy
  /\ \/ forgetSurplusMembers
     \/ meetMissingMembers
     \/ demoteExcessPrimaries
     \/ promoteSurplusReplicas
  /\ Return
  /\ UNCHANGED <<configs, sts, pods, outdated, faults, upgrade>>

-----------------------------------------------------------------------------
(* Scaling.                                                                *)

ScaleStatefulSet(k) == sts # NoSts /\ sts' = [sts EXCEPT !.replicas = k]

\* Phase 1: the new pods are asked for; they are not there yet.
handleScalingUpGrows ==
  /\ AtStatus("ScalingUp")
  /\ ~fastScalingEligible(want)
  /\ sts.replicas # Total(want)
  /\ ScaleStatefulSet(Total(want))
  /\ Return
  /\ UNCHANGED <<configs, pods, outdated, formed, faults, upgrade>>

\* Faulty variant: it does not wait for the new pods.
handleScalingUpNotWaiting(o) ==
  /\ AtStatus("ScalingUp")
  /\ ~fastScalingEligible(want)
  /\ ScaleStatefulSet(Total(want))
  /\ formed' = Layout(want)
  /\ BecomeReady(o)
  /\ UNCHANGED <<pods, outdated, upgrade>>

\* Phases 2 to 4 and finishScaling, which waits until every pod that exists is
\* a member with the right role.
handleScalingUp(o) ==
  /\ AtStatus("ScalingUp")
  /\ ~fastScalingEligible(want)
  /\ ScaleStatefulSet(Total(want))
  /\ pods = Total(want)
  /\ formed' = Layout(want)
  /\ BecomeReady(o)
  /\ UNCHANGED <<pods, outdated, upgrade>>

\* Fast scaling down is refused while the cluster has replicas.
slowScalingDown == ~fastScalingEligible(want) \/ formed.replicas > 0

\* The surplus nodes are drained and removed before the StatefulSet shrinks,
\* which may fail.
handleScalingDownShrinks ==
  /\ AtStatus("ScalingDown")
  /\ slowScalingDown
  /\ pods > Total(want)
  /\ sts.replicas # Total(want)
  /\ LET l == Layout(want)
     IN  formed' = [primaries |-> Min({l.primaries, formed.primaries}),
                    replicas  |-> Min({l.replicas, formed.replicas})]
  /\ \/ ScaleStatefulSet(Total(want)) /\ faults' = faults
     \/ faults < MaxFaults /\ faults' = faults + 1 /\ sts' = sts
  /\ Return
  /\ UNCHANGED <<configs, pods, outdated, upgrade>>

\* With fewer pods than the target asks for, the StatefulSet is resized and
\* the pass ends: there is nothing to verify, or it panics on nodes[:total].
\* (From three pods on, the spare capacity of that slice may avoid the panic;
\* the instances checked stay below that.)
handleScalingDownResizes ==
  /\ AtStatus("ScalingDown")
  /\ slowScalingDown
  /\ pods < Total(want)
  /\ sts.replicas # Total(want)
  /\ ScaleStatefulSet(Total(want))
  /\ Return
  /\ UNCHANGED <<configs, pods, outdated, formed, faults, upgrade>>

handleScalingDown(o) ==
  /\ AtStatus("ScalingDown")
  /\ slowScalingDown
  /\ pods = Total(want)
  /\ ScaleStatefulSet(Total(want))
  /\ formed' = Layout(want)
  /\ BecomeReady(o)
  /\ UNCHANGED <<pods, outdated, upgrade>>

AtFastScaling ==
  /\ AtStatus("ScalingUp") \/ (AtStatus("ScalingDown") /\ ~slowScalingDown)
  /\ fastScalingEligible(want)

\* DeleteStatefulSet: the pods, which are ephemeral or keep only their volume,
\* go with it.
DeleteStatefulSet ==
  /\ sts' = NoSts
  /\ pods' = 0
  /\ outdated' = 0
  /\ formed' = NotFormed

\* Faulty variant: the size is not compared with the target first.
handleFastScalingDeletesAlways ==
  /\ AtFastScaling
  /\ sts # NoSts
  /\ DeleteStatefulSet
  /\ Return
  /\ UNCHANGED <<configs, faults, upgrade>>

handleFastScalingDeletes ==
  /\ AtFastScaling
  /\ sts # NoSts
  /\ sts.replicas # Total(want)
  /\ DeleteStatefulSet
  /\ Return
  /\ UNCHANGED <<configs, faults, upgrade>>

handleFastScalingRecreates ==
  /\ AtFastScaling
  /\ sts = NoSts
  /\ EnsureClusterObjects
  /\ Return
  /\ UNCHANGED <<configs, pods, outdated, formed, faults, upgrade>>

handleFastScaling(o) ==
  /\ AtFastScaling
  /\ sts # NoSts
  /\ sts.replicas = Total(want)
  /\ pods = Total(want)
  /\ formed' = Layout(want)
  /\ BecomeReady(o)
  /\ UNCHANGED <<sts, pods, outdated, upgrade>>

handleScalingToZero(o) ==
  /\ AtStatus("ScalingToZero")
  /\ DeleteStatefulSet
  /\ BecomeReady(o)
  /\ UNCHANGED upgrade

-----------------------------------------------------------------------------
(* Upgrading. The next pass is chosen by the substatus, which is written    *)
(* last and whose failed writes are ignored.                               *)

fastUpgradeEligible(s) == fastScalingEligible(s)
upgradeExtraNodes == 1 + want.replicas

AtSubstatus(ss, fast) ==
  /\ AtStatus("Upgrading")
  /\ fastUpgradeEligible(want) = fast
  /\ substatus = ss

\* A call fails, or the process is killed, halfway through a pass.
stopsHalfway == faults < MaxFaults /\ faults' = faults + 1 /\ UNCHANGED upgrade

\* UpgradingPartition is written along with the substatus.
updateSubstatus(ss, p) ==
  \/ substatus' = ss /\ partition' = p /\ faults' = faults
  \/ stopsHalfway

\* The last write of an upgrade sets Ready and clears the substatus.
BecomeReadyAgain(o) ==
  /\ BecomeReady(o)
  /\ substatus' = IF o = "refused" THEN substatus ELSE "None"
  /\ UNCHANGED partition

\* UpdateConfigMap and UpdateStatefulSetTemplate fail if there is nothing to
\* update; then the StatefulSet grows by one primary and its replicas.
handleUpgradeStart ==
  /\ AtSubstatus("None", FALSE)
  /\ sts # NoSts
  /\ outdated' = IF sts.template = Template(want) THEN outdated ELSE pods
  /\ \/ /\ sts' = [replicas |-> Total(want) + upgradeExtraNodes,
                   template |-> Template(want)]
        /\ updateSubstatus("UpgradeScalingUp", partition)
     \/ /\ sts' = [sts EXCEPT !.template = Template(want)]
        /\ stopsHalfway
  /\ Return
  /\ UNCHANGED <<configs, pods, formed>>

\* The extra pods join: a primary, which will serve as the pivot, and its
\* replicas. So does any other pod that is not a member.
handleUpgradeScalingUp ==
  /\ AtSubstatus("UpgradeScalingUp", FALSE)
  /\ pods >= Total(want) + upgradeExtraNodes
  /\ LET r == Min({formed.replicas, Layout(want).replicas}) + want.replicas
     IN  formed' = [primaries |-> pods - r, replicas |-> r]
  /\ updateSubstatus("UpgradeRollingUpdate", want.primaries - 1)
  /\ Return
  /\ UNCHANGED <<configs, sts, pods, outdated>>

\* handleUpgradeResharding and handleUpgradeRollingUpdate of one partition: its
\* primary, drained, and its replicas are deleted and come back with the new
\* template, so that only those of the partitions below are left.
handleUpgradeRollingUpdate ==
  /\ AtSubstatus("UpgradeRollingUpdate", FALSE)
  /\ pods >= Total(want) + upgradeExtraNodes
  /\ outdated' = Min({outdated, partition * upgradeExtraNodes})
  /\ IF partition > 0
     THEN updateSubstatus("UpgradeRollingUpdate", partition - 1)
     ELSE updateSubstatus("UpgradeEnding", partition)
  /\ Return
  /\ UNCHANGED <<configs, sts, pods, formed>>

\* The slots of the pivot go back; it and its replicas are forgotten.
handleUpgradeEnding ==
  /\ AtSubstatus("UpgradeEnding", FALSE)
  /\ formed' = IF Members <= Total(want) THEN formed
               ELSE [primaries |-> Max({0, formed.primaries - 1}),
                     replicas  |-> Max({0, formed.replicas - want.replicas})]
  /\ updateSubstatus("UpgradeScalingDown", partition)
  /\ Return
  /\ UNCHANGED <<configs, sts, pods, outdated>>

handleUpgradeScalingDownShrinks ==
  /\ AtSubstatus("UpgradeScalingDown", FALSE)
  /\ sts.replicas # Total(want)
  /\ ScaleStatefulSet(Total(want))
  /\ Return
  /\ UNCHANGED <<configs, pods, outdated, formed, upgrade, faults>>

handleUpgradeScalingDown(o) ==
  /\ AtSubstatus("UpgradeScalingDown", FALSE)
  /\ ScaleStatefulSet(Total(want))
  /\ pods = Total(want)
  /\ formed' = Layout(want)
  /\ BecomeReadyAgain(o)
  /\ UNCHANGED <<pods, outdated>>

\* All pods are deleted; the StatefulSet brings them back with the new template.
handleFastUpgradeStart ==
  /\ AtSubstatus("None", TRUE)
  /\ sts # NoSts
  /\ sts' = [sts EXCEPT !.template = Template(want)]
  /\ \/ /\ pods' = 0
        /\ outdated' = 0
        /\ formed' = NotFormed
        /\ updateSubstatus("FastUpgrading", partition)
     \/ /\ outdated' = IF sts.template = Template(want) THEN outdated ELSE pods
        /\ UNCHANGED <<pods, formed>>
        /\ stopsHalfway
  /\ Return
  /\ UNCHANGED configs

handleFastUpgradeWaitReady ==
  /\ AtSubstatus("FastUpgrading", TRUE)
  /\ AllPodsReady
  /\ updateSubstatus("EndingFastUpgrade", partition)
  /\ Return
  /\ UNCHANGED <<configs, sts, pods, outdated, formed>>

handleFastUpgradeFormCluster(o) ==
  /\ AtSubstatus("EndingFastUpgrade", TRUE)
  /\ pods = Total(want)
  /\ formed' = Layout(want)
  /\ BecomeReadyAgain(o)
  /\ UNCHANGED <<sts, pods, outdated>>

-----------------------------------------------------------------------------
(* The whole system.                                                       *)

\* The handlers that make a config advance.
handlers ==
  \/ \E o \in Outcomes :
       \/ handleNew(o) \/ handleInitializing(o) \/ handleConfiguring(o)
       \/ handleReadyInProgress(o)
       \/ handleScalingUp(o) \/ handleScalingDown(o) \/ handleFastScaling(o)
       \/ handleScalingToZero(o)
       \/ handleUpgradeScalingDown(o) \/ handleFastUpgradeFormCluster(o)
  \/ handleReadyRemediates
  \/ handleScalingUpGrows
  \/ handleScalingDownShrinks \/ handleScalingDownResizes
  \/ handleFastScalingDeletes \/ handleFastScalingRecreates
  \/ handleUpgradeStart \/ handleUpgradeScalingUp
  \/ handleUpgradeRollingUpdate \/ handleUpgradeEnding
  \/ handleUpgradeScalingDownShrinks
  \/ handleFastUpgradeStart \/ handleFastUpgradeWaitReady

robin ==
  \/ CycleNext /\ UNCHANGED cluster
  \/ \E o \in Outcomes : handleConfigChange(o) \/ restorePreviousStatus(o)
  \/ handlers
  \/ handleReadyApplied
  \/ handlerReturns

Next ==
  \/ \E s \in Specs : OperatorCreates(s) /\ UNCHANGED cluster
  \/ KubeStartsPod
  \/ KubeStopsPod
  \/ robin
  \/ restart /\ UNCHANGED cluster

Spec == Init /\ [][Next]_vars

(***************************************************************************)
(* The loop of Start never stops, the StatefulSet controller does its      *)
(* work, and a handler that can finish its pass does so unless it is       *)
(* interrupted every time. Faults are bounded, so they end.                *)
(***************************************************************************)
Fairness ==
  /\ WF_vars(robin)
  /\ SF_vars(handlers)
  /\ WF_vars(KubeStartsPod)
  /\ WF_vars(KubeStopsPod)

FairSpec == Spec /\ Fairness

-----------------------------------------------------------------------------
(* Properties.                                                             *)

ClusterTypeOK ==
  /\ sts \in {NoSts} \cup [replicas : Nat, template : {Template(s) : s \in Specs}]
  /\ pods \in Nat
  /\ outdated \in 0..pods
  /\ formed \in [primaries : Nat, replicas : Nat]
  /\ Members <= pods
  /\ substatus \in {"None", "UpgradeScalingUp", "UpgradeRollingUpdate",
                    "UpgradeEnding", "UpgradeScalingDown", "FastUpgrading",
                    "EndingFastUpgrade"}
  /\ partition \in Nat

SubstatusFits ==
  substatus # "None" => \E i \in Ids : phase[i] = "InProgress" /\ status[i] = "Upgrading"

\* The types of the stored configs, of the cluster and of a cycle's memory: no
\* more members than pods, and a substatus only while a config is upgrading.
TypeOK == CycleTypeOK /\ ClusterTypeOK /\ SubstatusFits

\* The StatefulSet has the template of spec s, and so have its pods, and the
\* size of spec t.
Rolled(s, t) ==
  /\ sts = IF t.primaries = 0 THEN NoSts
           ELSE [replicas |-> Total(t), template |-> Template(s)]
  /\ outdated = 0

\* A config that is marked Applied is deployed: the StatefulSet, its pods and
\* the Redis cluster are what it asks for, until the next config is started.
\* Only its scaling may have been lost in a fault, and not one to zero: then its
\* template is rolled out at the size of an earlier config.
AppliedMeansDeployed ==
  \A i \in Ids : IsCurrent(i) =>
     \/ /\ Rolled(spec[i], spec[i])
        /\ pods = Total(spec[i])
        /\ formed = Layout(spec[i])
     \/ /\ faults > 0 /\ spec[i].primaries > 0
        /\ \E j \in 1 .. i - 1 : Rolled(spec[i], spec[j])

\* Scaling to zero has deleted everything, and a handler needs what is gone:
\* handleReady the pods, if the write of Applied was lost; handleScalingUp and
\* handleUpgradeStart the StatefulSet.
NothingLeft(i) == sts = NoSts /\ status[i] \in {"Ready", "ScalingUp", "Upgrading"}

\* A scaling was lost, because the copied status Ready was never replaced by the
\* one that scales: handleReady lacks nodes for the roles it wants, or has none
\* to look at, or a later upgrade meets more or fewer pods than it counts on.
ScalingLost(i) ==
  /\ faults > 0
  /\ status[i] \in {"Ready", "Upgrading"}
  /\ \/ sts.replicas < Total(spec[i])
     \/ /\ sts.replicas > Total(spec[i])
        /\ status[i] = "Ready" \/ fastUpgradeEligible(spec[i])

\* Every config is carried out in the end, whatever pass is interrupted and
\* repeated, unless its handler needs what scaling to zero has deleted or its
\* scaling was lost before it began.
AppliedUnlessStuck ==
  \/ EveryConfigIsApplied
  \/ <>[](\E i \in Ids : phase[i] = "InProgress" /\ (NothingLeft(i) \/ ScalingLost(i)))

-----------------------------------------------------------------------------
(* What comments in the code say of it, and the code does not do.          *)

\* DetermineStatusTransition: "After scaling completes, remaining changes are
\* detected in the next reconciliation pass." So a config that changes topology
\* and more gets the rest too, before or after it is marked Applied.
RemainingChangesFollow ==
  \A i \in Ids : IsCurrent(i) ~>
     ~IsCurrent(i) \/ sts = NoSts \/ sts.template = Template(spec[i])

\* handleReady, before it marks an InProgress config Applied: "topology is
\* already applied at this point".
TopologyAlreadyApplied ==
  AtStatus("Ready") /\ phase[tgt] = "InProgress" /\ Healthy =>
     sts.replicas = Total(want) /\ formed = Layout(want)

-----------------------------------------------------------------------------
(***************************************************************************)
(* The inductive invariant: what the phases and statuses that are stored   *)
(* tell a restarted Robin about the StatefulSet, its pods and the members. *)
(***************************************************************************)

\* A config changes the topology or what the pods are made from, not both (see
\* RemainingChangesFollow).
OneKindOfChange ==
  \A c \in Changes :
    \/ c[1].primaries = c[2].primaries /\ c[1].replicas = c[2].replicas
    \/ Template(c[1]) = Template(c[2])

NothingToDo(a, b) == DetermineStatusTransition(DetectChanges(a, b)) = "None"

\* The status of a config fits its phase. An Applied one may still lack the
\* status of the one before, but then it changes nothing.
StatusFits ==
  /\ \A i \in 2..n : <<spec[i - 1], spec[i]>> \in Changes
  /\ \A i \in Ids :
       /\ phase[i] \in {"Unset", "Pending"} => status[i] = "None"
       /\ phase[i] = "Applied" => status[i] \in {"None", "Ready"}
       /\ phase[i] = "Applied" /\ status[i] = "None" =>
            i > 1 /\ NothingToDo(spec[i - 1], spec[i])

\* What the running cycle is about to do fits the status of its target.
TargetFits ==
  /\ pc # "idle" => tgt \in 1..n /\ \A j \in 1..(tgt - 1) : phase[j] = "Applied"
  /\ pc = "starting" => phase[tgt] = "Pending"
  /\ pc \in {"copying", "changing", "applying"} => phase[tgt] = "InProgress"
  /\ pc = "cluster" => phase[tgt] \in {"InProgress", "Applied"}
  /\ pc = "cluster" /\ phase[tgt] = "Applied" => IsCurrent(tgt)
  /\ pc \in {"copying", "changing", "restoring"} => tgt > 1
  /\ pc = "copying" => status[tgt] = "None"
  /\ pc = "changing" => status[tgt] \in {"None", "Ready"}
  /\ pc = "restoring" => phase[tgt] = "Applied" /\ NothingToDo(spec[tgt - 1], spec[tgt])
  /\ pc = "applying" => status[tgt] = "Ready"

\* The part that looks at nothing but the configs.
CycleInv == CycleTypeOK /\ InOrder /\ StatusFits /\ TargetFits

\* The StatefulSet has the size of spec t, or the pods are those of spec s.
Sized(t) == IF t.primaries = 0 THEN sts = NoSts ELSE sts # NoSts /\ sts.replicas = Total(t)
Made(s) == outdated = 0 /\ (sts # NoSts => sts.template = Template(s))
Templated(s) == OneKindOfChange => Made(s)

Complete(s) == Sized(s) /\ Templated(s) /\ pods = Total(s) /\ formed = Layout(s)

\* Config i is carried out, but for a scaling that was lost.
Done(i) ==
  \/ Complete(spec[i])
  \/ /\ faults > 0 /\ spec[i].primaries # 0 /\ Templated(spec[i])
     /\ \E j \in 1..(i - 1) : Sized(spec[j])

\* Nothing of config i is carried out, and its scaling will not be: a fault came
\* between the copied status Ready and the one that the change calls for.
Lost(i) ==
  /\ i > 1 /\ faults > 0 /\ Templated(spec[i - 1])
  /\ \E j \in 1..(i - 1) : Sized(spec[j])

Fresh == sts = NoSts /\ pods = 0 /\ outdated = 0 /\ formed = NotFormed
Forming(s) == s.primaries # 0 /\ Sized(s) /\ Made(s) /\ pods <= Total(s)

UpgradeFits(i) ==
  /\ i > 1
  /\ spec[i].primaries = 0 => sts = NoSts
  /\ fastUpgradeEligible(spec[i]) /\ sts # NoSts =>
       /\ \E j \in 1..i : Sized(spec[j])
       /\ faults = 0 => Sized(spec[i])
  /\ substatus # "None" => sts # NoSts /\ sts.template = Template(spec[i])
  /\ substatus \in {"UpgradeEnding", "UpgradeScalingDown", "FastUpgrading",
                    "EndingFastUpgrade"} => outdated = 0

\* What the status of a config in progress says of the objects.
InProgressFits(i) ==
  /\ status[i] = "None" => IF i = 1 THEN Fresh \/ Forming(spec[1]) ELSE Done(i - 1)
  /\ status[i] \in {"Initializing", "Configuring"} => Forming(spec[i])
  /\ status[i] = "Ready" /\ pc # "changing" => Done(i) \/ Lost(i)
  /\ status[i] \in {"ScalingUp", "ScalingDown"} =>
       spec[i].primaries # 0 /\ Templated(spec[i])
  /\ status[i] = "ScalingToZero" => spec[i].primaries = 0
  /\ status[i] = "Upgrading" => UpgradeFits(i)

\* What the phases and the step of the cycle say of the objects.
ObjectsFit ==
  /\ (\A i \in Ids : phase[i] \in {"Unset", "Pending"}) => Fresh
  /\ pc \in {"copying", "changing"} => Done(tgt - 1)
  /\ pc = "applying" => Done(tgt)
  /\ \A i \in Ids : IsCurrent(i) => Done(i)
  /\ \A i \in Ids : phase[i] = "InProgress" => InProgressFits(i)

\* The inductive invariant of reconcile and its handlers: at every write and
\* every restart the phases are in order, the status of the target fits its phase,
\* and the StatefulSet, its pods and the cluster are as far as that status says.
IInv == TypeOK /\ CycleInv /\ ObjectsFit
=============================================================================
