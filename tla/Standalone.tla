------------------------------ MODULE Standalone ------------------------------
(***************************************************************************)
(* A standalone deployment: one Redis node outside any Redis cluster       *)
(* (internal/reconciler/standalone_reconciler.go, with handleNew and       *)
(* handleScalingToZero, which it shares with clusters). The interest is in *)
(* what Robin can see of the StatefulSet controller: the revision it has   *)
(* computed and the number of ready pods it reports lag behind the spec    *)
(* and the pod.                                                            *)
(*                                                                         *)
(* A spec has zero or one primary and no replicas. Template stands for the *)
(* ConfigMap and the pod template together: both are written before the    *)
(* pod is touched. Nodes, health conditions and substatus are left out of  *)
(* the status; they never decide anything here.                            *)
(***************************************************************************)
EXTENDS ConfigCycle

CONSTANT MaxFailures   \* bound on pods lost for reasons of their own

ASSUME StandaloneAssumption ==
  /\ MaxFailures \in Nat
  /\ \A s \in Specs : s.primaries \in {0, 1} /\ s.replicas = 0

VARIABLES
  sts,        \* the StatefulSet: its template, or NoTemplate
  observed,   \* Status.ObservedGeneration has caught up with Generation
  revision,   \* Status.UpdateRevision, as the template it was computed from
  ready,      \* Status.ReadyReplicas
  pod,        \* "none", "starting", "running" or "terminating"
  podTemplate,  \* what the pod was created from (controller-revision-hash)
  failures    \* pods lost so far

kube == <<sts, observed, revision, ready>>
node == <<pod, podTemplate, failures>>
cluster == <<kube, node>>
vars == <<configs, cycle, cluster>>

NoTemplate == <<>>

Init ==
  /\ CycleInit
  /\ sts = NoTemplate
  /\ observed = FALSE
  /\ revision = NoTemplate
  /\ ready = 0
  /\ pod = "none"
  /\ podTemplate = NoTemplate
  /\ failures = 0

-----------------------------------------------------------------------------
(* The environment: the StatefulSet controller and the kubelet.            *)

\* The controller takes notice of the StatefulSet and reports its pod.
KubeObserves ==
  /\ sts # NoTemplate
  /\ observed' = TRUE
  /\ revision' = sts
  /\ ready' = IF pod = "running" THEN 1 ELSE 0
  /\ UNCHANGED <<configs, cycle, sts, node>>

\* It creates the pod from the revision it knows, which may be outdated.
KubeCreatesPod ==
  /\ sts # NoTemplate
  /\ revision # NoTemplate
  /\ pod = "none"
  /\ pod' = "starting"
  /\ podTemplate' = revision
  /\ UNCHANGED <<configs, cycle, kube, failures>>

KubeStartsPod ==
  /\ pod = "starting"
  /\ pod' = "running"
  /\ UNCHANGED <<configs, cycle, kube, podTemplate, failures>>

\* The grace period of a deleted pod ends.
KubeRemovesPod ==
  /\ pod = "terminating"
  /\ pod' = "none"
  /\ podTemplate' = NoTemplate
  /\ UNCHANGED <<configs, cycle, kube, failures>>

\* The pod is evicted, or its node is lost.
KubeLosesPod ==
  /\ pod \in {"starting", "running"}
  /\ failures < MaxFailures
  /\ failures' = failures + 1
  /\ pod' = "terminating"
  /\ UNCHANGED <<configs, cycle, kube, podTemplate>>

KubeNext ==
  \/ KubeObserves \/ KubeCreatesPod \/ KubeStartsPod \/ KubeRemovesPod
  \/ KubeLosesPod

-----------------------------------------------------------------------------
(* Kubernetes objects.                                                     *)

\* An existing StatefulSet is left alone.
EnsureClusterObjects ==
  IF sts # NoTemplate THEN UNCHANGED kube
  ELSE /\ sts' = Template(want)
       /\ observed' = FALSE
       /\ revision' = NoTemplate
       /\ ready' = 0

DeleteStatefulSet ==
  /\ sts' = NoTemplate
  /\ observed' = FALSE
  /\ revision' = NoTemplate
  /\ ready' = 0
  /\ pod' = IF pod = "none" THEN "none" ELSE "terminating"
  /\ UNCHANGED <<podTemplate, failures>>

\* UpdateConfigMap and UpdateStatefulSetTemplate: the generation is bumped only
\* if something changes.
UpdateStatefulSetTemplate ==
  /\ sts # NoTemplate
  /\ sts' = Template(want)
  /\ observed' = (observed /\ sts = Template(want))
  /\ UNCHANGED <<revision, ready>>

-----------------------------------------------------------------------------
(* reconcileStandalone: one handler per status.                            *)

\* A handler that waits for something, or fails without having changed
\* anything: the next cycle tries again.
handlerReturns ==
  /\ pc = "cluster"
  /\ ~AtConfigChange
  /\ Return
  /\ UNCHANGED <<configs, cluster, faults>>

handleNew(o) ==
  /\ AtStatus("None")
  /\ prev = None
  /\ IF want.primaries = 0
     THEN BecomeReady(o) /\ UNCHANGED kube
     ELSE EnsureClusterObjects /\ Write(phase[tgt], "Initializing", o) /\ Return
  /\ UNCHANGED node

ensureStandaloneObjects(o) ==
  /\ EnsureClusterObjects
  /\ Write(phase[tgt], "Initializing", o)
  /\ Return

\* The cycle ends with it, unless all that is left is to mark the config.
handleStandaloneConfigChange(o) ==
  /\ AtConfigChange
  /\ \/ /\ report.topology
        /\ want.primaries = 0
        /\ Write(phase[tgt], "ScalingToZero", o)
        /\ Return
        /\ UNCHANGED kube
     \/ /\ report.topology
        /\ want.primaries # 0
        /\ ensureStandaloneObjects(o)
     \/ /\ ~report.topology
        /\ report.kube \/ report.redis
        /\ Write(phase[tgt], "Upgrading", o)
        /\ Return
        /\ UNCHANGED kube
     \/ /\ ~RequiresClusterOperation(report)
        /\ IF status[tgt] # status[prev]
           THEN Write(phase[tgt], status[prev], o) /\ Continue(o, "applying")
           ELSE Write("Applied", status[tgt], o) /\ Return
        /\ UNCHANGED kube
  /\ UNCHANGED node

\* AllPodsReady reads what the controller reported last.
AllPodsReady == sts # NoTemplate /\ ready = 1

\* The node itself is asked too, under the address of whatever pod there is;
\* one that is going away may still answer.
standaloneNodeReachable == pod \in {"running", "terminating"}

handleStandaloneInitializing(o) ==
  /\ AtStatus("Initializing")
  /\ AllPodsReady
  /\ standaloneNodeReachable
  /\ BecomeReady(o)
  /\ UNCHANGED cluster

\* A health check: nothing is written, whatever the phase of the config.
handleStandaloneReady ==
  /\ AtStatus("Ready")
  /\ Return
  /\ UNCHANGED <<configs, cluster, faults>>

handleScalingToZero(o) ==
  /\ AtStatus("ScalingToZero")
  /\ DeleteStatefulSet
  /\ BecomeReady(o)

-----------------------------------------------------------------------------
(* Upgrading.                                                              *)

\* Faulty variant: the revision is compared before the controller has
\* observed the new template.
recycledUnobserved ==
  /\ revision' # NoTemplate
  /\ pod # "none"
  /\ podTemplate = revision'

\* recycleStandalonePod returns true: the pod runs the desired revision.
recycled ==
  /\ observed'
  /\ revision' # NoTemplate
  /\ pod # "none"
  /\ podTemplate = revision'

\* It deletes the pod: it runs another revision than the desired one.
recycles ==
  /\ observed'
  /\ revision' # NoTemplate
  /\ pod # "none"
  /\ podTemplate # revision'

\* Faulty variant: the pod is deleted in every pass, whatever it runs.
handleStandaloneUpgradingRecyclesAlways ==
  /\ AtStatus("Upgrading")
  /\ UpdateStatefulSetTemplate
  /\ pod' = IF observed' /\ pod # "none" THEN "terminating" ELSE pod
  /\ Return
  /\ UNCHANGED <<configs, podTemplate, failures, faults>>

\* The template is updated in every pass. The pass ends here if the controller
\* has not caught up, or the pod is away, or it has to be recycled first.
handleStandaloneUpgradingRecycles ==
  /\ AtStatus("Upgrading")
  /\ UpdateStatefulSetTemplate
  /\ ~recycled
  /\ pod' = IF recycles THEN "terminating" ELSE pod
  /\ Return
  /\ UNCHANGED <<configs, podTemplate, failures, faults>>

handleStandaloneUpgrading(o) ==
  /\ AtStatus("Upgrading")
  /\ UpdateStatefulSetTemplate
  /\ recycled
  /\ AllPodsReady
  /\ standaloneNodeReachable
  /\ BecomeReady(o)
  /\ UNCHANGED node

-----------------------------------------------------------------------------
(* The whole system.                                                       *)

\* The handlers that make a config advance.
handlers ==
  \/ \E o \in Outcomes :
       \/ handleNew(o) \/ handleStandaloneConfigChange(o)
       \/ handleStandaloneInitializing(o) \/ handleScalingToZero(o)
       \/ handleStandaloneUpgrading(o)
  \/ handleStandaloneUpgradingRecycles

robin ==
  \/ CycleNext /\ UNCHANGED cluster
  \/ handlers
  \/ handleStandaloneReady
  \/ handlerReturns

Next ==
  \/ \E s \in Specs : OperatorCreates(s) /\ UNCHANGED cluster
  \/ KubeNext
  \/ robin
  \/ restart /\ UNCHANGED cluster

Spec == Init /\ [][Next]_vars

(***************************************************************************)
(* The loop never stops, the controller and the kubelet do their work, and *)
(* a handler that can finish its pass does so unless it is interrupted     *)
(* every time. Faults and lost pods are bounded, so they end.              *)
(***************************************************************************)
Fairness ==
  /\ WF_vars(robin)
  /\ SF_vars(handlers)
  /\ WF_vars(KubeObserves)
  /\ WF_vars(KubeCreatesPod)
  /\ WF_vars(KubeStartsPod)
  /\ WF_vars(KubeRemovesPod)

FairSpec == Spec /\ Fairness

-----------------------------------------------------------------------------
(* Properties.                                                             *)

Templates == {Template(s) : s \in Specs}

\* The types of the configs, the StatefulSet and the pod.
TypeOK ==
  /\ CycleTypeOK
  /\ sts \in Templates \cup {NoTemplate}
  /\ revision \in Templates \cup {NoTemplate}
  /\ podTemplate \in Templates \cup {NoTemplate}
  /\ observed \in BOOLEAN
  /\ ready \in {0, 1}
  /\ pod \in {"none", "starting", "running", "terminating"}
  /\ failures \in 0..MaxFailures

\* The objects are those of the spec, and so is any pod that is there to stay.
Coherent(s) ==
  /\ sts = Template(s)
  /\ revision \in {NoTemplate, Template(s)}
  /\ pod \in {"starting", "running"} => podTemplate = Template(s)

Absent == sts = NoTemplate /\ pod \in {"none", "terminating"}

\* Nothing but what the spec asks for is running or will be: the controller
\* knows the template, and a pod of another one is on its way out.
Deployed(s) ==
  IF s.primaries = 0 THEN Absent ELSE Coherent(s) /\ revision = Template(s)

\* A config that is marked Applied is deployed, although the StatefulSet's
\* status lags behind, pods are lost and writes fail: no pod of an older
\* template survives the upgrade, and none is created later.
AppliedMeansDeployed == \A i \in Ids : IsCurrent(i) => Deployed(spec[i])

\* recycleStandalonePod deletes the pod once: never one that was created from
\* the template of the config being carried out.
UpToDatePodIsKept ==
  [][(/\ pod \in {"starting", "running"} /\ pod' = "terminating"
      /\ failures' = failures
      /\ sts' # NoTemplate)
     => podTemplate # sts']_vars

\* Every config is carried out, or there was a fault and some config stays
\* InProgress with the status Ready for good. The status is written before
\* the phase, and handleStandaloneReady, unlike handleReady, writes nothing.
AppliedUnlessHalfWritten ==
  \/ EveryConfigIsApplied
  \/ <>[](faults > 0 /\ \E i \in Ids : phase[i] = "InProgress" /\ status[i] = "Ready")

(***************************************************************************)
(* AppliedMeansDeployed is not inductive: the handlers rely on what the    *)
(* statuses say of the objects. The invariant that is inductive spells     *)
(* that out.                                                               *)
(***************************************************************************)

\* The status of a config fits its phase and its size.
StatusFits ==
  \A i \in Ids :
    /\ phase[i] \in {"Unset", "Pending"} => status[i] = "None"
    /\ phase[i] = "Applied" => status[i] = "Ready"
    /\ status[i] \in {"None", "Ready", "Initializing", "ScalingToZero",
                      "Upgrading"}
    /\ status[i] = "Initializing" => spec[i].primaries = 1
    /\ status[i] = "ScalingToZero" => spec[i].primaries = 0

\* What the running cycle is about to do fits the status of its target.
TargetFits ==
  /\ pc # "restoring"
  /\ pc # "idle" => tgt \in 1..n /\ \A j \in 1..(tgt - 1) : phase[j] = "Applied"
  /\ pc = "starting" => phase[tgt] = "Pending"
  /\ pc \in {"copying", "changing", "applying"} => phase[tgt] = "InProgress"
  /\ pc = "cluster" => phase[tgt] \in {"InProgress", "Applied"}
  /\ pc = "copying" => tgt > 1 /\ status[tgt] = "None"
  /\ pc = "changing" => tgt > 1 /\ status[tgt] = "Ready"
  /\ pc = "applying" => status[tgt] = "Ready"

\* The controller's reports are old, but never made up.
ReportsFit ==
  /\ observed => revision = sts
  /\ ready = 1 => revision # NoTemplate

\* The objects are where the phases and statuses say they are.
ObjectsFit ==
  /\ (\A i \in Ids : phase[i] \in {"Unset", "Pending"}) => Absent
  /\ pc \in {"copying", "changing"} => Deployed(spec[tgt - 1])
  /\ pc = "applying" => Deployed(spec[tgt])
  /\ \A i \in Ids : phase[i] = "InProgress" =>
       /\ status[i] = "Initializing" => Coherent(spec[i])
       /\ status[i] = "Upgrading" /\ spec[i].primaries = 0 => sts = NoTemplate
       /\ status[i] = "None" =>
            \/ i = 1 /\ Absent
            \/ i = 1 /\ spec[i].primaries = 1 /\ Coherent(spec[i])
            \/ i > 1 /\ Deployed(spec[i - 1])
            \/ /\ i > 1 /\ spec[i - 1].primaries = 0 /\ spec[i].primaries = 1
               /\ Coherent(spec[i])

\* The inductive invariant: at every point where the process may be restarted,
\* a write may fail or a pod may be lost, the stored phases and statuses tell
\* what the StatefulSet and its pod are.
IInv ==
  /\ TypeOK
  /\ InOrder
  /\ StatusFits
  /\ TargetFits
  /\ ReportsFit
  /\ ObjectsFit
  /\ AppliedMeansDeployed
=============================================================================
