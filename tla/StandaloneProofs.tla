-------------------------- MODULE StandaloneProofs --------------------------
(***************************************************************************)
(* Proofs about Standalone for every set of specs and changes and any      *)
(* number of configs, faults and lost pods.                                *)
(***************************************************************************)
EXTENDS Standalone, ConfigSelectionProofs

(***************************************************************************)
(* What the functions of ChangeDetection say of two specs.                 *)
(***************************************************************************)

\* A template is never mistaken for a missing StatefulSet.
LEMMA TemplateExists == \A s : Template(s) # NoTemplate
  BY DEF Template, NoTemplate

\* Topology is the number of nodes, and specs that differ in nothing an upgrade
\* is needed for have the same template.
LEMMA ReportFacts ==
  ASSUME NEW a \in Specs, NEW b \in Specs
  PROVE  LET r == DetectChanges(a, b)
         IN  /\ r.topology <=> a.primaries # b.primaries
             /\ ~r.kube /\ ~r.redis => Template(a) = Template(b)
<1>1. a.replicas = 0 /\ b.replicas = 0
  BY StandaloneAssumption
<1> QED
  BY <1>1 DEF DetectChanges, Template, detectKubernetesChanges,
              detectRedisConfigChanges

\* The config before the target is the last one that was Applied.
LEMMA PrevIsBefore ==
  ASSUME IInv, pc # "idle"
  PROVE  prev = tgt - 1 /\ tgt \in 1..n /\ n \in Nat /\ n <= MaxConfigs
<1>1. tgt \in 1..n /\ \A j \in 1..(tgt - 1) : phase[j] = "Applied"
  BY DEF IInv, TargetFits
<1>2. n \in Nat /\ n <= MaxConfigs
  BY ConstantsAssumption DEF IInv, TypeOK, CycleTypeOK
<1>3. PICK ph : ph = phase
  OBVIOUS
<1>4. PICK t \in Nat : t = tgt
  BY <1>1, <1>2
<1>5. lastAppliedBefore(ph, t) = t - 1
  <2>1. \A j \in 1..(t - 1) : ph[j] = "Applied"
    BY <1>1, <1>3, <1>4
  <2>2. LET a == lastAppliedBefore(ph, t)
        IN  \/ /\ a = None
               /\ \A j \in 1..(t - 1) : ph[j] # "Applied"
            \/ /\ a \in 1..(t - 1)
               /\ ph[a] = "Applied"
               /\ \A j \in (a + 1)..(t - 1) : ph[j] # "Applied"
    BY LastAppliedBefore, Zenon
  <2>3. t \in Nat \ {0}
    BY <1>1, <1>2, <1>4
  <2> QED
    BY <2>1, <2>2, <2>3 DEF None
<1> QED
  BY <1>1, <1>2, <1>3, <1>4, <1>5 DEF prev

(***************************************************************************)
(* The inductive invariant.                                                *)
(***************************************************************************)

\* The empty API server satisfies the invariant.
LEMMA InitIInv == Init => IInv
<1> SUFFICES ASSUME Init PROVE IInv
  OBVIOUS
<1> USE ConstantsAssumption, StandaloneAssumption DEF Init, CycleInit, Ids, None
<1>1. TypeOK
  <2>1. (CHOOSE s \in Specs : TRUE) \in Specs
    OBVIOUS
  <2>2. observed \in BOOLEAN
    BY Zenon
  <2> QED
    BY <2>1, <2>2 DEF TypeOK, CycleTypeOK, Statuses
<1>2. InOrder
  BY DEF InOrder
<1>3. StatusFits /\ TargetFits
  BY DEF StatusFits, TargetFits
<1>4. ReportsFit /\ ObjectsFit
  BY DEF ReportsFit, ObjectsFit, Absent
<1>5. AppliedMeansDeployed
  BY DEF AppliedMeansDeployed, IsCurrent
<1> QED
  BY <1>1, <1>2, <1>3, <1>4, <1>5 DEF IInv

\* Whatever the controller and the kubelet do, objects that fit a spec go on
\* fitting it: pods are created from a template the controller was given.
LEMMA KubeKeepsIInv ==
  ASSUME IInv, KubeNext
  PROVE  IInv'
<1>1. UNCHANGED <<configs, cycle>> /\ sts' = sts
  BY DEF KubeNext, KubeObserves, KubeCreatesPod, KubeStartsPod,
         KubeRemovesPod, KubeLosesPod, kube, node
<1>2. TypeOK'
  <2>1. CycleTypeOK'
    BY <1>1 DEF IInv, TypeOK, CycleTypeOK, configs, cycle
  <2>2. /\ sts' \in Templates \cup {NoTemplate}
        /\ revision' \in Templates \cup {NoTemplate}
        /\ podTemplate' \in Templates \cup {NoTemplate}
    BY DEF IInv, TypeOK, KubeNext, KubeObserves, KubeCreatesPod, KubeStartsPod,
           KubeRemovesPod, KubeLosesPod, kube, node
  <2>3. observed' \in BOOLEAN
    BY Zenon DEF IInv, TypeOK, KubeNext, KubeObserves, KubeCreatesPod,
                 KubeStartsPod, KubeRemovesPod, KubeLosesPod, kube
  <2>4. /\ ready' \in {0, 1}
        /\ pod' \in {"none", "starting", "running", "terminating"}
        /\ failures' \in 0..MaxFailures
    BY StandaloneAssumption
       DEF IInv, TypeOK, KubeNext, KubeObserves, KubeCreatesPod, KubeStartsPod,
           KubeRemovesPod, KubeLosesPod, kube, node
  <2> QED
    BY <2>1, <2>2, <2>3, <2>4 DEF TypeOK, Templates
<1>3. InOrder' /\ StatusFits' /\ TargetFits'
  BY <1>1 DEF IInv, InOrder, StatusFits, TargetFits, configs, cycle
<1>4. ReportsFit'
  BY TemplateExists
     DEF ReportsFit, IInv, KubeNext, KubeObserves, KubeCreatesPod,
         KubeStartsPod, KubeRemovesPod, KubeLosesPod, kube, node
<1>5. Absent => Absent'
  BY DEF Absent, KubeNext, KubeObserves, KubeCreatesPod, KubeStartsPod,
         KubeRemovesPod, KubeLosesPod, kube, node
<1>6. ASSUME NEW s \in Specs, Coherent(s) PROVE Coherent(s)'
  BY <1>6, TemplateExists
     DEF Coherent, KubeNext, KubeObserves, KubeCreatesPod, KubeStartsPod,
         KubeRemovesPod, KubeLosesPod, kube, node
<1>7. ASSUME NEW s \in Specs, Deployed(s) PROVE Deployed(s)'
  <2>1. CASE s.primaries = 0
    BY <1>5, <1>7, <2>1 DEF Deployed
  <2>2. CASE s.primaries # 0
    BY <1>6, <1>7, <2>2, TemplateExists
       DEF Deployed, Coherent, KubeNext, KubeObserves, KubeCreatesPod,
           KubeStartsPod, KubeRemovesPod, KubeLosesPod, kube, node
  <2> QED
    BY <2>1, <2>2
<1>8. ASSUME NEW i \in Ids
      PROVE  /\ Coherent(spec[i]) => Coherent(spec[i])'
             /\ Deployed(spec[i]) => Deployed(spec[i])'
  <2>1. PICK s \in Specs : s = spec[i] /\ s = spec'[i]
    BY <1>1 DEF IInv, TypeOK, CycleTypeOK, configs
  <2>2. /\ Coherent(s) => Coherent(s)'
        /\ Deployed(s) => Deployed(s)'
    BY <1>6, <1>7
  <2> QED
    BY <2>1, <2>2 DEF Coherent, Deployed, Absent
<1>9. ObjectsFit'
  <2> USE <1>1 DEF configs, cycle
  <2>1. /\ pc \in {"copying", "changing"} => tgt - 1 \in Ids
        /\ pc = "applying" => tgt \in Ids
    BY ConstantsAssumption DEF IInv, TargetFits, TypeOK, CycleTypeOK, Ids
  <2>2. (pc \in {"copying", "changing"} => Deployed(spec[tgt - 1]))'
    BY <1>8, <2>1 DEF IInv, ObjectsFit, Deployed, Coherent, Absent
  <2>3. (pc = "applying" => Deployed(spec[tgt]))'
    BY <1>8, <2>1 DEF IInv, ObjectsFit, Deployed, Coherent, Absent
  <2>4. ASSUME NEW i \in Ids, phase[i] = "InProgress"
        PROVE  (/\ status[i] = "Initializing" => Coherent(spec[i])
                /\ status[i] = "Upgrading" /\ spec[i].primaries = 0 => sts = NoTemplate
                /\ status[i] = "None" =>
                     \/ i = 1 /\ Absent
                     \/ i = 1 /\ spec[i].primaries = 1 /\ Coherent(spec[i])
                     \/ i > 1 /\ Deployed(spec[i - 1])
                     \/ /\ i > 1 /\ spec[i - 1].primaries = 0 /\ spec[i].primaries = 1
                        /\ Coherent(spec[i]))'
    <3>1. i > 1 => i - 1 \in Ids
      BY ConstantsAssumption DEF Ids
    <3> QED
      BY <1>5, <1>8, <2>4, <3>1
         DEF IInv, ObjectsFit, Deployed, Coherent, Absent
  <2>5. ((\A i \in Ids : phase[i] \in {"Unset", "Pending"}) => Absent)'
    BY <1>5 DEF IInv, ObjectsFit, Absent
  <2> QED
    BY <2>2, <2>3, <2>4, <2>5 DEF ObjectsFit
<1>10. AppliedMeansDeployed'
  BY <1>1, <1>8
     DEF IInv, AppliedMeansDeployed, IsCurrent, Deployed, Coherent, Absent,
         configs
<1> QED
  BY <1>2, <1>3, <1>4, <1>9, <1>10 DEF IInv

\* A new config waits: nothing is decided about the others.
LEMMA CreateKeepsIInv ==
  ASSUME IInv, NEW s \in Specs, OperatorCreates(s), UNCHANGED cluster
  PROVE  IInv'
<1> USE ConstantsAssumption
        DEF OperatorCreates, cluster, kube, node, cycle, Ids
<1>1. TypeOK'
  BY DEF IInv, TypeOK, CycleTypeOK, Templates
<1>2. InOrder' /\ StatusFits' /\ TargetFits' /\ ReportsFit'
  BY DEF IInv, TypeOK, CycleTypeOK, InOrder, StatusFits, TargetFits, ReportsFit
<1>3. ObjectsFit'
  BY DEF IInv, TypeOK, CycleTypeOK, InOrder, TargetFits, ObjectsFit, Deployed,
         Coherent, Absent
<1>4. AppliedMeansDeployed'
  BY DEF IInv, TypeOK, CycleTypeOK, InOrder, AppliedMeansDeployed, IsCurrent,
         Deployed, Coherent, Absent
<1> QED
  BY <1>1, <1>2, <1>3, <1>4 DEF IInv

\* Giving a cycle up, for whatever reason, leaves everything as it is stored.
LEMMA StopKeepsIInv ==
  ASSUME IInv, Return, UNCHANGED configs, UNCHANGED cluster,
         faults' \in 0..MaxFaults
  PROVE  IInv'
<1> USE ConstantsAssumption
        DEF Return, configs, cluster, kube, node, Ids, None
<1>1. TypeOK'
  BY DEF IInv, TypeOK, CycleTypeOK, Templates
<1>2. InOrder' /\ StatusFits' /\ TargetFits' /\ ReportsFit'
  BY DEF IInv, InOrder, StatusFits, TargetFits, ReportsFit
<1>3. ObjectsFit'
  BY DEF IInv, ObjectsFit, Deployed, Coherent, Absent
<1>4. AppliedMeansDeployed'
  BY DEF IInv, AppliedMeansDeployed, IsCurrent, Deployed, Coherent, Absent
<1> QED
  BY <1>1, <1>2, <1>3, <1>4 DEF IInv

\* Starting a config: the cluster is still as the one before left it.
LEMMA StartKeepsIInv ==
  ASSUME IInv, NEW o \in Outcomes, setConfigPhaseInProgress(o), UNCHANGED cluster
  PROVE  IInv'
<1>1. prev = tgt - 1 /\ tgt \in 1..n /\ n \in Nat /\ n <= MaxConfigs
  BY PrevIsBefore DEF setConfigPhaseInProgress, AtStatus
<1> USE <1>1, ConstantsAssumption
        DEF setConfigPhaseInProgress, Write, Continue, Return,
            Outcomes, configs, cluster, kube, node, Ids, None
<1>2. TypeOK'
  BY DEF IInv, TypeOK, CycleTypeOK, Templates, Statuses
<1>3. InOrder' /\ StatusFits' /\ TargetFits'
  BY DEF IInv, TypeOK, CycleTypeOK, InOrder, StatusFits, TargetFits
<1>4. ReportsFit'
  BY DEF IInv, ReportsFit
<1>5. ObjectsFit'
  <2>1. tgt = 1 => Absent
    BY DEF IInv, TypeOK, CycleTypeOK, InOrder, TargetFits, ObjectsFit
  <2>2. tgt > 1 => Deployed(spec[tgt - 1])
    <3>1. ASSUME NEW j \in tgt..n PROVE phase[j] = "Pending"
      <4>1. /\ j \in Ids /\ j <= n /\ phase[tgt] = "Pending"
            /\ j # tgt => tgt \in 1..(j - 1)
        BY DEF IInv, TargetFits
      <4> QED
        BY <4>1 DEF IInv, TypeOK, CycleTypeOK, InOrder
    <3>2. tgt > 1 => IsCurrent(tgt - 1)
      BY <3>1 DEF IInv, TargetFits, IsCurrent
    <3> QED
      BY <3>2 DEF IInv, AppliedMeansDeployed
  <2>3. \A i \in Ids : phase[i] # "InProgress"
    BY DEF IInv, TypeOK, CycleTypeOK, InOrder, TargetFits
  <2> QED
    BY <2>1, <2>2, <2>3
       DEF IInv, TypeOK, CycleTypeOK, StatusFits, TargetFits, ObjectsFit,
           Deployed, Coherent, Absent
<1>6. AppliedMeansDeployed'
  <2>1. \A i \in Ids : IsCurrent(i)' => IsCurrent(i)
    BY DEF IInv, TypeOK, CycleTypeOK, InOrder, TargetFits, IsCurrent
  <2> QED
    BY <2>1 DEF IInv, AppliedMeansDeployed, Deployed, Coherent, Absent
<1> QED
  BY <1>2, <1>3, <1>4, <1>5, <1>6 DEF IInv

\* Handing the status on: it is Ready.
LEMMA CopyKeepsIInv ==
  ASSUME IInv, NEW o \in Outcomes, copyPreviousClusterStatus(o), UNCHANGED cluster
  PROVE  IInv'
<1>1. prev = tgt - 1 /\ tgt \in 1..n /\ n \in Nat /\ n <= MaxConfigs
  BY PrevIsBefore DEF copyPreviousClusterStatus, AtStatus
<1> USE <1>1, ConstantsAssumption
        DEF copyPreviousClusterStatus, Write, Continue, Return,
            Outcomes, configs, cluster, kube, node, Ids, None
<1>7. status[prev] = "Ready"
  BY DEF IInv, TypeOK, CycleTypeOK, StatusFits, TargetFits
<1>2. TypeOK'
  BY <1>7 DEF IInv, TypeOK, CycleTypeOK, Templates, Statuses
<1>3. InOrder' /\ StatusFits' /\ TargetFits'
  BY <1>7 DEF IInv, TypeOK, CycleTypeOK, InOrder, StatusFits, TargetFits
<1>4. ReportsFit'
  BY DEF IInv, ReportsFit
<1>5. ObjectsFit'
  BY <1>7 DEF IInv, TypeOK, CycleTypeOK, InOrder, StatusFits, TargetFits, ObjectsFit,
         AppliedMeansDeployed, IsCurrent, Deployed, Coherent, Absent
<1>6. AppliedMeansDeployed'
  BY DEF IInv, TypeOK, CycleTypeOK, InOrder, StatusFits, TargetFits, ObjectsFit,
         AppliedMeansDeployed, IsCurrent, Deployed, Coherent, Absent
<1> QED
  BY <1>2, <1>3, <1>4, <1>5, <1>6 DEF IInv

\* Marking a config Applied: it has been deployed.
LEMMA ApplyKeepsIInv ==
  ASSUME IInv, NEW o \in Outcomes, setConfigPhaseApplied(o), UNCHANGED cluster
  PROVE  IInv'
<1>1. prev = tgt - 1 /\ tgt \in 1..n /\ n \in Nat /\ n <= MaxConfigs
  BY PrevIsBefore DEF setConfigPhaseApplied, AtStatus
<1> USE <1>1, ConstantsAssumption
        DEF setConfigPhaseApplied, Write, Continue, Return,
            Outcomes, configs, cluster, kube, node, Ids, None
<1>2. TypeOK'
  BY DEF IInv, TypeOK, CycleTypeOK, Templates, Statuses
<1>3. InOrder' /\ StatusFits' /\ TargetFits'
  BY DEF IInv, TypeOK, CycleTypeOK, InOrder, StatusFits, TargetFits
<1>4. ReportsFit'
  BY DEF IInv, ReportsFit
<1>5. ObjectsFit'
  BY DEF IInv, TypeOK, CycleTypeOK, InOrder, StatusFits, TargetFits, ObjectsFit,
         AppliedMeansDeployed, IsCurrent, Deployed, Coherent, Absent
<1>6. AppliedMeansDeployed'
  BY DEF IInv, TypeOK, CycleTypeOK, InOrder, StatusFits, TargetFits, ObjectsFit,
         AppliedMeansDeployed, IsCurrent, Deployed, Coherent, Absent
<1> QED
  BY <1>2, <1>3, <1>4, <1>5, <1>6 DEF IInv

\* The pod that runs is the one that was asked for.
LEMMA InitializingKeepsIInv ==
  ASSUME IInv, NEW o \in Outcomes, handleStandaloneInitializing(o)
  PROVE  IInv'
<1>1. prev = tgt - 1 /\ tgt \in 1..n /\ n \in Nat /\ n <= MaxConfigs
  BY PrevIsBefore DEF handleStandaloneInitializing, AtStatus
<1> USE <1>1, ConstantsAssumption
        DEF handleStandaloneInitializing, AtStatus, AllPodsReady, BecomeReady, Write, Continue, Return,
            Outcomes, configs, cluster, kube, node, Ids, None
<1>2. TypeOK'
  BY DEF IInv, TypeOK, CycleTypeOK, Templates, Statuses
<1>3. InOrder' /\ StatusFits' /\ TargetFits'
  BY DEF IInv, TypeOK, CycleTypeOK, InOrder, StatusFits, TargetFits
<1>4. ReportsFit'
  BY DEF IInv, ReportsFit
<1>5. ObjectsFit'
  <2>1. Deployed(spec[tgt])
    BY DEF IInv, TypeOK, CycleTypeOK, InOrder, StatusFits, TargetFits, ObjectsFit,
           ReportsFit, Deployed, Coherent
  <2> QED
    BY <2>1 DEF IInv, TypeOK, CycleTypeOK, InOrder, StatusFits, TargetFits,
           ObjectsFit, Deployed, Coherent, Absent
<1>6. AppliedMeansDeployed'
  BY DEF IInv, TypeOK, CycleTypeOK, InOrder, StatusFits, TargetFits,
         AppliedMeansDeployed, IsCurrent, Deployed, Coherent, Absent
<1> QED
  BY <1>2, <1>3, <1>4, <1>5, <1>6 DEF IInv

\* Everything is deleted before the status says so.
LEMMA ScalingToZeroKeepsIInv ==
  ASSUME IInv, NEW o \in Outcomes, handleScalingToZero(o)
  PROVE  IInv'
<1>1. prev = tgt - 1 /\ tgt \in 1..n /\ n \in Nat /\ n <= MaxConfigs
  BY PrevIsBefore DEF handleScalingToZero, AtStatus
<1> USE <1>1, ConstantsAssumption
        DEF handleScalingToZero, AtStatus, DeleteStatefulSet, BecomeReady, Write, Continue, Return,
            Outcomes, configs, cluster, kube, node, Ids, None
<1>7. observed' \in BOOLEAN
  BY Zenon
<1>2. TypeOK'
  BY <1>7 DEF IInv, TypeOK, CycleTypeOK, Templates, Statuses
<1>3. InOrder' /\ StatusFits' /\ TargetFits'
  BY DEF IInv, TypeOK, CycleTypeOK, InOrder, StatusFits, TargetFits
<1>4. ReportsFit'
  BY DEF IInv, ReportsFit
<1>5. ObjectsFit'
  BY DEF IInv, TypeOK, CycleTypeOK, InOrder, StatusFits, TargetFits, ObjectsFit,
         AppliedMeansDeployed, IsCurrent, Deployed, Coherent, Absent
<1>6. AppliedMeansDeployed'
  BY DEF IInv, TypeOK, CycleTypeOK, InOrder, StatusFits, TargetFits, ObjectsFit,
         AppliedMeansDeployed, IsCurrent, Deployed, Coherent, Absent
<1> QED
  BY <1>2, <1>3, <1>4, <1>5, <1>6 DEF IInv

\* A new deployment: its objects are there before the status says so.
LEMMA NewKeepsIInv ==
  ASSUME IInv, NEW o \in Outcomes, handleNew(o)
  PROVE  IInv'
<1>1. prev = tgt - 1 /\ tgt \in 1..n /\ n \in Nat /\ n <= MaxConfigs
  BY PrevIsBefore DEF handleNew, AtStatus
<1> USE <1>1, ConstantsAssumption
        DEF handleNew, AtStatus, EnsureClusterObjects, BecomeReady, Write,
            Continue, Return, Outcomes, configs, cluster, kube, node, Ids, None,
            want
<1>2. tgt = 1 /\ phase[1] = "InProgress" /\ status[1] = "None"
  BY DEF IInv, StatusFits, TargetFits
<1>3. spec[1] \in Specs /\ spec[1].primaries \in {0, 1}
  BY StandaloneAssumption DEF IInv, TypeOK, CycleTypeOK
<1>4. Template(spec[1]) \in Templates
  BY <1>3 DEF Templates
<1>5. observed' \in BOOLEAN
  BY Zenon DEF IInv, TypeOK
<1>6. TypeOK'
  <2>1. CycleTypeOK'
    BY <1>2 DEF IInv, TypeOK, CycleTypeOK, Statuses
  <2>2. /\ sts' \in Templates \cup {NoTemplate}
        /\ revision' \in Templates \cup {NoTemplate}
        /\ ready' \in {0, 1}
    BY <1>2, <1>4 DEF IInv, TypeOK
  <2> QED
    BY <1>5, <2>1, <2>2 DEF IInv, TypeOK, Templates
<1>7. InOrder' /\ StatusFits' /\ TargetFits'
  BY <1>2, <1>3 DEF IInv, TypeOK, CycleTypeOK, InOrder, StatusFits, TargetFits
<1>8. ReportsFit'
  BY DEF IInv, ReportsFit
<1>9. Absent \/ (spec[1].primaries = 1 /\ Coherent(spec[1]))
  BY <1>2 DEF IInv, ObjectsFit
<1>10. IF spec[1].primaries = 0 THEN Absent' ELSE Coherent(spec[1])'
  BY <1>2, <1>3, <1>9, TemplateExists DEF Absent, Coherent
<1>11. \A i \in Ids : phase'[i] \in {"InProgress", "Applied"} => i = 1
  BY <1>2, <1>7 DEF IInv, TypeOK, CycleTypeOK, InOrder
<1>12. ObjectsFit'
  BY <1>2, <1>3, <1>10, <1>11
     DEF IInv, TypeOK, CycleTypeOK, ObjectsFit, Deployed, Coherent, Absent
<1>13. AppliedMeansDeployed'
  BY <1>2, <1>11 DEF IInv, TypeOK, CycleTypeOK, AppliedMeansDeployed, IsCurrent
<1> QED
  BY <1>6, <1>7, <1>8, <1>12, <1>13 DEF IInv

\* A pass of the upgrade that does not complete.
LEMMA RecyclesKeepsIInv ==
  ASSUME IInv, handleStandaloneUpgradingRecycles
  PROVE  IInv'
<1>1. prev = tgt - 1 /\ tgt \in 1..n /\ n \in Nat /\ n <= MaxConfigs
  BY PrevIsBefore DEF handleStandaloneUpgradingRecycles, AtStatus
<1> USE <1>1, ConstantsAssumption
        DEF handleStandaloneUpgradingRecycles, AtStatus,
            UpdateStatefulSetTemplate, Return, configs, Ids, None, want
<1>2. phase[tgt] = "InProgress" /\ status[tgt] = "Upgrading"
  BY DEF IInv, StatusFits, TargetFits
<1>3. spec[tgt] \in Specs /\ Template(spec[tgt]) \in Templates
  BY DEF IInv, TypeOK, CycleTypeOK, Templates
<1>4. observed' \in BOOLEAN
  BY Zenon
<1>5. TypeOK'
  BY <1>3, <1>4 DEF IInv, TypeOK, CycleTypeOK, Templates
<1>6. InOrder' /\ StatusFits' /\ TargetFits'
  BY DEF IInv, InOrder, StatusFits, TargetFits
<1>7. ReportsFit'
  BY DEF IInv, ReportsFit
<1>8. spec[tgt].primaries # 0
  BY <1>2 DEF IInv, ObjectsFit
<1>9. \A i \in Ids : phase[i] = "InProgress" => i = tgt
  BY <1>2 DEF IInv, InOrder, TypeOK, CycleTypeOK
<1>10. ObjectsFit'
  BY <1>2, <1>8, <1>9 DEF ObjectsFit, Deployed
<1>11. \A i \in Ids : ~IsCurrent(i)
  BY <1>2 DEF IInv, InOrder, TypeOK, CycleTypeOK, IsCurrent
<1>12. AppliedMeansDeployed'
  BY <1>11 DEF AppliedMeansDeployed, IsCurrent
<1> QED
  BY <1>5, <1>6, <1>7, <1>10, <1>12 DEF IInv

\* The upgrade completes only when the controller knows the new template and
\* the pod was created from it.
LEMMA UpgradingKeepsIInv ==
  ASSUME IInv, NEW o \in Outcomes, handleStandaloneUpgrading(o)
  PROVE  IInv'
<1>1. prev = tgt - 1 /\ tgt \in 1..n /\ n \in Nat /\ n <= MaxConfigs
  BY PrevIsBefore DEF handleStandaloneUpgrading, AtStatus
<1> USE <1>1, ConstantsAssumption
        DEF handleStandaloneUpgrading, AtStatus, UpdateStatefulSetTemplate,
            recycled, BecomeReady, Write, Continue, Return, Outcomes, configs,
            node, Ids, None, want
<1>2. phase[tgt] = "InProgress" /\ status[tgt] = "Upgrading"
  BY DEF IInv, StatusFits, TargetFits
<1>3. spec[tgt] \in Specs /\ Template(spec[tgt]) \in Templates
  BY DEF IInv, TypeOK, CycleTypeOK, Templates
<1>4. observed' \in BOOLEAN
  BY Zenon
<1>5. TypeOK'
  <2>1. CycleTypeOK'
    BY <1>2 DEF IInv, TypeOK, CycleTypeOK, Statuses
  <2>2. /\ sts' \in Templates \cup {NoTemplate}
        /\ revision' \in Templates \cup {NoTemplate}
    BY <1>3 DEF IInv, TypeOK
  <2> QED
    BY <1>4, <2>1, <2>2 DEF IInv, TypeOK, Templates
<1>6. InOrder' /\ StatusFits' /\ TargetFits'
  BY <1>2 DEF IInv, TypeOK, CycleTypeOK, InOrder, StatusFits, TargetFits
<1>7. ReportsFit'
  BY DEF IInv, ReportsFit
<1>8. spec[tgt].primaries # 0
  BY <1>2 DEF IInv, ObjectsFit
<1>9. /\ sts = Template(spec[tgt]) /\ sts' = sts
      /\ revision' = sts
      /\ podTemplate' = sts
  BY DEF IInv, ReportsFit
<1>10. \A i \in Ids : phase[i] = "InProgress" => i = tgt
  BY <1>2 DEF IInv, InOrder, TypeOK, CycleTypeOK
<1>11. ObjectsFit'
  BY <1>2, <1>8, <1>9, <1>10
     DEF IInv, TypeOK, CycleTypeOK, ObjectsFit, Deployed, Coherent
<1>12. \A i \in Ids : ~IsCurrent(i)'
  BY <1>2, <1>6 DEF IInv, InOrder, TypeOK, CycleTypeOK, IsCurrent
<1>13. AppliedMeansDeployed'
  BY <1>12 DEF AppliedMeansDeployed
<1> QED
  BY <1>5, <1>6, <1>7, <1>11, <1>13 DEF IInv

\* The oldest config with something left to do is chosen, or the last one that
\* was Applied.
LEMMA ReconcileKeepsIInv ==
  ASSUME IInv, reconcile, UNCHANGED cluster
  PROVE  IInv'
<1> USE ConstantsAssumption
        DEF reconcile, configs, cluster, kube, node, Ids, None
<1>1. PICK ph : ph = phase
  OBVIOUS
<1>2. PICK m \in Nat \ {0} : m = n
  BY DEF IInv, TypeOK, CycleTypeOK
<1>3. PICK s : s = SelectConfig(ph, m)
  OBVIOUS
<1>4. /\ s \in 1..m
      /\ \/ /\ ph[s] \notin Terminal
            /\ \A j \in 1..(s - 1) : ph[j] \in Terminal
         \/ ph[s] = "Applied"
         \/ s = m /\ ph[s] \in Terminal
  BY <1>3, SelectConfigIsHead, Zenon
<1>5. tgt' = s /\ s \in 1..n /\ s \in Ids
  BY <1>1, <1>2, <1>3, <1>4 DEF IInv, TypeOK, CycleTypeOK
<1>6. \A i \in Ids : phase[i] \in Terminal => phase[i] = "Applied"
  BY DEF IInv, TypeOK, CycleTypeOK, Terminal
<1>7. \A j \in 1..(s - 1) : phase[j] = "Applied"
  BY <1>1, <1>2, <1>4, <1>5, <1>6 DEF IInv, InOrder
<1>8. TypeOK'
  BY <1>5 DEF IInv, TypeOK, CycleTypeOK, Templates
<1>9. InOrder' /\ StatusFits' /\ ReportsFit'
  BY DEF IInv, InOrder, StatusFits, ReportsFit
<1>10. phase[s] \in {"Pending", "InProgress", "Applied"}
  BY <1>5 DEF IInv, TypeOK, CycleTypeOK, InOrder
<1>11. TargetFits'
  BY <1>5, <1>7, <1>10 DEF TargetFits
<1>12. ObjectsFit'
  BY <1>5 DEF IInv, ObjectsFit, Deployed, Coherent, Absent
<1>13. AppliedMeansDeployed'
  BY DEF IInv, AppliedMeansDeployed, IsCurrent, Deployed, Coherent, Absent
<1> QED
  BY <1>8, <1>9, <1>11, <1>12, <1>13 DEF IInv

\* A changed config: its status says what has to be done to objects that are
\* still those of the config before, or, after a failed write, already its own.
LEMMA ConfigChangeKeepsIInv ==
  ASSUME IInv, NEW o \in Outcomes, handleStandaloneConfigChange(o)
  PROVE  IInv'
<1>1. prev = tgt - 1 /\ tgt \in 1..n /\ n \in Nat /\ n <= MaxConfigs
  BY PrevIsBefore DEF handleStandaloneConfigChange, AtConfigChange
<1> USE <1>1, ConstantsAssumption DEF Ids, None
<1>2. /\ tgt > 1 /\ tgt \in Ids /\ tgt - 1 \in Ids
      /\ phase[tgt] = "InProgress" /\ status[tgt] \in {"None", "Ready"}
      /\ status[tgt - 1] = "Ready"
  BY DEF IInv, TypeOK, CycleTypeOK, InOrder, StatusFits, TargetFits,
         handleStandaloneConfigChange, AtConfigChange
<1>3. PICK a \in Specs, b \in Specs : a = spec[tgt - 1] /\ b = spec[tgt]
  BY <1>2 DEF IInv, TypeOK, CycleTypeOK
<1>4. PICK r : r = report
  OBVIOUS
<1>5. /\ r.topology <=> a.primaries # b.primaries
      /\ ~r.kube /\ ~r.redis => Template(a) = Template(b)
  <2>1. r = DetectChanges(a, b)
    BY <1>3, <1>4 DEF report, want
  <2> QED
    BY <2>1, ReportFacts, Zenon
<1>6. a.primaries \in {0, 1} /\ b.primaries \in {0, 1}
  BY StandaloneAssumption
<1>7. \/ Deployed(a)
      \/ a.primaries = 0 /\ b.primaries = 1 /\ Coherent(b)
  BY <1>2, <1>3
     DEF IInv, TargetFits, ObjectsFit, handleStandaloneConfigChange,
         AtConfigChange, Deployed, Coherent, Absent
<1>8. \A i \in Ids : phase[i] = "InProgress" => i = tgt
  BY <1>2 DEF IInv, InOrder, TypeOK, CycleTypeOK
<1>9. UNCHANGED <<n, spec, node>> /\ faults' \in 0..MaxFaults
  BY <1>2 DEF IInv, TypeOK, CycleTypeOK, handleStandaloneConfigChange,
              ensureStandaloneObjects, Write
<1>10. CASE /\ report.topology
            /\ want.primaries = 0
            /\ Write(phase[tgt], "ScalingToZero", o)
            /\ Return
            /\ UNCHANGED kube
  <2> USE <1>10, <1>2, <1>4, <1>9 DEF Write, Return, Continue, Outcomes, kube, node, want
  <2>1. TypeOK'
    BY DEF IInv, TypeOK, CycleTypeOK, Templates, Statuses
  <2>2. InOrder' /\ StatusFits' /\ TargetFits'
    BY <1>3, <1>5, <1>6 DEF IInv, TypeOK, CycleTypeOK, InOrder, StatusFits, TargetFits
  <2>3. ReportsFit'
    BY DEF IInv, ReportsFit
  <2>4. ObjectsFit'
    BY <1>3, <1>5, <1>6, <1>7, <1>8
       DEF IInv, TypeOK, CycleTypeOK, ObjectsFit, Deployed, Coherent, Absent
  <2>5. AppliedMeansDeployed'
    BY <1>3, <1>5, <1>6, <1>7, <1>8
       DEF IInv, TypeOK, CycleTypeOK, InOrder, AppliedMeansDeployed, IsCurrent,
           Deployed, Coherent, Absent
  <2> QED
    BY <2>1, <2>2, <2>3, <2>4, <2>5 DEF IInv
<1>11. CASE /\ report.topology
            /\ want.primaries # 0
            /\ ensureStandaloneObjects(o)
  <2>7. Template(spec[tgt]) \in Templates
    BY <1>3 DEF Templates
  <2>8. Coherent(b)'
    BY <1>3, <1>4, <1>5, <1>6, <1>7, <1>9, <1>11, TemplateExists
       DEF Deployed, Coherent, Absent, ensureStandaloneObjects,
           EnsureClusterObjects, want, kube, node
  <2> USE <2>7
  <2> USE <1>11, <1>2, <1>4, <1>9 DEF Write, Return, Continue, Outcomes, kube, node, want,
      ensureStandaloneObjects, EnsureClusterObjects
  <2>1. TypeOK'
    <3>1. CycleTypeOK'
      BY DEF IInv, TypeOK, CycleTypeOK, Statuses
    <3>2. /\ sts' \in Templates \cup {NoTemplate}
          /\ revision' \in Templates \cup {NoTemplate}
          /\ ready' \in {0, 1}
      BY DEF IInv, TypeOK
    <3>3. observed' \in BOOLEAN
      BY Zenon DEF IInv, TypeOK
    <3> QED
      BY <3>1, <3>2, <3>3 DEF IInv, TypeOK, Templates
  <2>2. InOrder' /\ StatusFits' /\ TargetFits'
    BY <1>3, <1>5, <1>6 DEF IInv, TypeOK, CycleTypeOK, InOrder, StatusFits, TargetFits
  <2>3. ReportsFit'
    BY DEF IInv, ReportsFit
  <2>4. ObjectsFit'
    BY <1>3, <1>5, <1>6, <1>8, <2>8
       DEF IInv, TypeOK, CycleTypeOK, ObjectsFit, Deployed, Coherent, Absent
  <2>5. AppliedMeansDeployed'
    BY <1>3, <1>5, <1>6, <1>8, <2>8
       DEF IInv, TypeOK, CycleTypeOK, InOrder, AppliedMeansDeployed, IsCurrent,
           Deployed, Coherent, Absent
  <2> QED
    BY <2>1, <2>2, <2>3, <2>4, <2>5 DEF IInv
<1>12. CASE /\ ~report.topology
            /\ report.kube \/ report.redis
            /\ Write(phase[tgt], "Upgrading", o)
            /\ Return
            /\ UNCHANGED kube
  <2> USE <1>12, <1>2, <1>4, <1>9 DEF Write, Return, Continue, Outcomes, kube, node
  <2>1. TypeOK'
    BY DEF IInv, TypeOK, CycleTypeOK, Templates, Statuses
  <2>2. InOrder' /\ StatusFits' /\ TargetFits'
    BY <1>3, <1>5, <1>6 DEF IInv, TypeOK, CycleTypeOK, InOrder, StatusFits, TargetFits
  <2>3. ReportsFit'
    BY DEF IInv, ReportsFit
  <2>4. ObjectsFit'
    BY <1>3, <1>5, <1>6, <1>7, <1>8
       DEF IInv, TypeOK, CycleTypeOK, ObjectsFit, Deployed, Coherent, Absent
  <2>5. AppliedMeansDeployed'
    BY <1>3, <1>5, <1>6, <1>7, <1>8
       DEF IInv, TypeOK, CycleTypeOK, InOrder, AppliedMeansDeployed, IsCurrent,
           Deployed, Coherent, Absent
  <2> QED
    BY <2>1, <2>2, <2>3, <2>4, <2>5 DEF IInv
<1>13. CASE /\ ~RequiresClusterOperation(report)
            /\ IF status[tgt] # status[prev]
               THEN Write(phase[tgt], status[prev], o) /\ Continue(o, "applying")
               ELSE Write("Applied", status[tgt], o) /\ Return
            /\ UNCHANGED kube
  <2>6. Deployed(b)
    BY <1>4, <1>5, <1>6, <1>7, <1>13
       DEF RequiresClusterOperation, Deployed, Coherent, Absent
  <2> USE <1>13, <1>2, <1>4, <1>9 DEF Write, Return, Continue, Outcomes, kube, node
  <2>1. TypeOK'
    <3>1. CycleTypeOK'
      <4>1. CASE status[tgt] # status[prev]
        BY <4>1 DEF IInv, TypeOK, CycleTypeOK, Statuses
      <4>2. CASE status[tgt] = status[prev]
        <5>1. Write("Applied", status[tgt], o) /\ Return
          BY <4>2
        <5> QED
          BY <5>1 DEF IInv, TypeOK, CycleTypeOK, Statuses
      <4> QED
        BY <4>1, <4>2
    <3>2. /\ sts' \in Templates \cup {NoTemplate}
          /\ revision' \in Templates \cup {NoTemplate}
          /\ ready' \in {0, 1}
      BY DEF IInv, TypeOK
    <3>3. observed' \in BOOLEAN
      BY Zenon DEF IInv, TypeOK
    <3> QED
      BY <3>1, <3>2, <3>3 DEF IInv, TypeOK, Templates
  <2>2. InOrder' /\ StatusFits' /\ TargetFits'
    BY <1>3, <1>5, <1>6 DEF IInv, TypeOK, CycleTypeOK, InOrder, StatusFits, TargetFits
  <2>3. ReportsFit'
    BY DEF IInv, ReportsFit
  <2>4. ObjectsFit'
    BY <1>3, <1>8, <2>6
       DEF IInv, TypeOK, CycleTypeOK, ObjectsFit, Deployed, Coherent, Absent
  <2>5. AppliedMeansDeployed'
    BY <1>3, <1>8, <2>6
       DEF IInv, TypeOK, CycleTypeOK, InOrder, AppliedMeansDeployed, IsCurrent,
           Deployed, Coherent, Absent
  <2> QED
    BY <2>1, <2>2, <2>3, <2>4, <2>5 DEF IInv
<1> QED
  BY <1>10, <1>11, <1>12, <1>13 DEF handleStandaloneConfigChange

\* Every step keeps the invariant.
LEMMA NextIInv == IInv /\ [Next]_vars => IInv'
<1> SUFFICES ASSUME IInv, [Next]_vars PROVE IInv'
  OBVIOUS
<1>1. ASSUME NEW s \in Specs, OperatorCreates(s), UNCHANGED cluster PROVE IInv'
  BY <1>1, CreateKeepsIInv
<1>2. CASE KubeNext
  BY <1>2, KubeKeepsIInv
<1>3. CASE CycleNext /\ UNCHANGED cluster
  <2>1. CASE reconcile
    BY <1>3, <2>1, ReconcileKeepsIInv
  <2>2. ASSUME NEW o \in Outcomes, setConfigPhaseInProgress(o) PROVE IInv'
    BY <1>3, <2>2, StartKeepsIInv
  <2>3. ASSUME NEW o \in Outcomes, copyPreviousClusterStatus(o) PROVE IInv'
    BY <1>3, <2>3, CopyKeepsIInv
  <2>4. ASSUME NEW o \in Outcomes, setConfigPhaseApplied(o) PROVE IInv'
    BY <1>3, <2>4, ApplyKeepsIInv
  <2>5. CASE applyAuthToAllNodesFails
    <3>1. Return /\ UNCHANGED configs /\ faults' \in 0..MaxFaults
      BY <2>5, ConstantsAssumption
         DEF applyAuthToAllNodesFails, Fault, IInv, TypeOK, CycleTypeOK
    <3> QED
      BY <1>3, <3>1, StopKeepsIInv
  <2> QED
    BY <1>3, <2>1, <2>2, <2>3, <2>4, <2>5 DEF CycleNext
<1>4. CASE handlers
  <2>1. ASSUME NEW o \in Outcomes, handleNew(o) PROVE IInv'
    BY <2>1, NewKeepsIInv
  <2>2. ASSUME NEW o \in Outcomes, handleStandaloneConfigChange(o) PROVE IInv'
    BY <2>2, ConfigChangeKeepsIInv
  <2>3. ASSUME NEW o \in Outcomes, handleStandaloneInitializing(o) PROVE IInv'
    BY <2>3, InitializingKeepsIInv
  <2>4. ASSUME NEW o \in Outcomes, handleScalingToZero(o) PROVE IInv'
    BY <2>4, ScalingToZeroKeepsIInv
  <2>5. ASSUME NEW o \in Outcomes, handleStandaloneUpgrading(o) PROVE IInv'
    BY <2>5, UpgradingKeepsIInv
  <2>6. CASE handleStandaloneUpgradingRecycles
    BY <2>6, RecyclesKeepsIInv
  <2> QED
    BY <1>4, <2>1, <2>2, <2>3, <2>4, <2>5, <2>6 DEF handlers
<1>5. CASE handleStandaloneReady \/ handlerReturns
  <2>1. /\ Return /\ UNCHANGED configs /\ UNCHANGED cluster
        /\ faults' \in 0..MaxFaults
    BY <1>5 DEF handleStandaloneReady, handlerReturns, IInv, TypeOK, CycleTypeOK
  <2> QED
    BY <2>1, StopKeepsIInv
<1>6. CASE restart /\ UNCHANGED cluster
  <2>1. Return /\ UNCHANGED configs /\ faults' \in 0..MaxFaults
    BY <1>6, ConstantsAssumption DEF restart, Fault, IInv, TypeOK, CycleTypeOK
  <2> QED
    BY <1>6, <2>1, StopKeepsIInv
<1>7. CASE UNCHANGED vars
  <2> USE <1>7 DEF vars, configs, cycle, cluster, kube, node
  <2>1. TypeOK'
    BY DEF IInv, TypeOK, CycleTypeOK, Templates
  <2>2. InOrder' /\ StatusFits' /\ TargetFits' /\ ReportsFit'
    BY DEF IInv, InOrder, StatusFits, TargetFits, ReportsFit
  <2>3. ObjectsFit' /\ AppliedMeansDeployed'
    BY DEF IInv, ObjectsFit, AppliedMeansDeployed, IsCurrent, Deployed,
           Coherent, Absent
  <2> QED
    BY <2>1, <2>2, <2>3 DEF IInv
<1> QED
  BY <1>1, <1>2, <1>3, <1>4, <1>5, <1>6, <1>7 DEF Next, robin

(***************************************************************************)
(* The theorems.                                                           *)
(***************************************************************************)

\* At every point where a write may fail, a pod may be lost or the process may
\* be restarted, the stored phases and statuses tell what the objects are.
THEOREM InvariantHolds == Spec => []IInv
<1>1. Init => IInv
  BY InitIInv
<1>2. IInv /\ [Next]_vars => IInv'
  BY NextIInv
<1> QED
  BY <1>1, <1>2, PTL DEF Spec

\* Every reachable state is well-typed.
THEOREM TypeCorrect == Spec => []TypeOK
<1>1. IInv => TypeOK
  BY DEF IInv
<1> QED
  BY <1>1, InvariantHolds, PTL

\* A config that is marked Applied is deployed: setConfigPhaseApplied is never
\* reached with a pod of an older template, however far the StatefulSet's
\* status lags behind.
THEOREM AppliedIsDeployed == Spec => []AppliedMeansDeployed
<1>1. IInv => AppliedMeansDeployed
  BY DEF IInv
<1> QED
  BY <1>1, InvariantHolds, PTL

\* At most one operation is open, whatever writes fail.
THEOREM OneOperation == Spec => []OneOperationAtATime
<1>1. IInv => OneOperationAtATime
  BY ConstantsAssumption
     DEF IInv, TypeOK, CycleTypeOK, InOrder, StatusFits, OneOperationAtATime, Ids
<1> QED
  BY <1>1, InvariantHolds, PTL

\* recycleStandalonePod never deletes a pod that was created from the template
\* of the config being carried out.
THEOREM UpToDatePodKept == Spec => UpToDatePodIsKept
<1>1. ASSUME IInv, [Next]_vars, pod \in {"starting", "running"},
             pod' = "terminating", failures' = failures, sts' # NoTemplate
      PROVE  podTemplate # sts'
  <2>1. CASE handleStandaloneUpgradingRecycles
    <3>1. recycles /\ revision' = revision
      BY <1>1, <2>1 DEF handleStandaloneUpgradingRecycles,
                       UpdateStatefulSetTemplate
    <3>2. observed => revision = sts
      BY <1>1 DEF IInv, ReportsFit
    <3>3. observed /\ sts' = sts
      BY <3>1, <2>1 DEF recycles, handleStandaloneUpgradingRecycles,
                       UpdateStatefulSetTemplate
    <3> QED
      BY <3>1, <3>2, <3>3 DEF recycles
  <2>2. CASE KubeNext
    BY <1>1, <2>2, StandaloneAssumption
       DEF IInv, TypeOK, KubeNext, KubeObserves, KubeCreatesPod, KubeStartsPod,
           KubeRemovesPod, KubeLosesPod, node
  <2>3. ASSUME NEW o \in Outcomes, handleScalingToZero(o) PROVE FALSE
    BY <1>1, <2>3 DEF handleScalingToZero, DeleteStatefulSet
  <2>4. CASE pod' = pod
    BY <1>1, <2>4
  <2>5. ASSUME [Next]_vars, ~handleStandaloneUpgradingRecycles, ~KubeNext,
               ~ \E o \in Outcomes : handleScalingToZero(o)
        PROVE  pod' = pod
    BY <2>5 DEF Next, robin, handlers, vars, cluster, node, handleNew,
           handleStandaloneConfigChange, handleStandaloneInitializing,
           handleStandaloneUpgrading, handleStandaloneReady, handlerReturns
  <2> QED
    BY <1>1, <2>1, <2>2, <2>3, <2>4, <2>5
<1>2. IInv /\ [Next]_vars =>
        [(/\ pod \in {"starting", "running"} /\ pod' = "terminating"
          /\ failures' = failures
          /\ sts' # NoTemplate)
         => podTemplate # sts']_vars
  BY <1>1
<1> QED
  BY <1>2, InvariantHolds, PTL DEF Spec, UpToDatePodIsKept

(***************************************************************************)
(* Refinement: seen from outside, the configs are the queue of ConfigQueue.*)
(***************************************************************************)

\* A write for the target is a step of the queue or invisible to it.
LEMMA WriteIsQueueStep ==
  ASSUME IInv, pc # "idle", NEW p, NEW st, NEW o \in Outcomes, Write(p, st, o),
         \/ p = phase[tgt]
         \/ phase[tgt] = "Pending" /\ p = "InProgress"
         \/ phase[tgt] = "InProgress" /\ p = "Applied"
  PROVE  [Queue!Next]_(Queue!vars)
<1> DEFINE q == [i \in Ids |-> IF phase[i] \in {"Unset", "Pending"}
                               THEN "Waiting" ELSE phase[i]]
<1>1. /\ tgt \in 1..n /\ tgt \in Ids /\ n \in Nat
      /\ phase \in [Ids -> {"Unset", "Pending", "InProgress", "Applied"}]
      /\ \A j \in 1..(tgt - 1) : j \in Ids /\ phase[j] = "Applied"
  BY PrevIsBefore, ConstantsAssumption DEF IInv, TypeOK, CycleTypeOK, TargetFits, Ids
<1>2. /\ UNCHANGED <<n, spec>>
      /\ phase' = phase \/ phase' = [phase EXCEPT ![tgt] = p]
  BY DEF Write
<1>3. q' = q => UNCHANGED Queue!vars
  BY <1>2 DEF Queue!vars
<1>4. CASE phase' = phase \/ p = phase[tgt]
  <2>1. q' = q
    BY <1>1, <1>2, <1>4
  <2> QED
    BY <1>3, <2>1
<1>5. CASE phase' = [phase EXCEPT ![tgt] = p] /\ p # phase[tgt]
  <2>1. q' = [q EXCEPT ![tgt] = p]
    BY <1>1, <1>5
  <2>2. Queue!IsHead(tgt)
    BY <1>1, <1>5 DEF Queue!IsHead, Queue!Resolved
  <2>3. PICK i \in Ids : i = tgt
    BY <1>1
  <2>4. Queue!Start(i) \/ Queue!Finish(i)
    BY <1>1, <1>2, <1>5, <2>1, <2>2, <2>3 DEF Queue!Start, Queue!Finish
  <2> QED
    BY <2>4 DEF Queue!Next, Queue!Ids, Ids
<1> QED
  BY <1>2, <1>4, <1>5

\* What the handlers of reconcileStandalone write.
LEMMA HandlersWrite ==
  ASSUME IInv, handlers
  PROVE  \/ UNCHANGED configs
         \/ /\ pc # "idle" /\ phase[tgt] \in {"InProgress", "Applied"}
            /\ \E o \in Outcomes : \E p, st :
                 Write(p, st, o) /\ (p = phase[tgt] \/ p = "Applied")
<1>1. pc \in {"cluster", "changing"} => phase[tgt] \in {"InProgress", "Applied"}
  BY DEF IInv, TargetFits
<1>2. ASSUME handleStandaloneUpgradingRecycles PROVE UNCHANGED configs
  BY <1>2 DEF handleStandaloneUpgradingRecycles
<1>3. ASSUME NEW o \in Outcomes,
             \/ handleNew(o) \/ handleStandaloneConfigChange(o)
             \/ handleStandaloneInitializing(o) \/ handleScalingToZero(o)
             \/ handleStandaloneUpgrading(o)
      PROVE  /\ pc \in {"cluster", "changing"}
             /\ \E p, st : Write(p, st, o) /\ (p = phase[tgt] \/ p = "Applied")
  <2>1. CASE handleNew(o)
    BY <2>1 DEF handleNew, AtStatus, BecomeReady
  <2>2. CASE handleStandaloneConfigChange(o)
    <3>1. pc \in {"cluster", "changing"}
      BY <2>2 DEF handleStandaloneConfigChange, AtConfigChange
    <3>2. \E p, st : Write(p, st, o) /\ (p = phase[tgt] \/ p = "Applied")
      BY <2>2 DEF handleStandaloneConfigChange, ensureStandaloneObjects
    <3> QED
      BY <3>1, <3>2
  <2>3. CASE handleStandaloneInitializing(o)
    BY <2>3 DEF handleStandaloneInitializing, AtStatus, BecomeReady
  <2>4. CASE handleScalingToZero(o)
    BY <2>4 DEF handleScalingToZero, AtStatus, BecomeReady
  <2>5. CASE handleStandaloneUpgrading(o)
    BY <2>5 DEF handleStandaloneUpgrading, AtStatus, BecomeReady
  <2> QED
    BY <1>3, <2>1, <2>2, <2>3, <2>4, <2>5
<1> QED
  BY <1>1, <1>2, <1>3 DEF handlers

\* Every step of the system is a step of the queue or invisible to it.
LEMMA StepIsQueueStep ==
  ASSUME IInv, [Next]_vars
  PROVE  [Queue!Next]_(Queue!vars)
<1>1. UNCHANGED configs => UNCHANGED Queue!vars
  BY DEF Queue!vars, configs
<1>2. ASSUME NEW s \in Specs, OperatorCreates(s) PROVE Queue!Next
  <2>1. /\ n \in Nat /\ n + 1 \in Ids /\ n < MaxConfigs /\ n' = n + 1
        /\ spec \in [Ids -> Specs]
        /\ phase \in [Ids -> {"Unset", "Pending", "InProgress", "Applied"}]
        /\ spec' = [spec EXCEPT ![n + 1] = s]
        /\ phase' = [phase EXCEPT ![n + 1] = "Pending"]
        /\ phase[n + 1] = "Unset"
    BY <1>2, ConstantsAssumption
       DEF OperatorCreates, IInv, TypeOK, CycleTypeOK, InOrder, Ids
  <2>2. PICK t : t = [skip |-> FALSE, other |-> s]
    OBVIOUS
  <2>3. [i \in Ids |-> [skip |-> FALSE, other |-> spec'[i]]]
          = [[i \in Ids |-> [skip |-> FALSE, other |-> spec[i]]] EXCEPT ![n + 1] = t]
    BY <2>1, <2>2
  <2>4. [i \in Ids |-> IF phase'[i] \in {"Unset", "Pending"} THEN "Waiting" ELSE phase'[i]]
          = [i \in Ids |-> IF phase[i] \in {"Unset", "Pending"} THEN "Waiting" ELSE phase[i]]
    BY <2>1
  <2>5. Queue!Create(t)
    BY <2>1, <2>3, <2>4 DEF Queue!Create
  <2> QED
    BY <2>2, <2>5 DEF Queue!Next
<1>3. ASSUME KubeNext \/ UNCHANGED vars PROVE UNCHANGED configs
  BY <1>3 DEF KubeNext, KubeObserves, KubeCreatesPod, KubeStartsPod, KubeRemovesPod,
              KubeLosesPod, vars
<1>4. ASSUME \/ restart \/ applyAuthToAllNodesFails \/ reconcile
             \/ handlerReturns \/ handleStandaloneReady
      PROVE  UNCHANGED configs
  BY <1>4 DEF restart, applyAuthToAllNodesFails, Fault, reconcile, handlerReturns,
              handleStandaloneReady
<1>5. ASSUME handlers PROVE [Queue!Next]_(Queue!vars)
  <2>1. CASE UNCHANGED configs
    BY <1>1, <2>1
  <2>2. CASE /\ pc # "idle" /\ phase[tgt] \in {"InProgress", "Applied"}
             /\ \E o \in Outcomes : \E p, st :
                  Write(p, st, o) /\ (p = phase[tgt] \/ p = "Applied")
    BY <2>2, WriteIsQueueStep
  <2> QED
    BY <1>5, <2>1, <2>2, HandlersWrite
<1>6. ASSUME NEW o \in Outcomes, setConfigPhaseApplied(o)
      PROVE  [Queue!Next]_(Queue!vars)
  <2>1. pc = "applying" /\ phase[tgt] = "InProgress" /\ Write("Applied", status[tgt], o)
    BY <1>6 DEF setConfigPhaseApplied, IInv, TargetFits
  <2>2. PICK st : st = status[tgt]
    OBVIOUS
  <2> QED
    BY <2>1, <2>2, WriteIsQueueStep
<1>7. ASSUME NEW o \in Outcomes, setConfigPhaseInProgress(o)
      PROVE  [Queue!Next]_(Queue!vars)
  <2>1. pc = "starting" /\ phase[tgt] = "Pending" /\ Write("InProgress", status[tgt], o)
    BY <1>7 DEF setConfigPhaseInProgress, IInv, TargetFits
  <2>2. PICK st : st = status[tgt]
    OBVIOUS
  <2> QED
    BY <2>1, <2>2, WriteIsQueueStep
<1>8. ASSUME NEW o \in Outcomes, copyPreviousClusterStatus(o)
      PROVE  [Queue!Next]_(Queue!vars)
  <2>1. pc = "copying" /\ Write(phase[tgt], status[prev], o)
    BY <1>8 DEF copyPreviousClusterStatus
  <2>2. PICK st, p : st = status[prev] /\ p = phase[tgt]
    OBVIOUS
  <2> QED
    BY <2>1, <2>2, WriteIsQueueStep
<1> QED
  BY <1>1, <1>2, <1>3, <1>4, <1>5, <1>6, <1>7, <1>8 DEF Next, robin, CycleNext

\* Standalone deployments implement the queue of module ConfigQueue too: configs
\* are carried out strictly one after the other, and none is skipped.
THEOREM StandaloneImplementsQueue == Spec => QueueSpec
<1>1. Init => Queue!Init
  <2> SUFFICES ASSUME Init PROVE Queue!Init
    OBVIOUS
  <2>1. (CHOOSE s \in Specs : TRUE) \in Specs
    BY ConstantsAssumption
  <2> QED
    BY <2>1 DEF Init, CycleInit, Queue!Init, Queue!Ids, Ids
<1>2. IInv /\ [Next]_vars => [Queue!Next]_(Queue!vars)
  BY StepIsQueueStep
<1> QED
  BY <1>1, <1>2, InvariantHolds, PTL DEF Spec, QueueSpec, Queue!Spec
=============================================================================
