-------------------------- MODULE LifecycleProofs --------------------------
(***************************************************************************)
(* Proofs about Lifecycle for every set of specs and changes, clusters of  *)
(* any size, and any number of configs and faults.                         *)
(***************************************************************************)
EXTENDS Lifecycle, ConfigSelectionProofs

(***************************************************************************)
(* What the operators of the model return.                                 *)
(***************************************************************************)

\* The smaller and the greater of two numbers, which the handlers cap sizes with.
LEMMA MinOfTwo ==
  ASSUME NEW a \in Int, NEW b \in Int
  PROVE  Min({a, b}) = IF a <= b THEN a ELSE b
<1> DEFINE m == IF a <= b THEN a ELSE b
<1>1. m \in {a, b} /\ \A y \in {a, b} : m <= y
  OBVIOUS
<1>2. \A x \in {a, b} : (\A y \in {a, b} : x <= y) => x = m
  OBVIOUS
<1> QED
  BY <1>1, <1>2 DEF Min

\* A number, or zero instead of a negative one.
LEMMA MaxWithZero ==
  ASSUME NEW a \in Int
  PROVE  Max({0, a}) = IF a >= 0 THEN a ELSE 0
<1> DEFINE m == IF a >= 0 THEN a ELSE 0
<1>1. m \in {0, a} /\ \A y \in {0, a} : m >= y
  OBVIOUS
<1>2. \A x \in {0, a} : (\A y \in {0, a} : x >= y) => x = m
  OBVIOUS
<1> QED
  BY <1>1, <1>2 DEF Max

\* The nodes a spec asks for are its primaries and their replicas.
LEMMA SizeFacts ==
  ASSUME NEW s \in Specs
  PROVE  /\ s.primaries \in Nat /\ s.replicas \in Nat
         /\ Total(s) \in Nat
         /\ Layout(s) \in [primaries : Nat, replicas : Nat]
         /\ Layout(s).primaries = s.primaries
         /\ Total(s) = Layout(s).primaries + Layout(s).replicas
         /\ s.primaries = 0 => Total(s) = 0 /\ Layout(s) = NotFormed
         /\ s.primaries # 0 => Total(s) > 0
         /\ s.replicas = 0 => Layout(s).replicas = 0
<1>1. s.primaries \in Nat /\ s.replicas \in Nat
  BY ConstantsAssumption
<1>2. PICK p \in Nat, r \in Nat : p = s.primaries /\ r = s.replicas
  BY <1>1
<1>3. p * r \in Nat /\ (p = 0 => p * r = 0) /\ (r = 0 => p * r = 0)
  BY <1>1, <1>2
<1> QED
  BY <1>1, <1>2, <1>3 DEF Total, Layout, NotFormed

\* Which status a change leads to says what has changed.
LEMMA TransitionFacts ==
  ASSUME NEW a \in Specs, NEW b \in Specs
  PROVE  LET st == DetermineStatusTransition(DetectChanges(a, b))
             sameSize == a.primaries = b.primaries /\ a.replicas = b.replicas
         IN  /\ st \in {"None", "ScalingUp", "ScalingDown", "ScalingToZero", "Upgrading"}
             /\ st = "None" => sameSize /\ Template(a) = Template(b)
             /\ st \in {"ScalingUp", "ScalingDown"} => b.primaries # 0 /\ ~sameSize
             /\ st = "ScalingToZero" => b.primaries = 0
             /\ st = "Upgrading" => sameSize
<1>1. /\ a.primaries \in Nat /\ a.replicas \in Nat
      /\ b.primaries \in Nat /\ b.replicas \in Nat
  BY ConstantsAssumption
<1>2. PICK ap \in Nat, ar \in Nat, bp \in Nat, br \in Nat :
        ap = a.primaries /\ ar = a.replicas /\ bp = b.primaries /\ br = b.replicas
  BY <1>1
<1> DEFINE d == determineScaleDirection(a, b)
<1>3. /\ d \in {"ScaleToZero", "ScaleUp", "ScaleDown", "NoScale"}
      /\ d = "ScaleToZero" <=> bp = 0
      /\ d = "NoScale" => ap = bp /\ ar = br
  BY <1>2 DEF determineScaleDirection
<1>4. ~detectKubernetesChanges(a, b) /\ ~detectRedisConfigChanges(a, b)
        => Template(a) = Template(b)
  BY DEF detectKubernetesChanges, detectRedisConfigChanges, Template
<1> HIDE DEF d
<1> QED
  BY <1>2, <1>3, <1>4
     DEF DetermineStatusTransition, DetectChanges, HasAnyChange,
         RequiresClusterOperation, OnlyRobinChanges, d

(***************************************************************************)
(* The configs: every step keeps phases, statuses and target together.     *)
(***************************************************************************)

\* The config before the target is the last one that was Applied.
LEMMA PrevIsBefore ==
  ASSUME CycleInv, pc # "idle"
  PROVE  /\ prev = tgt - 1 /\ tgt \in 1..n /\ n \in Nat /\ n <= MaxConfigs
         /\ tgt \in Ids /\ (tgt > 1 => tgt - 1 \in Ids /\ phase[tgt - 1] = "Applied")
<1>1. tgt \in 1..n /\ \A j \in 1..(tgt - 1) : phase[j] = "Applied"
  BY DEF CycleInv, TargetFits
<1>2. n \in Nat /\ n <= MaxConfigs
  BY ConstantsAssumption DEF CycleInv, CycleTypeOK
<1>3. PICK ph : ph = phase
  OBVIOUS
<1>4. PICK t \in Nat : t = tgt
  BY <1>1, <1>2
<1>5. lastAppliedBefore(ph, t) = t - 1
  <2>1. \A j \in 1..(t - 1) : ph[j] = "Applied"
    BY <1>1, <1>3, <1>4
  <2>2. LET a == lastAppliedBefore(ph, t)
        IN  \/ /\ a = None
               /\ \A j \in 1..(t - 1) : ph[j] # "Applied"
            \/ /\ a \in 1..(t - 1)
               /\ ph[a] = "Applied"
               /\ \A j \in (a + 1)..(t - 1) : ph[j] # "Applied"
    BY LastAppliedBefore, Zenon
  <2>3. t \in Nat \ {0}
    BY <1>1, <1>2, <1>4
  <2> QED
    BY <2>1, <2>2, <2>3 DEF None
<1>6. tgt \in Ids /\ (tgt > 1 => tgt - 1 \in Ids /\ phase[tgt - 1] = "Applied")
  BY <1>1, <1>2, ConstantsAssumption DEF Ids
<1> QED
  BY <1>1, <1>2, <1>3, <1>4, <1>5, <1>6 DEF prev

\* A handler of an operation works on a config in progress; so does handleNew.
LEMMA HandlerFacts ==
  ASSUME CycleInv, pc = "cluster",
         status[tgt] \notin {"None", "Ready"} \/ (status[tgt] = "None" /\ prev = None)
  PROVE  phase[tgt] = "InProgress" /\ (status[tgt] = "None" => tgt = 1)
<1>1. /\ prev = tgt - 1 /\ tgt \in Ids /\ tgt \in Nat
  BY PrevIsBefore, ConstantsAssumption DEF Ids
<1> QED
  BY <1>1 DEF CycleInv, TargetFits, StatusFits, None

\* Giving a cycle up, for whatever reason, leaves everything as it is stored.
LEMMA StopKeepsCycle ==
  ASSUME CycleInv, UNCHANGED configs, Return \/ UNCHANGED <<pc, tgt>>,
         faults' \in 0..MaxFaults
  PROVE  CycleInv'
<1> USE DEF CycleInv, configs, Return
<1>1. n \in Nat
  BY ConstantsAssumption DEF CycleTypeOK
<1>2. CycleTypeOK'
  BY <1>1 DEF CycleTypeOK, None
<1>3. InOrder' /\ StatusFits'
  BY DEF InOrder, StatusFits
<1>4. TargetFits'
  BY DEF TargetFits, IsCurrent
<1> QED
  BY <1>2, <1>3, <1>4

\* A write of the status, or of the phase Applied, in the middle of a config.
LEMMA WriteKeepsCycle ==
  ASSUME CycleInv, pc # "idle", phase[tgt] = "InProgress",
         NEW st \in Statuses, NEW p \in {"InProgress", "Applied"}, NEW o \in Outcomes,
         NEW next \in {"idle", "cluster", "applying"},
         p = "Applied" => st = "Ready" /\ next = "idle",
         next = "applying" => st = "Ready",
         Write(p, st, o), Continue(o, next)
  PROVE  CycleInv'
<1>1. /\ tgt \in 1..n /\ n \in Nat /\ n <= MaxConfigs /\ tgt \in Ids
  BY PrevIsBefore
<1> USE DEF CycleInv
<1>2. /\ n' = n /\ spec' = spec
      /\ \A i \in Ids : i # tgt => phase'[i] = phase[i] /\ status'[i] = status[i]
      /\ \/ phase'[tgt] = "InProgress" /\ status'[tgt] = status[tgt]
         \/ phase'[tgt] = p /\ status'[tgt] = st
  BY <1>1 DEF CycleTypeOK, Write, Outcomes
<1>3. \/ pc' = "idle" /\ tgt' = None
      \/ o = "ok" /\ pc' = next /\ tgt' = tgt /\ phase'[tgt] = p /\ status'[tgt] = st
  BY <1>1 DEF CycleTypeOK, Write, Continue, Return, Outcomes
<1>4. CycleTypeOK'
  BY <1>1, ConstantsAssumption
     DEF CycleTypeOK, None, Write, Continue, Return, Outcomes
<1>5. \A j \in 1..(tgt - 1) : j \in Ids /\ j # tgt /\ phase[j] = "Applied"
  BY <1>1, ConstantsAssumption DEF TargetFits, Ids
<1>6. InOrder'
  <2>1. \A i \in Ids : phase'[i] = "Unset" <=> i > n
    BY <1>1, <1>2 DEF InOrder
  <2>2. ASSUME NEW i \in Ids, phase'[i] \in {"InProgress", "Applied"},
               NEW j \in 1..(i - 1)
        PROVE  phase'[j] = "Applied"
    <3>1. i <= tgt
      <4> SUFFICES ASSUME i > tgt PROVE FALSE
        BY <1>1 DEF Ids
      <4>1. phase[i] \in {"InProgress", "Applied"} /\ tgt \in 1..(i - 1)
        BY <1>1, <1>2, <2>2 DEF Ids
      <4> QED
        BY <4>1 DEF InOrder
    <3>2. j \in 1..(tgt - 1)
      BY <1>1, <3>1 DEF Ids
    <3> QED
      BY <1>2, <1>5, <3>2
  <2> QED
    BY <1>2, <2>1, <2>2 DEF InOrder
<1>7. StatusFits'
  BY <1>1, <1>2 DEF StatusFits, NothingToDo
<1>8. TargetFits'
  <2>1. CASE pc' = "idle"
    BY <2>1 DEF TargetFits
  <2>2. CASE pc' = next /\ tgt' = tgt /\ phase'[tgt] = p /\ status'[tgt] = st
    BY <1>1, <1>2, <1>5, <2>2 DEF TargetFits
  <2> QED
    BY <1>3, <2>1, <2>2
<1> QED
  BY <1>4, <1>6, <1>7, <1>8

\* A new config waits: nothing is decided about the others.
LEMMA CreateKeepsCycle ==
  ASSUME CycleInv, NEW s \in Specs, OperatorCreates(s)
  PROVE  CycleInv'
<1> USE ConstantsAssumption DEF CycleInv, OperatorCreates, cycle
<1>1. n \in Nat /\ n + 1 \in Ids
  BY DEF CycleTypeOK, Ids
<1>2. CycleTypeOK'
  BY <1>1 DEF CycleTypeOK
<1>3. InOrder'
  BY <1>1 DEF CycleTypeOK, InOrder, Ids
<1>4. StatusFits'
  <2>1. \A i \in 2..(n + 1) : <<spec'[i - 1], spec'[i]>> \in Changes
    <3> SUFFICES ASSUME NEW i \in 2..(n + 1) PROVE <<spec'[i - 1], spec'[i]>> \in Changes
      OBVIOUS
    <3>1. CASE i = n + 1
      <4>1. n > 0 /\ i - 1 = n /\ spec'[i] = s /\ spec'[n] = spec[n]
        BY <1>1, <3>1 DEF CycleTypeOK, Ids
      <4> QED
        BY <4>1
    <3>2. CASE i # n + 1
      BY <1>1, <3>2 DEF CycleTypeOK, Ids, StatusFits
    <3> QED
      BY <3>1, <3>2
  <2>2. \A i \in Ids : phase[i] = "Applied" => i <= n
    BY <1>1 DEF InOrder, Ids
  <2>3. phase[n + 1] = "Unset"
    BY <1>1 DEF InOrder, Ids
  <2>4. ASSUME NEW i \in Ids
        PROVE  (/\ phase[i] \in {"Unset", "Pending"} => status[i] = "None"
                /\ phase[i] = "Applied" => status[i] \in {"None", "Ready"}
                /\ phase[i] = "Applied" /\ status[i] = "None" =>
                     i > 1 /\ NothingToDo(spec[i - 1], spec[i]))'
    <3>1. CASE i = n + 1
      BY <1>1, <2>3, <3>1 DEF CycleTypeOK, StatusFits
    <3>2. CASE i # n + 1
      <4>1. phase'[i] = phase[i] /\ status'[i] = status[i] /\ spec'[i] = spec[i]
        BY <1>1, <3>2 DEF CycleTypeOK
      <4>2. phase[i] = "Applied" => i - 1 # n + 1 /\ spec'[i - 1] = spec[i - 1]
        BY <1>1, <2>2, <3>2 DEF CycleTypeOK, Ids
      <4> QED
        BY <4>1, <4>2 DEF StatusFits, NothingToDo
    <3> QED
      BY <3>1, <3>2
  <2> QED
    BY <2>1, <2>4 DEF StatusFits
<1>5. TargetFits'
  <2>1. pc # "idle" => /\ tgt \in 1..n /\ tgt # n + 1 /\ tgt - 1 # n + 1
                       /\ phase'[tgt] = phase[tgt] /\ spec'[tgt] = spec[tgt]
                       /\ spec'[tgt - 1] = spec[tgt - 1]
                       /\ \A j \in 1..(tgt - 1) : phase'[j] = phase[j]
    BY <1>1 DEF CycleTypeOK, TargetFits, Ids
  <2>2. ASSUME pc = "cluster", IsCurrent(tgt) PROVE IsCurrent(tgt)'
    <3>1. \A j \in (tgt + 1)..(n + 1) : phase'[j] = "Pending"
      BY <1>1, <2>1, <2>2 DEF CycleTypeOK, IsCurrent, Ids
    <3> QED
      BY <1>1, <2>1, <2>2, <3>1 DEF IsCurrent
  <2>3. (pc = "cluster" /\ phase[tgt] = "Applied" => IsCurrent(tgt))'
    BY <2>1, <2>2 DEF TargetFits
  <2> QED
    BY <1>1, <2>1, <2>3 DEF TargetFits, NothingToDo
<1> QED
  BY <1>2, <1>3, <1>4, <1>5

\* Choosing a config: the oldest that is not Applied, or the last one.
LEMMA ReconcileKeepsCycle ==
  ASSUME CycleInv, reconcile
  PROVE  /\ CycleInv'
         /\ UNCHANGED <<configs, faults>>
         /\ pc' \in {"starting", "cluster"}
<1> USE DEF CycleInv
<1>1. n \in Nat /\ n # 0 /\ n <= MaxConfigs /\ 1..n \subseteq Ids
  BY ConstantsAssumption DEF CycleTypeOK, reconcile, Ids
<1>2. /\ UNCHANGED <<configs, faults>> /\ tgt' = SelectConfig(phase, n)
      /\ pc' = IF phase[tgt'] = "Pending" THEN "starting" ELSE "cluster"
  BY DEF reconcile
<1>3. PICK m \in Nat \ {0} : \E ph : ph = phase /\ m = n
  BY <1>1
<1> PICK ph : ph = phase /\ m = n
  BY <1>3
<1>4. LET s == SelectConfig(ph, m)
      IN  /\ s \in 1..m
          /\ \/ /\ ph[s] \notin Terminal
                /\ \A j \in 1..(s - 1) : ph[j] \in Terminal
             \/ ph[s] = "Applied"
             \/ s = m /\ ph[s] \in Terminal
  BY SelectConfigIsHead, Zenon
<1>5. /\ tgt' \in 1..n
      /\ \/ phase[tgt'] \notin Terminal /\ \A j \in 1..(tgt' - 1) : phase[j] \in Terminal
         \/ phase[tgt'] \in Terminal
  BY <1>2, <1>4 DEF Terminal
<1>6. \A j \in 1..n : /\ phase[j] \in {"Pending", "InProgress", "Applied"}
                      /\ phase[j] = "Applied" => \A k \in 1..(j - 1) : phase[k] = "Applied"
  <2>1. ASSUME NEW j \in 1..n PROVE j \in Ids /\ ~(j > n)
    BY <1>1
  <2> QED
    BY <2>1 DEF CycleTypeOK, InOrder
<1>7. \A j \in 1..(tgt' - 1) : j \in 1..n /\ phase[j] = "Applied"
  <2>1. PICK t \in 1..n : t = tgt'
    BY <1>5
  <2>2. \A j \in 1..(t - 1) : j \in 1..n
    BY <1>1
  <2>3. \A j \in 1..(t - 1) : phase[j] = "Applied"
    BY <1>5, <1>6, <2>1, <2>2 DEF Terminal
  <2> QED
    BY <2>1, <2>2, <2>3
<1>8. CycleTypeOK'
  BY <1>1, <1>2, <1>5 DEF CycleTypeOK, configs
<1>9. InOrder' /\ StatusFits'
  BY <1>2 DEF InOrder, StatusFits, configs
<1>10. ASSUME phase[tgt'] = "Applied" PROVE IsCurrent(tgt)'
  <2>1. ph[SelectConfig(ph, m)] \in Terminal
    BY <1>2, <1>10 DEF Terminal
  <2>2. /\ \A j \in 1..m : ph[j] \in Terminal
        /\ \A j \in (SelectConfig(ph, m) + 1)..m : ph[j] # "Applied"
    BY <2>1, SelectConfigRests, Zenon
  <2>3. \A j \in (tgt' + 1)..n : phase[j] \in Terminal /\ phase[j] # "Applied" /\ j \in 1..n
    BY <1>1, <1>2, <1>5, <2>2
  <2>4. \A j \in (tgt' + 1)..n : FALSE
    BY <1>6, <2>3 DEF Terminal
  <2> QED
    BY <1>2, <1>5, <1>10, <2>4 DEF IsCurrent, configs
<1>11. TargetFits'
  BY <1>2, <1>5, <1>6, <1>7, <1>10 DEF TargetFits, configs
<1> QED
  BY <1>2, <1>8, <1>9, <1>11

\* Starting a config, which is the oldest that is not Applied.
LEMMA StartKeepsCycle ==
  ASSUME CycleInv, NEW o \in Outcomes, setConfigPhaseInProgress(o)
  PROVE  CycleInv'
<1>1. /\ prev = tgt - 1 /\ tgt \in 1..n /\ n \in Nat /\ n <= MaxConfigs /\ tgt \in Ids
      /\ pc = "starting"
  BY PrevIsBefore DEF setConfigPhaseInProgress
<1> USE DEF CycleInv
<1>2. phase[tgt] = "Pending" /\ status[tgt] = "None"
  BY <1>1 DEF TargetFits, StatusFits
<1>3. /\ n' = n /\ spec' = spec
      /\ \A i \in Ids : status'[i] = status[i] /\ (i # tgt => phase'[i] = phase[i])
      /\ phase'[tgt] \in {"Pending", "InProgress"}
      /\ pc' # "idle" => phase'[tgt] = "InProgress"
      /\ \/ pc' = "idle" /\ tgt' = None
         \/ pc' = "cluster" /\ tgt' = tgt
         \/ pc' = "copying" /\ tgt' = tgt /\ tgt > 1
      /\ faults' \in 0..MaxFaults
  BY <1>1, <1>2, ConstantsAssumption
     DEF setConfigPhaseInProgress, Write, Continue, Return, Outcomes, CycleTypeOK, None
<1>4. CycleTypeOK'
  BY <1>1, <1>3, ConstantsAssumption
     DEF CycleTypeOK, None, setConfigPhaseInProgress, Write
<1>5. \A j \in 1..(tgt - 1) : j \in Ids /\ j # tgt /\ phase[j] = "Applied"
  BY <1>1, ConstantsAssumption DEF TargetFits, Ids
<1>6. InOrder'
  <2>1. \A i \in Ids : phase'[i] = "Unset" <=> i > n
    BY <1>1, <1>2, <1>3 DEF InOrder
  <2>2. ASSUME NEW i \in Ids, phase'[i] \in {"InProgress", "Applied"},
               NEW j \in 1..(i - 1)
        PROVE  phase'[j] = "Applied"
    <3>1. i <= tgt
      <4> SUFFICES ASSUME i > tgt PROVE FALSE
        BY <1>1 DEF Ids
      <4>1. phase[i] \in {"InProgress", "Applied"} /\ tgt \in 1..(i - 1)
        BY <1>1, <1>3, <2>2 DEF Ids
      <4> QED
        BY <1>2, <4>1 DEF InOrder
    <3>2. j \in 1..(tgt - 1)
      BY <1>1, <3>1 DEF Ids
    <3> QED
      BY <1>3, <1>5, <3>2
  <2> QED
    BY <1>3, <2>1, <2>2 DEF InOrder
<1>7. StatusFits'
  BY <1>1, <1>2, <1>3 DEF StatusFits
<1>8. TargetFits'
  BY <1>1, <1>2, <1>3, <1>5 DEF TargetFits
<1> QED
  BY <1>4, <1>6, <1>7, <1>8

\* Handing the status on: that of an Applied config is None or Ready.
LEMMA CopyKeepsCycle ==
  ASSUME CycleInv, NEW o \in Outcomes, copyPreviousClusterStatus(o)
  PROVE  CycleInv'
<1>1. /\ prev = tgt - 1 /\ tgt \in 1..n /\ n \in Nat /\ n <= MaxConfigs /\ tgt \in Ids
      /\ pc = "copying" /\ (tgt > 1 => tgt - 1 \in Ids /\ phase[tgt - 1] = "Applied")
  BY PrevIsBefore DEF copyPreviousClusterStatus
<1> USE DEF CycleInv
<1>2. /\ phase[tgt] = "InProgress" /\ status[tgt] = "None" /\ tgt > 1
      /\ status[prev] \in {"None", "Ready"}
  BY <1>1 DEF TargetFits, StatusFits
<1>3. /\ n' = n /\ spec' = spec
      /\ \A i \in Ids : phase'[i] = phase[i] /\ (i # tgt => status'[i] = status[i])
      /\ status'[tgt] \in {"None", "Ready"}
      /\ \/ pc' = "idle" /\ tgt' = None
         \/ pc' = "changing" /\ tgt' = tgt
      /\ faults' \in 0..MaxFaults
  BY <1>1, <1>2, ConstantsAssumption
     DEF copyPreviousClusterStatus, Write, Continue, Return, Outcomes, CycleTypeOK, None
<1>4. CycleTypeOK'
  BY <1>1, <1>2, <1>3, ConstantsAssumption
     DEF CycleTypeOK, None, Statuses, copyPreviousClusterStatus, Write
<1>5. \A i \in Ids : \A j \in 1..(i - 1) : j \in Ids
  BY ConstantsAssumption DEF Ids
<1>6. InOrder'
  BY <1>1, <1>3, <1>5 DEF InOrder
<1>7. StatusFits'
  BY <1>1, <1>2, <1>3 DEF StatusFits
<1>8. TargetFits'
  BY <1>1, <1>2, <1>3, <1>5 DEF TargetFits
<1> QED
  BY <1>4, <1>6, <1>7, <1>8

\* What is known where handleConfigChange is called: the target follows an
\* Applied config, and only one that changes nothing is Applied itself.
LEMMA ConfigChangeFacts ==
  ASSUME CycleInv, AtConfigChange
  PROVE  /\ pc \in {"changing", "cluster"}
         /\ prev = tgt - 1 /\ tgt > 1 /\ tgt \in 1..n /\ n \in Nat
         /\ tgt \in Ids /\ tgt - 1 \in Ids /\ phase[tgt - 1] = "Applied"
         /\ status[tgt] \in {"None", "Ready"} /\ status[tgt - 1] \in {"None", "Ready"}
         /\ pc = "cluster" => status[tgt] = "None"
         /\ \/ phase[tgt] = "InProgress"
            \/ phase[tgt] = "Applied" /\ NothingToDo(spec[tgt - 1], spec[tgt])
         /\ spec[tgt - 1] \in Specs /\ spec[tgt] \in Specs
         /\ <<spec[tgt - 1], spec[tgt]>> \in Changes
         /\ report = DetectChanges(spec[tgt - 1], spec[tgt])
<1>1. pc \in {"changing", "cluster"}
  BY DEF AtConfigChange
<1>2. /\ prev = tgt - 1 /\ tgt \in 1..n /\ n \in Nat /\ tgt \in Ids
      /\ (tgt > 1 => tgt - 1 \in Ids /\ phase[tgt - 1] = "Applied")
  BY <1>1, PrevIsBefore
<1>3. tgt > 1
  BY <1>2 DEF AtConfigChange, CycleInv, TargetFits, None
<1>4. report = DetectChanges(spec[tgt - 1], spec[tgt])
  BY <1>2 DEF report, want
<1>5. status[tgt] \in {"None", "Ready"} /\ (pc = "cluster" => status[tgt] = "None")
  BY DEF AtConfigChange, CycleInv, TargetFits
<1>6. spec[tgt - 1] \in Specs /\ spec[tgt] \in Specs
  BY <1>2, <1>3 DEF CycleInv, CycleTypeOK
<1>7. <<spec[tgt - 1], spec[tgt]>> \in Changes /\ status[tgt - 1] \in {"None", "Ready"}
  BY <1>2, <1>3 DEF CycleInv, StatusFits
<1>8. \/ phase[tgt] = "InProgress"
      \/ phase[tgt] = "Applied" /\ NothingToDo(spec[tgt - 1], spec[tgt])
  BY <1>1, <1>2, <1>3 DEF AtConfigChange, CycleInv, StatusFits, TargetFits
<1> QED
  BY <1>1, <1>2, <1>3, <1>4, <1>5, <1>6, <1>7, <1>8

\* What handleConfigChange writes: the status the change calls for, or Applied.
LEMMA ConfigChangeWrites ==
  ASSUME CycleInv, NEW o \in Outcomes, handleConfigChange(o)
  PROVE  LET st == DetermineStatusTransition(DetectChanges(spec[tgt - 1], spec[tgt]))
         IN  \/ /\ st \in {"ScalingUp", "ScalingDown", "ScalingToZero", "Upgrading"}
                /\ phase[tgt] = "InProgress"
                /\ Write("InProgress", st, o)
                /\ Continue(o, "cluster") \/ Continue(o, "idle")
             \/ /\ st = "None"
                /\ Write("Applied", status[tgt], o)
                /\ Continue(o, "restoring") \/ Continue(o, "idle")
<1> DEFINE st == DetermineStatusTransition(DetectChanges(spec[tgt - 1], spec[tgt]))
<1>1. /\ report = DetectChanges(spec[tgt - 1], spec[tgt])
      /\ spec[tgt - 1] \in Specs /\ spec[tgt] \in Specs
      /\ phase[tgt] = "InProgress" \/ NothingToDo(spec[tgt - 1], spec[tgt])
  BY ConfigChangeFacts DEF handleConfigChange
<1>2. st \in {"None", "ScalingUp", "ScalingDown", "ScalingToZero", "Upgrading"}
  BY <1>1, TransitionFacts
<1>3. /\ st # "None" => phase[tgt] = "InProgress"
      /\ IF st # "None"
         THEN /\ Write(phase[tgt], st, o)
              /\ Continue(o, IF pc = "changing" THEN "cluster" ELSE "idle")
         ELSE /\ Write("Applied", status[tgt], o)
              /\ Continue(o, IF status[tgt] # status[prev] THEN "restoring" ELSE "idle")
  BY <1>1 DEF handleConfigChange, NothingToDo
<1> HIDE DEF st
<1>4. CASE st # "None"
  <2>1. Write("InProgress", st, o)
    BY <1>3, <1>4
  <2>2. Continue(o, "cluster") \/ Continue(o, "idle")
    BY <1>3, <1>4
  <2> QED
    BY <1>2, <1>3, <1>4, <2>1, <2>2 DEF st
<1>5. CASE st = "None"
  <2>1. Continue(o, "restoring") \/ Continue(o, "idle")
    BY <1>3, <1>5
  <2> QED
    BY <1>3, <1>5, <2>1 DEF st
<1> QED
  BY <1>4, <1>5

\* A change leads to an operation, or the config is Applied at once.
LEMMA ConfigChangeKeepsCycle ==
  ASSUME CycleInv, NEW o \in Outcomes, handleConfigChange(o)
  PROVE  CycleInv'
<1> DEFINE nst == DetermineStatusTransition(DetectChanges(spec[tgt - 1], spec[tgt]))
<1>1. /\ pc \in {"changing", "cluster"}
      /\ prev = tgt - 1 /\ tgt > 1 /\ tgt \in 1..n /\ n \in Nat
      /\ tgt \in Ids /\ tgt - 1 \in Ids
      /\ status[tgt] \in {"None", "Ready"} /\ status[tgt - 1] \in {"None", "Ready"}
      /\ phase[tgt] \in {"InProgress", "Applied"}
  BY ConfigChangeFacts DEF handleConfigChange
<1>2. \/ /\ nst \in {"ScalingUp", "ScalingDown", "ScalingToZero", "Upgrading"}
         /\ phase[tgt] = "InProgress"
         /\ Write("InProgress", nst, o)
         /\ Continue(o, "cluster") \/ Continue(o, "idle")
      \/ /\ nst = "None"
         /\ Write("Applied", status[tgt], o)
         /\ Continue(o, "restoring") \/ Continue(o, "idle")
  BY ConfigChangeWrites
<1>3. nst = "None" <=> NothingToDo(spec[tgt - 1], spec[tgt])
  BY DEF NothingToDo
<1> HIDE DEF nst
<1>4. CASE nst # "None"
  <2>1. PICK st \in Statuses : st = nst
    BY <1>2, <1>4 DEF Statuses
  <2>2. Write("InProgress", st, o)
    BY <1>2, <1>4, <2>1
  <2>3. PICK next \in {"idle", "cluster", "applying"} :
          next # "applying" /\ Continue(o, next)
    BY <1>2, <1>4
  <2> QED
    BY <1>1, <1>2, <1>4, <2>2, <2>3, WriteKeepsCycle
<1>5. CASE nst = "None"
  <2> USE DEF CycleInv
  <2>1. Write("Applied", status[tgt], o)
    BY <1>2, <1>5
  <2>2. /\ n' = n /\ spec' = spec /\ faults' \in 0..MaxFaults
        /\ \A i \in Ids : status'[i] = status[i] /\ (i # tgt => phase'[i] = phase[i])
        /\ phase'[tgt] \in {phase[tgt], "Applied"}
    BY <1>1, <2>1, ConstantsAssumption DEF Write, CycleTypeOK
  <2>3. \/ pc' = "idle" /\ tgt' = None
        \/ pc' = "restoring" /\ tgt' = tgt /\ phase'[tgt] = "Applied"
    BY <1>1, <1>2, <1>5, <2>1 DEF Continue, Return, Write, CycleTypeOK
  <2>4. CycleTypeOK'
    BY <1>1, <2>1, <2>2, <2>3, ConstantsAssumption DEF CycleTypeOK, None, Write
  <2>5. \A j \in 1..(tgt - 1) : j \in Ids /\ j # tgt /\ phase[j] = "Applied"
    BY <1>1, ConstantsAssumption DEF TargetFits, Ids
  <2>6. InOrder'
    <3>1. \A i \in Ids : phase'[i] = "Unset" <=> i > n
      BY <1>1, <2>2 DEF InOrder
    <3>2. ASSUME NEW i \in Ids, phase'[i] \in {"InProgress", "Applied"},
                 NEW j \in 1..(i - 1)
          PROVE  phase'[j] = "Applied"
      <4>1. CASE i <= tgt
        <5>1. j \in 1..(tgt - 1)
          BY <1>1, <4>1 DEF Ids
        <5> QED
          BY <2>2, <2>5, <5>1
      <4>2. CASE i > tgt
        <5>1. /\ phase[i] \in {"InProgress", "Applied"} /\ tgt \in 1..(i - 1)
              /\ j \in Ids
          BY <1>1, <2>2, <3>2, <4>2, ConstantsAssumption DEF Ids
        <5>2. phase[tgt] = "Applied" /\ phase[j] = "Applied"
          BY <5>1 DEF InOrder
        <5> QED
          BY <2>2, <5>1, <5>2
      <4> QED
        BY <1>1, <4>1, <4>2 DEF Ids
    <3> QED
      BY <2>2, <3>1, <3>2 DEF InOrder
  <2>7. StatusFits'
    BY <1>1, <1>3, <1>5, <2>2 DEF StatusFits
  <2>8. TargetFits'
    BY <1>1, <1>3, <1>5, <2>2, <2>3, <2>5 DEF TargetFits
  <2> QED
    BY <2>4, <2>6, <2>7, <2>8
<1> QED
  BY <1>4, <1>5

\* The status of the config before, which is None or Ready.
LEMMA RestoreKeepsCycle ==
  ASSUME CycleInv, NEW o \in Outcomes, restorePreviousStatus(o)
  PROVE  CycleInv'
<1>1. /\ prev = tgt - 1 /\ tgt \in 1..n /\ n \in Nat /\ n <= MaxConfigs /\ tgt \in Ids
      /\ pc = "restoring" /\ (tgt > 1 => tgt - 1 \in Ids /\ phase[tgt - 1] = "Applied")
  BY PrevIsBefore DEF restorePreviousStatus
<1> USE DEF CycleInv
<1>2. /\ phase[tgt] = "Applied" /\ tgt > 1
      /\ NothingToDo(spec[tgt - 1], spec[tgt])
      /\ status[prev] \in {"None", "Ready"} /\ status[tgt] \in {"None", "Ready"}
  BY <1>1 DEF TargetFits, StatusFits
<1>3. /\ n' = n /\ spec' = spec
      /\ \A i \in Ids : phase'[i] = phase[i] /\ (i # tgt => status'[i] = status[i])
      /\ status'[tgt] \in {"None", "Ready"}
      /\ pc' = "idle" /\ tgt' = None
      /\ faults' \in 0..MaxFaults
  BY <1>1, <1>2, ConstantsAssumption
     DEF restorePreviousStatus, Write, Return, Outcomes, CycleTypeOK
<1>4. CycleTypeOK'
  BY <1>1, <1>2, <1>3, ConstantsAssumption
     DEF CycleTypeOK, None, Statuses, restorePreviousStatus, Write
<1>5. \A i \in Ids : \A j \in 1..(i - 1) : j \in Ids
  BY ConstantsAssumption DEF Ids
<1>6. InOrder'
  BY <1>1, <1>3, <1>5 DEF InOrder
<1>7. StatusFits'
  BY <1>1, <1>2, <1>3 DEF StatusFits
<1>8. TargetFits'
  BY <1>3 DEF TargetFits
<1> QED
  BY <1>4, <1>6, <1>7, <1>8

\* What the handlers of ReconcileCluster do to the configs: nothing, or one
\* write for the config in progress, on which they work.
LEMMA HandlersWrite ==
  ASSUME CycleInv, handlers
  PROVE  \/ UNCHANGED configs /\ Return /\ faults' \in 0..MaxFaults
         \/ /\ pc = "cluster" /\ phase[tgt] = "InProgress"
            /\ \E o \in Outcomes :
                 \/ Write("InProgress", "Ready", o) /\ Continue(o, "applying")
                 \/ /\ status[tgt] = "Ready"
                    /\ Write("Applied", "Ready", o) /\ Continue(o, "idle")
                 \/ \E st \in {"Initializing", "Configuring", "Upgrading"} :
                      Write("InProgress", st, o) /\ Continue(o, "idle")
<1>1. faults \in 0..MaxFaults /\ MaxFaults \in Nat
  BY ConstantsAssumption DEF CycleInv, CycleTypeOK
<1>2. ASSUME NEW o PROVE Return => Continue(o, "idle")
  BY DEF Continue
<1>3. ASSUME NEW o \in Outcomes, pc = "cluster", phase[tgt] = "InProgress", BecomeReady(o)
      PROVE  Write("InProgress", "Ready", o) /\ Continue(o, "applying")
  BY <1>3 DEF BecomeReady
<1>4. ASSUME NEW o \in Outcomes, handleNew(o)
      PROVE  /\ pc = "cluster" /\ phase[tgt] = "InProgress"
             /\ \/ BecomeReady(o)
                \/ Write("InProgress", "Initializing", o) /\ Return
  BY <1>4, HandlerFacts DEF handleNew, AtStatus
<1>5. ASSUME NEW o \in Outcomes, handleInitializing(o)
      PROVE  /\ pc = "cluster" /\ phase[tgt] = "InProgress"
             /\ Write("InProgress", "Configuring", o) /\ Return
  BY <1>5, HandlerFacts DEF handleInitializing, AtStatus
<1>6. ASSUME NEW o \in Outcomes,
             \/ handleConfiguring(o) \/ handleScalingUp(o) \/ handleScalingDown(o)
             \/ handleFastScaling(o) \/ handleScalingToZero(o)
             \/ handleUpgradeScalingDown(o) \/ handleFastUpgradeFormCluster(o)
      PROVE  pc = "cluster" /\ phase[tgt] = "InProgress" /\ BecomeReady(o)
  <2>1. pc = "cluster" /\ status[tgt] \notin {"None", "Ready"} /\ BecomeReady(o)
    BY <1>6
       DEF handleConfiguring, handleScalingUp, handleScalingDown, handleFastScaling,
           handleScalingToZero, handleUpgradeScalingDown, handleFastUpgradeFormCluster,
           AtStatus, AtFastScaling, AtSubstatus, BecomeReadyAgain
  <2> QED
    BY <2>1, HandlerFacts
<1>7. ASSUME NEW o \in Outcomes, handleReadyInProgress(o)
      PROVE  /\ pc = "cluster" /\ phase[tgt] = "InProgress" /\ status[tgt] = "Ready"
             /\ \/ Write("InProgress", "Upgrading", o)
                \/ Write("Applied", "Ready", o)
             /\ Return
  BY <1>7 DEF handleReadyInProgress, AtStatus
<1>8. ASSUME \/ handleReadyRemediates \/ handleScalingUpGrows
             \/ handleScalingDownShrinks \/ handleScalingDownResizes
             \/ handleFastScalingDeletes \/ handleFastScalingRecreates
             \/ handleUpgradeStart \/ handleUpgradeScalingUp
             \/ handleUpgradeRollingUpdate \/ handleUpgradeEnding
             \/ handleUpgradeScalingDownShrinks
             \/ handleFastUpgradeStart \/ handleFastUpgradeWaitReady
      PROVE  UNCHANGED configs /\ Return /\ faults' \in 0..MaxFaults
  <2>1. ASSUME \/ handleReadyRemediates \/ handleScalingUpGrows
               \/ handleScalingDownResizes \/ handleFastScalingDeletes
               \/ handleFastScalingRecreates \/ handleUpgradeScalingDownShrinks
        PROVE  UNCHANGED configs /\ Return /\ faults' = faults
    BY <2>1 DEF handleReadyRemediates, handleScalingUpGrows, handleScalingDownResizes,
                handleFastScalingDeletes, handleFastScalingRecreates,
                handleUpgradeScalingDownShrinks
  <2>2. ASSUME NEW ss, NEW p, updateSubstatus(ss, p) \/ stopsHalfway
        PROVE  faults' \in 0..MaxFaults
    BY <1>1, <2>2 DEF updateSubstatus, stopsHalfway
  <2>3. ASSUME \/ handleUpgradeStart \/ handleUpgradeScalingUp
               \/ handleUpgradeRollingUpdate \/ handleUpgradeEnding
               \/ handleFastUpgradeStart \/ handleFastUpgradeWaitReady
        PROVE  /\ UNCHANGED configs /\ Return
               /\ \E ss, p : updateSubstatus(ss, p) \/ stopsHalfway
    BY <2>3, Zenon
       DEF handleUpgradeStart, handleUpgradeScalingUp, handleUpgradeRollingUpdate,
           handleUpgradeEnding, handleFastUpgradeStart, handleFastUpgradeWaitReady
  <2>4. ASSUME handleScalingDownShrinks
        PROVE  UNCHANGED configs /\ Return /\ faults' \in 0..MaxFaults
    BY <1>1, <2>4 DEF handleScalingDownShrinks
  <2> QED
    BY <1>1, <1>8, <2>1, <2>2, <2>3, <2>4
<1>9. CASE \E o \in Outcomes :
             \/ handleNew(o) \/ handleInitializing(o) \/ handleConfiguring(o)
             \/ handleReadyInProgress(o)
             \/ handleScalingUp(o) \/ handleScalingDown(o) \/ handleFastScaling(o)
             \/ handleScalingToZero(o)
             \/ handleUpgradeScalingDown(o) \/ handleFastUpgradeFormCluster(o)
  BY <1>2, <1>3, <1>4, <1>5, <1>6, <1>7, <1>9
<1> QED
  BY <1>8, <1>9 DEF handlers

\* Every step of the system keeps the configs in order.
LEMMA NextCycleInv == CycleInv /\ [Next]_vars => CycleInv'
<1> SUFFICES ASSUME CycleInv, [Next]_vars PROVE CycleInv'
  OBVIOUS
<1>1. faults \in 0..MaxFaults /\ MaxFaults \in Nat
  BY ConstantsAssumption DEF CycleInv, CycleTypeOK
<1>2. ASSUME NEW s \in Specs, OperatorCreates(s) PROVE CycleInv'
  BY <1>2, CreateKeepsCycle
<1>3. ASSUME KubeStartsPod \/ KubeStopsPod \/ UNCHANGED vars PROVE CycleInv'
  BY <1>1, <1>3, StopKeepsCycle DEF KubeStartsPod, KubeStopsPod, vars, cycle
<1>4. ASSUME restart \/ applyAuthToAllNodesFails \/ handlerReturns \/ handleReadyApplied
      PROVE  CycleInv'
  BY <1>1, <1>4, StopKeepsCycle
     DEF restart, applyAuthToAllNodesFails, Fault, handlerReturns, handleReadyApplied
<1>5. ASSUME handlers PROVE CycleInv'
  <2>1. CASE UNCHANGED configs /\ Return /\ faults' \in 0..MaxFaults
    BY <2>1, StopKeepsCycle
  <2>2. CASE /\ pc = "cluster" /\ phase[tgt] = "InProgress"
             /\ \E o \in Outcomes :
                  \/ Write("InProgress", "Ready", o) /\ Continue(o, "applying")
                  \/ /\ status[tgt] = "Ready"
                     /\ Write("Applied", "Ready", o) /\ Continue(o, "idle")
                  \/ \E st \in {"Initializing", "Configuring", "Upgrading"} :
                       Write("InProgress", st, o) /\ Continue(o, "idle")
    <3>1. {"Ready", "Initializing", "Configuring", "Upgrading"} \subseteq Statuses
      BY DEF Statuses
    <3> QED
      BY <2>2, <3>1, WriteKeepsCycle
  <2> QED
    BY <1>5, <2>1, <2>2, HandlersWrite
<1>6. ASSUME NEW o \in Outcomes, setConfigPhaseApplied(o) PROVE CycleInv'
  <2>1. /\ pc = "applying" /\ phase[tgt] = "InProgress" /\ status[tgt] = "Ready"
        /\ Write("Applied", "Ready", o) /\ Continue(o, "idle")
    BY <1>6 DEF setConfigPhaseApplied, CycleInv, TargetFits, Continue
  <2> QED
    BY <2>1, WriteKeepsCycle DEF Statuses
<1>7. ASSUME CycleNext PROVE CycleInv'
  BY <1>4, <1>6, <1>7, ReconcileKeepsCycle, StartKeepsCycle, CopyKeepsCycle
     DEF CycleNext
<1>8. ASSUME robin PROVE CycleInv'
  BY <1>4, <1>5, <1>7, <1>8, ConfigChangeKeepsCycle, RestoreKeepsCycle DEF robin
<1> QED
  BY <1>2, <1>3, <1>4, <1>8 DEF Next

\* The empty API server.
LEMMA InitCycleInv == Init => CycleInv
<1> SUFFICES ASSUME Init PROVE CycleInv
  OBVIOUS
<1> USE ConstantsAssumption DEF Init, CycleInit, Ids, None
<1>1. CycleTypeOK
  <2>1. (CHOOSE s \in Specs : TRUE) \in Specs
    OBVIOUS
  <2> QED
    BY <2>1 DEF CycleTypeOK, Statuses
<1>2. InOrder /\ StatusFits /\ TargetFits
  BY DEF InOrder, StatusFits, TargetFits
<1> QED
  BY <1>1, <1>2 DEF CycleInv

\* Phases, statuses and the target of the running cycle stay together, whatever
\* writes fail and wherever the process is restarted.
THEOREM ConfigsInvariance == Spec => []CycleInv
  BY InitCycleInv, NextCycleInv, PTL DEF Spec

\* At most one operation on the cluster is open, for any number of configs of
\* any kind and any number of faults.
THEOREM OneOperation == Spec => []OneOperationAtATime
<1>1. CycleInv => OneOperationAtATime
  <2> SUFFICES ASSUME CycleInv, NEW i \in Ids, status[i] \notin {"None", "Ready"}
               PROVE  /\ phase[i] = "InProgress"
                      /\ \A j \in 1..(i - 1) : phase[j] = "Applied"
                      /\ \A j \in (i + 1)..n : phase[j] = "Pending"
    BY DEF OneOperationAtATime
  <2>1. phase[i] = "InProgress"
    BY DEF CycleInv, CycleTypeOK, StatusFits
  <2>2. \A j \in 1..(i - 1) : phase[j] = "Applied"
    BY <2>1 DEF CycleInv, InOrder
  <2>3. ASSUME NEW j \in (i + 1)..n PROVE phase[j] = "Pending"
    <3>1. j \in Ids /\ j <= n /\ i \in 1..(j - 1)
      BY ConstantsAssumption DEF CycleInv, CycleTypeOK, Ids
    <3> QED
      BY <2>1, <3>1 DEF CycleInv, CycleTypeOK, InOrder
  <2> QED
    BY <2>1, <2>2, <2>3
<1> QED
  BY <1>1, ConfigsInvariance, PTL

(***************************************************************************)
(* Refinement: seen from outside, the configs are the queue of ConfigQueue.*)
(***************************************************************************)

\* A write for the target is a step of the queue or invisible to it.
LEMMA WriteIsQueueStep ==
  ASSUME CycleInv, pc # "idle", NEW p, NEW st, NEW o \in Outcomes, Write(p, st, o),
         \/ p = phase[tgt]
         \/ phase[tgt] = "Pending" /\ p = "InProgress"
         \/ phase[tgt] = "InProgress" /\ p = "Applied"
  PROVE  [Queue!Next]_(Queue!vars)
<1> DEFINE q == [i \in Ids |-> IF phase[i] \in {"Unset", "Pending"}
                               THEN "Waiting" ELSE phase[i]]
<1>1. /\ tgt \in 1..n /\ tgt \in Ids /\ n \in Nat
      /\ phase \in [Ids -> {"Unset", "Pending", "InProgress", "Applied"}]
      /\ \A j \in 1..(tgt - 1) : j \in Ids /\ phase[j] = "Applied"
  BY PrevIsBefore, ConstantsAssumption DEF CycleInv, CycleTypeOK, TargetFits, Ids
<1>2. /\ UNCHANGED <<n, spec>>
      /\ phase' = phase \/ phase' = [phase EXCEPT ![tgt] = p]
  BY DEF Write
<1>3. q' = q => UNCHANGED Queue!vars
  BY <1>2 DEF Queue!vars
<1>4. CASE phase' = phase \/ p = phase[tgt]
  <2>1. q' = q
    BY <1>1, <1>2, <1>4
  <2> QED
    BY <1>3, <2>1
<1>5. CASE phase' = [phase EXCEPT ![tgt] = p] /\ p # phase[tgt]
  <2>1. q' = [q EXCEPT ![tgt] = p]
    BY <1>1, <1>5
  <2>2. Queue!IsHead(tgt)
    BY <1>1, <1>5 DEF Queue!IsHead, Queue!Resolved
  <2>3. PICK i \in Ids : i = tgt
    BY <1>1
  <2>4. Queue!Start(i) \/ Queue!Finish(i)
    BY <1>1, <1>2, <1>5, <2>1, <2>2, <2>3 DEF Queue!Start, Queue!Finish
  <2> QED
    BY <2>4 DEF Queue!Next, Queue!Ids, Ids
<1> QED
  BY <1>2, <1>4, <1>5

\* Every step of the system is a step of the queue or invisible to it.
LEMMA StepIsQueueStep ==
  ASSUME CycleInv, [Next]_vars
  PROVE  [Queue!Next]_(Queue!vars)
<1>1. UNCHANGED configs => UNCHANGED Queue!vars
  BY DEF Queue!vars, configs
<1>2. ASSUME NEW s \in Specs, OperatorCreates(s) PROVE Queue!Next
  <2>1. /\ n \in Nat /\ n + 1 \in Ids /\ n < MaxConfigs /\ n' = n + 1
        /\ spec \in [Ids -> Specs]
        /\ phase \in [Ids -> {"Unset", "Pending", "InProgress", "Applied"}]
        /\ spec' = [spec EXCEPT ![n + 1] = s]
        /\ phase' = [phase EXCEPT ![n + 1] = "Pending"]
        /\ phase[n + 1] = "Unset"
    BY <1>2, ConstantsAssumption
       DEF OperatorCreates, CycleInv, CycleTypeOK, InOrder, Ids
  <2>2. PICK t : t = [skip |-> FALSE, other |-> s]
    OBVIOUS
  <2>3. [i \in Ids |-> [skip |-> FALSE, other |-> spec'[i]]]
          = [[i \in Ids |-> [skip |-> FALSE, other |-> spec[i]]] EXCEPT ![n + 1] = t]
    BY <2>1, <2>2
  <2>4. [i \in Ids |-> IF phase'[i] \in {"Unset", "Pending"} THEN "Waiting" ELSE phase'[i]]
          = [i \in Ids |-> IF phase[i] \in {"Unset", "Pending"} THEN "Waiting" ELSE phase[i]]
    BY <2>1
  <2>5. Queue!Create(t)
    BY <2>1, <2>3, <2>4 DEF Queue!Create
  <2> QED
    BY <2>2, <2>5 DEF Queue!Next
<1>3. ASSUME KubeStartsPod \/ KubeStopsPod \/ UNCHANGED vars PROVE UNCHANGED configs
  BY <1>3 DEF KubeStartsPod, KubeStopsPod, vars
<1>4. ASSUME restart \/ applyAuthToAllNodesFails \/ handlerReturns \/ handleReadyApplied
      PROVE  UNCHANGED configs
  BY <1>4 DEF restart, applyAuthToAllNodesFails, Fault, handlerReturns, handleReadyApplied
<1>5. ASSUME handlers PROVE [Queue!Next]_(Queue!vars)
  BY <1>1, <1>5, HandlersWrite, WriteIsQueueStep
<1>6. ASSUME NEW o \in Outcomes,
             setConfigPhaseApplied(o) \/ setConfigPhaseInProgress(o)
             \/ copyPreviousClusterStatus(o)
      PROVE  [Queue!Next]_(Queue!vars)
  <2>1. CASE setConfigPhaseApplied(o)
    <3>1. /\ pc = "applying" /\ phase[tgt] = "InProgress"
          /\ Write("Applied", status[tgt], o)
      BY <2>1 DEF setConfigPhaseApplied, CycleInv, TargetFits
    <3>2. PICK st : st = status[tgt]
      OBVIOUS
    <3> QED
      BY <3>1, <3>2, WriteIsQueueStep
  <2>2. CASE setConfigPhaseInProgress(o)
    <3>1. /\ pc = "starting" /\ phase[tgt] = "Pending"
          /\ Write("InProgress", status[tgt], o)
      BY <2>2 DEF setConfigPhaseInProgress, CycleInv, TargetFits
    <3>2. PICK st : st = status[tgt]
      OBVIOUS
    <3> QED
      BY <3>1, <3>2, WriteIsQueueStep
  <2>3. CASE copyPreviousClusterStatus(o)
    <3>1. pc = "copying" /\ Write(phase[tgt], status[prev], o)
      BY <2>3 DEF copyPreviousClusterStatus
    <3>2. PICK st, p : st = status[prev] /\ p = phase[tgt]
      OBVIOUS
    <3> QED
      BY <3>1, <3>2, WriteIsQueueStep
  <2> QED
    BY <1>6, <2>1, <2>2, <2>3
<1>7. ASSUME reconcile PROVE UNCHANGED configs
  BY <1>7 DEF reconcile
<1>8. ASSUME NEW o \in Outcomes, handleConfigChange(o) PROVE [Queue!Next]_(Queue!vars)
  <2>1. pc # "idle" /\ phase[tgt] \in {"InProgress", "Applied"}
    BY <1>8, ConfigChangeFacts DEF handleConfigChange
  <2>2. PICK st, p : /\ Write(p, st, o)
                     /\ (p = "InProgress" /\ phase[tgt] = "InProgress") \/ p = "Applied"
    BY <1>8, ConfigChangeWrites
  <2> QED
    BY <2>1, <2>2, WriteIsQueueStep
<1>9. ASSUME NEW o \in Outcomes, restorePreviousStatus(o) PROVE [Queue!Next]_(Queue!vars)
  <2>1. pc = "restoring" /\ Write(phase[tgt], status[prev], o)
    BY <1>9 DEF restorePreviousStatus
  <2>2. PICK st, p : st = status[prev] /\ p = phase[tgt]
    OBVIOUS
  <2> QED
    BY <2>1, <2>2, WriteIsQueueStep
<1> QED
  BY <1>1, <1>2, <1>3, <1>4, <1>5, <1>6, <1>7, <1>8, <1>9 DEF Next, robin, CycleNext

\* The cluster state machine, with its handlers, failing writes and restarts,
\* implements the queue of module ConfigQueue: configs are carried out strictly
\* one after the other, and none is skipped.
THEOREM LifecycleImplementsQueue == Spec => QueueSpec
<1>1. Init => Queue!Init
  <2> SUFFICES ASSUME Init PROVE Queue!Init
    OBVIOUS
  <2>1. (CHOOSE s \in Specs : TRUE) \in Specs
    BY ConstantsAssumption
  <2> QED
    BY <2>1 DEF Init, CycleInit, Queue!Init, Queue!Ids, Ids
<1>2. CycleInv /\ [Next]_vars => [Queue!Next]_(Queue!vars)
  BY StepIsQueueStep
<1> QED
  BY <1>1, <1>2, ConfigsInvariance, PTL DEF Spec, QueueSpec, Queue!Spec

(***************************************************************************)
(* The cluster: what the stored phases and statuses say of it.             *)
(***************************************************************************)

\* What is known of the sizes of the cluster.
LEMMA ClusterFacts ==
  ASSUME ClusterTypeOK
  PROVE  /\ sts.replicas \in Nat
         /\ pods \in Nat /\ outdated \in Nat /\ outdated <= pods
         /\ formed.primaries \in Nat /\ formed.replicas \in Nat
         /\ formed = [primaries |-> formed.primaries, replicas |-> formed.replicas]
         /\ formed.primaries + formed.replicas <= pods
         /\ partition \in Nat
  BY DEF ClusterTypeOK, Members, NoSts

\* There is no config in progress but one, and nothing above it is started.
LEMMA OnlyOneInProgress ==
  ASSUME CycleInv, NEW t \in Ids, phase[t] = "InProgress"
  PROVE  /\ \A i \in Ids : i > t => phase[i] \in {"Unset", "Pending"}
         /\ \A i \in Ids : i < t => phase[i] = "Applied"
         /\ t \in Nat /\ t <= n /\ n \in Nat
         /\ spec[t] \in Specs /\ (t > 1 => t - 1 \in Ids /\ spec[t - 1] \in Specs)
<1>1. t \in Nat /\ t <= n /\ n \in Nat
  BY ConstantsAssumption DEF CycleInv, CycleTypeOK, InOrder, Ids
<1>2. ASSUME NEW i \in Ids, i > t, phase[i] \notin {"Unset", "Pending"}
      PROVE  FALSE
  <2>1. phase[i] \in {"InProgress", "Applied"} /\ t \in 1..(i - 1)
    BY <1>2 DEF CycleInv, CycleTypeOK, Ids
  <2> QED
    BY <2>1 DEF CycleInv, InOrder
<1>3. ASSUME NEW i \in Ids, i < t PROVE phase[i] = "Applied"
  <2>1. i \in 1..(t - 1)
    BY <1>3 DEF Ids
  <2> QED
    BY <2>1 DEF CycleInv, InOrder
<1>4. spec[t] \in Specs /\ (t > 1 => t - 1 \in Ids /\ spec[t - 1] \in Specs)
  BY <1>1, ConstantsAssumption DEF CycleInv, CycleTypeOK, Ids
<1> QED
  BY <1>1, <1>2, <1>3, <1>4

\* While config t is in progress, or has just been marked Applied, the objects
\* have to fit what is stored for t and nothing else.
LEMMA OnlyTheTarget ==
  ASSUME CycleInv', NEW t \in Ids, phase'[t] \in {"InProgress", "Applied"},
         \A i \in Ids : i > t => phase'[i] \in {"Unset", "Pending"},
         pc' \in {"copying", "changing"} => tgt' = t /\ Done(t - 1)',
         pc' = "applying" => tgt' = t /\ Done(t)',
         phase'[t] = "InProgress" => InProgressFits(t)',
         phase'[t] = "Applied" => Done(t)'
  PROVE  ObjectsFit'
<1>1. /\ \A i \in Ids : i < t => phase'[i] = "Applied"
      /\ t \in Nat /\ t <= n' /\ n' \in Nat
  <2>1. t \in Nat /\ t <= n' /\ n' \in Nat
    BY ConstantsAssumption DEF CycleInv, CycleTypeOK, InOrder, Ids
  <2>2. ASSUME NEW i \in Ids, i < t PROVE phase'[i] = "Applied"
    <3>1. i \in 1..(t - 1)
      BY <2>2 DEF Ids
    <3> QED
      BY <3>1 DEF CycleInv, InOrder
  <2> QED
    BY <2>1, <2>2
<1>2. \A i \in Ids : i # t => phase'[i] # "InProgress"
  BY <1>1 DEF Ids
<1>3. ASSUME NEW i \in Ids, i # t PROVE ~IsCurrent(i)'
  <2>1. CASE i > t
    BY <1>1, <2>1 DEF IsCurrent
  <2>2. CASE i < t
    <3>1. t \in (i + 1)..n'
      BY <1>1, <2>2 DEF Ids
    <3> QED
      BY <3>1 DEF IsCurrent
  <2> QED
    BY <1>1, <1>3, <2>1, <2>2 DEF Ids
<1>4. (\A i \in Ids : IsCurrent(i) => Done(i))'
  <2>1. ASSUME NEW i \in Ids PROVE IsCurrent(i)' => Done(i)'
    <3>1. CASE i = t
      <4>1. IsCurrent(t)' => Done(t)'
        BY DEF IsCurrent
      <4> QED
        BY <3>1, <4>1
    <3>2. CASE i # t
      BY <1>3, <3>2
    <3> QED
      BY <3>1, <3>2
  <2> QED
    BY <2>1
<1>5. (\A i \in Ids : phase[i] = "InProgress" => InProgressFits(i))'
  <2>1. ASSUME NEW i \in Ids PROVE phase'[i] = "InProgress" => InProgressFits(i)'
    <3>1. CASE i = t
      BY <3>1
    <3>2. CASE i # t
      BY <1>2, <3>2
    <3> QED
      BY <3>1, <3>2
  <2> QED
    BY <2>1
<1>6. (pc = "applying" => Done(tgt))'
  BY DEF Done, Complete, Sized, Templated, Made
<1>7. (pc \in {"copying", "changing"} => Done(tgt - 1))'
  BY DEF Done, Complete, Sized, Templated, Made
<1>8. ~(\A i \in Ids : phase[i] \in {"Unset", "Pending"})'
  OBVIOUS
<1> QED
  BY <1>4, <1>5, <1>6, <1>7, <1>8 DEF ObjectsFit

\* The same for a step of Robin on config t, which is in progress.
LEMMA HandlerKeepsObjects ==
  ASSUME CycleInv, CycleInv', NEW t \in Ids, phase[t] = "InProgress",
         \A i \in Ids : i # t => phase'[i] = phase[i],
         phase'[t] \in {"InProgress", "Applied"},
         pc' \in {"copying", "changing"} => tgt' = t /\ Done(t - 1)',
         pc' = "applying" => tgt' = t /\ Done(t)',
         phase'[t] = "InProgress" => InProgressFits(t)',
         phase'[t] = "Applied" => Done(t)'
  PROVE  ObjectsFit'
<1>1. \A i \in Ids : i > t => phase'[i] \in {"Unset", "Pending"}
  BY OnlyOneInProgress DEF Ids
<1> QED
  BY <1>1, OnlyTheTarget

\* What a spec asks for has the size of its StatefulSet.
LEMMA SizedFacts ==
  ASSUME NEW s \in Specs, Sized(s)
  PROVE  sts.replicas = Total(s) /\ (s.primaries = 0 <=> sts = NoSts)
  BY SizeFacts DEF Sized, NoSts

\* As long as no template changes and nothing that is complete is touched, what
\* was known of a config's objects stays true.
LEMMA FitsKept ==
  ASSUME NEW t \in Ids, \A j \in 1..t : spec'[j] = spec[j] /\ spec[j] \in Specs,
         sts' = sts, outdated = 0 => outdated' = 0, substatus' = substatus,
         pods = sts.replicas => pods' = pods /\ formed' = formed,
         pods <= sts.replicas => pods' <= sts.replicas,
         faults \in Nat, faults' \in Nat, faults' >= faults
  PROVE  /\ Done(t) => Done(t)'
         /\ Lost(t) => Lost(t)'
         /\ Fresh => Fresh'
         /\ Forming(spec[t]) => Forming(spec[t])'
         /\ UpgradeFits(t) => UpgradeFits(t)'
         /\ \A j \in 1..t : Sized(spec[j]) => Sized(spec[j])'
         /\ Templated(spec[t]) => Templated(spec[t])'
<1>1. t \in 1..t /\ (t > 1 => t - 1 \in 1..t) /\ \A j \in 1..(t - 1) : j \in 1..t
  BY DEF Ids
<1>2. ASSUME NEW j \in 1..t
      PROVE  /\ Sized(spec[j]) => Sized(spec[j])'
             /\ Made(spec[j]) => Made(spec[j])'
             /\ Templated(spec[j]) => Templated(spec[j])'
             /\ Complete(spec[j]) => Complete(spec[j])'
  <2>1. spec'[j] = spec[j] /\ spec[j] \in Specs
    OBVIOUS
  <2>2. Sized(spec[j]) => Sized(spec[j])' /\ sts.replicas = Total(spec[j])
    BY <2>1, SizedFacts DEF Sized
  <2>3. Made(spec[j]) => Made(spec[j])'
    BY <2>1 DEF Made
  <2>4. Templated(spec[j]) => Templated(spec[j])'
    BY <2>3 DEF Templated, OneKindOfChange
  <2>5. Complete(spec[j]) => Complete(spec[j])'
    BY <2>1, <2>2, <2>4 DEF Complete
  <2> QED
    BY <2>2, <2>3, <2>4, <2>5
<1>3. faults > 0 => faults' > 0
  OBVIOUS
<1>4. Done(t) => Done(t)'
  BY <1>1, <1>2, <1>3 DEF Done
<1>5. Lost(t) => Lost(t)'
  BY <1>1, <1>2, <1>3 DEF Lost
<1>6. Fresh => Fresh'
  BY DEF Fresh, NoSts
<1>7. Forming(spec[t]) => Forming(spec[t])'
  BY <1>1, <1>2, SizedFacts DEF Forming
<1>8. UpgradeFits(t) => UpgradeFits(t)'
  BY <1>1, <1>2, <1>3 DEF UpgradeFits
<1> QED
  BY <1>1, <1>2, <1>4, <1>5, <1>6, <1>7, <1>8

\* The specs of the configs up to the last one.
LEMMA SpecFacts ==
  ASSUME CycleInv
  PROVE  /\ \A i \in Ids : spec[i] \in Specs
         /\ \A i \in Ids : \A j \in 1..i : j \in Ids /\ spec[j] \in Specs
         /\ faults \in Nat /\ n \in Nat /\ n <= MaxConfigs
  BY ConstantsAssumption DEF CycleInv, CycleTypeOK, Ids

\* What is done of a config is known when the next one is started; a scaling of
\* that one is lost if a fault comes before its status is written.
LEMMA DoneThenLost ==
  ASSUME CycleInv, NEW t \in Ids, t > 1, Done(t - 1), faults' \in Nat, faults' > 0,
         UNCHANGED <<spec, sts, outdated>>
  PROVE  Lost(t)'
<1>1. t - 1 \in 1..(t - 1) /\ \A j \in 1..(t - 2) : j \in 1..(t - 1)
  BY DEF Ids
<1>2. Templated(spec[t - 1]) /\ \E j \in 1..(t - 1) : Sized(spec[j])
  <2>1. CASE Complete(spec[t - 1])
    BY <1>1, <2>1 DEF Complete
  <2>2. CASE ~Complete(spec[t - 1])
    <3>1. Templated(spec[t - 1]) /\ \E j \in 1..((t - 1) - 1) : Sized(spec[j])
      BY <2>2 DEF Done
    <3>2. (t - 1) - 1 = t - 2
      BY DEF Ids
    <3> QED
      BY <1>1, <3>1, <3>2
  <2> QED
    BY <2>1, <2>2
<1>3. Templated(spec[t - 1])'
  BY <1>2 DEF Templated, Made, OneKindOfChange
<1>4. PICK j \in 1..(t - 1) : Sized(spec[j])
  BY <1>2
<1>5. Sized(spec[j])'
  BY <1>4 DEF Sized
<1> QED
  BY <1>3, <1>5 DEF Lost

\* A step that writes nothing to the configs and touches nothing that is complete.
LEMMA QuietKeepsObjects ==
  ASSUME CycleInv, ObjectsFit, UNCHANGED configs,
         \/ UNCHANGED <<pc, tgt>>
         \/ /\ pc' \notin {"copying", "changing", "applying"}
            /\ pc = "changing" => faults' > 0 /\ outdated' = outdated,
         sts' = sts, outdated = 0 => outdated' = 0, substatus' = substatus,
         pods = sts.replicas => pods' = pods /\ formed' = formed,
         pods <= sts.replicas => pods' <= sts.replicas,
         faults' \in Nat, faults' >= faults
  PROVE  ObjectsFit'
<1>1. /\ \A i \in Ids : spec[i] \in Specs
      /\ \A i \in Ids : \A j \in 1..i : j \in Ids /\ spec[j] \in Specs
      /\ faults \in Nat
  BY SpecFacts
<1>2. n' = n /\ spec' = spec /\ phase' = phase /\ status' = status
  BY DEF configs
<1>3. ASSUME NEW t \in Ids
      PROVE  /\ Done(t) => Done(t)'
             /\ Lost(t) => Lost(t)'
             /\ Fresh => Fresh'
             /\ Forming(spec[t]) => Forming(spec[t])'
             /\ UpgradeFits(t) => UpgradeFits(t)'
  BY <1>1, <1>2, FitsKept
<1>4. Fresh => Fresh'
  BY DEF Fresh, NoSts
<1>5. pc \in {"copying", "changing", "applying"} =>
        tgt \in Ids /\ (pc # "applying" => tgt > 1 /\ tgt - 1 \in Ids)
  BY PrevIsBefore DEF CycleInv, TargetFits
<1>6. (pc \in {"copying", "changing"} => Done(tgt - 1))'
  <2> SUFFICES ASSUME pc' \in {"copying", "changing"} PROVE Done(tgt - 1)'
    OBVIOUS
  <2>1. pc' = pc /\ tgt' = tgt
    OBVIOUS
  <2>2. PICK t \in Ids : t = tgt - 1
    BY <1>5, <2>1
  <2>3. Done(t)'
    BY <1>3, <2>1, <2>2 DEF ObjectsFit
  <2> QED
    BY <2>1, <2>2, <2>3 DEF Done, Complete, Sized, Templated, Made
<1>7. (pc = "applying" => Done(tgt))'
  <2> SUFFICES ASSUME pc' = "applying" PROVE Done(tgt)'
    OBVIOUS
  <2>1. pc' = pc /\ tgt' = tgt
    OBVIOUS
  <2>2. PICK t \in Ids : t = tgt
    BY <1>5, <2>1
  <2>3. Done(t)'
    BY <1>3, <2>1, <2>2 DEF ObjectsFit
  <2> QED
    BY <2>1, <2>2, <2>3 DEF Done, Complete, Sized, Templated, Made
<1>8. ASSUME NEW i \in Ids PROVE IsCurrent(i)' => Done(i)'
  BY <1>2, <1>3 DEF ObjectsFit, IsCurrent
<1>9. ASSUME NEW i \in Ids, phase'[i] = "InProgress" PROVE InProgressFits(i)'
  <2>1. InProgressFits(i)
    BY <1>2, <1>9 DEF ObjectsFit
  <2>2. status'[i] = "None" => IF i = 1 THEN (Fresh \/ Forming(spec[1]))' ELSE Done(i - 1)'
    <3>1. CASE i = 1
      BY <1>2, <1>3, <1>4, <2>1, <3>1 DEF InProgressFits
    <3>2. CASE i # 1
      <4>1. i - 1 \in Ids
        BY <3>2, ConstantsAssumption DEF Ids
      <4> QED
        BY <1>2, <1>3, <2>1, <3>2, <4>1 DEF InProgressFits
    <3> QED
      BY <3>1, <3>2
  <2>3. status'[i] = "Ready" /\ pc' # "changing" => Done(i)' \/ Lost(i)'
    <3>1. CASE pc # "changing"
      BY <1>2, <1>3, <2>1, <3>1 DEF InProgressFits
    <3>2. CASE pc = "changing" /\ pc' # "changing"
      <4>1. i = tgt /\ i > 1
        <5>1. tgt \in Ids /\ phase[tgt] = "InProgress" /\ tgt > 1
          BY <1>5, <3>2 DEF CycleInv, TargetFits
        <5>2. ~(i > tgt) /\ ~(i < tgt)
          BY <1>2, <1>9, <5>1, OnlyOneInProgress
        <5> QED
          BY <5>1, <5>2 DEF Ids
      <4>2. Done(i - 1)
        BY <3>2, <4>1 DEF ObjectsFit
      <4>3. Lost(i)'
        BY <1>2, <3>2, <4>1, <4>2, DoneThenLost
      <4> QED
        BY <4>3
    <3> QED
      BY <3>1, <3>2
  <2>4. Templated(spec[i]) => Templated(spec[i])'
    BY <1>2 DEF Templated, Made, OneKindOfChange
  <2> QED
    BY <1>2, <1>3, <2>1, <2>2, <2>3, <2>4 DEF InProgressFits
<1> QED
  BY <1>2, <1>4, <1>6, <1>7, <1>8, <1>9 DEF ObjectsFit

\* The StatefulSet controller: nothing it does undoes what is complete.
LEMMA KubeKeepsObjects ==
  ASSUME IInv, KubeStartsPod \/ KubeStopsPod
  PROVE  ClusterTypeOK' /\ SubstatusFits' /\ ObjectsFit'
<1>1. CycleInv /\ ObjectsFit /\ ClusterTypeOK /\ SubstatusFits
  BY DEF IInv, TypeOK
<1>2. /\ sts.replicas \in Nat
      /\ pods \in Nat /\ outdated \in Nat /\ outdated <= pods
      /\ formed.primaries \in Nat /\ formed.replicas \in Nat
      /\ formed = [primaries |-> formed.primaries, replicas |-> formed.replicas]
      /\ formed.primaries + formed.replicas <= pods
  BY <1>1, ClusterFacts
<1>3. /\ UNCHANGED <<configs, cycle, sts, upgrade>> /\ pods # sts.replicas
  BY <1>2 DEF KubeStartsPod, KubeStopsPod
<1>4. /\ pods' \in Nat /\ (pods <= sts.replicas => pods' <= sts.replicas)
      /\ outdated' \in 0..pods' /\ (outdated = 0 => outdated' = 0)
  <2>1. CASE KubeStartsPod
    BY <1>2, <2>1 DEF KubeStartsPod
  <2>2. CASE KubeStopsPod
    <3>1. pods - 1 \in Nat /\ pods > sts.replicas /\ pods' = pods - 1
          /\ outdated' = Min({outdated, pods - 1})
      BY <1>2, <2>2 DEF KubeStopsPod
    <3>2. PICK a \in Nat, b \in Nat : a = outdated /\ b = pods - 1
      BY <1>2, <3>1
    <3>3. Min({a, b}) = IF a <= b THEN a ELSE b
      BY MinOfTwo
    <3> QED
      BY <1>2, <3>1, <3>2, <3>3
  <2> QED
    BY <2>1, <2>2
<1>5. formed' \in [primaries : Nat, replicas : Nat] /\ Members' <= pods'
  <2>1. CASE KubeStartsPod
    BY <1>2, <2>1 DEF KubeStartsPod, Members
  <2>2. CASE KubeStopsPod
    BY <1>2, <2>2 DEF KubeStopsPod, Members
  <2> QED
    BY <2>1, <2>2
<1>6. ClusterTypeOK'
  BY <1>1, <1>3, <1>4, <1>5 DEF ClusterTypeOK, upgrade
<1>7. SubstatusFits'
  BY <1>1, <1>3 DEF SubstatusFits, upgrade, configs
<1>8. faults \in Nat
  BY <1>1, SpecFacts
<1>9. ObjectsFit'
  BY <1>1, <1>3, <1>4, <1>8, QuietKeepsObjects DEF upgrade, cycle
<1> QED
  BY <1>6, <1>7, <1>9

\* A step that reads, waits or fails: nothing is written and nothing is changed.
LEMMA WaitKeepsObjects ==
  ASSUME IInv, UNCHANGED <<configs, cluster>>,
         \/ UNCHANGED cycle
         \/ reconcile
         \/ pc = "cluster" /\ Return /\ faults' = faults
         \/ Fault
  PROVE  ClusterTypeOK' /\ SubstatusFits' /\ ObjectsFit'
<1>1. CycleInv /\ ObjectsFit /\ ClusterTypeOK /\ SubstatusFits
  BY DEF IInv, TypeOK
<1>2. ClusterTypeOK' /\ SubstatusFits'
  BY <1>1 DEF ClusterTypeOK, SubstatusFits, Members, cluster, upgrade, configs
<1>3. faults \in Nat
  BY <1>1, SpecFacts
<1>4. /\ faults' \in Nat /\ faults' >= faults
      /\ \/ UNCHANGED <<pc, tgt>>
         \/ /\ pc' \notin {"copying", "changing", "applying"}
            /\ pc = "changing" => faults' > 0
  BY <1>3 DEF cycle, reconcile, Fault, Return
<1>5. ObjectsFit'
  BY <1>1, <1>4, QuietKeepsObjects DEF cluster, upgrade
<1> QED
  BY <1>2, <1>5

\* What a config in progress says of the objects, when the step is not about it.
LEMMA InProgressKept ==
  ASSUME CycleInv, NEW t \in Ids, \A j \in 1..t : spec'[j] = spec[j],
         status'[t] = status[t], pc' = "changing" \/ pc # "changing",
         UNCHANGED cluster, faults' \in Nat, faults' >= faults,
         InProgressFits(t)
  PROVE  InProgressFits(t)'
<1> USE DEF cluster, upgrade
<1>1. faults \in Nat /\ \A i \in Ids : \A j \in 1..i : j \in Ids /\ spec[j] \in Specs
  BY SpecFacts
<1>2. /\ Done(t) => Done(t)'
      /\ Lost(t) => Lost(t)'
      /\ Fresh => Fresh'
      /\ Forming(spec[t]) => Forming(spec[t])'
      /\ UpgradeFits(t) => UpgradeFits(t)'
      /\ Templated(spec[t]) => Templated(spec[t])'
  BY <1>1, FitsKept
<1>3. t > 1 /\ Done(t - 1) => Done(t - 1)'
  <2> SUFFICES ASSUME t > 1, Done(t - 1) PROVE Done(t - 1)'
    OBVIOUS
  <2>1. t - 1 \in Ids /\ \A j \in 1..(t - 1) : j \in 1..t
    BY ConstantsAssumption DEF Ids
  <2> QED
    BY <1>1, <2>1, FitsKept
<1>4. status[t] = "None" => IF t = 1 THEN (Fresh \/ Forming(spec[1]))' ELSE Done(t - 1)'
  BY <1>2, <1>3 DEF InProgressFits, Ids
<1>5. t \in 1..t
  BY DEF Ids
<1> QED
  BY <1>2, <1>4, <1>5 DEF InProgressFits

\* A substatus belongs to a config that the step is not about.
LEMMA SubstatusKept ==
  ASSUME SubstatusFits, substatus' = substatus, NEW t \in Ids,
         ~(phase[t] = "InProgress" /\ status[t] = "Upgrading"),
         \A i \in Ids : i # t => phase'[i] = phase[i] /\ status'[i] = status[i]
  PROVE  SubstatusFits'
  BY DEF SubstatusFits

\* A new config: its spec is the only one that changes.
LEMMA CreateKeepsObjects ==
  ASSUME IInv, CycleInv', NEW s \in Specs, OperatorCreates(s), UNCHANGED cluster
  PROVE  ClusterTypeOK' /\ SubstatusFits' /\ ObjectsFit'
<1>1. CycleInv /\ ObjectsFit /\ ClusterTypeOK /\ SubstatusFits
  BY DEF IInv, TypeOK
<1>2. /\ n \in Nat /\ faults \in Nat /\ n + 1 \in Ids
      /\ \A i \in Ids : \A j \in 1..i : j \in Ids /\ spec[j] \in Specs
  BY <1>1, SpecFacts, ConstantsAssumption DEF OperatorCreates, Ids
<1>3. /\ \A j \in Ids : j # n + 1 => phase'[j] = phase[j] /\ spec'[j] = spec[j]
      /\ phase[n + 1] = "Unset" /\ phase'[n + 1] = "Pending"
      /\ status' = status /\ UNCHANGED cycle /\ n' = n + 1
  BY <1>1, <1>2 DEF OperatorCreates, CycleInv, CycleTypeOK, InOrder
<1>4. ClusterTypeOK'
  BY <1>1 DEF ClusterTypeOK, Members, cluster, upgrade
<1>5. SubstatusFits'
  BY <1>1, <1>2, <1>3, SubstatusKept DEF cluster, upgrade
<1>6. ASSUME NEW i \in Ids, i <= n
      PROVE  /\ Done(i) => Done(i)'
             /\ InProgressFits(i) => InProgressFits(i)'
  <2>1. \A j \in 1..i : j \in Ids /\ spec'[j] = spec[j] /\ spec[j] \in Specs
    BY <1>2, <1>3, <1>6 DEF Ids
  <2>2. Done(i) => Done(i)'
    BY <1>2, <1>3, <2>1, FitsKept DEF cluster, upgrade, cycle
  <2>3. InProgressFits(i) => InProgressFits(i)'
    BY <1>1, <1>2, <1>3, <2>1, InProgressKept DEF cycle
  <2> QED
    BY <2>2, <2>3
<1>7. (\A i \in Ids : phase'[i] \in {"Unset", "Pending"}) => Fresh'
  <2>1. (\A i \in Ids : phase'[i] \in {"Unset", "Pending"})
          => \A i \in Ids : phase[i] \in {"Unset", "Pending"}
    BY <1>3
  <2>2. Fresh => Fresh'
    BY DEF Fresh, cluster
  <2> QED
    BY <1>1, <2>1, <2>2 DEF ObjectsFit
<1>8. pc # "idle" => tgt \in Ids /\ tgt <= n /\ (tgt > 1 => tgt - 1 \in Ids /\ tgt - 1 <= n)
  BY <1>1, PrevIsBefore
<1>9. (pc \in {"copying", "changing"} => Done(tgt - 1))'
  <2> SUFFICES ASSUME pc \in {"copying", "changing"} PROVE Done(tgt - 1)'
    BY <1>3 DEF cycle
  <2>1. PICK t \in Ids : t = tgt - 1 /\ t <= n
    BY <1>1, <1>8 DEF CycleInv, TargetFits
  <2>2. Done(t)'
    BY <1>1, <1>6, <2>1 DEF ObjectsFit
  <2> QED
    BY <1>3, <2>1, <2>2 DEF Done, Complete, Sized, Templated, Made, cycle
<1>10. (pc = "applying" => Done(tgt))'
  <2> SUFFICES ASSUME pc = "applying" PROVE Done(tgt)'
    BY <1>3 DEF cycle
  <2>1. PICK t \in Ids : t = tgt /\ t <= n
    BY <1>1, <1>8
  <2>2. Done(t)'
    BY <1>1, <1>6, <2>1 DEF ObjectsFit
  <2> QED
    BY <1>3, <2>1, <2>2 DEF Done, Complete, Sized, Templated, Made, cycle
<1>11. ASSUME NEW i \in Ids, IsCurrent(i)' PROVE Done(i)'
  <2>1. phase'[i] = "Applied" /\ \A j \in (i + 1)..(n + 1) : phase'[j] = "Pending"
    BY <1>3, <1>11 DEF IsCurrent
  <2>2. phase[i] = "Applied" /\ i <= n
    BY <1>1, <1>2, <1>3, <2>1 DEF CycleInv, InOrder, Ids
  <2>3. \A j \in (i + 1)..n : j \in Ids /\ j # n + 1 /\ phase[j] = "Pending"
    BY <1>2, <1>3, <2>1, ConstantsAssumption DEF Ids
  <2>4. IsCurrent(i)
    BY <1>2, <2>2, <2>3 DEF IsCurrent, Ids
  <2> QED
    BY <1>1, <1>6, <2>2, <2>4 DEF ObjectsFit
<1>12. ASSUME NEW i \in Ids, phase'[i] = "InProgress" PROVE InProgressFits(i)'
  <2>1. phase[i] = "InProgress" /\ i <= n
    BY <1>1, <1>2, <1>3, <1>12 DEF CycleInv, InOrder, Ids
  <2> QED
    BY <1>1, <1>6, <2>1 DEF ObjectsFit
<1>13. ObjectsFit'
  BY <1>7, <1>9, <1>10, <1>11, <1>12 DEF ObjectsFit
<1> QED
  BY <1>4, <1>5, <1>13

\* A write of the cycle that leaves the cluster alone.
LEMMA WriteFacts ==
  ASSUME CycleInv, tgt \in Ids, NEW p, NEW st, NEW o \in Outcomes, Write(p, st, o)
  PROVE  /\ n' = n /\ spec' = spec
         /\ \A i \in Ids : i # tgt => phase'[i] = phase[i] /\ status'[i] = status[i]
         /\ \/ /\ o = "refused" /\ phase' = phase /\ status' = status
               /\ faults' = faults + 1
            \/ /\ o = "unanswered" /\ phase'[tgt] = p /\ status'[tgt] = st
               /\ faults' = faults + 1
            \/ /\ o = "ok" /\ phase'[tgt] = p /\ status'[tgt] = st
               /\ faults' = faults
         /\ faults \in Nat /\ faults' \in Nat /\ faults' >= faults
         /\ faults' # faults => faults' > 0
<1>1. faults \in Nat
  BY SpecFacts
<1> QED
  BY <1>1 DEF Write, Outcomes, CycleInv, CycleTypeOK

\* Starting a config: the one below it is done, or nothing is there yet.
LEMMA StartKeepsObjects ==
  ASSUME IInv, CycleInv', NEW o \in Outcomes, setConfigPhaseInProgress(o), UNCHANGED cluster
  PROVE  ClusterTypeOK' /\ SubstatusFits' /\ ObjectsFit'
<1>1. CycleInv /\ ObjectsFit /\ ClusterTypeOK /\ SubstatusFits
  BY DEF IInv, TypeOK
<1>2. /\ pc = "starting" /\ prev = tgt - 1 /\ tgt \in 1..n /\ n \in Nat /\ tgt \in Ids
      /\ (tgt > 1 => tgt - 1 \in Ids /\ phase[tgt - 1] = "Applied")
  BY <1>1, PrevIsBefore DEF setConfigPhaseInProgress
<1>3. PICK t \in Ids : t = tgt
  BY <1>2
<1>4. phase[t] = "Pending" /\ status[t] = "None"
  BY <1>1, <1>2, <1>3 DEF CycleInv, TargetFits, StatusFits
<1>5. PICK st : st = status[tgt] /\ Write("InProgress", st, o)
  BY DEF setConfigPhaseInProgress
<1>6. /\ n' = n /\ spec' = spec
      /\ \A i \in Ids : i # t => phase'[i] = phase[i] /\ status'[i] = status[i]
      /\ \/ o = "refused" /\ phase' = phase /\ status' = status
         \/ phase'[t] = "InProgress" /\ status'[t] = "None"
      /\ faults \in Nat /\ faults' \in Nat /\ faults' >= faults
  BY <1>1, <1>2, <1>3, <1>4, <1>5, WriteFacts
<1>7. /\ pc' \in {"idle", "cluster", "copying"}
      /\ o = "refused" => pc' = "idle"
      /\ pc' = "copying" => tgt' = t /\ t > 1
  BY <1>2, <1>3 DEF setConfigPhaseInProgress, Continue, Return, None
<1>8. ClusterTypeOK' /\ SubstatusFits'
  <2>1. ClusterTypeOK'
    BY <1>1 DEF ClusterTypeOK, Members, cluster, upgrade
  <2>2. SubstatusFits'
    BY <1>1, <1>4, <1>6, SubstatusKept DEF cluster, upgrade
  <2> QED
    BY <2>1, <2>2
<1>9. ASSUME NEW i \in Ids, i > t PROVE phase[i] \in {"Unset", "Pending"}
  <2>1. t \in 1..(i - 1)
    BY <1>9 DEF Ids
  <2> QED
    BY <1>1, <1>4, <2>1 DEF CycleInv, CycleTypeOK, InOrder
<1>10. CASE phase' = phase /\ status' = status /\ pc' = "idle"
  BY <1>1, <1>2, <1>6, <1>8, <1>10, QuietKeepsObjects DEF cluster, upgrade, configs
<1>11. CASE phase'[t] = "InProgress" /\ status'[t] = "None"
  <2>1. t = 1 => Fresh'
    <3>1. t = 1 => \A i \in Ids : phase[i] \in {"Unset", "Pending"}
      BY <1>4, <1>9 DEF Ids
    <3> QED
      BY <1>1, <3>1 DEF ObjectsFit, Fresh, cluster
  <2>2. t > 1 => Done(t - 1)'
    <3> SUFFICES ASSUME t > 1 PROVE Done(t - 1)'
      OBVIOUS
    <3>1. \A j \in t..n : j \in Ids /\ phase[j] = "Pending"
      <4>1. ASSUME NEW j \in t..n PROVE j \in Ids /\ ~(j > n)
        BY <1>2, <1>3, SpecFacts, <1>1, ConstantsAssumption DEF Ids
      <4>2. ASSUME NEW j \in t..n PROVE phase[j] \in {"Unset", "Pending"}
        BY <1>4, <1>9, <4>1 DEF Ids
      <4> QED
        BY <1>1, <4>1, <4>2 DEF CycleInv, InOrder
    <3>2. t - 1 \in Ids /\ (t - 1) + 1 = t /\ t - 1 \in 1..n /\ phase[t - 1] = "Applied"
      BY <1>2, <1>3 DEF Ids
    <3>3. IsCurrent(t - 1)
      BY <3>1, <3>2 DEF IsCurrent
    <3>4. Done(t - 1)
      BY <1>1, <3>2, <3>3 DEF ObjectsFit
    <3>5. \A j \in 1..(t - 1) : spec[j] \in Specs
      BY <1>1, <3>2, SpecFacts
    <3> QED
      BY <1>6, <3>2, <3>4, <3>5, FitsKept DEF cluster, upgrade
  <2>3. InProgressFits(t)'
    BY <1>11, <2>1, <2>2 DEF InProgressFits, Ids
  <2>4. ObjectsFit'
    BY <1>6, <1>7, <1>9, <1>11, <2>2, <2>3, OnlyTheTarget DEF Ids
  <2> QED
    BY <1>8, <2>4
<1> QED
  BY <1>6, <1>7, <1>10, <1>11

\* Handing the status on, with the config below done.
LEMMA CopyKeepsObjects ==
  ASSUME IInv, CycleInv', NEW o \in Outcomes, copyPreviousClusterStatus(o), UNCHANGED cluster
  PROVE  ClusterTypeOK' /\ SubstatusFits' /\ ObjectsFit'
<1>1. CycleInv /\ ObjectsFit /\ ClusterTypeOK /\ SubstatusFits
  BY DEF IInv, TypeOK
<1>2. /\ pc = "copying" /\ prev = tgt - 1 /\ tgt \in Ids
      /\ (tgt > 1 => tgt - 1 \in Ids /\ phase[tgt - 1] = "Applied")
  BY <1>1, PrevIsBefore DEF copyPreviousClusterStatus
<1>3. PICK t \in Ids : t = tgt
  BY <1>2
<1>4. /\ phase[t] = "InProgress" /\ status[t] = "None" /\ t > 1 /\ t - 1 \in Ids
      /\ status[prev] \in {"None", "Ready"} /\ Done(t - 1)
  BY <1>1, <1>2, <1>3 DEF CycleInv, TargetFits, StatusFits, ObjectsFit
<1>5. PICK st, p : st = status[prev] /\ p = phase[tgt] /\ Write(p, st, o)
  BY DEF copyPreviousClusterStatus
<1>6. /\ n' = n /\ spec' = spec
      /\ \A i \in Ids : i # t => phase'[i] = phase[i] /\ status'[i] = status[i]
      /\ phase'[t] = "InProgress" /\ status'[t] \in {"None", "Ready"}
      /\ faults \in Nat /\ faults' \in Nat /\ faults' >= faults
      /\ o = "ok" \/ faults' > 0
  BY <1>1, <1>2, <1>3, <1>4, <1>5, WriteFacts
<1>7. /\ pc' \in {"idle", "changing"}
      /\ o # "ok" => pc' = "idle"
      /\ o = "ok" => pc' = "changing" /\ tgt' = t
  BY <1>2, <1>3 DEF copyPreviousClusterStatus, Continue, Return
<1>8. ClusterTypeOK'
  BY <1>1 DEF ClusterTypeOK, Members, cluster, upgrade
<1>9. SubstatusFits'
  BY <1>1, <1>4, <1>6, SubstatusKept DEF cluster, upgrade
<1>10. Done(t - 1)'
  <2>1. \A j \in 1..(t - 1) : spec[j] \in Specs
    BY <1>1, <1>4, SpecFacts
  <2> QED
    BY <1>4, <1>6, <2>1, FitsKept DEF cluster, upgrade
<1>11. pc' # "changing" => Lost(t)'
  BY <1>1, <1>4, <1>6, <1>7, DoneThenLost DEF cluster
<1>12. InProgressFits(t)'
  BY <1>4, <1>6, <1>10, <1>11 DEF InProgressFits
<1>13. ObjectsFit'
  BY <1>1, <1>4, <1>6, <1>7, <1>10, <1>12, HandlerKeepsObjects
<1> QED
  BY <1>8, <1>9, <1>13

\* Marking a config Applied, which is done.
LEMMA ApplyKeepsObjects ==
  ASSUME IInv, CycleInv', NEW o \in Outcomes, setConfigPhaseApplied(o), UNCHANGED cluster
  PROVE  ClusterTypeOK' /\ SubstatusFits' /\ ObjectsFit'
<1>1. CycleInv /\ ObjectsFit /\ ClusterTypeOK /\ SubstatusFits
  BY DEF IInv, TypeOK
<1>2. pc = "applying" /\ tgt \in Ids
  BY <1>1, PrevIsBefore DEF setConfigPhaseApplied
<1>3. PICK t \in Ids : t = tgt
  BY <1>2
<1>4. phase[t] = "InProgress" /\ status[t] = "Ready" /\ Done(t)
  BY <1>1, <1>2, <1>3 DEF CycleInv, TargetFits, ObjectsFit
<1>5. PICK st : st = status[tgt] /\ Write("Applied", st, o)
  BY DEF setConfigPhaseApplied
<1>6. /\ n' = n /\ spec' = spec
      /\ \A i \in Ids : i # t => phase'[i] = phase[i] /\ status'[i] = status[i]
      /\ phase'[t] \in {"InProgress", "Applied"} /\ status'[t] = "Ready"
      /\ faults \in Nat /\ faults' \in Nat /\ faults' >= faults
  BY <1>1, <1>2, <1>3, <1>4, <1>5, WriteFacts
<1>7. pc' = "idle"
  BY DEF setConfigPhaseApplied, Return
<1>8. ClusterTypeOK'
  BY <1>1 DEF ClusterTypeOK, Members, cluster, upgrade
<1>9. SubstatusFits'
  BY <1>1, <1>4, <1>6, SubstatusKept DEF cluster, upgrade
<1>10. Done(t)'
  <2>1. \A j \in 1..t : spec[j] \in Specs
    BY <1>1, <1>4, SpecFacts
  <2> QED
    BY <1>4, <1>6, <2>1, FitsKept DEF cluster, upgrade
<1>11. InProgressFits(t)'
  BY <1>6, <1>10 DEF InProgressFits
<1>12. ObjectsFit'
  BY <1>1, <1>4, <1>6, <1>7, <1>10, <1>11, HandlerKeepsObjects
<1> QED
  BY <1>8, <1>9, <1>12

\* The status of an Applied config says nothing of the objects.
LEMMA AppliedStatusKeepsObjects ==
  ASSUME IInv, CycleInv', UNCHANGED cluster, UNCHANGED <<n, spec>>,
         NEW t \in Ids, phase[t] = "Applied",
         \A i \in Ids : phase'[i] = phase[i],
         \A i \in Ids : i # t => status'[i] = status[i],
         pc # "changing", pc' \in {"idle", "restoring"},
         faults' \in Nat, faults' >= faults
  PROVE  ClusterTypeOK' /\ SubstatusFits' /\ ObjectsFit'
<1>1. CycleInv /\ ObjectsFit /\ ClusterTypeOK /\ SubstatusFits
  BY DEF IInv, TypeOK
<1>2. ClusterTypeOK'
  BY <1>1 DEF ClusterTypeOK, Members, cluster, upgrade
<1>3. SubstatusFits'
  BY <1>1, SubstatusKept DEF cluster, upgrade
<1>4. /\ faults \in Nat /\ n \in Nat /\ n <= MaxConfigs
      /\ \A i \in Ids : \A j \in 1..i : j \in Ids /\ spec[j] \in Specs
  BY <1>1, SpecFacts
<1>5. ASSUME NEW i \in Ids, IsCurrent(i)' PROVE Done(i)'
  <2>1. \A j \in (i + 1)..n : j \in Ids /\ phase[j] = "Pending"
    BY <1>4, <1>5, ConstantsAssumption DEF IsCurrent, Ids
  <2>2. IsCurrent(i)
    BY <1>5, <2>1 DEF IsCurrent
  <2>3. Done(i)
    BY <1>1, <2>2 DEF ObjectsFit
  <2> QED
    BY <1>4, <2>3, FitsKept DEF cluster, upgrade
<1>6. ASSUME NEW i \in Ids, phase'[i] = "InProgress" PROVE InProgressFits(i)'
  <2>1. i # t /\ status'[i] = status[i] /\ InProgressFits(i)
    BY <1>1, <1>6 DEF ObjectsFit
  <2> QED
    BY <1>1, <2>1, InProgressKept
<1>7. ~(\A i \in Ids : phase'[i] \in {"Unset", "Pending"})
  OBVIOUS
<1>8. ObjectsFit'
  BY <1>5, <1>6, <1>7 DEF ObjectsFit
<1> QED
  BY <1>2, <1>3, <1>8

\* A config that changes nothing is done when the one below it is.
LEMMA DoneAlike ==
  ASSUME CycleInv, NEW t \in Ids, t > 1, Done(t - 1),
         NothingToDo(spec[t - 1], spec[t])
  PROVE  Done(t)
<1>1. /\ t - 1 \in Ids /\ spec[t - 1] \in Specs /\ spec[t] \in Specs
      /\ (t - 1) - 1 = t - 2 /\ \A j \in 1..(t - 2) : j \in 1..(t - 1)
  BY SpecFacts, ConstantsAssumption DEF Ids
<1>2. PICK a \in Specs, b \in Specs : a = spec[t - 1] /\ b = spec[t]
  BY <1>1
<1>3. a.primaries = b.primaries /\ a.replicas = b.replicas /\ Template(a) = Template(b)
  BY <1>2, TransitionFacts DEF NothingToDo
<1>4. Total(a) = Total(b) /\ Layout(a) = Layout(b)
  BY <1>3 DEF Total, Layout
<1>5. /\ Templated(a) => Templated(b)
      /\ Complete(a) => Complete(b)
  BY <1>3, <1>4 DEF Complete, Templated, Made, Sized
<1> QED
  BY <1>1, <1>2, <1>3, <1>5 DEF Done

\* Writing the status of the config below over that of an Applied one.
LEMMA RestoreKeepsObjects ==
  ASSUME IInv, CycleInv', NEW o \in Outcomes, restorePreviousStatus(o)
  PROVE  ClusterTypeOK' /\ SubstatusFits' /\ ObjectsFit'
<1>1. CycleInv
  BY DEF IInv
<1>2. pc = "restoring" /\ tgt \in Ids /\ phase[tgt] = "Applied"
  BY <1>1, PrevIsBefore DEF restorePreviousStatus, CycleInv, TargetFits
<1>3. PICK st, p : st = status[prev] /\ p = phase[tgt] /\ Write(p, st, o)
  BY DEF restorePreviousStatus
<1>4. PICK t \in Ids : t = tgt
  BY <1>2
<1>5. /\ n' = n /\ spec' = spec
      /\ \A i \in Ids : phase'[i] = phase[i]
      /\ \A i \in Ids : i # t => status'[i] = status[i]
      /\ faults' \in Nat /\ faults' >= faults
  BY <1>1, <1>2, <1>3, <1>4, WriteFacts
<1>6. pc' = "idle" /\ UNCHANGED cluster
  BY DEF restorePreviousStatus, Return
<1> QED
  BY <1>2, <1>4, <1>5, <1>6, AppliedStatusKeepsObjects

\* An upgrade starts with the objects of the config below it, which is of the
\* same size.
LEMMA UpgradeStarts ==
  ASSUME CycleInv, NEW t \in Ids, t > 1, Done(t - 1), substatus = "None",
         DetermineStatusTransition(DetectChanges(spec[t - 1], spec[t])) = "Upgrading",
         UNCHANGED <<spec, sts, outdated, substatus>>,
         faults' \in Nat, faults' >= faults
  PROVE  UpgradeFits(t)'
<1>1. /\ t - 1 \in Ids /\ spec[t - 1] \in Specs /\ spec[t] \in Specs /\ faults \in Nat
      /\ (t - 1) - 1 = t - 2 /\ \A j \in 1..(t - 2) : j \in 1..t
      /\ t - 1 \in 1..t
  BY SpecFacts, ConstantsAssumption DEF Ids
<1>2. PICK a \in Specs, b \in Specs : a = spec[t - 1] /\ b = spec[t]
  BY <1>1
<1>3. a.primaries = b.primaries /\ a.replicas = b.replicas
  BY <1>2, TransitionFacts
<1>4. Total(a) = Total(b)
  BY <1>3 DEF Total
<1>5. Sized(a) => Sized(b)
  BY <1>3, <1>4 DEF Sized
<1>6. /\ b.primaries = 0 => sts = NoSts
      /\ \E j \in 1..t : Sized(spec[j])
      /\ faults' = 0 => Sized(b)
  <2>1. CASE Complete(a)
    BY <1>1, <1>2, <1>3, <1>5, <2>1 DEF Complete, Sized
  <2>2. CASE /\ faults > 0 /\ a.primaries # 0
             /\ \E j \in 1..(t - 2) : Sized(spec[j])
    BY <1>1, <1>3, <2>2
  <2> QED
    BY <1>1, <1>2, <2>1, <2>2 DEF Done
<1>7. PICK j \in 1..t : Sized(spec[j])
  BY <1>6
<1>8. Sized(spec[j])' /\ (Sized(spec[t]) => Sized(spec[t])')
  BY <1>7 DEF Sized
<1> QED
  BY <1>2, <1>6, <1>8 DEF UpgradeFits

\* The change a config brings decides what its status says from now on.
LEMMA ConfigChangeKeepsObjects ==
  ASSUME IInv, CycleInv', NEW o \in Outcomes, handleConfigChange(o)
  PROVE  ClusterTypeOK' /\ SubstatusFits' /\ ObjectsFit'
<1> DEFINE nst == DetermineStatusTransition(DetectChanges(spec[tgt - 1], spec[tgt]))
<1>1. CycleInv /\ ObjectsFit /\ ClusterTypeOK /\ SubstatusFits /\ UNCHANGED cluster
  BY DEF IInv, TypeOK, handleConfigChange
<1>2. /\ pc \in {"changing", "cluster"}
      /\ tgt > 1 /\ tgt \in 1..n /\ n \in Nat
      /\ tgt \in Ids /\ tgt - 1 \in Ids
      /\ status[tgt] \in {"None", "Ready"}
      /\ pc = "cluster" => status[tgt] = "None"
      /\ \/ phase[tgt] = "InProgress"
         \/ phase[tgt] = "Applied" /\ NothingToDo(spec[tgt - 1], spec[tgt])
      /\ spec[tgt - 1] \in Specs /\ spec[tgt] \in Specs
      /\ <<spec[tgt - 1], spec[tgt]>> \in Changes
  BY <1>1, ConfigChangeFacts DEF handleConfigChange
<1>3. \/ /\ nst \in {"ScalingUp", "ScalingDown", "ScalingToZero", "Upgrading"}
         /\ phase[tgt] = "InProgress"
         /\ Write("InProgress", nst, o)
         /\ Continue(o, "cluster") \/ Continue(o, "idle")
      \/ /\ nst = "None"
         /\ Write("Applied", status[tgt], o)
         /\ Continue(o, "restoring") \/ Continue(o, "idle")
  BY <1>1, ConfigChangeWrites
<1>4. nst = "None" <=> NothingToDo(spec[tgt - 1], spec[tgt])
  BY DEF NothingToDo
<1>5. PICK t \in Ids : t = tgt
  BY <1>2
<1>6. PICK ns : ns = nst
  OBVIOUS
<1>7. ns = DetermineStatusTransition(DetectChanges(spec[t - 1], spec[t]))
  BY <1>5, <1>6
<1> HIDE DEF nst
<1>8. PICK p, st : /\ Write(p, st, o)
                   /\ \/ p = "InProgress" /\ st = ns /\ ns # "None"
                         /\ ns \in {"ScalingUp", "ScalingDown", "ScalingToZero", "Upgrading"}
                         /\ phase[t] = "InProgress"
                      \/ p = "Applied" /\ st = status[t] /\ ns = "None"
  BY <1>3, <1>5, <1>6
<1>9. /\ n' = n /\ spec' = spec
      /\ \A i \in Ids : i # t => phase'[i] = phase[i] /\ status'[i] = status[i]
      /\ \/ phase'[t] = phase[t] /\ status'[t] = status[t] /\ faults' > 0
         \/ phase'[t] = p /\ status'[t] = st
      /\ faults \in Nat /\ faults' \in Nat /\ faults' >= faults
  BY <1>1, <1>2, <1>5, <1>8, WriteFacts
<1>10. pc' \in {"idle", "cluster", "restoring"} /\ (ns = "None" => pc' # "cluster")
  BY <1>3, <1>6 DEF Continue, Return
<1>11. CASE phase[t] = "Applied"
  <2>1. pc = "cluster" /\ p = "Applied" /\ st = status[t] /\ ns = "None"
    BY <1>1, <1>2, <1>5, <1>8, <1>11 DEF CycleInv, TargetFits
  <2>2. \A i \in Ids : phase'[i] = phase[i] /\ status'[i] = status[i]
    BY <1>9, <1>11, <2>1
  <2> QED
    BY <1>1, <1>9, <1>10, <1>11, <2>1, <2>2, AppliedStatusKeepsObjects
<1>12. CASE phase[t] = "InProgress"
  <2>1. Done(t - 1)
    BY <1>1, <1>2, <1>5, <1>12 DEF ObjectsFit, InProgressFits
  <2>2. ClusterTypeOK'
    BY <1>1 DEF ClusterTypeOK, Members, cluster, upgrade
  <2>3. SubstatusFits'
    BY <1>1, <1>2, <1>5, <1>9, SubstatusKept DEF cluster, upgrade
  <2>4. Done(t - 1)' /\ (Done(t) => Done(t)')
    <3>1. /\ t - 1 \in Ids
          /\ \A j \in 1..(t - 1) : spec[j] \in Specs
          /\ \A j \in 1..t : spec[j] \in Specs
      BY <1>1, <1>2, <1>5, SpecFacts
    <3>2. Done(t - 1) => Done(t - 1)'
      BY <1>1, <1>9, <3>1, FitsKept DEF cluster, upgrade
    <3>3. Done(t) => Done(t)'
      BY <1>1, <1>9, <3>1, FitsKept DEF cluster, upgrade
    <3> QED
      BY <2>1, <3>2, <3>3
  <2>5. phase'[t] \in {"InProgress", "Applied"}
    BY <1>8, <1>9, <1>12
  <2>6. phase'[t] = "Applied" => Done(t)'
    <3> SUFFICES ASSUME phase'[t] = "Applied" PROVE Done(t)'
      OBVIOUS
    <3>1. NothingToDo(spec[t - 1], spec[t])
      BY <1>4, <1>5, <1>6, <1>8, <1>9, <1>12
    <3> QED
      BY <1>1, <1>2, <1>5, <2>1, <2>4, <3>1, DoneAlike
  <2>7. ASSUME phase'[t] = "InProgress" PROVE InProgressFits(t)'
    <3>1. CASE status'[t] = status[t] /\ faults' > 0
      <4>1. Lost(t)'
        BY <1>1, <1>2, <1>5, <1>9, <2>1, <3>1, DoneThenLost DEF cluster
      <4> QED
        BY <1>2, <1>5, <2>4, <3>1, <4>1 DEF InProgressFits
    <3>2. CASE ns # "None" /\ status'[t] = ns
      <4>1. ns \in {"ScalingUp", "ScalingDown"} => spec[t].primaries # 0 /\ Templated(spec[t])'
        <5> SUFFICES ASSUME ns \in {"ScalingUp", "ScalingDown"}
                     PROVE  spec[t].primaries # 0 /\ Templated(spec[t])'
          OBVIOUS
        <5>1. PICK a \in Specs, b \in Specs : a = spec[t - 1] /\ b = spec[t]
          BY <1>2, <1>5
        <5>2. /\ b.primaries # 0
              /\ ~(a.primaries = b.primaries /\ a.replicas = b.replicas)
          BY <1>7, <5>1, TransitionFacts
        <5>3. Templated(a)
          BY <2>1, <5>1 DEF Done, Complete
        <5>4. OneKindOfChange => Template(a) = Template(b)
          <6>1. PICK c \in Changes : c = <<a, b>>
            BY <1>2, <1>5, <5>1
          <6> QED
            BY <5>2, <6>1 DEF OneKindOfChange
        <5>5. Templated(b)
          BY <5>3, <5>4 DEF Templated, Made
        <5> QED
          BY <1>1, <1>9, <5>1, <5>2, <5>5 DEF Templated, Made, OneKindOfChange, cluster
      <4>2. ns = "ScalingToZero" => spec[t].primaries = 0
        BY <1>2, <1>5, <1>7, TransitionFacts
      <4>3. ns = "Upgrading" => UpgradeFits(t)'
        <5> SUFFICES ASSUME ns = "Upgrading" PROVE UpgradeFits(t)'
          OBVIOUS
        <5>1. substatus = "None"
          <6> SUFFICES ASSUME substatus # "None" PROVE FALSE
            OBVIOUS
          <6>1. PICK i \in Ids : phase[i] = "InProgress" /\ status[i] = "Upgrading"
            BY <1>1 DEF SubstatusFits
          <6>2. i # t /\ ~(i > t) /\ ~(i < t)
            BY <1>1, <1>2, <1>5, <1>12, <6>1, OnlyOneInProgress
          <6> QED
            BY <6>2 DEF Ids
        <5>2. UNCHANGED <<spec, sts, outdated, substatus>>
          BY <1>1, <1>9 DEF cluster, upgrade
        <5> QED
          BY <1>1, <1>2, <1>5, <1>7, <1>9, <2>1, <5>1, <5>2, UpgradeStarts
      <4> QED
        BY <1>8, <1>9, <3>2, <4>1, <4>2, <4>3 DEF InProgressFits
    <3>3. CASE ns = "None" /\ phase'[t] = p
      BY <1>8, <2>7, <3>3
    <3> QED
      BY <1>8, <1>9, <3>1, <3>2, <3>3
  <2>8. ObjectsFit'
    BY <1>1, <1>9, <1>10, <1>12, <2>5, <2>6, <2>7, HandlerKeepsObjects
  <2> QED
    BY <2>2, <2>3, <2>8
<1> QED
  BY <1>2, <1>5, <1>11, <1>12

(***************************************************************************)
(* The handlers of ReconcileCluster.                                       *)
(***************************************************************************)

\* What is known where the handler of an operation runs.
LEMMA AtHandler ==
  ASSUME IInv, pc = "cluster",
         status[tgt] \notin {"None", "Ready"} \/ (status[tgt] = "None" /\ prev = None)
  PROVE  /\ tgt \in Ids /\ want = spec[tgt] /\ want \in Specs
         /\ phase[tgt] = "InProgress" /\ (status[tgt] = "None" => tgt = 1)
         /\ InProgressFits(tgt)
         /\ CycleInv /\ ObjectsFit /\ ClusterTypeOK /\ SubstatusFits
         /\ faults \in Nat
<1>1. CycleInv /\ ObjectsFit /\ ClusterTypeOK /\ SubstatusFits
  BY DEF IInv, TypeOK
<1>2. tgt \in Ids
  BY <1>1, PrevIsBefore
<1>3. phase[tgt] = "InProgress" /\ (status[tgt] = "None" => tgt = 1)
  BY <1>1, HandlerFacts
<1>4. InProgressFits(tgt)
  BY <1>1, <1>2, <1>3 DEF ObjectsFit
<1> QED
  BY <1>1, <1>2, <1>3, <1>4, SpecFacts DEF want

\* A substatus means that the config in progress is upgrading.
LEMMA SubstatusOf ==
  ASSUME IInv, NEW t \in Ids, phase[t] = "InProgress", substatus # "None"
  PROVE  status[t] = "Upgrading"
<1>1. CycleInv /\ SubstatusFits
  BY DEF IInv, TypeOK
<1>2. PICK i \in Ids : phase[i] = "InProgress" /\ status[i] = "Upgrading"
  BY <1>1 DEF SubstatusFits
<1>3. ~(i > t) /\ ~(i < t)
  BY <1>1, <1>2, OnlyOneInProgress
<1> QED
  BY <1>2, <1>3 DEF Ids

\* A handler that leaves the configs alone has to keep what the status says.
LEMMA PassKeepsObjects ==
  ASSUME IInv, CycleInv', NEW t \in Ids, phase[t] = "InProgress",
         UNCHANGED configs, Return, InProgressFits(t)'
  PROVE  ObjectsFit'
<1>1. CycleInv /\ phase'[t] = "InProgress" /\ \A i \in Ids : phase'[i] = phase[i]
  BY DEF IInv, configs
<1>2. pc' = "idle"
  BY DEF Return
<1> QED
  BY <1>1, <1>2, HandlerKeepsObjects

\* A handler that finishes an operation has carried the config out.
LEMMA ReadyKeepsObjects ==
  ASSUME IInv, CycleInv', NEW t \in Ids, t = tgt, phase[t] = "InProgress",
         NEW o \in Outcomes, BecomeReady(o), Done(t)',
         status'[t] = status[t] => InProgressFits(t)'
  PROVE  ObjectsFit'
<1>1. CycleInv
  BY DEF IInv
<1>2. Write("InProgress", "Ready", o) /\ Continue(o, "applying")
  BY DEF BecomeReady
<1>3. /\ \A i \in Ids : i # t => phase'[i] = phase[i]
      /\ phase'[t] = "InProgress"
      /\ status'[t] \in {status[t], "Ready"}
      /\ o = "ok" => status'[t] = "Ready"
  BY <1>1, <1>2, WriteFacts
<1>4. pc' \in {"idle", "applying"} /\ (pc' = "applying" => tgt' = t)
  BY <1>2 DEF Continue, Return
<1>5. InProgressFits(t)'
  BY <1>3, <1>4 DEF InProgressFits
<1> QED
  BY <1>1, <1>3, <1>4, <1>5, HandlerKeepsObjects

\* A handler that writes the status of the next operation.
LEMMA StatusKeepsObjects ==
  ASSUME IInv, CycleInv', NEW t \in Ids, t = tgt, phase[t] = "InProgress",
         NEW st, NEW o \in Outcomes, Write("InProgress", st, o), Return,
         status'[t] \in {status[t], st} => InProgressFits(t)'
  PROVE  ObjectsFit'
<1>1. CycleInv
  BY DEF IInv
<1>2. /\ \A i \in Ids : i # t => phase'[i] = phase[i]
      /\ phase'[t] = "InProgress"
      /\ status'[t] \in {status[t], st}
  BY <1>1, WriteFacts
<1>3. pc' = "idle"
  BY DEF Return
<1> QED
  BY <1>1, <1>2, <1>3, HandlerKeepsObjects

\* Forming the Redis cluster a spec asks for takes as many pods.
LEMMA FormedTypeOK ==
  ASSUME NEW s \in Specs, formed' = Layout(s), pods' \in Nat, pods' >= Total(s)
  PROVE  formed' \in [primaries : Nat, replicas : Nat] /\ Members' <= pods'
  BY SizeFacts DEF Members

\* Resizing an existing StatefulSet.
LEMMA ScaleFacts ==
  ASSUME ClusterTypeOK, NEW s \in Specs, s.primaries # 0, ScaleStatefulSet(Total(s))
  PROVE  /\ sts # NoSts
         /\ sts' \in [replicas : Nat, template : {Template(x) : x \in Specs}]
         /\ sts' # NoSts /\ sts'.replicas = Total(s) /\ sts'.template = sts.template
<1>1. sts \in [replicas : Nat, template : {Template(x) : x \in Specs}] /\ sts # NoSts
  BY DEF ScaleStatefulSet, ClusterTypeOK
<1>2. Total(s) \in Nat /\ Total(s) > 0
  BY SizeFacts
<1>3. sts' = [sts EXCEPT !.replicas = Total(s)]
  BY DEF ScaleStatefulSet
<1>4. sts'.replicas = Total(s) /\ sts'.template = sts.template
  BY <1>1, <1>3
<1>5. sts' \in [replicas : Nat, template : {Template(x) : x \in Specs}]
  BY <1>1, <1>2, <1>3
<1>6. sts' # NoSts
  BY <1>2, <1>4 DEF NoSts
<1> QED
  BY <1>1, <1>4, <1>5, <1>6

\* Outside an upgrade there is no substatus.
LEMMA NoSubstatus ==
  ASSUME IInv, NEW t \in Ids, phase[t] = "InProgress", status[t] # "Upgrading",
         UNCHANGED upgrade
  PROVE  SubstatusFits'
  BY SubstatusOf DEF SubstatusFits, upgrade

\* The objects of the first config are created, unless it asks for none.
LEMMA NewKeepsObjects ==
  ASSUME IInv, CycleInv', NEW o \in Outcomes, handleNew(o)
  PROVE  ClusterTypeOK' /\ SubstatusFits' /\ ObjectsFit'
<1>1. pc = "cluster" /\ status[tgt] = "None" /\ prev = None
  BY DEF handleNew, AtStatus
<1>2. /\ tgt \in Ids /\ want = spec[tgt] /\ want \in Specs
      /\ phase[tgt] = "InProgress" /\ tgt = 1 /\ InProgressFits(tgt)
      /\ CycleInv /\ ClusterTypeOK
  BY <1>1, AtHandler
<1>3. PICK t \in Ids : t = tgt
  BY <1>2
<1>4. /\ UNCHANGED <<pods, outdated, formed, upgrade>> /\ spec' = spec
  BY DEF handleNew, BecomeReady, Write
<1>5. SubstatusFits'
  BY <1>1, <1>2, <1>3, <1>4, NoSubstatus
<1>6. PICK s \in Specs : s = spec[t]
  BY <1>2, <1>3
<1>7. Fresh \/ Forming(s)
  BY <1>1, <1>2, <1>3, <1>6 DEF InProgressFits
<1>8. CASE s.primaries = 0
  <2>1. BecomeReady(o) /\ sts' = sts
    BY <1>2, <1>3, <1>6, <1>8 DEF handleNew
  <2>2. Fresh /\ Fresh'
    BY <1>4, <1>7, <1>8, <2>1 DEF Forming, Fresh
  <2>3. ClusterTypeOK'
    BY <1>2, <1>4, <2>1 DEF ClusterTypeOK, Members, upgrade
  <2>4. spec'[t] = s /\ Total(s) = 0 /\ Layout(s) = NotFormed
    BY <1>4, <1>6, <1>8, SizeFacts
  <2>5. Done(t)'
    BY <1>8, <2>2, <2>4 DEF Done, Complete, Sized, Templated, Made, Fresh
  <2>6. status'[t] = status[t] => InProgressFits(t)'
    BY <1>1, <1>2, <1>3, <2>2 DEF InProgressFits
  <2>7. ObjectsFit'
    BY <1>2, <1>3, <2>1, <2>5, <2>6, ReadyKeepsObjects
  <2> QED
    BY <1>5, <2>3, <2>7
<1>9. CASE s.primaries # 0
  <2>1. /\ EnsureClusterObjects /\ Return /\ Write("InProgress", "Initializing", o)
    BY <1>2, <1>3, <1>6, <1>9 DEF handleNew
  <2>2. Total(s) \in Nat /\ Total(s) > 0
    BY <1>9, SizeFacts
  <2>3. /\ sts # NoSts => sts' = sts
        /\ sts = NoSts => sts' = [replicas |-> Total(s), template |-> Template(s)]
    BY <1>2, <1>3, <1>6, <2>1 DEF EnsureClusterObjects
  <2>4. ClusterTypeOK'
    BY <1>2, <1>4, <2>2, <2>3 DEF ClusterTypeOK, Members, upgrade
  <2>5. Forming(s)'
    <3>1. CASE Forming(s)
      BY <1>4, <2>3, <3>1 DEF Forming, Sized, Made
    <3>2. CASE Fresh
      <4>1. sts'.replicas = Total(s) /\ sts'.template = Template(s)
        BY <2>3, <3>2 DEF Fresh
      <4>2. sts' # NoSts
        BY <2>2, <4>1 DEF NoSts
      <4> QED
        BY <1>4, <1>9, <2>2, <3>2, <4>1, <4>2 DEF Forming, Fresh, Sized, Made
    <3> QED
      BY <1>7, <3>1, <3>2
  <2>6. Forming(spec[t])'
    BY <1>4, <1>6, <2>5 DEF Forming, Sized, Made
  <2>7. status'[t] \in {status[t], "Initializing"} => InProgressFits(t)'
    BY <1>1, <1>2, <1>3, <2>6 DEF InProgressFits
  <2>8. ObjectsFit'
    BY <1>2, <1>3, <2>1, <2>7, StatusKeepsObjects
  <2> QED
    BY <1>5, <2>4, <2>8
<1> QED
  BY <1>8, <1>9

\* All pods are there.
LEMMA InitializingKeepsObjects ==
  ASSUME IInv, CycleInv', NEW o \in Outcomes, handleInitializing(o)
  PROVE  ClusterTypeOK' /\ SubstatusFits' /\ ObjectsFit'
<1>1. pc = "cluster" /\ status[tgt] = "Initializing"
  BY DEF handleInitializing, AtStatus
<1>2. /\ tgt \in Ids /\ want \in Specs
      /\ phase[tgt] = "InProgress" /\ InProgressFits(tgt)
      /\ CycleInv /\ ClusterTypeOK
  BY <1>1, AtHandler
<1>3. PICK t \in Ids : t = tgt
  BY <1>2
<1>4. UNCHANGED cluster /\ spec' = spec /\ Return /\ Write("InProgress", "Configuring", o)
  BY <1>2 DEF handleInitializing, Write
<1>5. SubstatusFits'
  BY <1>1, <1>2, <1>3, <1>4, NoSubstatus DEF cluster
<1>6. ClusterTypeOK'
  BY <1>2, <1>4 DEF ClusterTypeOK, Members, cluster, upgrade
<1>7. Forming(spec[t])'
  BY <1>1, <1>2, <1>3, <1>4 DEF InProgressFits, Forming, Sized, Made, cluster
<1>8. status'[t] \in {status[t], "Configuring"} => InProgressFits(t)'
  BY <1>1, <1>3, <1>7 DEF InProgressFits
<1>9. ObjectsFit'
  BY <1>2, <1>3, <1>4, <1>8, StatusKeepsObjects
<1> QED
  BY <1>5, <1>6, <1>9

\* The pods form the Redis cluster that is asked for.
LEMMA ConfiguringKeepsObjects ==
  ASSUME IInv, CycleInv', NEW o \in Outcomes, handleConfiguring(o)
  PROVE  ClusterTypeOK' /\ SubstatusFits' /\ ObjectsFit'
<1>1. pc = "cluster" /\ status[tgt] = "Configuring"
  BY DEF handleConfiguring, AtStatus
<1>2. /\ tgt \in Ids /\ want = spec[tgt] /\ want \in Specs
      /\ phase[tgt] = "InProgress" /\ InProgressFits(tgt)
      /\ CycleInv /\ ClusterTypeOK
  BY <1>1, AtHandler
<1>3. PICK t \in Ids, s \in Specs : t = tgt /\ s = spec[t]
  BY <1>2
<1>4. /\ UNCHANGED <<sts, pods, outdated, upgrade>> /\ spec' = spec /\ BecomeReady(o)
      /\ formed' = Layout(s) /\ pods >= Total(s)
  BY <1>2, <1>3 DEF handleConfiguring, BecomeReady, Write
<1>5. SubstatusFits'
  BY <1>1, <1>2, <1>3, <1>4, NoSubstatus
<1>6. pods \in Nat /\ Total(s) \in Nat
  BY <1>2, SizeFacts DEF ClusterTypeOK
<1>7. ClusterTypeOK'
  <2>1. formed' \in [primaries : Nat, replicas : Nat] /\ Members' <= pods'
    BY <1>4, <1>6, FormedTypeOK
  <2> QED
    BY <1>2, <1>4, <2>1 DEF ClusterTypeOK, upgrade
<1>8. Forming(s) /\ spec'[t] = s
  BY <1>1, <1>2, <1>3, <1>4 DEF InProgressFits
<1>9. Forming(spec[t])' /\ Done(t)'
  <2>1. Forming(s)' /\ pods' = Total(s)
    BY <1>4, <1>6, <1>8 DEF Forming, Sized, Made
  <2> QED
    BY <1>4, <1>8, <2>1 DEF Forming, Done, Complete, Sized, Templated, Made
<1>10. status'[t] = status[t] => InProgressFits(t)'
  BY <1>1, <1>3, <1>9 DEF InProgressFits
<1>11. ObjectsFit'
  BY <1>2, <1>3, <1>4, <1>9, <1>10, ReadyKeepsObjects
<1> QED
  BY <1>5, <1>7, <1>11

\* What is known where handleReady runs for a config in progress.
LEMMA AtReady ==
  ASSUME IInv, AtStatus("Ready")
  PROVE  /\ tgt \in Ids /\ want = spec[tgt] /\ want \in Specs /\ prev = tgt - 1
         /\ \/ phase[tgt] = "InProgress" /\ (Done(tgt) \/ Lost(tgt))
            \/ phase[tgt] = "Applied" /\ IsCurrent(tgt) /\ Done(tgt)
         /\ \A i \in Ids : i > tgt => phase[i] \in {"Unset", "Pending"}
         /\ CycleInv /\ ObjectsFit /\ ClusterTypeOK /\ SubstatusFits
         /\ faults \in Nat
<1>1. CycleInv /\ ObjectsFit /\ ClusterTypeOK /\ SubstatusFits
  BY DEF IInv, TypeOK
<1>2. tgt \in Ids /\ prev = tgt - 1 /\ pc = "cluster" /\ status[tgt] = "Ready"
  BY <1>1, PrevIsBefore DEF AtStatus
<1>3. \/ phase[tgt] = "InProgress" /\ (Done(tgt) \/ Lost(tgt))
      \/ phase[tgt] = "Applied" /\ IsCurrent(tgt) /\ Done(tgt)
  <2>1. CASE phase[tgt] = "InProgress"
    BY <1>1, <1>2, <2>1 DEF ObjectsFit, InProgressFits
  <2>2. CASE phase[tgt] = "Applied"
    BY <1>1, <1>2, <2>2 DEF ObjectsFit, CycleInv, TargetFits
  <2> QED
    BY <1>1, <1>2, <2>1, <2>2 DEF CycleInv, TargetFits
<1>4. ASSUME NEW i \in Ids, i > tgt PROVE phase[i] \in {"Unset", "Pending"}
  <2>1. CASE phase[tgt] = "InProgress"
    BY <1>1, <1>2, <1>4, <2>1, OnlyOneInProgress
  <2>2. CASE IsCurrent(tgt)
    <3>1. CASE i > n
      BY <1>1, <3>1 DEF CycleInv, InOrder
    <3>2. CASE i <= n
      <4>1. i \in (tgt + 1)..n
        BY <1>1, <1>2, <1>4, <3>2, SpecFacts DEF Ids
      <4> QED
        BY <2>2, <4>1 DEF IsCurrent
    <3> QED
      BY <1>1, <3>1, <3>2, SpecFacts DEF Ids
  <2> QED
    BY <1>3, <2>1, <2>2
<1> QED
  BY <1>1, <1>2, <1>3, <1>4, SpecFacts DEF want

\* A healthy cluster of a config in progress: what is left is an upgrade, or
\* nothing.
LEMMA ReadyInProgressKeepsObjects ==
  ASSUME IInv, CycleInv', NEW o \in Outcomes, handleReadyInProgress(o)
  PROVE  ClusterTypeOK' /\ SubstatusFits' /\ ObjectsFit'
<1>1. /\ AtStatus("Ready") /\ status[tgt] = "Ready" /\ phase[tgt] = "InProgress" /\ Healthy
      /\ UNCHANGED cluster /\ Return
  BY DEF handleReadyInProgress, AtStatus
<1>2. /\ tgt \in Ids /\ want = spec[tgt] /\ want \in Specs /\ prev = tgt - 1
      /\ Done(tgt) \/ Lost(tgt)
      /\ \A i \in Ids : i > tgt => phase[i] \in {"Unset", "Pending"}
      /\ CycleInv /\ ClusterTypeOK /\ faults \in Nat
  BY <1>1, AtReady
<1>3. PICK t \in Ids, s \in Specs : t = tgt /\ s = spec[t]
  BY <1>2
<1>4. ClusterTypeOK'
  BY <1>1, <1>2 DEF ClusterTypeOK, Members, cluster, upgrade
<1>5. SubstatusFits' /\ substatus = "None"
  BY <1>1, <1>2, <1>3, NoSubstatus, SubstatusOf DEF cluster
<1>6. s.primaries # 0
  <2>1. pods \in Nat /\ Total(s) \in Nat
    BY <1>2, SizeFacts DEF ClusterTypeOK
  <2>2. PICK a \in Nat, b \in Nat : a = pods /\ b = Total(s)
    BY <2>1
  <2>3. Min({a, b}) = IF a <= b THEN a ELSE b
    BY MinOfTwo
  <2>4. Total(s) > 0
    BY <1>1, <1>2, <1>3, <2>2, <2>3 DEF Healthy, Checked
  <2> QED
    BY <2>4, SizeFacts
<1>7. \A j \in 1..t : spec[j] \in Specs
  BY <1>2, SpecFacts
<1>8. t - 1 \in 1..t \/ t = 1
  BY DEF Ids
<1>9. CASE prev # None /\ (report.kube \/ report.redis)
  <2>1. Write("InProgress", "Upgrading", o)
    BY <1>1, <1>9 DEF handleReadyInProgress
  <2>2. spec' = spec /\ faults' \in Nat /\ faults' >= faults
    BY <1>2, <2>1, WriteFacts
  <2>3. (Done(t) => Done(t)') /\ (Lost(t) => Lost(t)') /\ \A j \in 1..t : Sized(spec[j]) => Sized(spec[j])'
    BY <1>1, <1>2, <1>7, <2>2, FitsKept DEF cluster, upgrade
  <2>4. UpgradeFits(t)'
    <3>1. t > 1
      BY <1>2, <1>3, <1>9 DEF None, Ids
    <3>2. /\ \E j \in 1..t : Sized(spec[j])
          /\ faults' = 0 => Sized(spec[t])
      <4>1. t \in 1..t /\ \A j \in 1..(t - 1) : j \in 1..t
        BY DEF Ids
      <4>2. faults' = 0 => faults = 0
        BY <1>2, <2>2
      <4> QED
        BY <1>2, <1>3, <4>1, <4>2 DEF Done, Lost, Complete
    <3>3. t \in 1..t
      BY DEF Ids
    <3>4. substatus' = "None"
      BY <1>1, <1>5 DEF cluster, upgrade
    <3>5. PICK j \in 1..t : Sized(spec[j])
      BY <3>2
    <3>6. Sized(spec[j])' /\ (faults' = 0 => Sized(spec[t])') /\ spec'[t].primaries # 0
      BY <1>3, <1>6, <2>2, <2>3, <3>2, <3>3, <3>5
    <3> QED
      BY <3>1, <3>4, <3>6 DEF UpgradeFits
  <2>5. status'[t] \in {status[t], "Upgrading"} => InProgressFits(t)'
    BY <1>1, <1>2, <1>3, <2>3, <2>4 DEF InProgressFits
  <2>6. ObjectsFit'
    BY <1>1, <1>3, <2>1, <2>5, StatusKeepsObjects
  <2> QED
    BY <1>4, <1>5, <2>6
<1>10. CASE ~(prev # None /\ (report.kube \/ report.redis))
  <2>1. Write("Applied", "Ready", o)
    BY <1>1, <1>10 DEF handleReadyInProgress
  <2>2. /\ spec' = spec /\ faults' \in Nat /\ faults' >= faults
        /\ \A i \in Ids : i # t => phase'[i] = phase[i]
        /\ phase'[t] \in {"InProgress", "Applied"} /\ status'[t] = "Ready"
    BY <1>1, <1>2, <1>3, <2>1, WriteFacts
  <2>3. Done(t)
    <3>1. CASE Lost(t)
      <4>1. t > 1 /\ t - 1 \in 1..t /\ prev # None
        BY <1>2, <1>3, <3>1 DEF Lost, None, Ids
      <4>2. PICK a \in Specs : a = spec[t - 1]
        BY <1>7, <4>1
      <4>3. report = DetectChanges(a, s)
        BY <1>2, <1>3, <4>2 DEF report, want
      <4>4. Template(a) = Template(s)
        BY <1>10, <4>1, <4>3
           DEF DetectChanges, detectKubernetesChanges, detectRedisConfigChanges, Template
      <4>5. Templated(s)
        BY <3>1, <4>2, <4>4 DEF Lost, Templated, Made
      <4> QED
        BY <1>3, <1>6, <3>1, <4>5 DEF Done, Lost
    <3> QED
      BY <1>2, <1>3, <3>1
  <2>4. Done(t)'
    BY <1>1, <1>2, <1>7, <2>2, <2>3, FitsKept DEF cluster, upgrade
  <2>5. InProgressFits(t)'
    BY <2>2, <2>4 DEF InProgressFits
  <2>6. pc' = "idle"
    BY <1>1 DEF Return
  <2>7. ObjectsFit'
    BY <1>1, <1>2, <1>3, <2>2, <2>4, <2>5, <2>6, HandlerKeepsObjects
  <2> QED
    BY <1>4, <1>5, <2>7
<1> QED
  BY <1>9, <1>10

\* The remedies move members, never more than there are pods.
LEMMA RemediesTypeOK ==
  ASSUME ClusterTypeOK, want \in Specs,
         \/ forgetSurplusMembers \/ meetMissingMembers
         \/ demoteExcessPrimaries \/ promoteSurplusReplicas
  PROVE  formed' \in [primaries : Nat, replicas : Nat] /\ Members' <= pods
<1>1. /\ pods \in Nat /\ formed.primaries \in Nat /\ formed.replicas \in Nat
      /\ formed = [primaries |-> formed.primaries, replicas |-> formed.replicas]
      /\ formed.primaries + formed.replicas <= pods
  BY ClusterFacts
<1>2. PICK s \in Specs : s = want
  OBVIOUS
<1>3. /\ s.primaries \in Nat /\ Total(s) \in Nat
      /\ Layout(s).replicas \in Nat
  BY SizeFacts
<1>4. Checked \in Nat /\ Checked <= pods
  <2>1. PICK a \in Nat, b \in Nat : a = pods /\ b = Total(s)
    BY <1>1, <1>3
  <2>2. Min({a, b}) = IF a <= b THEN a ELSE b
    BY MinOfTwo
  <2> QED
    BY <1>2, <2>1, <2>2 DEF Checked
<1>5. CASE forgetSurplusMembers
  BY <1>1, <1>4, <1>5 DEF forgetSurplusMembers, Members
<1>6. CASE meetMissingMembers
  BY <1>1, <1>4, <1>6 DEF meetMissingMembers, Members
<1>7. CASE demoteExcessPrimaries
  <2>1. PICK a \in Int, b \in Int : /\ a = formed.primaries - s.primaries
                                    /\ b = Layout(s).replicas - formed.replicas
    BY <1>1, <1>3
  <2>2. Min({a, b}) = IF a <= b THEN a ELSE b
    BY MinOfTwo
  <2>3. PICK k : k = Min({a, b})
    OBVIOUS
  <2>4. /\ k > 0
        /\ formed' = [primaries |-> formed.primaries - k, replicas |-> formed.replicas + k]
    BY <1>2, <1>7, <2>1, <2>3 DEF demoteExcessPrimaries
  <2>5. k \in Nat /\ k <= formed.primaries
    BY <1>1, <1>3, <2>1, <2>2, <2>3, <2>4
  <2> QED
    BY <1>1, <2>4, <2>5 DEF Members
<1>8. CASE promoteSurplusReplicas
  <2>1. PICK a \in Int, b \in Int : /\ a = s.primaries - formed.primaries
                                    /\ b = formed.replicas - Layout(s).replicas
    BY <1>1, <1>3
  <2>2. Min({a, b}) = IF a <= b THEN a ELSE b
    BY MinOfTwo
  <2>3. PICK k : k = Min({a, b})
    OBVIOUS
  <2>4. /\ k > 0
        /\ formed' = [primaries |-> formed.primaries + k, replicas |-> formed.replicas - k]
    BY <1>2, <1>8, <2>1, <2>3 DEF promoteSurplusReplicas
  <2>5. k \in Nat /\ k <= formed.replicas
    BY <1>1, <1>3, <2>1, <2>2, <2>3, <2>4
  <2> QED
    BY <1>1, <2>4, <2>5 DEF Members
<1> QED
  BY <1>5, <1>6, <1>7, <1>8

\* A cluster that is what its config asks for is healthy.
LEMMA CompleteIsHealthy ==
  ASSUME ClusterTypeOK, want \in Specs, Complete(want), Checked > 0
  PROVE  Healthy
<1>1. PICK s \in Specs : s = want
  OBVIOUS
<1>2. /\ Total(s) \in Nat /\ Total(s) = Layout(s).primaries + Layout(s).replicas
      /\ s.replicas = 0 => Layout(s).replicas = 0
  BY SizeFacts
<1>3. pods = Total(s) /\ formed = Layout(s)
  BY <1>1 DEF Complete
<1>4. Checked = Total(s)
  <2>1. PICK a \in Nat, b \in Nat : a = pods /\ b = Total(s)
    BY <1>2, <1>3
  <2>2. Min({a, b}) = IF a <= b THEN a ELSE b
    BY MinOfTwo
  <2> QED
    BY <1>1, <1>3, <2>1, <2>2 DEF Checked
<1> QED
  BY <1>1, <1>2, <1>3, <1>4 DEF Healthy, Members

\* Remediation happens to a cluster whose scaling was lost, and to no other.
LEMMA RemediatesKeepsObjects ==
  ASSUME IInv, CycleInv', handleReadyRemediates
  PROVE  ClusterTypeOK' /\ SubstatusFits' /\ ObjectsFit'
<1>1. /\ AtStatus("Ready") /\ status[tgt] = "Ready" /\ ~Healthy /\ Checked > 0
      /\ UNCHANGED <<configs, sts, pods, outdated, faults, upgrade>> /\ Return
      /\ \/ forgetSurplusMembers \/ meetMissingMembers
         \/ demoteExcessPrimaries \/ promoteSurplusReplicas
  BY DEF handleReadyRemediates, AtStatus
<1>2. /\ tgt \in Ids /\ want = spec[tgt] /\ want \in Specs
      /\ \/ phase[tgt] = "InProgress" /\ (Done(tgt) \/ Lost(tgt))
         \/ phase[tgt] = "Applied" /\ Done(tgt)
      /\ \A i \in Ids : i > tgt => phase[i] \in {"Unset", "Pending"}
      /\ CycleInv /\ ClusterTypeOK /\ SubstatusFits /\ faults \in Nat
  BY <1>1, AtReady
<1>3. PICK t \in Ids, s \in Specs : t = tgt /\ s = spec[t]
  BY <1>2
<1>4. ClusterTypeOK'
  <2>1. formed' \in [primaries : Nat, replicas : Nat] /\ Members' <= pods
    BY <1>1, <1>2, RemediesTypeOK
  <2> QED
    BY <1>1, <1>2, <2>1 DEF ClusterTypeOK, upgrade
<1>5. SubstatusFits'
  BY <1>1, <1>2 DEF SubstatusFits, configs, upgrade
<1>6. ~Complete(s)
  BY <1>1, <1>2, <1>3, CompleteIsHealthy
<1>7. UNCHANGED <<n, spec, phase, status>> /\ pc' = "idle"
  BY <1>1 DEF configs, Return
<1>8. (Done(t) => Done(t)') /\ (Lost(t) => Lost(t)')
  <2>1. ASSUME NEW j
        PROVE  /\ Sized(spec[j]) => Sized(spec[j])'
               /\ Templated(spec[j]) => Templated(spec[j])'
    BY <1>1, <1>7 DEF Sized, Templated, Made, OneKindOfChange
  <2> QED
    BY <1>1, <1>3, <1>6, <1>7, <2>1 DEF Done, Lost
<1>9. phase'[t] = "Applied" => Done(t)'
  BY <1>2, <1>3, <1>7, <1>8
<1>10. phase'[t] = "InProgress" => InProgressFits(t)'
  BY <1>1, <1>2, <1>3, <1>7, <1>8 DEF InProgressFits
<1>11. ObjectsFit'
  BY <1>2, <1>3, <1>7, <1>9, <1>10, OnlyTheTarget
<1> QED
  BY <1>4, <1>5, <1>11

\* The passes of a scaling that leave its status as it is: the StatefulSet is
\* resized, deleted or created, and keeps its template.
LEMMA ScalingPassKeepsObjects ==
  ASSUME IInv, CycleInv',
         \/ handleScalingUpGrows \/ handleScalingDownShrinks \/ handleScalingDownResizes
         \/ handleFastScalingDeletes \/ handleFastScalingRecreates
  PROVE  ClusterTypeOK' /\ SubstatusFits' /\ ObjectsFit'
<1>1. /\ pc = "cluster" /\ status[tgt] \in {"ScalingUp", "ScalingDown"}
      /\ UNCHANGED <<configs, upgrade>> /\ Return
  BY DEF handleScalingUpGrows, handleScalingDownShrinks, handleScalingDownResizes,
         handleFastScalingDeletes, handleFastScalingRecreates, AtFastScaling, AtStatus
<1>2. /\ tgt \in Ids /\ want = spec[tgt] /\ want \in Specs
      /\ phase[tgt] = "InProgress" /\ InProgressFits(tgt)
      /\ CycleInv /\ ClusterTypeOK
  BY <1>1, AtHandler
<1>3. PICK t \in Ids, s \in Specs : t = tgt /\ s = spec[t]
  BY <1>2
<1>4. s.primaries # 0 /\ Templated(s) /\ want = s
  BY <1>1, <1>2, <1>3 DEF InProgressFits
<1>5. SubstatusFits'
  BY <1>1, <1>2, <1>3, NoSubstatus
<1>6. /\ pods \in Nat /\ outdated \in Nat /\ outdated <= pods
      /\ formed.primaries \in Nat /\ formed.replicas \in Nat
      /\ formed = [primaries |-> formed.primaries, replicas |-> formed.replicas]
      /\ formed.primaries + formed.replicas <= pods
      /\ sts \in {NoSts} \cup [replicas : Nat, template : {Template(x) : x \in Specs}]
  BY <1>2, ClusterFacts DEF ClusterTypeOK
<1>7. /\ sts' \in {NoSts} \cup [replicas : Nat, template : {Template(x) : x \in Specs}]
      /\ sts' = NoSts \/ sts'.template = Template(s)
         \/ (sts # NoSts /\ sts'.template = sts.template)
      /\ outdated' = 0 \/ outdated' = outdated
  <2>1. CASE handleScalingUpGrows \/ handleScalingDownResizes
    BY <1>2, <1>4, <2>1, ScaleFacts DEF handleScalingUpGrows, handleScalingDownResizes
  <2>2. CASE handleScalingDownShrinks
    BY <1>2, <1>4, <1>6, <2>2, ScaleFacts DEF handleScalingDownShrinks
  <2>3. CASE handleFastScalingDeletes
    BY <2>3 DEF handleFastScalingDeletes, DeleteStatefulSet
  <2>4. CASE handleFastScalingRecreates
    <3>1. /\ sts' = [replicas |-> Total(s), template |-> Template(s)]
          /\ outdated' = outdated
      BY <1>4, <2>4 DEF handleFastScalingRecreates, EnsureClusterObjects
    <3>2. Total(s) \in Nat
      BY SizeFacts
    <3> QED
      BY <3>1, <3>2
  <2> QED
    BY <2>1, <2>2, <2>3, <2>4
<1>8. /\ pods' \in Nat /\ outdated' \in 0..pods'
      /\ formed' \in [primaries : Nat, replicas : Nat] /\ Members' <= pods'
  <2>1. CASE handleScalingUpGrows \/ handleScalingDownResizes \/ handleFastScalingRecreates
    <3>1. UNCHANGED <<pods, outdated, formed>>
      BY <2>1 DEF handleScalingUpGrows, handleScalingDownResizes, handleFastScalingRecreates
    <3> QED
      BY <1>6, <3>1 DEF Members
  <2>2. CASE handleFastScalingDeletes
    BY <2>2 DEF handleFastScalingDeletes, DeleteStatefulSet, NotFormed, Members
  <2>3. CASE handleScalingDownShrinks
    <3>1. Layout(s).primaries \in Nat /\ Layout(s).replicas \in Nat
      BY SizeFacts
    <3>2. PICK a \in Nat, b \in Nat, c \in Nat, d \in Nat :
            /\ a = Layout(s).primaries /\ b = formed.primaries
            /\ c = Layout(s).replicas /\ d = formed.replicas
      BY <1>6, <3>1
    <3>3. /\ UNCHANGED <<pods, outdated>>
          /\ formed' = [primaries |-> Min({a, b}), replicas |-> Min({c, d})]
      BY <1>4, <2>3, <3>2 DEF handleScalingDownShrinks
    <3>4. /\ Min({a, b}) = IF a <= b THEN a ELSE b
          /\ Min({c, d}) = IF c <= d THEN c ELSE d
      BY MinOfTwo
    <3>5. /\ formed'.primaries \in Nat /\ formed'.primaries <= b
          /\ formed'.replicas \in Nat /\ formed'.replicas <= d
      BY <3>3, <3>4
    <3> QED
      BY <1>6, <3>2, <3>3, <3>5 DEF Members
  <2> QED
    BY <2>1, <2>2, <2>3
<1>9. ClusterTypeOK'
  BY <1>1, <1>2, <1>7, <1>8 DEF ClusterTypeOK, upgrade
<1>10. Templated(s)'
  BY <1>4, <1>7 DEF Templated, Made, OneKindOfChange
<1>11. InProgressFits(t)'
  BY <1>1, <1>3, <1>4, <1>10 DEF InProgressFits, configs, Templated, Made
<1>12. ObjectsFit'
  BY <1>1, <1>2, <1>3, <1>11, PassKeepsObjects
<1> QED
  BY <1>5, <1>9, <1>12

\* The last pass of a scaling: the config is carried out.
LEMMA ScaledKeepsObjects ==
  ASSUME IInv, CycleInv', NEW o \in Outcomes,
         handleScalingUp(o) \/ handleScalingDown(o) \/ handleFastScaling(o)
  PROVE  ClusterTypeOK' /\ SubstatusFits' /\ ObjectsFit'
<1>1. /\ pc = "cluster" /\ status[tgt] \in {"ScalingUp", "ScalingDown"}
      /\ UNCHANGED <<pods, outdated, upgrade>> /\ BecomeReady(o) /\ spec' = spec
  BY DEF handleScalingUp, handleScalingDown, handleFastScaling, AtFastScaling, AtStatus,
         BecomeReady, Write
<1>2. /\ tgt \in Ids /\ want = spec[tgt] /\ want \in Specs
      /\ phase[tgt] = "InProgress" /\ InProgressFits(tgt)
      /\ CycleInv /\ ClusterTypeOK
  BY <1>1, AtHandler
<1>3. PICK t \in Ids, s \in Specs : t = tgt /\ s = spec[t]
  BY <1>2
<1>4. s.primaries # 0 /\ Templated(s) /\ want = s
  BY <1>1, <1>2, <1>3 DEF InProgressFits
<1>5. SubstatusFits'
  BY <1>1, <1>2, <1>3, NoSubstatus
<1>6. pods = Total(s) /\ formed' = Layout(s)
  BY <1>4 DEF handleScalingUp, handleScalingDown, handleFastScaling
<1>7. /\ sts # NoSts /\ sts' # NoSts
      /\ sts' \in {NoSts} \cup [replicas : Nat, template : {Template(x) : x \in Specs}]
      /\ sts'.replicas = Total(s) /\ sts'.template = sts.template
  <2>1. CASE handleScalingUp(o) \/ handleScalingDown(o)
    BY <1>2, <1>4, <2>1, ScaleFacts DEF handleScalingUp, handleScalingDown
  <2>2. CASE handleFastScaling(o)
    BY <1>2, <1>4, <2>2 DEF handleFastScaling, ClusterTypeOK
  <2> QED
    BY <2>1, <2>2
<1>8. ClusterTypeOK'
  <2>1. pods \in Nat
    BY <1>2 DEF ClusterTypeOK
  <2>2. formed' \in [primaries : Nat, replicas : Nat] /\ Members' <= pods'
    BY <1>1, <1>6, <2>1, FormedTypeOK
  <2> QED
    BY <1>1, <1>2, <1>7, <2>2 DEF ClusterTypeOK, upgrade
<1>9. Templated(s)'
  BY <1>1, <1>4, <1>7 DEF Templated, Made, OneKindOfChange
<1>10. Done(t)'
  <2>1. Complete(s)'
    BY <1>1, <1>4, <1>6, <1>7, <1>9 DEF Complete, Sized
  <2> QED
    BY <1>1, <1>3, <2>1 DEF Done, Complete, Sized, Templated, Made
<1>11. status'[t] = status[t] => InProgressFits(t)'
  BY <1>1, <1>3, <1>4, <1>9 DEF InProgressFits, Templated, Made
<1>12. ObjectsFit'
  BY <1>1, <1>2, <1>3, <1>10, <1>11, ReadyKeepsObjects
<1> QED
  BY <1>5, <1>8, <1>12

\* Nothing is left of a cluster that was scaled to zero.
LEMMA ToZeroKeepsObjects ==
  ASSUME IInv, CycleInv', NEW o \in Outcomes, handleScalingToZero(o)
  PROVE  ClusterTypeOK' /\ SubstatusFits' /\ ObjectsFit'
<1>1. /\ pc = "cluster" /\ status[tgt] = "ScalingToZero"
      /\ DeleteStatefulSet /\ UNCHANGED upgrade /\ BecomeReady(o) /\ spec' = spec
  BY DEF handleScalingToZero, AtStatus, BecomeReady, Write
<1>2. /\ tgt \in Ids /\ want = spec[tgt] /\ want \in Specs
      /\ phase[tgt] = "InProgress" /\ InProgressFits(tgt)
      /\ CycleInv /\ ClusterTypeOK
  BY <1>1, AtHandler
<1>3. PICK t \in Ids, s \in Specs : t = tgt /\ s = spec[t]
  BY <1>2
<1>4. s.primaries = 0 /\ Total(s) = 0 /\ Layout(s) = NotFormed
  BY <1>1, <1>2, <1>3, SizeFacts DEF InProgressFits
<1>5. SubstatusFits'
  BY <1>1, <1>2, <1>3, NoSubstatus
<1>6. ClusterTypeOK'
  BY <1>1, <1>2 DEF ClusterTypeOK, DeleteStatefulSet, NotFormed, Members, upgrade
<1>7. Done(t)'
  BY <1>1, <1>3, <1>4 DEF Done, Complete, Sized, Templated, Made, DeleteStatefulSet
<1>8. status'[t] = status[t] => InProgressFits(t)'
  BY <1>1, <1>3, <1>4 DEF InProgressFits
<1>9. ObjectsFit'
  BY <1>1, <1>2, <1>3, <1>7, <1>8, ReadyKeepsObjects
<1> QED
  BY <1>5, <1>6, <1>9

\* What is known where a pass of an upgrade runs.
LEMMA AtUpgrade ==
  ASSUME IInv, AtStatus("Upgrading")
  PROVE  /\ tgt \in Ids /\ want = spec[tgt] /\ want \in Specs
         /\ phase[tgt] = "InProgress" /\ status[tgt] = "Upgrading" /\ UpgradeFits(tgt)
         /\ CycleInv /\ ClusterTypeOK /\ SubstatusFits /\ faults \in Nat
<1>1. pc = "cluster" /\ status[tgt] = "Upgrading"
  BY DEF AtStatus
<1> QED
  BY <1>1, AtHandler DEF InProgressFits

\* A pass that is not the last one keeps the status, and a substatus fits it.
LEMMA UpgradePassKeepsObjects ==
  ASSUME IInv, CycleInv', NEW t \in Ids, phase[t] = "InProgress", status[t] = "Upgrading",
         UNCHANGED configs, Return, UpgradeFits(t)'
  PROVE  SubstatusFits' /\ ObjectsFit'
<1>1. phase'[t] = "InProgress" /\ status'[t] = "Upgrading"
  BY DEF configs
<1>2. InProgressFits(t)'
  BY <1>1 DEF InProgressFits
<1> QED
  BY <1>1, <1>2, PassKeepsObjects DEF SubstatusFits

\* What a pass leaves in the substatus.
LEMMA SubstatusWritten ==
  ASSUME faults \in Nat, partition \in Nat, NEW ss, NEW p \in Nat,
         updateSubstatus(ss, p) \/ stopsHalfway
  PROVE  /\ substatus' \in {substatus, ss} /\ partition' \in Nat
         /\ faults' \in Nat /\ faults' >= faults
  BY DEF updateSubstatus, stopsHalfway, upgrade

\* The template is written, the StatefulSet grows, and its pods are outdated.
LEMMA UpgradeStartKeepsObjects ==
  ASSUME IInv, CycleInv', handleUpgradeStart
  PROVE  ClusterTypeOK' /\ SubstatusFits' /\ ObjectsFit'
<1>1. /\ AtStatus("Upgrading") /\ substatus = "None" /\ ~fastUpgradeEligible(want)
      /\ sts # NoSts /\ UNCHANGED <<configs, pods, formed>> /\ Return
  BY DEF handleUpgradeStart, AtSubstatus
<1>2. /\ tgt \in Ids /\ want = spec[tgt] /\ want \in Specs
      /\ phase[tgt] = "InProgress" /\ status[tgt] = "Upgrading" /\ UpgradeFits(tgt)
      /\ CycleInv /\ ClusterTypeOK /\ faults \in Nat
  BY <1>1, AtUpgrade
<1>3. PICK t \in Ids, s \in Specs : t = tgt /\ s = spec[t]
  BY <1>2
<1>4. t > 1 /\ s.primaries # 0 /\ want = s
  BY <1>1, <1>2, <1>3 DEF UpgradeFits
<1>5. Total(s) + upgradeExtraNodes \in Nat /\ Total(s) + upgradeExtraNodes > 0
  BY <1>4, SizeFacts DEF upgradeExtraNodes
<1>6. /\ pods \in Nat /\ outdated \in 0..pods /\ partition \in Nat
      /\ sts \in [replicas : Nat, template : {Template(x) : x \in Specs}]
  BY <1>1, <1>2 DEF ClusterTypeOK
<1>7. /\ substatus' \in {"None", "UpgradeScalingUp"} /\ partition' \in Nat
      /\ faults' \in Nat /\ faults' >= faults
  <2>1. updateSubstatus("UpgradeScalingUp", partition) \/ stopsHalfway
    BY DEF handleUpgradeStart
  <2>2. PICK p \in Nat : p = partition
    BY <1>6
  <2> QED
    BY <1>1, <1>2, <1>6, <2>1, <2>2, SubstatusWritten
<1>8. /\ sts' \in [replicas : Nat, template : {Template(x) : x \in Specs}]
      /\ sts'.template = Template(s)
      /\ substatus' = "UpgradeScalingUp" => sts'.replicas > 0
  <2>1. CASE sts' = [replicas |-> Total(s) + upgradeExtraNodes, template |-> Template(s)]
    BY <1>5, <2>1
  <2>2. CASE sts' = [sts EXCEPT !.template = Template(s)] /\ stopsHalfway
    BY <1>1, <1>6, <2>2 DEF stopsHalfway, upgrade
  <2> QED
    BY <1>4, <2>1, <2>2 DEF handleUpgradeStart
<1>9. outdated' \in 0..pods
  BY <1>6 DEF handleUpgradeStart
<1>10. ClusterTypeOK'
  BY <1>1, <1>2, <1>7, <1>8, <1>9 DEF ClusterTypeOK, Members
<1>11. UpgradeFits(t)'
  <2>1. spec'[t] = s /\ ~fastUpgradeEligible(spec[t])'
    BY <1>1, <1>3, <1>4 DEF configs
  <2>2. substatus' # "None" => sts' # NoSts
    BY <1>7, <1>8 DEF NoSts
  <2> QED
    BY <1>4, <1>7, <1>8, <2>1, <2>2 DEF UpgradeFits
<1> QED
  BY <1>1, <1>2, <1>3, <1>10, <1>11, UpgradePassKeepsObjects

\* The extra nodes join.
LEMMA UpgradeScalingUpKeepsObjects ==
  ASSUME IInv, CycleInv', handleUpgradeScalingUp
  PROVE  ClusterTypeOK' /\ SubstatusFits' /\ ObjectsFit'
<1>1. /\ AtStatus("Upgrading") /\ substatus = "UpgradeScalingUp"
      /\ ~fastUpgradeEligible(want)
      /\ UNCHANGED <<configs, sts, pods, outdated>> /\ Return
  BY DEF handleUpgradeScalingUp, AtSubstatus
<1>2. /\ tgt \in Ids /\ want = spec[tgt] /\ want \in Specs
      /\ phase[tgt] = "InProgress" /\ status[tgt] = "Upgrading" /\ UpgradeFits(tgt)
      /\ CycleInv /\ ClusterTypeOK /\ faults \in Nat
  BY <1>1, AtUpgrade
<1>3. PICK t \in Ids, s \in Specs : t = tgt /\ s = spec[t]
  BY <1>2
<1>4. /\ t > 1 /\ s.primaries # 0 /\ want = s
      /\ sts # NoSts /\ sts.template = Template(s)
  BY <1>1, <1>2, <1>3 DEF UpgradeFits
<1>5. /\ s.primaries \in Nat /\ s.replicas \in Nat /\ Layout(s).replicas \in Nat
      /\ Total(s) \in Nat /\ Total(s) = s.primaries + Layout(s).replicas
  BY SizeFacts
<1>6. pods \in Nat /\ formed.replicas \in Nat /\ partition \in Nat
  BY <1>2, ClusterFacts
<1>7. /\ substatus' \in {"UpgradeScalingUp", "UpgradeRollingUpdate"} /\ partition' \in Nat
      /\ faults' \in Nat /\ faults' >= faults
  <2>1. updateSubstatus("UpgradeRollingUpdate", s.primaries - 1)
    BY <1>4 DEF handleUpgradeScalingUp
  <2>2. PICK p \in Nat : p = s.primaries - 1
    BY <1>4, <1>5
  <2> QED
    BY <1>1, <1>2, <1>6, <2>1, <2>2, SubstatusWritten
<1>8. formed' \in [primaries : Nat, replicas : Nat] /\ Members' <= pods'
  <2>1. PICK a \in Nat, b \in Nat : a = formed.replicas /\ b = Layout(s).replicas
    BY <1>5, <1>6
  <2>2. Min({a, b}) = IF a <= b THEN a ELSE b
    BY MinOfTwo
  <2>3. PICK r : r = Min({a, b}) + s.replicas
    OBVIOUS
  <2>4. r \in Nat /\ r <= Layout(s).replicas + s.replicas
    BY <1>5, <2>1, <2>2, <2>3
  <2>5. /\ formed' = [primaries |-> pods - r, replicas |-> r]
        /\ pods >= Total(s) + (1 + s.replicas)
    BY <1>4, <2>1, <2>3 DEF handleUpgradeScalingUp, upgradeExtraNodes
  <2>6. pods - r \in Nat
    BY <1>5, <1>6, <2>4, <2>5
  <2> QED
    BY <1>1, <1>6, <2>4, <2>5, <2>6 DEF Members
<1>9. ClusterTypeOK'
  BY <1>1, <1>2, <1>7, <1>8 DEF ClusterTypeOK
<1>10. UpgradeFits(t)'
  BY <1>1, <1>3, <1>4, <1>7 DEF UpgradeFits, configs
<1> QED
  BY <1>1, <1>2, <1>3, <1>9, <1>10, UpgradePassKeepsObjects

\* The pods of a partition come back with the new template; after the last one
\* none is outdated.
LEMMA UpgradeRollingKeepsObjects ==
  ASSUME IInv, CycleInv', handleUpgradeRollingUpdate
  PROVE  ClusterTypeOK' /\ SubstatusFits' /\ ObjectsFit'
<1>1. /\ AtStatus("Upgrading") /\ substatus = "UpgradeRollingUpdate"
      /\ ~fastUpgradeEligible(want)
      /\ UNCHANGED <<configs, sts, pods, formed>> /\ Return
  BY DEF handleUpgradeRollingUpdate, AtSubstatus
<1>2. /\ tgt \in Ids /\ want = spec[tgt] /\ want \in Specs
      /\ phase[tgt] = "InProgress" /\ status[tgt] = "Upgrading" /\ UpgradeFits(tgt)
      /\ CycleInv /\ ClusterTypeOK /\ faults \in Nat
  BY <1>1, AtUpgrade
<1>3. PICK t \in Ids, s \in Specs : t = tgt /\ s = spec[t]
  BY <1>2
<1>4. /\ t > 1 /\ s.primaries # 0 /\ want = s
      /\ sts # NoSts /\ sts.template = Template(s)
  BY <1>1, <1>2, <1>3 DEF UpgradeFits
<1>5. pods \in Nat /\ outdated \in Nat /\ outdated <= pods /\ partition \in Nat
  BY <1>2, ClusterFacts
<1>6. /\ outdated' \in 0..pods
      /\ partition = 0 => outdated' = 0
  <2>1. upgradeExtraNodes \in Nat
    BY <1>4, SizeFacts DEF upgradeExtraNodes
  <2>2. PICK p \in Nat, e \in Nat : p = partition /\ e = upgradeExtraNodes
    BY <1>5, <2>1
  <2>3. p * e \in Nat /\ (p = 0 => p * e = 0)
    BY <2>2
  <2>4. PICK a \in Nat, b \in Nat : a = outdated /\ b = p * e
    BY <1>5, <2>3
  <2>5. Min({a, b}) = IF a <= b THEN a ELSE b
    BY MinOfTwo
  <2>6. outdated' = Min({a, b})
    BY <2>2, <2>4 DEF handleUpgradeRollingUpdate
  <2> QED
    BY <1>5, <2>2, <2>3, <2>4, <2>5, <2>6
<1>7. /\ substatus' \in {"UpgradeRollingUpdate", "UpgradeEnding"} /\ partition' \in Nat
      /\ faults' \in Nat /\ faults' >= faults
      /\ substatus' = "UpgradeEnding" => partition = 0
  <2>1. CASE partition > 0
    <3>1. PICK p \in Nat : p = partition - 1
      BY <1>5, <2>1
    <3> QED
      BY <1>1, <1>2, <1>5, <2>1, <3>1, SubstatusWritten DEF handleUpgradeRollingUpdate
  <2>2. CASE partition = 0
    <3>1. PICK p \in Nat : p = partition
      BY <1>5
    <3> QED
      BY <1>1, <1>2, <1>5, <2>2, <3>1, SubstatusWritten DEF handleUpgradeRollingUpdate
  <2> QED
    BY <1>5, <2>1, <2>2
<1>8. ClusterTypeOK'
  BY <1>1, <1>2, <1>6, <1>7 DEF ClusterTypeOK, Members
<1>9. UpgradeFits(t)'
  BY <1>1, <1>3, <1>4, <1>6, <1>7 DEF UpgradeFits, configs
<1> QED
  BY <1>1, <1>2, <1>3, <1>8, <1>9, UpgradePassKeepsObjects

\* The extra nodes are forgotten.
LEMMA UpgradeEndingKeepsObjects ==
  ASSUME IInv, CycleInv', handleUpgradeEnding
  PROVE  ClusterTypeOK' /\ SubstatusFits' /\ ObjectsFit'
<1>1. /\ AtStatus("Upgrading") /\ substatus = "UpgradeEnding"
      /\ ~fastUpgradeEligible(want)
      /\ UNCHANGED <<configs, sts, pods, outdated>> /\ Return
  BY DEF handleUpgradeEnding, AtSubstatus
<1>2. /\ tgt \in Ids /\ want = spec[tgt] /\ want \in Specs
      /\ phase[tgt] = "InProgress" /\ status[tgt] = "Upgrading" /\ UpgradeFits(tgt)
      /\ CycleInv /\ ClusterTypeOK /\ faults \in Nat
  BY <1>1, AtUpgrade
<1>3. PICK t \in Ids, s \in Specs : t = tgt /\ s = spec[t]
  BY <1>2
<1>4. /\ t > 1 /\ s.primaries # 0 /\ want = s
      /\ sts # NoSts /\ sts.template = Template(s) /\ outdated = 0
  BY <1>1, <1>2, <1>3 DEF UpgradeFits
<1>5. /\ pods \in Nat /\ partition \in Nat
      /\ formed.primaries \in Nat /\ formed.replicas \in Nat
      /\ formed = [primaries |-> formed.primaries, replicas |-> formed.replicas]
      /\ formed.primaries + formed.replicas <= pods
  BY <1>2, ClusterFacts
<1>6. formed' \in [primaries : Nat, replicas : Nat] /\ Members' <= pods
  <2>1. s.replicas \in Nat
    BY SizeFacts
  <2>2. PICK a \in Int, b \in Int : /\ a = formed.primaries - 1
                                    /\ b = formed.replicas - s.replicas
    BY <1>5, <2>1
  <2>3. /\ Max({0, a}) = IF a >= 0 THEN a ELSE 0
        /\ Max({0, b}) = IF b >= 0 THEN b ELSE 0
    BY MaxWithZero
  <2>4. \/ formed' = formed
        \/ formed' = [primaries |-> Max({0, a}), replicas |-> Max({0, b})]
    BY <1>4, <2>2 DEF handleUpgradeEnding
  <2>5. /\ Max({0, a}) \in Nat /\ Max({0, a}) <= formed.primaries
        /\ Max({0, b}) \in Nat /\ Max({0, b}) <= formed.replicas
    BY <1>5, <2>1, <2>2, <2>3
  <2> QED
    BY <1>5, <2>4, <2>5 DEF Members
<1>7. /\ substatus' \in {"UpgradeEnding", "UpgradeScalingDown"} /\ partition' \in Nat
      /\ faults' \in Nat /\ faults' >= faults
  <2>1. PICK p \in Nat : p = partition
    BY <1>5
  <2> QED
    BY <1>1, <1>2, <1>5, <2>1, SubstatusWritten DEF handleUpgradeEnding
<1>8. ClusterTypeOK'
  BY <1>1, <1>2, <1>6, <1>7 DEF ClusterTypeOK
<1>9. UpgradeFits(t)'
  BY <1>1, <1>3, <1>4, <1>7 DEF UpgradeFits, configs
<1> QED
  BY <1>1, <1>2, <1>3, <1>8, <1>9, UpgradePassKeepsObjects

\* The StatefulSet gets its old size back.
LEMMA UpgradeShrinksKeepsObjects ==
  ASSUME IInv, CycleInv', handleUpgradeScalingDownShrinks
  PROVE  ClusterTypeOK' /\ SubstatusFits' /\ ObjectsFit'
<1>1. /\ AtStatus("Upgrading") /\ substatus = "UpgradeScalingDown"
      /\ ~fastUpgradeEligible(want)
      /\ UNCHANGED <<configs, pods, outdated, formed, upgrade, faults>> /\ Return
  BY DEF handleUpgradeScalingDownShrinks, AtSubstatus
<1>2. /\ tgt \in Ids /\ want = spec[tgt] /\ want \in Specs
      /\ phase[tgt] = "InProgress" /\ status[tgt] = "Upgrading" /\ UpgradeFits(tgt)
      /\ CycleInv /\ ClusterTypeOK
  BY <1>1, AtUpgrade
<1>3. PICK t \in Ids, s \in Specs : t = tgt /\ s = spec[t]
  BY <1>2
<1>4. /\ t > 1 /\ s.primaries # 0 /\ want = s
      /\ sts # NoSts /\ sts.template = Template(s) /\ outdated = 0
  BY <1>1, <1>2, <1>3 DEF UpgradeFits
<1>5. /\ sts' \in [replicas : Nat, template : {Template(x) : x \in Specs}]
      /\ sts' # NoSts /\ sts'.template = Template(s)
  BY <1>2, <1>4, ScaleFacts DEF handleUpgradeScalingDownShrinks
<1>6. ClusterTypeOK'
  BY <1>1, <1>2, <1>5 DEF ClusterTypeOK, Members, upgrade
<1>7. UpgradeFits(t)'
  BY <1>1, <1>3, <1>4, <1>5 DEF UpgradeFits, configs, upgrade
<1> QED
  BY <1>1, <1>2, <1>3, <1>6, <1>7, UpgradePassKeepsObjects

\* The last write of an upgrade clears the substatus unless it is refused.
LEMMA ReadyAgainKeepsSubstatus ==
  ASSUME IInv, NEW t \in Ids, t = tgt, phase[t] = "InProgress", status[t] = "Upgrading",
         NEW o \in Outcomes, BecomeReadyAgain(o)
  PROVE  /\ SubstatusFits' /\ BecomeReady(o) /\ spec' = spec
         /\ substatus' \in {substatus, "None"} /\ partition' = partition
         /\ faults' \in Nat /\ faults' >= faults
<1>1. CycleInv
  BY DEF IInv
<1>2. BecomeReady(o) /\ Write("InProgress", "Ready", o)
  BY DEF BecomeReadyAgain, BecomeReady
<1>3. /\ spec' = spec /\ faults' \in Nat /\ faults' >= faults
      /\ o = "refused" => phase' = phase /\ status' = status
  BY <1>1, <1>2, WriteFacts
<1>4. SubstatusFits'
  BY <1>3 DEF SubstatusFits, BecomeReadyAgain
<1> QED
  BY <1>2, <1>3, <1>4 DEF BecomeReadyAgain

\* The upgrade is over.
LEMMA UpgradeScalingDownKeepsObjects ==
  ASSUME IInv, CycleInv', NEW o \in Outcomes, handleUpgradeScalingDown(o)
  PROVE  ClusterTypeOK' /\ SubstatusFits' /\ ObjectsFit'
<1>1. /\ AtStatus("Upgrading") /\ substatus = "UpgradeScalingDown"
      /\ ~fastUpgradeEligible(want)
      /\ UNCHANGED <<pods, outdated>> /\ BecomeReadyAgain(o)
  BY DEF handleUpgradeScalingDown, AtSubstatus
<1>2. /\ tgt \in Ids /\ want = spec[tgt] /\ want \in Specs
      /\ phase[tgt] = "InProgress" /\ status[tgt] = "Upgrading" /\ UpgradeFits(tgt)
      /\ CycleInv /\ ClusterTypeOK
  BY <1>1, AtUpgrade
<1>3. PICK t \in Ids, s \in Specs : t = tgt /\ s = spec[t]
  BY <1>2
<1>4. /\ t > 1 /\ s.primaries # 0 /\ want = s
      /\ sts # NoSts /\ sts.template = Template(s) /\ outdated = 0
  BY <1>1, <1>2, <1>3 DEF UpgradeFits
<1>5. /\ SubstatusFits' /\ BecomeReady(o) /\ spec' = spec
      /\ substatus' \in {"UpgradeScalingDown", "None"} /\ partition' = partition
  BY <1>1, <1>2, <1>3, ReadyAgainKeepsSubstatus
<1>6. /\ sts' \in [replicas : Nat, template : {Template(x) : x \in Specs}]
      /\ sts' # NoSts /\ sts'.template = Template(s) /\ sts'.replicas = Total(s)
  BY <1>2, <1>4, ScaleFacts DEF handleUpgradeScalingDown
<1>7. pods \in Nat /\ pods = Total(s) /\ formed' = Layout(s)
  BY <1>2, <1>4 DEF handleUpgradeScalingDown, ClusterTypeOK
<1>8. ClusterTypeOK'
  <2>1. formed' \in [primaries : Nat, replicas : Nat] /\ Members' <= pods'
    BY <1>1, <1>7, FormedTypeOK
  <2> QED
    BY <1>1, <1>2, <1>5, <1>6, <2>1 DEF ClusterTypeOK
<1>9. Done(t)'
  BY <1>1, <1>3, <1>4, <1>5, <1>6, <1>7 DEF Done, Complete, Sized, Templated, Made
<1>10. UpgradeFits(t)'
  BY <1>1, <1>3, <1>4, <1>5, <1>6 DEF UpgradeFits
<1>11. status'[t] = status[t] => InProgressFits(t)'
  BY <1>2, <1>3, <1>10 DEF InProgressFits
<1>12. ObjectsFit'
  BY <1>2, <1>3, <1>5, <1>9, <1>11, ReadyKeepsObjects
<1> QED
  BY <1>5, <1>8, <1>12

\* All pods are deleted, and come back with the new template.
LEMMA FastUpgradeStartKeepsObjects ==
  ASSUME IInv, CycleInv', handleFastUpgradeStart
  PROVE  ClusterTypeOK' /\ SubstatusFits' /\ ObjectsFit'
<1>1. /\ AtStatus("Upgrading") /\ substatus = "None" /\ fastUpgradeEligible(want)
      /\ sts # NoSts /\ UNCHANGED configs /\ Return
      /\ sts' = [sts EXCEPT !.template = Template(want)]
  BY DEF handleFastUpgradeStart, AtSubstatus
<1>2. /\ tgt \in Ids /\ want = spec[tgt] /\ want \in Specs
      /\ phase[tgt] = "InProgress" /\ status[tgt] = "Upgrading" /\ UpgradeFits(tgt)
      /\ CycleInv /\ ClusterTypeOK /\ faults \in Nat
  BY <1>1, AtUpgrade
<1>3. PICK t \in Ids, s \in Specs : t = tgt /\ s = spec[t]
  BY <1>2
<1>4. /\ t > 1 /\ s.primaries # 0 /\ want = s
      /\ \E j \in 1..t : Sized(spec[j])
      /\ faults = 0 => Sized(s)
  BY <1>1, <1>2, <1>3 DEF UpgradeFits
<1>5. PICK j \in 1..t : Sized(spec[j])
  BY <1>4
<1>6. /\ pods \in Nat /\ outdated \in 0..pods /\ partition \in Nat
      /\ sts \in [replicas : Nat, template : {Template(x) : x \in Specs}]
      /\ formed \in [primaries : Nat, replicas : Nat] /\ Members <= pods
  BY <1>1, <1>2 DEF ClusterTypeOK
<1>7. /\ substatus' \in {"None", "FastUpgrading"} /\ partition' \in Nat
      /\ faults' \in Nat /\ faults' >= faults
  <2>1. updateSubstatus("FastUpgrading", partition) \/ stopsHalfway
    BY DEF handleFastUpgradeStart
  <2>2. PICK p \in Nat : p = partition
    BY <1>6
  <2> QED
    BY <1>1, <1>2, <1>6, <2>1, <2>2, SubstatusWritten
<1>8. /\ sts' \in [replicas : Nat, template : {Template(x) : x \in Specs}]
      /\ sts'.template = Template(s) /\ sts'.replicas = sts.replicas
  BY <1>1, <1>4, <1>6
<1>9. /\ pods' \in Nat /\ outdated' \in 0..pods'
      /\ formed' \in [primaries : Nat, replicas : Nat] /\ Members' <= pods'
      /\ substatus' = "FastUpgrading" => outdated' = 0
  <2>1. CASE pods' = 0 /\ outdated' = 0 /\ formed' = NotFormed
    BY <2>1 DEF NotFormed, Members
  <2>2. CASE /\ outdated' = IF sts.template = Template(want) THEN outdated ELSE pods
             /\ UNCHANGED <<pods, formed>>
             /\ stopsHalfway
    BY <1>1, <1>6, <2>2 DEF Members, stopsHalfway, upgrade
  <2> QED
    BY <2>1, <2>2 DEF handleFastUpgradeStart
<1>10. ClusterTypeOK'
  BY <1>7, <1>8, <1>9 DEF ClusterTypeOK
<1>11. /\ spec[j] \in Specs /\ spec[j].primaries # 0
       /\ sts.replicas = Total(spec[j]) /\ Total(spec[j]) > 0
  <2>1. spec[j] \in Specs
    BY <1>2, <1>5, SpecFacts
  <2> QED
    BY <1>1, <1>5, <2>1, SizeFacts DEF Sized
<1>12. sts' # NoSts
  BY <1>8, <1>11 DEF NoSts
<1>13. spec' = spec
  BY <1>1 DEF configs
<1>14. Sized(spec[j])'
  BY <1>8, <1>11, <1>12, <1>13 DEF Sized
<1>15. faults' = 0 => Sized(spec[t])'
  <2> SUFFICES ASSUME faults' = 0 PROVE Sized(spec[t])'
    OBVIOUS
  <2>1. Sized(s)
    BY <1>2, <1>4, <1>7
  <2> QED
    BY <1>3, <1>4, <1>8, <1>12, <1>13, <2>1 DEF Sized
<1>16. UpgradeFits(t)'
  BY <1>3, <1>4, <1>7, <1>8, <1>9, <1>12, <1>13, <1>14, <1>15 DEF UpgradeFits
<1> QED
  BY <1>1, <1>2, <1>3, <1>10, <1>16, UpgradePassKeepsObjects

\* All pods are back.
LEMMA FastUpgradeWaitKeepsObjects ==
  ASSUME IInv, CycleInv', handleFastUpgradeWaitReady
  PROVE  ClusterTypeOK' /\ SubstatusFits' /\ ObjectsFit'
<1>1. /\ AtStatus("Upgrading") /\ substatus = "FastUpgrading"
      /\ UNCHANGED <<configs, sts, pods, outdated, formed>> /\ Return
  BY DEF handleFastUpgradeWaitReady, AtSubstatus
<1>2. /\ tgt \in Ids
      /\ phase[tgt] = "InProgress" /\ status[tgt] = "Upgrading" /\ UpgradeFits(tgt)
      /\ CycleInv /\ ClusterTypeOK /\ faults \in Nat
  BY <1>1, AtUpgrade
<1>3. PICK t \in Ids : t = tgt
  BY <1>2
<1>4. /\ substatus' \in {"FastUpgrading", "EndingFastUpgrade"} /\ partition' \in Nat
      /\ faults' \in Nat /\ faults' >= faults
  <2>1. PICK p \in Nat : p = partition
    BY <1>2 DEF ClusterTypeOK
  <2> QED
    BY <1>1, <1>2, <2>1, SubstatusWritten DEF handleFastUpgradeWaitReady
<1>5. ClusterTypeOK'
  BY <1>1, <1>2, <1>4 DEF ClusterTypeOK, Members
<1>6. spec' = spec /\ (faults' = 0 => faults = 0)
  BY <1>1, <1>2, <1>4 DEF configs
<1>7. ASSUME NEW j PROVE Sized(spec[j]) => Sized(spec[j])'
  BY <1>1, <1>6 DEF Sized
<1>8. UpgradeFits(t)'
  BY <1>1, <1>2, <1>3, <1>4, <1>6, <1>7 DEF UpgradeFits
<1> QED
  BY <1>1, <1>2, <1>3, <1>5, <1>8, UpgradePassKeepsObjects

\* The Redis cluster is formed again; a scaling that was lost stays lost.
LEMMA FastUpgradeFormKeepsObjects ==
  ASSUME IInv, CycleInv', NEW o \in Outcomes, handleFastUpgradeFormCluster(o)
  PROVE  ClusterTypeOK' /\ SubstatusFits' /\ ObjectsFit'
<1>1. /\ AtStatus("Upgrading") /\ substatus = "EndingFastUpgrade"
      /\ fastUpgradeEligible(want)
      /\ UNCHANGED <<sts, pods, outdated>> /\ BecomeReadyAgain(o)
  BY DEF handleFastUpgradeFormCluster, AtSubstatus
<1>2. /\ tgt \in Ids /\ want = spec[tgt] /\ want \in Specs
      /\ phase[tgt] = "InProgress" /\ status[tgt] = "Upgrading" /\ UpgradeFits(tgt)
      /\ CycleInv /\ ClusterTypeOK /\ faults \in Nat
  BY <1>1, AtUpgrade
<1>3. PICK t \in Ids, s \in Specs : t = tgt /\ s = spec[t]
  BY <1>2
<1>4. /\ t > 1 /\ s.primaries # 0 /\ want = s
      /\ sts # NoSts /\ sts.template = Template(s) /\ outdated = 0
      /\ \E j \in 1..t : Sized(spec[j])
      /\ faults = 0 => Sized(s)
  BY <1>1, <1>2, <1>3 DEF UpgradeFits
<1>5. /\ SubstatusFits' /\ BecomeReady(o) /\ spec' = spec
      /\ substatus' \in {"EndingFastUpgrade", "None"} /\ partition' = partition
      /\ faults' \in Nat /\ faults' >= faults
  BY <1>1, <1>2, <1>3, ReadyAgainKeepsSubstatus
<1>6. pods \in Nat /\ pods = Total(s) /\ formed' = Layout(s)
  BY <1>2, <1>4 DEF handleFastUpgradeFormCluster, ClusterTypeOK
<1>7. ClusterTypeOK'
  <2>1. formed' \in [primaries : Nat, replicas : Nat] /\ Members' <= pods'
    BY <1>1, <1>6, FormedTypeOK
  <2> QED
    BY <1>1, <1>2, <1>5, <2>1 DEF ClusterTypeOK
<1>8. ASSUME NEW j PROVE Sized(spec[j]) => Sized(spec[j])'
  BY <1>1, <1>5 DEF Sized
<1>9. Templated(spec[t])' /\ spec'[t] = s
  BY <1>1, <1>3, <1>4, <1>5 DEF Templated, Made
<1>10. Done(t)'
  <2>1. CASE Sized(s)
    BY <1>1, <1>3, <1>6, <1>8, <1>9, <2>1 DEF Done, Complete
  <2>2. CASE ~Sized(s)
    <3>1. PICK j \in 1..t : Sized(spec[j])
      BY <1>4
    <3>2. j \in 1..(t - 1)
      BY <1>3, <2>2, <3>1 DEF Ids
    <3>3. faults' > 0
      BY <1>2, <1>4, <1>5, <2>2
    <3> QED
      BY <1>4, <1>8, <1>9, <3>1, <3>2, <3>3 DEF Done
  <2> QED
    BY <2>1, <2>2
<1>11. UpgradeFits(t)'
  <2>1. faults' = 0 => faults = 0
    BY <1>2, <1>5
  <2> QED
    BY <1>1, <1>3, <1>4, <1>5, <1>8, <2>1 DEF UpgradeFits
<1>12. status'[t] = status[t] => InProgressFits(t)'
  BY <1>2, <1>3, <1>11 DEF InProgressFits
<1>13. ObjectsFit'
  BY <1>2, <1>3, <1>5, <1>10, <1>12, ReadyKeepsObjects
<1> QED
  BY <1>5, <1>7, <1>13

(***************************************************************************)
(* The theorems about the cluster.                                         *)
(***************************************************************************)

\* Nothing is deployed at first.
LEMMA InitIInv == Init => IInv
<1> SUFFICES ASSUME Init PROVE IInv
  OBVIOUS
<1>1. CycleInv
  BY InitCycleInv
<1>2. ClusterTypeOK /\ SubstatusFits
  BY DEF Init, ClusterTypeOK, SubstatusFits, NoSts, NotFormed, Members
<1>3. ObjectsFit
  BY DEF Init, CycleInit, ObjectsFit, Fresh, IsCurrent
<1> QED
  BY <1>1, <1>2, <1>3 DEF IInv, TypeOK, CycleInv

\* Every step of the system keeps the objects and what is stored of them together.
LEMMA NextIInv == IInv /\ [Next]_vars => IInv'
<1> SUFFICES ASSUME IInv, [Next]_vars PROVE IInv'
  OBVIOUS
<1>1. CycleInv'
  BY NextCycleInv DEF IInv
<1> SUFFICES ClusterTypeOK' /\ SubstatusFits' /\ ObjectsFit'
  BY <1>1 DEF IInv, TypeOK, CycleInv
<1>2. ASSUME NEW s \in Specs, OperatorCreates(s), UNCHANGED cluster
      PROVE  ClusterTypeOK' /\ SubstatusFits' /\ ObjectsFit'
  BY <1>1, <1>2, CreateKeepsObjects
<1>3. ASSUME KubeStartsPod \/ KubeStopsPod
      PROVE  ClusterTypeOK' /\ SubstatusFits' /\ ObjectsFit'
  BY <1>3, KubeKeepsObjects
<1>4. ASSUME \/ UNCHANGED vars
             \/ restart /\ UNCHANGED cluster
             \/ applyAuthToAllNodesFails /\ UNCHANGED cluster
             \/ reconcile /\ UNCHANGED cluster
             \/ handlerReturns
             \/ handleReadyApplied
      PROVE  ClusterTypeOK' /\ SubstatusFits' /\ ObjectsFit'
  <2>1. /\ UNCHANGED <<configs, cluster>>
        /\ \/ UNCHANGED cycle
           \/ reconcile
           \/ pc = "cluster" /\ Return /\ faults' = faults
           \/ Fault
    BY <1>4 DEF vars, restart, applyAuthToAllNodesFails, Fault, reconcile, handlerReturns,
                handleReadyApplied, AtStatus
  <2> QED
    BY <2>1, WaitKeepsObjects
<1>5. ASSUME NEW o \in Outcomes, UNCHANGED cluster,
             \/ setConfigPhaseInProgress(o)
             \/ copyPreviousClusterStatus(o)
             \/ setConfigPhaseApplied(o)
      PROVE  ClusterTypeOK' /\ SubstatusFits' /\ ObjectsFit'
  BY <1>1, <1>5, StartKeepsObjects, CopyKeepsObjects, ApplyKeepsObjects
<1>6. ASSUME NEW o \in Outcomes, handleConfigChange(o) \/ restorePreviousStatus(o)
      PROVE  ClusterTypeOK' /\ SubstatusFits' /\ ObjectsFit'
  BY <1>1, <1>6, ConfigChangeKeepsObjects, RestoreKeepsObjects
<1>7. ASSUME NEW o \in Outcomes,
             \/ handleNew(o) \/ handleInitializing(o) \/ handleConfiguring(o)
             \/ handleReadyInProgress(o)
             \/ handleScalingUp(o) \/ handleScalingDown(o) \/ handleFastScaling(o)
             \/ handleScalingToZero(o)
             \/ handleUpgradeScalingDown(o) \/ handleFastUpgradeFormCluster(o)
      PROVE  ClusterTypeOK' /\ SubstatusFits' /\ ObjectsFit'
  BY <1>1, <1>7, NewKeepsObjects, InitializingKeepsObjects, ConfiguringKeepsObjects,
     ReadyInProgressKeepsObjects, ScaledKeepsObjects, ToZeroKeepsObjects,
     UpgradeScalingDownKeepsObjects, FastUpgradeFormKeepsObjects
<1>8. ASSUME \/ handleReadyRemediates
             \/ handleScalingUpGrows
             \/ handleScalingDownShrinks \/ handleScalingDownResizes
             \/ handleFastScalingDeletes \/ handleFastScalingRecreates
             \/ handleUpgradeStart \/ handleUpgradeScalingUp
             \/ handleUpgradeRollingUpdate \/ handleUpgradeEnding
             \/ handleUpgradeScalingDownShrinks
             \/ handleFastUpgradeStart \/ handleFastUpgradeWaitReady
      PROVE  ClusterTypeOK' /\ SubstatusFits' /\ ObjectsFit'
  BY <1>1, <1>8, RemediatesKeepsObjects, ScalingPassKeepsObjects,
     UpgradeStartKeepsObjects, UpgradeScalingUpKeepsObjects, UpgradeRollingKeepsObjects,
     UpgradeEndingKeepsObjects, UpgradeShrinksKeepsObjects,
     FastUpgradeStartKeepsObjects, FastUpgradeWaitKeepsObjects
<1>9. ASSUME handlers PROVE ClusterTypeOK' /\ SubstatusFits' /\ ObjectsFit'
  BY <1>7, <1>8, <1>9, Zenon DEF handlers
<1>10. ASSUME CycleNext /\ UNCHANGED cluster
       PROVE  ClusterTypeOK' /\ SubstatusFits' /\ ObjectsFit'
  BY <1>4, <1>5, <1>10, Zenon DEF CycleNext
<1>11. ASSUME robin PROVE ClusterTypeOK' /\ SubstatusFits' /\ ObjectsFit'
  BY <1>4, <1>6, <1>9, <1>10, <1>11, Zenon DEF robin
<1> QED
  BY <1>2, <1>3, <1>4, <1>11, Zenon DEF Next

\* The stored phases and statuses tell what the StatefulSet, its pods and the
\* Redis cluster are like, whatever writes fail, whatever passes are interrupted
\* and wherever the process is restarted: for every set of specs and changes.
THEOREM InvariantHolds == Spec => []IInv
  BY InitIInv, NextIInv, PTL DEF Spec

\* Every variable keeps its type; there are never more members than pods, and a
\* substatus is there only while a config is upgrading.
THEOREM TypeCorrect == Spec => []TypeOK
<1>1. IInv => TypeOK
  BY DEF IInv
<1> QED
  BY <1>1, InvariantHolds, PTL

\* A StatefulSet of the size of one spec, with the template of another.
LEMMA SizedAndMade ==
  ASSUME ClusterTypeOK, NEW s \in Specs, NEW t \in Specs, Sized(t), Made(s)
  PROVE  Rolled(s, t)
<1>1. CASE t.primaries = 0
  BY <1>1 DEF Sized, Made, Rolled
<1>2. CASE t.primaries # 0
  <2>1. /\ sts # NoSts /\ sts.replicas = Total(t) /\ sts.template = Template(s)
        /\ sts \in [replicas : Nat, template : {Template(x) : x \in Specs}]
    BY <1>2 DEF Sized, Made, ClusterTypeOK
  <2>2. sts = [replicas |-> Total(t), template |-> Template(s)]
    BY <2>1
  <2> QED
    BY <1>2, <2>2 DEF Made, Rolled
<1> QED
  BY <1>1, <1>2

\* A config that is marked Applied is deployed, but for a scaling that a fault
\* has cost it, if no config changes the topology and the pods' template at
\* once. Without that condition it is false: see RemainingChangesFollow.
THEOREM AppliedIsDeployed ==
  ASSUME OneKindOfChange
  PROVE  Spec => []AppliedMeansDeployed
<1>1. IInv => AppliedMeansDeployed
  <2> SUFFICES ASSUME IInv, NEW i \in Ids, IsCurrent(i)
               PROVE  \/ /\ Rolled(spec[i], spec[i])
                         /\ pods = Total(spec[i])
                         /\ formed = Layout(spec[i])
                      \/ /\ faults > 0 /\ spec[i].primaries > 0
                         /\ \E j \in 1 .. i - 1 : Rolled(spec[i], spec[j])
    BY DEF AppliedMeansDeployed
  <2>1. CycleInv /\ ClusterTypeOK /\ Done(i)
    BY DEF IInv, TypeOK, ObjectsFit
  <2>2. spec[i] \in Specs /\ \A j \in 1..(i - 1) : spec[j] \in Specs
    <3>1. \A j \in 1..(i - 1) : j \in 1..i
      BY DEF Ids
    <3> QED
      BY <2>1, <3>1, SpecFacts
  <2>3. CASE Complete(spec[i])
    BY <2>1, <2>2, <2>3, SizedAndMade DEF Complete, Templated
  <2>4. CASE /\ faults > 0 /\ spec[i].primaries # 0 /\ Templated(spec[i])
             /\ \E j \in 1..(i - 1) : Sized(spec[j])
    <3>1. PICK j \in 1..(i - 1) : Sized(spec[j])
      BY <2>4
    <3>2. Rolled(spec[i], spec[j])
      BY <2>1, <2>2, <2>4, <3>1, SizedAndMade DEF Templated
    <3>3. spec[i].primaries > 0
      BY <2>2, <2>4, SizeFacts
    <3> QED
      BY <2>4, <3>2, <3>3
  <2> QED
    BY <2>1, <2>3, <2>4 DEF Done
<1> QED
  BY <1>1, InvariantHolds, PTL
=============================================================================
