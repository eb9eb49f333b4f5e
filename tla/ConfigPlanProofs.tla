-------------------------- MODULE ConfigPlanProofs --------------------------
(***************************************************************************)
(* Proofs about ConfigPlan for every number of configs and every set of    *)
(* specs: its inductive invariant, the safety properties that follow from  *)
(* it, and that it implements ConfigQueue.                                 *)
(***************************************************************************)
EXTENDS ConfigPlan, ConfigSelectionProofs

(***************************************************************************)
(* The inductive invariant.                                                *)
(***************************************************************************)

\* The empty API server and the idle loop satisfy the invariant.
LEMMA InitIInv == Init => IInv
<1> SUFFICES ASSUME Init PROVE IInv
  OBVIOUS
<1> USE DEF Init, Ids, None
<1>1. TypeOK
  <2>1. spec \in [Ids -> Specs]
    BY SpecsAssumption, Zenon
  <2>2. phase \in [Ids -> Phases] /\ snap \in [Ids -> Phases]
    BY DEF Phases
  <2>3. n \in 0..MaxConfigs /\ seen \in 0..n
    BY MaxConfigsAssumption
  <2> QED
    BY <2>1, <2>2, <2>3 DEF TypeOK
<1>2. MemoryAgrees
  BY DEF MemoryAgrees
<1>3. InOrder
  BY DEF InOrder
<1>4. SupersededIsCovered
  BY DEF SupersededIsCovered
<1>5. CursorIsHead /\ ChainIsSkippable /\ TargetIsCurrent
  BY DEF CursorIsHead, ChainIsSkippable, TargetIsCurrent
<1> QED
  BY <1>1, <1>2, <1>3, <1>4, <1>5 DEF IInv

\* Ending a cycle, by returning or by dying, after a write that keeps the
\* stored statuses in order, leaves no memory that could be wrong.
LEMMA AbandonKeepsIInv ==
  ASSUME IInv, Abandon, UNCHANGED <<n, spec>>,
         phase' \in [Ids -> Phases],
         \A i \in Ids : i > n => phase'[i] = "Unset",
         InOrder', SupersededIsCovered'
  PROVE  IInv'
<1> USE DEF Abandon, Ids, None
<1>1. TypeOK'
  <2>1. n' \in 0..MaxConfigs /\ spec' \in [Ids -> Specs]
    BY DEF IInv, TypeOK
  <2>2. snap' \in [Ids -> Phases]
    BY DEF Phases
  <2>3. seen' \in 0..n'
    BY <2>1, MaxConfigsAssumption
  <2> QED
    BY <2>1, <2>2, <2>3 DEF TypeOK
<1>2. MemoryAgrees'
  BY DEF MemoryAgrees
<1>3. CursorIsHead' /\ ChainIsSkippable' /\ TargetIsCurrent'
  BY DEF CursorIsHead, ChainIsSkippable, TargetIsCurrent
<1> QED
  BY <1>1, <1>2, <1>3 DEF IInv

\* Ending a cycle without a write keeps the invariant.
LEMMA StopKeepsIInv ==
  ASSUME IInv, Abandon, UNCHANGED store
  PROVE  IInv'
<1>1. phase' \in [Ids -> Phases] /\ UNCHANGED <<n, spec>>
  BY DEF IInv, TypeOK, store
<1>2. \A i \in Ids : i > n => phase'[i] = "Unset"
  BY DEF IInv, MemoryAgrees, store
<1>3. InOrder'
  BY DEF IInv, InOrder, store
<1>4. SupersededIsCovered'
  BY DEF IInv, SupersededIsCovered, store
<1> QED
  BY <1>1, <1>2, <1>3, <1>4, AbandonKeepsIInv

\* SupersededIsCovered only looks at which configs are Superseded: a write
\* that supersedes nothing and reopens nothing keeps it.
LEMMA SameSupersededKeepsCovered ==
  ASSUME IInv, UNCHANGED <<n, spec>>,
         \A j \in Ids : phase'[j] = "Superseded" <=> phase[j] = "Superseded"
  PROVE  SupersededIsCovered'
<1> USE DEF Ids
<1>1. SupersededIsCovered /\ n \in 0..MaxConfigs /\ MaxConfigs \in Nat
  BY MaxConfigsAssumption DEF IInv, TypeOK
<1> SUFFICES ASSUME NEW k \in Ids, phase'[k] = "Superseded"
             PROVE  /\ spec[k].skip
                    /\ \E j \in (k + 1)..n :
                         /\ phase'[j] # "Superseded"
                         /\ \A l \in (k + 1)..(j - 1) :
                              phase'[l] = "Superseded"
                         /\ spec[j].other = spec[k].other
  BY DEF SupersededIsCovered
<1>2. phase[k] = "Superseded"
  OBVIOUS
<1>3. spec[k].skip
  BY <1>1, <1>2 DEF SupersededIsCovered
<1>4. PICK j \in (k + 1)..n :
         /\ phase[j] # "Superseded"
         /\ \A l \in (k + 1)..(j - 1) : phase[l] = "Superseded"
         /\ spec[j].other = spec[k].other
  BY <1>1, <1>2 DEF SupersededIsCovered
<1>5. j \in Ids /\ \A l \in (k + 1)..(j - 1) : l \in Ids
  BY <1>1, <1>4
<1> QED
  BY <1>3, <1>4, <1>5

\* A status write from Unset or Pending to Pending is invisible to the order.
LEMMA PendingKeepsOrder ==
  ASSUME IInv, NEW i \in 1..n, phase[i] \in Waiting,
         phase' = [phase EXCEPT ![i] = "Pending"] \/ phase' = phase,
         UNCHANGED <<n, spec>>
  PROVE  /\ phase' \in [Ids -> Phases]
         /\ \A j \in Ids : j > n => phase'[j] = "Unset"
         /\ \A j \in Ids : \/ phase'[j] = phase[j]
                           \/ phase[j] \in Waiting /\ phase'[j] \in Waiting
         /\ InOrder'
         /\ SupersededIsCovered'
<1> USE DEF Ids
<1>1. phase \in [Ids -> Phases] /\ n \in 0..MaxConfigs /\ i \in Ids
  BY MaxConfigsAssumption DEF IInv, TypeOK
<1>2. phase' \in [Ids -> Phases]
  BY <1>1 DEF Phases
<1>3. \A j \in Ids : j > n => phase'[j] = "Unset"
  <2>1. \A j \in Ids : j > n => phase[j] = "Unset" /\ j # i
    BY <1>1 DEF IInv, MemoryAgrees
  <2> QED
    BY <1>1, <2>1
<1>4. \A j \in Ids : \/ phase'[j] = phase[j]
                     \/ phase[j] \in Waiting /\ phase'[j] \in Waiting
  BY <1>1 DEF Waiting
<1>5. InOrder'
  <2>1. InOrder
    BY DEF IInv
  <2> QED
    BY <1>4, <2>1 DEF InOrder, Waiting, Terminal
<1>6. SupersededIsCovered'
  <2>1. \A j \in Ids : phase'[j] = "Superseded" <=> phase[j] = "Superseded"
    BY <1>4 DEF Waiting
  <2> QED
    BY <2>1, SameSupersededKeepsCovered
<1> QED
  BY <1>2, <1>3, <1>4, <1>5, <1>6

\* Marking the config at the cursor Superseded, with the chain in front of it
\* still skippable, keeps the order and covers every skipped config: the ones
\* it covered itself are now covered by its successor.
LEMMA SupersedeKeepsOrder ==
  ASSUME IInv, pc = "superseding", cursor < target, UNCHANGED <<n, spec>>,
         phase' = [phase EXCEPT ![cursor] = "Superseded"] \/ phase' = phase
  PROVE  /\ phase' \in [Ids -> Phases]
         /\ \A j \in Ids : j > n => phase'[j] = "Unset"
         /\ InOrder'
         /\ SupersededIsCovered'
<1> USE DEF Ids
<1>1. /\ phase \in [Ids -> Phases] /\ MaxConfigs \in Nat
      /\ n \in 0..MaxConfigs /\ cursor \in 1..target /\ target \in 1..n
      /\ cursor \in Ids /\ cursor \in 1..n /\ cursor + 1 \in 1..n
      /\ cursor + 1 \in Ids /\ cursor \in Nat
  BY MaxConfigsAssumption DEF IInv, TypeOK, CursorIsHead
<1>2. /\ phase[cursor] \in Waiting /\ phase[cursor + 1] \in Waiting
      /\ spec[cursor].skip /\ spec[cursor + 1].other = spec[cursor].other
  <2>1. cursor \in cursor..target /\ cursor + 1 \in cursor..target
        /\ cursor \in cursor..(target - 1)
    BY <1>1
  <2> QED
    BY <2>1 DEF IInv, ChainIsSkippable
<1>3. \A j \in 1..(cursor - 1) : phase[j] \in Terminal
  BY <1>2 DEF IInv, CursorIsHead, Waiting, Terminal
<1>4. CASE phase' = phase
  <2>1. InOrder' /\ SupersededIsCovered'
    BY <1>4 DEF IInv, InOrder, SupersededIsCovered
  <2> QED
    BY <1>1, <1>4, <2>1 DEF IInv, MemoryAgrees
<1>5. CASE phase' = [phase EXCEPT ![cursor] = "Superseded"]
  <2>1. \A j \in Ids :
           phase'[j] = IF j = cursor THEN "Superseded" ELSE phase[j]
    BY <1>1, <1>5
  <2>2. phase' \in [Ids -> Phases]
    BY <1>1, <1>5 DEF Phases
  <2>3. \A j \in Ids : j > n => phase'[j] = "Unset"
    BY <1>1, <2>1 DEF IInv, MemoryAgrees
  <2>4. InOrder'
    <3> SUFFICES ASSUME NEW i \in Ids, NEW j \in Ids, i < j,
                        phase'[j] \in {"InProgress", "Applied", "Superseded"}
                 PROVE  phase'[i] \in Terminal
      BY DEF InOrder
    <3>1. CASE j = cursor
      <4>1. i \in 1..(cursor - 1) /\ i # cursor
        BY <1>1, <3>1
      <4> QED
        BY <1>3, <2>1, <4>1
    <3>2. CASE j # cursor
      <4>1. phase[i] \in Terminal
        BY <2>1, <3>2 DEF IInv, InOrder
      <4> QED
        BY <2>1, <4>1 DEF Terminal
    <3> QED
      BY <3>1, <3>2
  <2>5. SupersededIsCovered'
    <3> DEFINE Covers(i, j) ==
                 /\ j \in (i + 1)..n
                 /\ phase'[j] # "Superseded"
                 /\ \A k \in (i + 1)..(j - 1) : phase'[k] = "Superseded"
                 /\ spec[j].other = spec[i].other
    <3> SUFFICES ASSUME NEW i \in Ids, phase'[i] = "Superseded"
                 PROVE  spec[i].skip /\ \E j : Covers(i, j)
      BY DEF SupersededIsCovered
    <3>1. phase'[cursor + 1] # "Superseded"
      BY <1>1, <1>2, <2>1 DEF Waiting
    <3>2. CASE i = cursor
      <4>1. Covers(i, cursor + 1)
        BY <1>1, <1>2, <3>1, <3>2
      <4> QED
        BY <1>2, <3>2, <4>1
    <3>3. CASE i # cursor
      <4>1. phase[i] = "Superseded"
        BY <2>1, <3>3
      <4>2. spec[i].skip
        BY <4>1 DEF IInv, SupersededIsCovered
      <4>3. PICK j \in (i + 1)..n :
               /\ phase[j] # "Superseded"
               /\ \A k \in (i + 1)..(j - 1) : phase[k] = "Superseded"
               /\ spec[j].other = spec[i].other
        BY <4>1 DEF IInv, SupersededIsCovered
      <4>4. j \in Ids /\ \A k \in (i + 1)..(j - 1) : k \in Ids
        BY <1>1, <4>3
      <4>5. \A k \in (i + 1)..(j - 1) : phase'[k] = "Superseded"
        BY <2>1, <4>3, <4>4
      <4>6. CASE j = cursor
        <5>1. \A k \in (i + 1)..((cursor + 1) - 1) :
                 k \in (i + 1)..(j - 1) \/ k = cursor
          BY <1>1, <4>6
        <5>2. phase'[cursor] = "Superseded"
          BY <1>1, <2>1
        <5>3. \A k \in (i + 1)..((cursor + 1) - 1) :
                 phase'[k] = "Superseded"
          BY <4>5, <5>1, <5>2
        <5>4. cursor + 1 \in (i + 1)..n
          BY <1>1, <4>3, <4>6
        <5>5. spec[cursor + 1].other = spec[i].other
          BY <1>2, <4>3, <4>6
        <5>6. Covers(i, cursor + 1)
          BY <3>1, <5>3, <5>4, <5>5
        <5> QED
          BY <4>2, <5>6
      <4>7. CASE j # cursor
        <5>1. Covers(i, j)
          BY <2>1, <4>3, <4>4, <4>5, <4>7
        <5> QED
          BY <4>2, <5>1
      <4> QED
        BY <4>6, <4>7
    <3> QED
      BY <3>2, <3>3
  <2> QED
    BY <2>2, <2>3, <2>4, <2>5
<1> QED
  BY <1>4, <1>5

\* The invariant is preserved by every step of the loop, by a config the
\* Operator creates at any moment, and by a restart at any moment.
LEMMA NextIInv == IInv /\ [Next]_vars => IInv'
<1> SUFFICES ASSUME IInv, [Next]_vars PROVE IInv'
  OBVIOUS
<1> USE DEF Ids, None
<1>t. TypeOK /\ MaxConfigs \in Nat
  BY MaxConfigsAssumption DEF IInv
<1>0. CASE UNCHANGED vars
  <2> USE <1>0 DEF vars
  <2>1. TypeOK'
    BY DEF IInv, TypeOK
  <2>2. MemoryAgrees' /\ InOrder' /\ SupersededIsCovered'
    BY DEF IInv, MemoryAgrees, InOrder, SupersededIsCovered
  <2>3. CursorIsHead' /\ ChainIsSkippable' /\ TargetIsCurrent'
    BY DEF IInv, CursorIsHead, ChainIsSkippable, TargetIsCurrent
  <2> QED
    BY <2>1, <2>2, <2>3 DEF IInv
<1>1. ASSUME NEW s \in Specs, OperatorCreates(s) PROVE IInv'
  <2> USE <1>1 DEF OperatorCreates, cycle
  <2>1. TypeOK'
    BY <1>t DEF TypeOK
  <2>2. \A i \in 1..n : i \in Ids /\ spec'[i] = spec[i]
    BY <1>t DEF TypeOK
  <2>3. \A i \in Ids : phase[i] # "Unset" => i \in 1..n
    BY <1>t DEF IInv, MemoryAgrees, TypeOK
  <2>4. MemoryAgrees' /\ InOrder' /\ CursorIsHead' /\ TargetIsCurrent'
    BY <1>t DEF IInv, MemoryAgrees, InOrder, CursorIsHead, TargetIsCurrent,
                TypeOK
  <2>5. SupersededIsCovered'
    <3> SUFFICES ASSUME NEW i \in Ids, phase[i] = "Superseded"
                 PROVE  /\ spec'[i].skip
                        /\ \E j \in (i + 1)..n' :
                             /\ phase[j] # "Superseded"
                             /\ \A k \in (i + 1)..(j - 1) :
                                  phase[k] = "Superseded"
                             /\ spec'[j].other = spec'[i].other
      BY DEF SupersededIsCovered
    <3>1. spec[i].skip /\ i \in 1..n
      BY <2>3 DEF IInv, SupersededIsCovered
    <3>2. PICK j \in (i + 1)..n :
             /\ phase[j] # "Superseded"
             /\ \A k \in (i + 1)..(j - 1) : phase[k] = "Superseded"
             /\ spec[j].other = spec[i].other
      BY DEF IInv, SupersededIsCovered
    <3>3. j \in 1..n /\ j \in (i + 1)..n'
      BY <1>t, <3>2 DEF TypeOK
    <3> QED
      BY <2>2, <3>1, <3>2, <3>3
  <2>6. ChainIsSkippable'
    <3> SUFFICES ASSUME pc = "superseding", cursor < target
                 PROVE  ChainIsSkippable'
      BY DEF ChainIsSkippable
    <3>1. cursor \in 1..target /\ target \in 1..n /\ n \in Nat
      BY <1>t DEF IInv, CursorIsHead, TypeOK
    <3>2. \A k \in 1..target : k \in 1..n
      BY <3>1
    <3>3. \A k \in cursor..(target - 1) :
             k \in 1..target /\ k + 1 \in 1..target
      BY <3>1
    <3>4. \A b \in 1..(cursor - 1) : b \in 1..target
      BY <3>1
    <3>5. ChainIsSkippable
      BY DEF IInv
    <3> QED
      BY <2>2, <3>1, <3>2, <3>3, <3>4, <3>5 DEF ChainIsSkippable
  <2> QED
    BY <2>1, <2>4, <2>5, <2>6 DEF IInv
<1>2. CASE listConfigs
  <2> USE <1>2 DEF listConfigs, store
  <2>1. TypeOK'
    BY <1>t DEF TypeOK
  <2>2. MemoryAgrees'
    BY <1>t DEF IInv, MemoryAgrees, TypeOK
  <2>3. InOrder' /\ SupersededIsCovered'
    BY DEF IInv, InOrder, SupersededIsCovered
  <2>4. CursorIsHead' /\ ChainIsSkippable' /\ TargetIsCurrent'
    BY DEF CursorIsHead, ChainIsSkippable, TargetIsCurrent
  <2> QED
    BY <2>1, <2>2, <2>3, <2>4 DEF IInv
<1>3. ASSUME NEW o \in Outcomes, initConfigPhase(o) PROVE IInv'
  <2>1. pc = "initialising" /\ pc' = pc
    BY <1>3 DEF initConfigPhase
  <2>2. PICK i \in 1..seen :
           /\ snap[i] = "Unset"
           /\ StatusUpdate(i, "Pending", o)
           /\ snap' = [snap EXCEPT ![i] = "Pending"]
           /\ stale' = IF o = "unanswered" THEN stale \union {i} ELSE stale
    BY <1>3 DEF initConfigPhase
  <2>3. UNCHANGED <<n, spec, seen, cursor, target>>
    BY <1>3 DEF initConfigPhase
  <2>4. seen \in 1..n /\ n \in Nat /\ i \in 1..n /\ i \in Ids
    BY <1>t, <2>1, <2>2 DEF IInv, MemoryAgrees, TypeOK
  <2>5. phase[i] \in Waiting
    BY <2>1, <2>2 DEF IInv, MemoryAgrees, Waiting
  <2>6. phase' = [phase EXCEPT ![i] = "Pending"] \/ phase' = phase
    BY <2>2 DEF StatusUpdate
  <2>7. /\ phase' \in [Ids -> Phases]
        /\ \A j \in Ids : j > n => phase'[j] = "Unset"
        /\ \A j \in Ids : \/ phase'[j] = phase[j]
                          \/ phase[j] \in Waiting /\ phase'[j] \in Waiting
        /\ InOrder'
        /\ SupersededIsCovered'
    BY <2>3, <2>4, <2>5, <2>6, PendingKeepsOrder
  <2>8. TypeOK'
    <3>1. snap' \in [Ids -> Phases]
      BY <1>t, <2>2 DEF TypeOK, Phases
    <3>2. stale' \subseteq Ids
      BY <1>t, <2>2, <2>4 DEF TypeOK
    <3> QED
      BY <1>t, <2>1, <2>3, <2>7, <3>1, <3>2 DEF TypeOK
  <2>9. MemoryAgrees'
    <3>1. \A j \in 1..seen : j \in Ids
      BY <1>t, <2>4 DEF TypeOK
    <3>2. \A j \in 1..seen :
             \/ snap[j] = phase[j]
             \/ snap[j] \in Waiting /\ phase[j] \in Waiting
      BY <2>1 DEF IInv, MemoryAgrees
    <3>3. \A j \in 1..seen : snap'[j] = IF j = i THEN "Pending" ELSE snap[j]
      BY <1>t, <2>2, <3>1 DEF TypeOK
    <3>4. \A j \in 1..seen : j # i => phase'[j] = phase[j]
      BY <1>t, <2>6, <3>1 DEF TypeOK
    <3>5. phase'[i] \in Waiting
      BY <1>t, <2>4, <2>5, <2>6 DEF TypeOK, Waiting
    <3>6. \A j \in 1..seen :
             \/ snap'[j] = phase'[j]
             \/ snap'[j] \in Waiting /\ phase'[j] \in Waiting
      BY <3>2, <3>3, <3>4, <3>5 DEF Waiting
    <3> QED
      BY <2>3, <2>4, <2>7, <3>6 DEF MemoryAgrees
  <2>10. CursorIsHead' /\ ChainIsSkippable' /\ TargetIsCurrent'
    BY <2>1 DEF CursorIsHead, ChainIsSkippable, TargetIsCurrent
  <2> QED
    BY <2>7, <2>8, <2>9, <2>10 DEF IInv
<1>4. CASE selectConfig
  <2> DEFINE s == SelectConfig(snap, seen)
             t == ApplySuperseding(spec, snap, seen, s)
             a == lastAppliedBefore(snap, s)
  <2>1. /\ pc = "initialising" /\ pc' = "superseding"
        /\ cursor' = s /\ target' = t
        /\ UNCHANGED <<n, spec, phase, snap, seen, stale>>
        /\ \A i \in 1..seen : snap[i] # "Unset"
    BY <1>4 DEF selectConfig, store
  <2>2. seen \in 1..n /\ n \in 0..MaxConfigs /\ seen \in Nat \ {0}
    BY <1>t, <2>1 DEF IInv, MemoryAgrees, TypeOK
  <2>3. /\ s \in 1..seen
        /\ \/ /\ snap[s] \notin Terminal
              /\ \A j \in 1..(s - 1) : snap[j] \in Terminal
           \/ snap[s] = "Applied"
           \/ s = seen /\ snap[s] \in Terminal
    BY <2>2, SelectConfigIsHead
  <2>4. /\ t \in s..seen
        /\ t # s => mayBeSuperseded(spec, snap, s)
        /\ \A k \in s..(t - 1) :
             chainContinues(spec, findBaseline(snap, s), k)
    BY <2>2, <2>3, ApplySupersedingIsChain
  <2>5. \/ a = None /\ \A j \in 1..(s - 1) : snap[j] # "Applied"
        \/ /\ a \in 1..(s - 1) /\ snap[a] = "Applied"
           /\ \A j \in (a + 1)..(s - 1) : snap[j] # "Applied"
    <3>1. s \in Nat
      BY <2>3
    <3> HIDE DEF s
    <3> QED
      BY <3>1, LastAppliedBefore
  <2> HIDE DEF s, t, a
  <2>6. \A j \in 1..seen : j \in Ids
           /\ (snap[j] \in Terminal <=> phase[j] \in Terminal)
           /\ (snap[j] = "Applied" <=> phase[j] = "Applied")
           /\ (snap[j] = "Pending" => phase[j] \in Waiting)
    BY <1>t, <2>1, <2>2 DEF IInv, MemoryAgrees, Waiting, Terminal
  <2>7. TypeOK'
    BY <1>t, <2>1, <2>2, <2>3, <2>4 DEF TypeOK
  <2>8. MemoryAgrees' /\ InOrder' /\ SupersededIsCovered'
    BY <2>1 DEF IInv, MemoryAgrees, InOrder, SupersededIsCovered
  <2>9. CursorIsHead'
    <3>1. s \in 1..t
      BY <2>2, <2>3, <2>4
    <3>2. phase[s] \notin Terminal =>
             \A j \in 1..(s - 1) : phase[j] \in Terminal
      <4>1. \A j \in 1..(s - 1) : j \in 1..seen
        BY <2>2, <2>3
      <4> QED
        BY <2>3, <2>6, <4>1 DEF Terminal
    <3> QED
      BY <2>1, <3>1, <3>2 DEF CursorIsHead
  <2>10. ChainIsSkippable'
    <3> SUFFICES ASSUME s < t PROVE ChainIsSkippable'
      BY <2>1 DEF ChainIsSkippable
    <3>1. mayBeSuperseded(spec, snap, s)
      BY <2>2, <2>3, <2>4
    <3>2. snap[s] = "Pending"
      <4>1. snap[s] \notin {"InProgress", "Applied", "Unset"}
        BY <2>1, <2>3, <3>1 DEF mayBeSuperseded
      <4>2. snap[s] \in Phases
        BY <1>t, <2>3, <2>6 DEF TypeOK
      <4>3. s # seen
        BY <2>2, <2>3, <2>4
      <4> QED
        BY <2>3, <4>1, <4>2, <4>3 DEF Phases, Terminal
    <3>3. phase[s] \in Waiting
      BY <2>3, <2>6, <3>2
    <3>4. \A k \in s..t : phase[k] \in Waiting
      <4> SUFFICES ASSUME NEW k \in s..t, k # s PROVE phase[k] \in Waiting
        BY <3>3
      <4>1. k \in Ids /\ s \in Ids /\ s < k
        BY <2>2, <2>3, <2>4, <2>6
      <4>2. phase[k] \notin {"InProgress", "Applied", "Superseded"}
        BY <3>3, <4>1 DEF IInv, InOrder, Waiting, Terminal
      <4>3. phase[k] \in Phases
        BY <1>t, <4>1 DEF TypeOK
      <4> QED
        BY <4>2, <4>3 DEF Phases, Waiting
    <3>5. \A k \in s..(t - 1) :
             spec[k].skip /\ spec[k + 1].other = spec[k].other
      <4> SUFFICES ASSUME NEW k \in s..(t - 1)
                   PROVE  spec[k].skip /\ spec[k + 1].other = spec[k].other
        OBVIOUS
      <4>1. /\ spec[k].skip
            /\ spec[IF a = None THEN k ELSE a].other = spec[k + 1].other
        BY <2>4 DEF chainContinues, findBaseline, onlyTopologyChange, a
      <4>2. CASE a = None
        BY <4>1, <4>2
      <4>3. CASE a # None /\ k = s
        BY <3>1, <4>1, <4>3
           DEF mayBeSuperseded, findBaseline, onlyTopologyChange, a
      <4>4. CASE a # None /\ k # s
        <5>1. k - 1 \in s..(t - 1) /\ (k - 1) + 1 = k
          BY <2>2, <2>3, <2>4, <4>4
        <5>2. spec[a].other = spec[k].other
          BY <2>4, <4>4, <5>1
             DEF chainContinues, findBaseline, onlyTopologyChange, a
        <5> QED
          BY <4>1, <4>4, <5>2
      <4> QED
        BY <4>2, <4>3, <4>4
    <3>6. ASSUME NEW b \in 1..(s - 1), phase[b] = "Applied",
                 \A j \in (b + 1)..(s - 1) : phase[j] # "Applied"
          PROVE  spec[b].other = spec[s].other
      <4>1. \A j \in 1..(s - 1) : j \in 1..seen
        BY <2>2, <2>3
      <4>2. snap[b] = "Applied"
            /\ \A j \in (b + 1)..(s - 1) : snap[j] # "Applied"
        <5>1. \A j \in (b + 1)..(s - 1) : j \in 1..(s - 1)
          BY <2>3
        <5> QED
          BY <2>6, <3>6, <4>1, <5>1
      <4>3. a \in 1..(s - 1) /\ a = b
        <5>1. a # None
          BY <2>5, <4>2
        <5>2. ~(a < b)
          BY <2>3, <2>5, <4>2, <5>1
        <5>3. ~(b < a)
          BY <2>3, <2>5, <4>2, <5>1
        <5> QED
          BY <2>3, <2>5, <5>1, <5>2, <5>3
      <4> QED
        BY <3>1, <4>3
           DEF mayBeSuperseded, findBaseline, onlyTopologyChange, a
    <3> QED
      BY <2>1, <3>4, <3>5, <3>6 DEF ChainIsSkippable
  <2>11. TargetIsCurrent'
    BY <2>1 DEF TargetIsCurrent
  <2> QED
    BY <2>7, <2>8, <2>9, <2>10, <2>11 DEF IInv
<1>5. ASSUME NEW o \in Outcomes, applySupersedingStatus(o) PROVE IInv'
  <2>1. /\ pc = "superseding" /\ cursor < target /\ UNCHANGED <<n, spec>>
        /\ \/ phase' = [phase EXCEPT ![cursor] = "Superseded"]
           \/ phase' = phase
    BY <1>5 DEF applySupersedingStatus, StatusUpdate
  <2>2. /\ phase' \in [Ids -> Phases]
        /\ \A j \in Ids : j > n => phase'[j] = "Unset"
        /\ InOrder'
        /\ SupersededIsCovered'
    BY <2>1, SupersedeKeepsOrder
  <2>3. CASE o # "ok"
    <3>1. Abandon
      BY <1>5, <2>3 DEF applySupersedingStatus
    <3> QED
      BY <2>1, <2>2, <3>1, AbandonKeepsIInv
  <2>4. CASE o = "ok"
    <3>1. /\ phase' = [phase EXCEPT ![cursor] = "Superseded"]
          /\ cursor' = cursor + 1
          /\ snap' = [snap EXCEPT ![cursor] = "Superseded"]
          /\ UNCHANGED <<pc, seen, target, stale>>
      BY <1>5, <2>4 DEF applySupersedingStatus, StatusUpdate
    <3>2. /\ n \in 0..MaxConfigs /\ seen \in 1..n /\ cursor \in 1..seen
          /\ target \in 1..seen /\ cursor + 1 \in 1..target
          /\ cursor \in Ids /\ cursor \in Nat /\ target \in Nat
      BY <1>t, <2>1 DEF IInv, TypeOK, CursorIsHead, MemoryAgrees
    <3>3. \A j \in Ids :
             /\ phase'[j] = IF j = cursor THEN "Superseded" ELSE phase[j]
             /\ snap'[j] = IF j = cursor THEN "Superseded" ELSE snap[j]
      BY <1>t, <3>1, <3>2 DEF TypeOK
    <3>4. \A j \in 1..seen : j \in Ids
      BY <1>t, <3>2
    <3>5. TypeOK'
      <4>1. snap' \in [Ids -> Phases]
        BY <1>t, <3>1, <3>2 DEF TypeOK, Phases
      <4>2. cursor' \in 0..seen'
        BY <3>1, <3>2
      <4> QED
        BY <1>t, <2>1, <2>2, <3>1, <4>1, <4>2 DEF TypeOK
    <3>6. MemoryAgrees'
      <4>1. \A j \in 1..seen :
               \/ snap[j] = phase[j]
               \/ snap[j] \in Waiting /\ phase[j] \in Waiting
        BY <2>1 DEF IInv, MemoryAgrees
      <4>2. \A j \in 1..seen :
               \/ snap'[j] = phase'[j]
               \/ snap'[j] \in Waiting /\ phase'[j] \in Waiting
        BY <3>3, <3>4, <4>1
      <4> QED
        BY <2>1, <2>2, <3>1, <3>2, <4>2 DEF MemoryAgrees
    <3>7. CursorIsHead'
      <4>1. phase[cursor] \in Waiting
        <5>1. cursor \in cursor..target
          BY <2>1, <3>2
        <5> QED
          BY <2>1, <5>1 DEF IInv, ChainIsSkippable
      <4>2. \A j \in 1..(cursor - 1) : phase[j] \in Terminal
        BY <2>1, <4>1 DEF IInv, CursorIsHead, Waiting, Terminal
      <4>3. \A j \in 1..((cursor + 1) - 1) :
               j \in Ids /\ (j = cursor \/ j \in 1..(cursor - 1))
        BY <1>t, <3>2
      <4>4. \A j \in 1..((cursor + 1) - 1) : phase'[j] \in Terminal
        BY <3>3, <4>2, <4>3 DEF Terminal
      <4> QED
        BY <3>1, <3>2, <4>4 DEF CursorIsHead
    <3>8. ChainIsSkippable'
      <4>1. ChainIsSkippable
        BY DEF IInv
      <4>2. \A k \in (cursor + 1)..target :
               k \in cursor..target /\ k # cursor /\ k \in Ids
        BY <1>t, <3>2
      <4>3. \A k \in (cursor + 1)..target : phase'[k] \in Waiting
        BY <2>1, <3>3, <4>1, <4>2 DEF ChainIsSkippable
      <4>4. \A k \in (cursor + 1)..(target - 1) : k \in cursor..(target - 1)
        BY <3>2
      <4>5. ASSUME NEW b \in 1..((cursor + 1) - 1), phase'[b] = "Applied",
                   \A j \in (b + 1)..((cursor + 1) - 1) :
                      phase'[j] # "Applied"
            PROVE  spec[b].other = spec[cursor + 1].other
        <5>1. b # cursor
          BY <3>2, <3>3, <4>5
        <5>2. b \in 1..(cursor - 1) /\ b \in Ids /\ phase[b] = "Applied"
          BY <1>t, <3>2, <3>3, <4>5, <5>1
        <5>3. \A j \in (b + 1)..(cursor - 1) :
                 j \in Ids /\ j # cursor /\ j \in (b + 1)..((cursor + 1) - 1)
          BY <1>t, <3>2, <5>2
        <5>4. \A j \in (b + 1)..(cursor - 1) : phase[j] # "Applied"
          BY <3>3, <4>5, <5>3
        <5>5. spec[b].other = spec[cursor].other
          BY <2>1, <4>1, <5>2, <5>4 DEF ChainIsSkippable
        <5>6. spec[cursor + 1].other = spec[cursor].other
          <6>1. cursor \in cursor..(target - 1)
            BY <2>1, <3>2
          <6> QED
            BY <2>1, <4>1, <6>1 DEF ChainIsSkippable
        <5> QED
          BY <5>5, <5>6
      <4> QED
        BY <2>1, <3>1, <4>1, <4>3, <4>4, <4>5 DEF ChainIsSkippable
    <3>9. TargetIsCurrent'
      BY <2>1, <3>1 DEF TargetIsCurrent
    <3> QED
      BY <2>2, <3>5, <3>6, <3>7, <3>8, <3>9 DEF IInv
  <2> QED
    BY <2>3, <2>4
<1>6. CASE dispatch
  <2>1. pc = "superseding" /\ cursor = target /\ UNCHANGED <<n, spec, phase>>
    BY <1>6 DEF dispatch, store
  <2>2. CASE ~validConfigPhase(snap[target])
    <3>1. Abandon /\ UNCHANGED store
      BY <1>6, <2>2 DEF dispatch
    <3> QED
      BY <3>1, StopKeepsIInv
  <2>3. CASE validConfigPhase(snap[target])
    <3>1. /\ pc' = IF snap[target] = "Pending" THEN "starting" ELSE "cluster"
          /\ UNCHANGED <<snap, seen, cursor, target, stale>>
      BY <1>6, <2>3 DEF dispatch
    <3>2. target \in 1..seen
      BY <1>t, <2>1 DEF IInv, TypeOK, CursorIsHead, MemoryAgrees
    <3>3. TypeOK'
      BY <1>t, <2>1, <3>1 DEF TypeOK
    <3>4. MemoryAgrees' /\ InOrder' /\ SupersededIsCovered'
      BY <2>1, <3>1 DEF IInv, MemoryAgrees, InOrder, SupersededIsCovered
    <3>5. CursorIsHead'
      BY <2>1, <3>1 DEF IInv, CursorIsHead
    <3>6. ChainIsSkippable'
      BY <3>1 DEF ChainIsSkippable
    <3>7. TargetIsCurrent'
      BY <2>1, <2>3, <3>1, <3>2
         DEF IInv, MemoryAgrees, TargetIsCurrent, validConfigPhase, Waiting
    <3> QED
      BY <3>3, <3>4, <3>5, <3>6, <3>7 DEF IInv
  <2> QED
    BY <2>2, <2>3
<1>7. ASSUME NEW o \in Outcomes, setConfigPhaseInProgress(o) PROVE IInv'
  <2>1. /\ pc = "starting" /\ UNCHANGED <<n, spec>>
        /\ \/ phase' = [phase EXCEPT ![target] = "InProgress"]
           \/ phase' = phase
    BY <1>7 DEF setConfigPhaseInProgress, StatusUpdate
  <2>2. /\ n \in 0..MaxConfigs /\ seen \in 1..n /\ target \in 1..seen
        /\ target \in Ids /\ target \in Nat /\ cursor = target
        /\ phase[target] \in Waiting
    BY <1>t, <2>1
       DEF IInv, TypeOK, CursorIsHead, MemoryAgrees, TargetIsCurrent
  <2>3. \A j \in 1..(target - 1) : phase[j] \in Terminal
    BY <2>1, <2>2 DEF IInv, CursorIsHead, Waiting, Terminal
  <2>4. \A j \in Ids : j # target => phase'[j] = phase[j]
    BY <1>t, <2>1 DEF TypeOK
  <2>5. phase'[target] \in {"InProgress", "Unset", "Pending"}
    BY <1>t, <2>1, <2>2 DEF TypeOK, Waiting
  <2>6. phase' \in [Ids -> Phases]
    BY <1>t, <2>1 DEF TypeOK, Phases
  <2>7. \A j \in Ids : j > n => phase'[j] = "Unset"
    BY <1>t, <2>2, <2>4 DEF IInv, MemoryAgrees
  <2>8. InOrder'
    <3> SUFFICES ASSUME NEW i \in Ids, NEW j \in Ids, i < j,
                        phase'[j] \in {"InProgress", "Applied", "Superseded"}
                 PROVE  phase'[i] \in Terminal
      BY DEF InOrder
    <3>1. CASE j = target
      <4>1. i \in 1..(target - 1) /\ i # target
        BY <2>2, <3>1
      <4> QED
        BY <2>3, <2>4, <4>1
    <3>2. CASE j # target
      <4>1. phase[i] \in Terminal
        BY <2>4, <3>2 DEF IInv, InOrder
      <4> QED
        BY <2>2, <2>4, <4>1 DEF Waiting, Terminal
    <3> QED
      BY <3>1, <3>2
  <2>9. SupersededIsCovered'
    <3>1. \A j \in Ids : phase'[j] = "Superseded" <=> phase[j] = "Superseded"
      BY <2>2, <2>4, <2>5 DEF Waiting
    <3> QED
      BY <2>1, <3>1, SameSupersededKeepsCovered
  <2>10. CASE o # "ok"
    <3>1. Abandon
      BY <1>7, <2>10 DEF setConfigPhaseInProgress
    <3> QED
      BY <2>1, <2>6, <2>7, <2>8, <2>9, <3>1, AbandonKeepsIInv
  <2>11. CASE o = "ok"
    <3>1. /\ phase' = [phase EXCEPT ![target] = "InProgress"]
          /\ pc' = "cluster"
          /\ snap' = [snap EXCEPT ![target] = "InProgress"]
          /\ UNCHANGED <<seen, cursor, target, stale>>
      BY <1>7, <2>11 DEF setConfigPhaseInProgress, StatusUpdate
    <3>2. \A j \in Ids :
             /\ phase'[j] = IF j = target THEN "InProgress" ELSE phase[j]
             /\ snap'[j] = IF j = target THEN "InProgress" ELSE snap[j]
      BY <1>t, <3>1 DEF TypeOK
    <3>3. TypeOK'
      <4>1. snap' \in [Ids -> Phases]
        BY <1>t, <3>1 DEF TypeOK, Phases
      <4> QED
        BY <1>t, <2>1, <2>6, <3>1, <4>1 DEF TypeOK
    <3>4. MemoryAgrees'
      <4>1. \A j \in 1..seen :
               \/ snap[j] = phase[j]
               \/ snap[j] \in Waiting /\ phase[j] \in Waiting
        BY <2>1 DEF IInv, MemoryAgrees
      <4>2. \A j \in 1..seen : j \in Ids
        BY <1>t, <2>2
      <4>3. \A j \in 1..seen :
               \/ snap'[j] = phase'[j]
               \/ snap'[j] \in Waiting /\ phase'[j] \in Waiting
        BY <3>2, <4>1, <4>2
      <4> QED
        BY <2>1, <2>2, <2>7, <3>1, <4>3 DEF MemoryAgrees
    <3>5. CursorIsHead'
      <4>1. \A j \in 1..(target - 1) : j \in Ids /\ j # target
        BY <1>t, <2>2
      <4>2. \A j \in 1..(target - 1) : phase'[j] \in Terminal
        BY <2>3, <2>4, <4>1
      <4> QED
        BY <2>2, <3>1, <4>2 DEF CursorIsHead
    <3>6. ChainIsSkippable' /\ TargetIsCurrent'
      BY <2>2, <3>1, <3>2 DEF ChainIsSkippable, TargetIsCurrent
    <3> QED
      BY <2>8, <2>9, <3>3, <3>4, <3>5, <3>6 DEF IInv
  <2> QED
    BY <2>10, <2>11
<1>8. CASE reconcileClusterWaits
  BY <1>8, StopKeepsIInv DEF reconcileClusterWaits
<1>9. ASSUME NEW o \in Outcomes, setConfigPhaseApplied(o) PROVE IInv'
  <2>1. /\ pc = "cluster" /\ UNCHANGED <<n, spec>> /\ Abandon
        /\ snap[target] = "InProgress"
        /\ \/ phase' = [phase EXCEPT ![target] = "Applied"]
           \/ phase' = phase
    BY <1>9 DEF setConfigPhaseApplied, StatusUpdate
  <2>2. /\ n \in 0..MaxConfigs /\ seen \in 1..n /\ target \in 1..seen
        /\ target \in Ids /\ phase[target] = "InProgress"
    BY <1>t, <2>1
       DEF IInv, TypeOK, CursorIsHead, MemoryAgrees, TargetIsCurrent
  <2>3. \A j \in Ids : j # target => phase'[j] = phase[j]
    BY <1>t, <2>1 DEF TypeOK
  <2>4. phase'[target] \in {"InProgress", "Applied"}
    BY <1>t, <2>1, <2>2 DEF TypeOK
  <2>5. phase' \in [Ids -> Phases]
    BY <1>t, <2>1 DEF TypeOK, Phases
  <2>6. \A j \in Ids : j > n => phase'[j] = "Unset"
    BY <1>t, <2>2, <2>3 DEF IInv, MemoryAgrees
  <2>7. InOrder'
    <3>1. InOrder
      BY DEF IInv
    <3> QED
      BY <2>2, <2>3, <2>4, <3>1 DEF InOrder, Terminal
  <2>8. SupersededIsCovered'
    <3>1. \A j \in Ids : phase'[j] = "Superseded" <=> phase[j] = "Superseded"
      BY <2>2, <2>3, <2>4
    <3> QED
      BY <2>1, <3>1, SameSupersededKeepsCovered
  <2> QED
    BY <2>1, <2>5, <2>6, <2>7, <2>8, AbandonKeepsIInv
<1>10. CASE restart
  BY <1>10, StopKeepsIInv DEF restart
<1> QED
  BY <1>0, <1>1, <1>2, <1>3, <1>4, <1>5, <1>6, <1>7, <1>8, <1>9, <1>10
     DEF Next, reconcile

(***************************************************************************)
(* Safety.                                                                 *)
(***************************************************************************)

\* What a running cycle remembers and has decided still fits what the API
\* server stores, wherever a write fails and wherever Robin is restarted.
THEOREM InvariantHolds == Spec => []IInv
<1>1. Init => IInv
  BY InitIInv
<1>2. IInv /\ [Next]_vars => IInv'
  BY NextIInv
<1> QED
  BY <1>1, <1>2, PTL DEF Spec

\* The statuses reconcile writes and the values it holds have their types.
THEOREM TypeCorrect == Spec => []TypeOK
<1>1. IInv => TypeOK
  BY DEF IInv
<1> QED
  BY <1>1, InvariantHolds, PTL

\* The loop resolves configs strictly in sequence order; in particular it
\* never works on two at once.
THEOREM OrderKept == Spec => []InOrder
<1>1. IInv => InOrder
  BY DEF IInv
<1> QED
  BY <1>1, InvariantHolds, PTL

\* ApplySuperseding never loses a change other than a topology change.
THEOREM NothingLost == Spec => []SupersededIsCovered
<1>1. IInv => SupersededIsCovered
  BY DEF IInv
<1> QED
  BY <1>1, InvariantHolds, PTL

\* Ending a cycle without a write leaves the stored phases alone, and every
\* write of a phase goes forward.
LEMMA StepsForward ==
  ASSUME IInv, [Next]_vars
  PROVE  \A i \in Ids :
           /\ phase[i] \in Terminal => phase'[i] = phase[i]
           /\ phase[i] = "InProgress" => phase'[i] \in {"InProgress", "Applied"}
           /\ phase[i] = "Pending" => phase'[i] # "Unset"
<1> USE DEF Ids
<1>t. phase \in [Ids -> Phases] /\ MaxConfigs \in Nat
  BY MaxConfigsAssumption DEF IInv, TypeOK
<1> DEFINE Goal == \A i \in Ids :
             /\ phase[i] \in Terminal => phase'[i] = phase[i]
             /\ phase[i] = "InProgress" => phase'[i] \in {"InProgress", "Applied"}
             /\ phase[i] = "Pending" => phase'[i] # "Unset"
<1>0. CASE phase' = phase
  BY <1>0
<1>1. ASSUME NEW k \in Ids, NEW p \in {"Pending", "Superseded", "InProgress"},
             phase[k] \in Waiting, phase' = [phase EXCEPT ![k] = p]
      PROVE  Goal
  BY <1>t, <1>1 DEF Waiting, Terminal
<1>2. ASSUME NEW o \in Outcomes, initConfigPhase(o) PROVE Goal
  <2>1. PICK i \in 1..seen : snap[i] = "Unset" /\ StatusUpdate(i, "Pending", o)
    BY <1>2 DEF initConfigPhase
  <2>2. i \in Ids /\ phase[i] \in Waiting
    BY <1>2, <1>t, <2>1 DEF initConfigPhase, IInv, TypeOK, MemoryAgrees, Waiting
  <2> QED
    BY <1>0, <1>1, <2>1, <2>2 DEF StatusUpdate
<1>3. ASSUME NEW o \in Outcomes, applySupersedingStatus(o) PROVE Goal
  <2>1. /\ pc = "superseding" /\ cursor < target
        /\ StatusUpdate(cursor, "Superseded", o)
    BY <1>3 DEF applySupersedingStatus
  <2>2. cursor \in Ids /\ cursor \in cursor..target
    BY <1>t, <2>1 DEF IInv, TypeOK, CursorIsHead
  <2>3. phase[cursor] \in Waiting
    BY <2>1, <2>2 DEF IInv, ChainIsSkippable
  <2> QED
    BY <1>0, <1>1, <2>1, <2>2, <2>3 DEF StatusUpdate
<1>4. ASSUME NEW o \in Outcomes, setConfigPhaseInProgress(o) PROVE Goal
  <2>1. pc = "starting" /\ StatusUpdate(target, "InProgress", o)
    BY <1>4 DEF setConfigPhaseInProgress
  <2>2. target \in Ids /\ phase[target] \in Waiting
    BY <1>t, <2>1 DEF IInv, TypeOK, CursorIsHead, TargetIsCurrent
  <2> QED
    BY <1>0, <1>1, <2>1, <2>2 DEF StatusUpdate
<1>5. ASSUME NEW o \in Outcomes, setConfigPhaseApplied(o) PROVE Goal
  <2>1. /\ pc = "cluster" /\ snap[target] = "InProgress"
        /\ StatusUpdate(target, "Applied", o)
    BY <1>5 DEF setConfigPhaseApplied
  <2>2. target \in Ids /\ phase[target] = "InProgress"
    BY <1>t, <2>1 DEF IInv, TypeOK, CursorIsHead, TargetIsCurrent
  <2>3. phase' = phase \/ phase' = [phase EXCEPT ![target] = "Applied"]
    BY <2>1 DEF StatusUpdate
  <2> QED
    BY <1>0, <1>t, <2>2, <2>3 DEF Terminal
<1>6. CASE \/ UNCHANGED vars \/ \E s \in Specs : OperatorCreates(s)
           \/ listConfigs \/ selectConfig \/ dispatch
           \/ reconcileClusterWaits \/ restart
  <2>1. phase' = phase
    BY <1>6 DEF vars, OperatorCreates, listConfigs, selectConfig, dispatch,
                reconcileClusterWaits, restart, store
  <2> QED
    BY <1>0, <2>1
<1> QED
  BY <1>2, <1>3, <1>4, <1>5, <1>6 DEF Next, reconcile

\* No write of the loop, from whatever it remembers, takes back a phase.
THEOREM ForwardOnly == Spec => NoPhaseIsTakenBack
<1>1. IInv /\ [Next]_vars =>
        [\A i \in Ids :
           /\ phase[i] \in Terminal => phase'[i] = phase[i]
           /\ phase[i] = "InProgress" => phase'[i] \in {"InProgress", "Applied"}
           /\ phase[i] = "Pending" => phase'[i] # "Unset"]_vars
  BY StepsForward
<1> QED
  BY <1>1, InvariantHolds, PTL DEF Spec, NoPhaseIsTakenBack

(***************************************************************************)
(* Refinement: seen from outside, the loop is the queue of ConfigQueue.    *)
(***************************************************************************)

\* Every step of the loop is a step of the queue or invisible to it.
LEMMA StepIsQueueStep ==
  ASSUME IInv, [Next]_vars
  PROVE  [Queue!Next]_(Queue!vars)
<1> DEFINE q == [i \in Ids |-> IF phase[i] \in {"Unset", "Pending"}
                               THEN "Waiting" ELSE phase[i]]
<1> USE DEF Ids
<1>t. /\ phase \in [Ids -> Phases] /\ MaxConfigs \in Nat
      /\ n \in 0..MaxConfigs /\ seen \in 0..n
      /\ cursor \in 0..seen /\ target \in 0..seen
  BY MaxConfigsAssumption DEF IInv, TypeOK
<1>v. UNCHANGED <<n, spec, phase>> => UNCHANGED Queue!vars
  BY DEF Queue!vars
<1>1. ASSUME NEW s \in Specs, OperatorCreates(s) PROVE Queue!Next
  <2>1. Queue!Create(s)
    BY <1>1 DEF OperatorCreates, Queue!Create
  <2> QED
    BY <2>1 DEF Queue!Next
<1>2. ASSUME NEW o \in Outcomes, initConfigPhase(o)
      PROVE  UNCHANGED Queue!vars
  <2>1. PICK i \in 1..seen : snap[i] = "Unset" /\ StatusUpdate(i, "Pending", o)
    BY <1>2 DEF initConfigPhase
  <2>2. i \in Ids /\ phase[i] \in Waiting
    BY <1>2, <1>t, <2>1 DEF initConfigPhase, IInv, MemoryAgrees, Waiting
  <2>3. phase' = phase \/ phase' = [phase EXCEPT ![i] = "Pending"]
    BY <2>1 DEF StatusUpdate
  <2>4. q' = q
    BY <1>t, <2>2, <2>3 DEF Waiting
  <2> QED
    BY <1>2, <2>4 DEF initConfigPhase, Queue!vars
<1>3. ASSUME NEW o \in Outcomes, applySupersedingStatus(o)
      PROVE  [Queue!Next]_(Queue!vars)
  <2>1. /\ pc = "superseding" /\ cursor < target /\ UNCHANGED <<n, spec>>
        /\ \/ phase' = phase
           \/ phase' = [phase EXCEPT ![cursor] = "Superseded"]
    BY <1>3 DEF applySupersedingStatus, StatusUpdate
  <2>2. /\ cursor \in Ids /\ cursor \in cursor..target /\ cursor < n
        /\ cursor \in 1..n /\ cursor \in cursor..(target - 1)
    BY <1>t, <2>1 DEF IInv, CursorIsHead
  <2>3. /\ phase[cursor] \in Waiting /\ spec[cursor].skip
        /\ spec[cursor + 1].other = spec[cursor].other
    BY <2>1, <2>2 DEF IInv, ChainIsSkippable
  <2>4. CASE phase' = phase
    BY <1>v, <2>1, <2>4
  <2>5. CASE phase' = [phase EXCEPT ![cursor] = "Superseded"]
    <3>1. q' = [q EXCEPT ![cursor] = "Superseded"]
      BY <1>t, <2>2, <2>5
    <3>2. q[cursor] = "Waiting"
      BY <2>2, <2>3 DEF Waiting
    <3>3. \A j \in 1..(cursor - 1) : j \in Ids /\ phase[j] \in Terminal
      BY <1>t, <2>1, <2>2, <2>3 DEF IInv, CursorIsHead, Waiting, Terminal
    <3>4. \A j \in 1..(cursor - 1) : q[j] = phase[j]
      BY <3>3 DEF Terminal
    <3>5. Queue!IsHead(cursor)
      BY <2>2, <3>2, <3>3, <3>4 DEF Queue!IsHead, Queue!Resolved, Terminal
    <3>6. \A b \in Ids : Queue!IsLive(b, cursor)
                           => spec[b].other = spec[cursor].other
      <4> SUFFICES ASSUME NEW b \in Ids, Queue!IsLive(b, cursor)
                   PROVE  spec[b].other = spec[cursor].other
        OBVIOUS
      <4>1. /\ b \in 1..(cursor - 1) /\ q[b] = "Applied"
            /\ \A j \in (b + 1)..(cursor - 1) : q[j] # "Applied"
        BY DEF Queue!IsLive
      <4>2. \A j \in (b + 1)..(cursor - 1) : j \in 1..(cursor - 1)
        BY <2>2, <4>1
      <4>3. /\ phase[b] = "Applied"
            /\ \A j \in (b + 1)..(cursor - 1) : phase[j] # "Applied"
        BY <3>4, <4>1, <4>2
      <4> QED
        BY <2>1, <4>1, <4>3 DEF IInv, ChainIsSkippable
    <3>7. PICK i \in Ids : i = cursor
      BY <2>2
    <3>8. Queue!Supersede(i)
      BY <2>1, <2>2, <2>3, <3>1, <3>2, <3>5, <3>6, <3>7
         DEF Queue!Supersede, Queue!Ids
    <3>9. Queue!Next
      BY <3>8 DEF Queue!Next, Queue!Ids
    <3> QED
      BY <3>9
  <2> QED
    BY <2>1, <2>4, <2>5
<1>4. ASSUME NEW o \in Outcomes, setConfigPhaseInProgress(o)
      PROVE  [Queue!Next]_(Queue!vars)
  <2>1. /\ pc = "starting" /\ UNCHANGED <<n, spec>>
        /\ \/ phase' = phase
           \/ phase' = [phase EXCEPT ![target] = "InProgress"]
    BY <1>4 DEF setConfigPhaseInProgress, StatusUpdate
  <2>2. /\ target \in Ids /\ target \in 1..n /\ cursor = target
        /\ phase[target] \in Waiting
    BY <1>t, <2>1 DEF IInv, CursorIsHead, TargetIsCurrent
  <2>3. CASE phase' = phase
    BY <1>v, <2>1, <2>3
  <2>4. CASE phase' = [phase EXCEPT ![target] = "InProgress"]
    <3>1. q' = [q EXCEPT ![target] = "InProgress"]
      BY <1>t, <2>2, <2>4
    <3>2. q[target] = "Waiting"
      BY <2>2 DEF Waiting
    <3>3. \A j \in 1..(target - 1) : j \in Ids /\ phase[j] \in Terminal
      BY <1>t, <2>1, <2>2 DEF IInv, CursorIsHead, Waiting, Terminal
    <3>4. Queue!IsHead(target)
      BY <2>2, <3>2, <3>3 DEF Queue!IsHead, Queue!Resolved, Terminal
    <3>5. PICK i \in Ids : i = target
      BY <2>2
    <3>6. Queue!Start(i)
      BY <2>1, <3>1, <3>2, <3>4, <3>5
         DEF Queue!Start, Queue!Ids
    <3>7. Queue!Next
      BY <3>6 DEF Queue!Next, Queue!Ids
    <3> QED
      BY <3>7
  <2> QED
    BY <2>1, <2>3, <2>4
<1>5. ASSUME NEW o \in Outcomes, setConfigPhaseApplied(o)
      PROVE  [Queue!Next]_(Queue!vars)
  <2>1. /\ pc = "cluster" /\ UNCHANGED <<n, spec>>
        /\ snap[target] = "InProgress"
        /\ \/ phase' = phase
           \/ phase' = [phase EXCEPT ![target] = "Applied"]
    BY <1>5 DEF setConfigPhaseApplied, StatusUpdate
  <2>2. /\ target \in Ids /\ target \in 1..n /\ phase[target] = "InProgress"
    BY <1>t, <2>1 DEF IInv, CursorIsHead, TargetIsCurrent
  <2>3. CASE phase' = phase
    BY <1>v, <2>1, <2>3
  <2>4. CASE phase' = [phase EXCEPT ![target] = "Applied"]
    <3>1. q' = [q EXCEPT ![target] = "Applied"]
      BY <1>t, <2>2, <2>4
    <3>2. q[target] = "InProgress"
      BY <2>2
    <3>3. \A j \in 1..(target - 1) : j \in Ids /\ phase[j] \in Terminal
      BY <1>t, <2>2 DEF IInv, InOrder
    <3>4. Queue!IsHead(target)
      BY <2>2, <3>2, <3>3 DEF Queue!IsHead, Queue!Resolved, Terminal
    <3>5. PICK i \in Ids : i = target
      BY <2>2
    <3>6. Queue!Finish(i)
      BY <2>1, <3>1, <3>2, <3>4, <3>5
         DEF Queue!Finish, Queue!Ids
    <3>7. Queue!Next
      BY <3>6 DEF Queue!Next, Queue!Ids
    <3> QED
      BY <3>7
  <2> QED
    BY <2>1, <2>3, <2>4
<1>6. CASE \/ UNCHANGED vars \/ listConfigs \/ selectConfig \/ dispatch
           \/ reconcileClusterWaits \/ restart
  <2>1. UNCHANGED <<n, spec, phase>>
    BY <1>6 DEF vars, listConfigs, selectConfig, dispatch,
                reconcileClusterWaits, restart, store
  <2> QED
    BY <1>v, <2>1
<1> QED
  BY <1>1, <1>2, <1>3, <1>4, <1>5, <1>6 DEF Next, reconcile

\* The reconciliation loop, with its failing writes, its in-memory copy of the
\* phases and its restarts, implements the queue of module ConfigQueue.
THEOREM LoopImplementsQueue == Spec => QueueSpec
<1>1. Init => Queue!Init
  BY SpecsAssumption DEF Init, Queue!Init, Queue!Ids, Ids
<1>2. IInv /\ [Next]_vars => [Queue!Next]_(Queue!vars)
  BY StepIsQueueStep
<1> QED
  BY <1>1, <1>2, InvariantHolds, PTL DEF Spec, QueueSpec, Queue!Spec
=============================================================================
