----------------------- MODULE ConfigSelectionProofs -----------------------
(***************************************************************************)
(* What the functions of ConfigSelection return, for any number of configs *)
(* and whatever their phases: the lemmas the proofs about the loops use.   *)
(***************************************************************************)
EXTENDS ConfigSelection, TLAPS
LOCAL INSTANCE WellFoundedInduction

(***************************************************************************)
(* Facts about the two extrema the selection functions take.               *)
(***************************************************************************)

\* A non-empty set of numbers has a least element, and Min is it: what the
\* loop of SelectConfig over the sorted configs finds first.
LEMMA MinIsLeast ==
  ASSUME NEW S, S \subseteq Nat, S # {}
  PROVE  Min(S) \in S /\ \A y \in S : Min(S) <= y
<1>1. \E x \in S : \A y \in S : ~ (<<y, x>> \in OpToRel(<, Nat))
  BY NatLessThanWellFounded, WFMin, Zenon
<1>2. PICK x \in S : \A y \in S : ~ (<<y, x>> \in OpToRel(<, Nat))
  BY <1>1
<1>3. \A y \in S : x <= y
  <2> SUFFICES ASSUME NEW y \in S, ~(x <= y) PROVE FALSE
    OBVIOUS
  <2>1. y < x /\ x \in Nat /\ y \in Nat
    OBVIOUS
  <2>2. <<y, x>> \in OpToRel(<, Nat)
    BY <2>1 DEF OpToRel
  <2> QED
    BY <1>2, <2>2
<1> QED
  BY <1>3 DEF Min

\* A non-empty set of numbers with a bound has a greatest element, and Max is
\* it: the last Applied config, and the end of a superseding chain.
LEMMA MaxIsGreatest ==
  ASSUME NEW S, NEW b \in Nat, S \subseteq 0..b, S # {}
  PROVE  Max(S) \in S /\ \A y \in S : Max(S) >= y
<1> DEFINE T == {b - x : x \in S}
<1>1. T \subseteq Nat /\ T # {}
  <2>1. \A x \in S : b - x \in Nat
    OBVIOUS
  <2>2. PICK x \in S : TRUE
    OBVIOUS
  <2>3. b - x \in T
    BY <2>2
  <2> QED
    BY <2>1, <2>3
<1>2. Min(T) \in T /\ \A y \in T : Min(T) <= y
  BY <1>1, MinIsLeast, Zenon
<1>3. PICK x \in S : Min(T) = b - x
  BY <1>2
<1>4. \A y \in S : x >= y
  <2> SUFFICES ASSUME NEW y \in S PROVE x >= y
    OBVIOUS
  <2>1. b - y \in T
    OBVIOUS
  <2>2. b - x <= b - y
    BY <1>2, <1>3, <2>1
  <2> QED
    BY <2>2
<1> QED
  BY <1>4 DEF Max

\* lastAppliedBefore returns the closest Applied config below i, or none.
LEMMA LastAppliedBefore ==
  ASSUME NEW ph, NEW i \in Nat
  PROVE  LET a == lastAppliedBefore(ph, i)
         IN  \/ /\ a = None
                /\ \A j \in 1..(i - 1) : ph[j] # "Applied"
             \/ /\ a \in 1..(i - 1)
                /\ ph[a] = "Applied"
                /\ \A j \in (a + 1)..(i - 1) : ph[j] # "Applied"
<1> DEFINE A == {j \in 1..(i - 1) : ph[j] = "Applied"}
           a == lastAppliedBefore(ph, i)
<1>1. CASE A = {}
  <2>1. a = None
    BY <1>1 DEF lastAppliedBefore
  <2> QED
    BY <1>1, <2>1
<1>2. CASE A # {}
  <2>1. A \subseteq 0..i
    OBVIOUS
  <2>2. Max(A) \in A /\ \A y \in A : Max(A) >= y
    BY <1>2, <2>1, MaxIsGreatest, Zenon
  <2>3. a = Max(A)
    BY <1>2 DEF lastAppliedBefore
  <2>4. a \in 1..(i - 1) /\ ph[a] = "Applied"
    BY <2>2, <2>3
  <2>5. ASSUME NEW j \in (a + 1)..(i - 1), ph[j] = "Applied"
        PROVE  FALSE
    <3>1. j \in A
      BY <2>4, <2>5
    <3>2. a >= j
      BY <2>2, <2>3, <3>1
    <3> QED
      BY <2>4, <3>2
  <2> QED
    BY <2>4, <2>5
<1> QED
  BY <1>1, <1>2

(***************************************************************************)
(* What the selection functions return for a list without empty phases.    *)
(***************************************************************************)

\* SelectConfig returns the first config that is not resolved; if all are, it
\* returns an Applied one or, with none Applied, the last of the list.
LEMMA SelectConfigIsHead ==
  ASSUME NEW m \in Nat \ {0}, NEW ph
  PROVE  LET s == SelectConfig(ph, m)
         IN  /\ s \in 1..m
             /\ \/ /\ ph[s] \notin Terminal
                   /\ \A j \in 1..(s - 1) : ph[j] \in Terminal
                \/ ph[s] = "Applied"
                \/ s = m /\ ph[s] \in Terminal
<1> DEFINE open == {i \in 1..m : ph[i] \notin Terminal}
           s == SelectConfig(ph, m)
           a == lastAppliedBefore(ph, m + 1)
<1>1. CASE open # {}
  <2>1. open \subseteq Nat
    OBVIOUS
  <2>2. Min(open) \in open /\ \A y \in open : Min(open) <= y
    BY <1>1, <2>1, MinIsLeast, Zenon
  <2>3. s = Min(open)
    BY <1>1 DEF SelectConfig
  <2>4. s \in 1..m /\ ph[s] \notin Terminal
    BY <2>2, <2>3
  <2>5. ASSUME NEW j \in 1..(s - 1), ph[j] \notin Terminal
        PROVE  FALSE
    <3>1. j \in open
      BY <2>4, <2>5
    <3> QED
      BY <2>2, <2>3, <2>4, <3>1
  <2> QED
    BY <2>4, <2>5
<1>2. CASE open = {}
  <2>1. \A i \in 1..m : ph[i] \in Terminal
    BY <1>2
  <2>2. s = IF a # None THEN a ELSE m
    BY <1>2 DEF SelectConfig, lastApplied
  <2>3. a = None \/ (a \in 1..m /\ ph[a] = "Applied")
    <3>1. m + 1 \in Nat /\ (m + 1) - 1 = m
      OBVIOUS
    <3> QED
      BY <3>1, LastAppliedBefore
  <2> QED
    BY <2>1, <2>2, <2>3
<1> QED
  BY <1>1, <1>2

\* It returns a resolved config only if all are, and then none above it is Applied.
LEMMA SelectConfigRests ==
  ASSUME NEW m \in Nat \ {0}, NEW ph, ph[SelectConfig(ph, m)] \in Terminal
  PROVE  /\ \A j \in 1..m : ph[j] \in Terminal
         /\ \A j \in (SelectConfig(ph, m) + 1)..m : ph[j] # "Applied"
<1> DEFINE open == {i \in 1..m : ph[i] \notin Terminal}
           s == SelectConfig(ph, m)
           a == lastAppliedBefore(ph, m + 1)
<1>1. open = {}
  <2> SUFFICES ASSUME open # {} PROVE FALSE
    OBVIOUS
  <2>1. open \subseteq Nat
    OBVIOUS
  <2>2. Min(open) \in open
    BY <2>1, MinIsLeast, Zenon
  <2>3. s = Min(open)
    BY DEF SelectConfig
  <2> QED
    BY <2>2, <2>3
<1>2. s = IF a # None THEN a ELSE m
  BY <1>1 DEF SelectConfig, lastApplied
<1>3. m + 1 \in Nat /\ (m + 1) - 1 = m
  OBVIOUS
<1>4. \/ a = None
      \/ a \in 1..m /\ \A j \in (a + 1)..m : ph[j] # "Applied"
  BY <1>3, LastAppliedBefore
<1>5. \A j \in (s + 1)..m : ph[j] # "Applied"
  BY <1>2, <1>4
<1> QED
  BY <1>1, <1>5

\* ApplySuperseding returns a config reached from the selected one by a chain
\* of rounds of its loop, and does not move at all unless the pre-conditions
\* hold.
LEMMA ApplySupersedingIsChain ==
  ASSUME NEW m \in Nat \ {0}, NEW ph, NEW sp, NEW s \in 1..m
  PROVE  LET t == ApplySuperseding(sp, ph, m, s)
         IN  /\ t \in s..m
             /\ t # s => mayBeSuperseded(sp, ph, s)
             /\ \A k \in s..(t - 1) :
                  chainContinues(sp, findBaseline(ph, s), k)
<1> DEFINE C == {t \in s..m : \A k \in s..(t - 1) :
                    chainContinues(sp, findBaseline(ph, s), k)}
           t == ApplySuperseding(sp, ph, m, s)
<1>1. CASE mayBeSuperseded(sp, ph, s)
  <2>1. C \subseteq 0..m
    OBVIOUS
  <2>2. s \in C
    OBVIOUS
  <2>3. Max(C) \in C
    BY <2>1, <2>2, MaxIsGreatest, Zenon
  <2>4. t = Max(C)
    BY <1>1 DEF ApplySuperseding
  <2> QED
    BY <1>1, <2>3, <2>4
<1>2. CASE ~mayBeSuperseded(sp, ph, s)
  <2>1. t = s
    BY <1>2 DEF ApplySuperseding
  <2> QED
    BY <2>1
<1> QED
  BY <1>1, <1>2
=============================================================================
