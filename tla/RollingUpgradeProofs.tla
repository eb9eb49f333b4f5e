------------------------- MODULE RollingUpgradeProofs -------------------------
(***************************************************************************)
(* The safety of the rolling upgrade, for any number of primaries,         *)
(* replicas, slots, faults and failing pods.                               *)
(***************************************************************************)
EXTENDS RollingUpgrade, FiniteSetTheorems, TLAPS

-----------------------------------------------------------------------------
(* Ordinals and nodes.                                                     *)

\* The bounds of the ordinals: the primaries, their replicas, the pivot, its own.
LEMMA Ordinals ==
  /\ Primaries \in Nat /\ Primaries > 0 /\ ReplicasPerPrimary \in Nat
  /\ Total \in Nat /\ Total >= Primaries
  /\ Total = Primaries + Primaries * ReplicasPerPrimary
  /\ Pivot = Total
  /\ \A p : p \in Pods <=> p \in Nat /\ p <= Total + ReplicasPerPrimary
  /\ \A p : p \in Extra <=> p \in Nat /\ p > Total /\ p <= Total + ReplicasPerPrimary
<1>1. Primaries \in Nat /\ Primaries > 0 /\ ReplicasPerPrimary \in Nat
  BY UpgradeAssumption
<1>2. Primaries * ReplicasPerPrimary \in Nat
  BY <1>1
<1>3. Total = Primaries + Primaries * ReplicasPerPrimary
  BY <1>1, <1>2 DEF Total
<1>4. Total \in Nat /\ Total >= Primaries
  BY <1>1, <1>2, <1>3
<1>5. \A p : p \in Pods <=> p \in Nat /\ p <= Total + ReplicasPerPrimary
  BY <1>1, <1>4 DEF Pods
<1>6. \A p : p \in Extra <=> p \in Nat /\ p > Total /\ p <= Total + ReplicasPerPrimary
  BY <1>1, <1>4 DEF Extra
<1> QED BY <1>1, <1>3, <1>4, <1>5, <1>6 DEF Pivot

\* A partition further on begins at least one share of replicas later.
LEMMA Shares ==
  ASSUME NEW p \in Nat, NEW q \in Nat, NEW k \in Nat, p < q
  PROVE  p * k \in Nat /\ q * k \in Nat /\ p * k + k <= q * k
<1> DEFINE d == q - p - 1
<1>1. d \in Nat /\ q = p + d + 1
  OBVIOUS
<1>2. p * k \in Nat /\ q * k \in Nat /\ d * k \in Nat
  BY <1>1
<1> HIDE DEF d
<1>3. (p + d + 1) * k = p * k + d * k + k
  BY <1>1
<1> QED BY <1>1, <1>2, <1>3

\* The replicas of a primary come after the primaries and before the pivot.
LEMMA ReplicasInRange ==
  ASSUME NEW p \in 0 .. Primaries - 1, NEW r \in ReplicaOrdinals(p)
  PROVE  r \in Nat /\ r >= Primaries /\ r < Total
<1>1. Primaries \in Nat /\ p \in Nat /\ p < Primaries /\ ReplicasPerPrimary \in Nat
  BY Ordinals
<1>2. p * ReplicasPerPrimary \in Nat
  BY <1>1
<1>3. p * ReplicasPerPrimary + ReplicasPerPrimary <= Primaries * ReplicasPerPrimary
  BY <1>1, Shares
<1>4. Total = Primaries + Primaries * ReplicasPerPrimary /\ Primaries * ReplicasPerPrimary \in Nat
  BY <1>1, Ordinals
<1>5. r \in Primaries + p * ReplicasPerPrimary
             .. Primaries + p * ReplicasPerPrimary + ReplicasPerPrimary - 1
  BY DEF ReplicaOrdinals
<1> QED BY <1>1, <1>2, <1>3, <1>4, <1>5

\* No replica belongs to two primaries.
LEMMA ReplicasDisjoint ==
  ASSUME NEW p \in 0 .. Primaries - 1, NEW q \in 0 .. Primaries - 1,
         NEW r \in ReplicaOrdinals(p), r \in ReplicaOrdinals(q)
  PROVE  p = q
<1>1. p \in Nat /\ q \in Nat /\ ReplicasPerPrimary \in Nat /\ Primaries \in Nat
  BY Ordinals
<1>2. /\ r \in Primaries + p * ReplicasPerPrimary
                 .. Primaries + p * ReplicasPerPrimary + ReplicasPerPrimary - 1
      /\ r \in Primaries + q * ReplicasPerPrimary
                 .. Primaries + q * ReplicasPerPrimary + ReplicasPerPrimary - 1
  BY DEF ReplicaOrdinals
<1>3. p * ReplicasPerPrimary \in Nat /\ q * ReplicasPerPrimary \in Nat
  BY <1>1
<1>4. ~(p < q)
  BY <1>1, <1>2, <1>3, Shares
<1>5. ~(q < p)
  BY <1>1, <1>2, <1>3, Shares
<1> QED BY <1>1, <1>4, <1>5

\* What the integer division of a share and a remainder is.
LEMMA Division ==
  ASSUME NEW k \in Nat, NEW a \in Nat, NEW b \in Nat, b < k
  PROVE  (a * k + b) \div k = a
<1>1. a * k \in Nat /\ k > 0
  OBVIOUS
<1> DEFINE n == a * k + b
           d == n \div k
<1>2. n \in Nat
  BY <1>1
<1>3. d \in Int /\ k * d <= n /\ n < k * d + k
  BY <1>1, <1>2, SMT
<1> HIDE DEF d, n
<1>4. d \in Nat
  <2>1. CASE d < 0
    <3>1. k * (d + 1) <= 0
      BY <1>1, <1>3, <2>1
    <3>2. k * (d + 1) = k * d + k
      BY <1>1, <1>3
    <3> QED BY <1>1, <1>2, <1>3, <3>1, <3>2
  <2> QED BY <1>3, <2>1
<1>5. k * d = d * k
  BY <1>3
<1>6. n = a * k + b
  BY DEF n
<1>7. ~(d < a)
  BY <1>1, <1>2, <1>3, <1>4, <1>5, <1>6, Shares
<1>8. ~(a < d)
  BY <1>1, <1>2, <1>3, <1>4, <1>5, <1>6, Shares
<1> QED BY <1>4, <1>7, <1>8 DEF d, n

\* The replicas that ordinals give a primary are those whose primary it is.
LEMMA PrimaryOfReplica ==
  ASSUME NEW p \in 0 .. Primaries - 1, NEW r \in ReplicaOrdinals(p)
  PROVE  OrdinalOfPrimary(r) = p
<1>1. p \in Nat /\ ReplicasPerPrimary \in Nat /\ Primaries \in Nat
  BY Ordinals
<1>2. r \in Primaries + p * ReplicasPerPrimary
             .. Primaries + p * ReplicasPerPrimary + ReplicasPerPrimary - 1
  BY DEF ReplicaOrdinals
<1>3. p * ReplicasPerPrimary \in Nat
  BY <1>1
<1> DEFINE b == r - Primaries - p * ReplicasPerPrimary
<1>4. b \in Nat /\ b < ReplicasPerPrimary /\ r - Primaries = p * ReplicasPerPrimary + b
  BY <1>1, <1>2, <1>3
<1> HIDE DEF b
<1>5. (p * ReplicasPerPrimary + b) \div ReplicasPerPrimary = p
  BY <1>1, <1>4, Division
<1> QED BY <1>4, <1>5 DEF OrdinalOfPrimary

\* Every ordinal between the primaries and the pivot is that of a replica.
LEMMA ReplicaHasPrimary ==
  ASSUME NEW r \in Primaries .. Total - 1
  PROVE  OrdinalOfPrimary(r) \in 0 .. Primaries - 1 /\ r \in ReplicaOrdinals(OrdinalOfPrimary(r))
<1>1. Primaries \in Nat /\ ReplicasPerPrimary \in Nat /\ Total \in Nat
      /\ Total = Primaries + Primaries * ReplicasPerPrimary
  BY Ordinals
<1>2. Primaries * ReplicasPerPrimary \in Nat
  BY <1>1
<1> DEFINE n == r - Primaries
           d == n \div ReplicasPerPrimary
<1>3. n \in Nat /\ n < Primaries * ReplicasPerPrimary
  BY <1>1, <1>2
<1>4. ReplicasPerPrimary > 0
  BY <1>1, <1>3
<1> HIDE DEF n
<1>5. d \in Int /\ ReplicasPerPrimary * d <= n /\ n < ReplicasPerPrimary * d + ReplicasPerPrimary
  BY <1>1, <1>3, <1>4, SMT
<1> HIDE DEF d
<1>6. d \in Nat
  <2>1. CASE d < 0
    <3>1. ReplicasPerPrimary * (d + 1) <= 0
      BY <1>1, <1>4, <1>5, <2>1
    <3>2. ReplicasPerPrimary * (d + 1) = ReplicasPerPrimary * d + ReplicasPerPrimary
      BY <1>1, <1>5
    <3> QED BY <1>1, <1>3, <1>5, <3>1, <3>2
  <2> QED BY <1>5, <2>1
<1>7. ReplicasPerPrimary * d = d * ReplicasPerPrimary
  BY <1>1, <1>5
<1>8. ~(Primaries < d)
  BY <1>1, <1>2, <1>3, <1>5, <1>6, <1>7, Shares
<1>9. d # Primaries
  BY <1>1, <1>2, <1>3, <1>5, <1>6, <1>7
<1>10. n = r - Primaries /\ d = OrdinalOfPrimary(r)
  BY DEF OrdinalOfPrimary, n, d
<1>11. d * ReplicasPerPrimary \in Nat
  BY <1>1, <1>6
<1>12. r \in ReplicaOrdinals(d)
  BY <1>1, <1>3, <1>5, <1>7, <1>10, <1>11 DEF ReplicaOrdinals
<1> QED BY <1>1, <1>6, <1>8, <1>9, <1>10, <1>12

\* A pod's node is its own, and none is None.
LEMMA NodesOfPods ==
  ASSUME gen \in [Pods -> Nat], NEW p \in Pods
  PROVE  /\ Node(p) \in Nodes /\ Node(p) # None /\ Node(p)[1] = p
         /\ \A q \in Pods : Node(q) = Node(p) => q = p
BY DEF Node, Nodes, None

\* The pod of a node.
LEMMA PodsOfNodes ==
  ASSUME NEW x \in Nodes
  PROVE  x[1] \in Pods /\ x # None /\ (Alive(x) <=> x[1] \in up /\ x = Node(x[1]))
BY DEF Nodes, None, Alive

-----------------------------------------------------------------------------
(* Kubernetes and Redis: the types, and what a linked replica has.         *)

\* Replica r is in step with a primary that runs.
InStep(r) == Alive(master[r]) /\ IsPrimary(master[r][1]) /\ data[r] = data[master[r][1]]

\* The pod of its primary is q.
InStepWith(r, q) ==
  /\ r \in Pods /\ q \in Pods /\ q # r /\ q \in up
  /\ master[r] = Node(q) /\ master[q] = None /\ data[r] = data[q]

RedisOK ==
  /\ up \subseteq Pods /\ linked \subseteq up
  /\ gen \in [Pods -> Nat]
  /\ members \subseteq Nodes
  /\ master \in [Pods -> Nodes \cup {None}]
  /\ owner \in [Slots -> Nodes]
  /\ data \in [Pods -> SUBSET Slots]
  /\ open \subseteq Slots \X Nodes /\ \A d, e \in open : d = e
  /\ \A r \in linked : InStep(r)

\* The pod of the primary of a linked replica.
LEMMA LinkedReplica ==
  ASSUME RedisOK, NEW r \in linked
  PROVE  \E q \in Pods : InStepWith(r, q)
<1> DEFINE x == master[r]
<1>1. r \in Pods /\ x \in Nodes \cup {None} /\ Alive(x) /\ IsPrimary(x[1]) /\ data[r] = data[x[1]]
  BY DEF RedisOK, InStep
<1>2. x \in Nodes
  BY <1>1 DEF Alive
<1>3. x[1] \in Pods /\ x # None /\ x[1] \in up /\ x = Node(x[1])
  BY <1>1, <1>2, PodsOfNodes
<1>4. master[x[1]] = None
  BY <1>1 DEF IsPrimary
<1>5. x[1] # r
  BY <1>3, <1>4
<1> QED BY <1>1, <1>3, <1>4, <1>5 DEF InStepWith

\* A pod that goes away takes the links to its node with it.
LEMMA PodStopsOK ==
  ASSUME RedisOK, NEW p \in Pods, PodStops(p)
  PROVE  RedisOK'
<1>1. up' = up \ {p} /\ UNCHANGED <<members, owner>>
      /\ linked' = {r \in linked : r # p /\ master[r] # Node(p)}
  BY DEF PodStops
<1>2. /\ gen' \in [Pods -> Nat]
      /\ master' \in [Pods -> Nodes \cup {None}]
      /\ data' \in [Pods -> SUBSET Slots]
      /\ open' \subseteq open
      /\ \A q \in Pods : q # p => gen'[q] = gen[q] /\ master'[q] = master[q] /\ data'[q] = data[q]
  BY DEF PodStops, RedisOK
<1>3. ASSUME NEW r \in linked' PROVE InStep(r)'
  <2>1. r \in linked /\ r # p /\ master[r] # Node(p)
    BY <1>1
  <2>2. PICK q \in Pods : InStepWith(r, q)
    BY <2>1, LinkedReplica
  <2>3. q # p /\ r \in Pods
    BY <2>1, <2>2 DEF InStepWith
  <2>4. InStepWith(r, q)'
    BY <1>1, <1>2, <2>1, <2>2, <2>3 DEF InStepWith, Node
  <2> QED BY <2>4 DEF InStep, InStepWith, Alive, IsPrimary, Node, None
<1> QED BY <1>1, <1>2, <1>3 DEF RedisOK

\* A node that is flushed and reset leaves its primary and loses its replicas.
LEMMA FlushOK ==
  ASSUME RedisOK, NEW p \in Pods, flushAndPersistNode(p)
  PROVE  RedisOK'
<1>1. UNCHANGED <<up, members, owner>>
      /\ linked' = {r \in linked : r # p /\ master[r] # Node(p)}
  BY DEF flushAndPersistNode
<1> DEFINE emptied == {p} \cup (IF IsPrimary(p) THEN {r \in linked : master[r] = Node(p)} ELSE {})
<1>2. /\ gen' \in [Pods -> Nat]
      /\ master' \in [Pods -> Nodes \cup {None}]
      /\ data' \in [Pods -> SUBSET Slots]
      /\ open' \subseteq open
      /\ \A q \in Pods : q # p => gen'[q] = gen[q] /\ master'[q] = master[q]
      /\ \A q \in Pods : q \notin emptied => data'[q] = data[q]
  BY DEF flushAndPersistNode, RedisOK
<1>3. ASSUME NEW r \in linked' PROVE InStep(r)'
  <2>1. r \in linked /\ r # p /\ master[r] # Node(p)
    BY <1>1
  <2>2. PICK q \in Pods : InStepWith(r, q)
    BY <2>1, LinkedReplica
  <2>3. q # p /\ r \in Pods
    BY <2>1, <2>2 DEF InStepWith
  <2>4. r \notin emptied
    BY <2>1
  <2>5. q \notin emptied
    <3>1. gen \in [Pods -> Nat] BY DEF RedisOK
    <3>2. Node(p) # None BY <3>1, NodesOfPods
    <3> QED BY <2>2, <2>3, <3>2 DEF InStepWith
  <2>6. InStepWith(r, q)'
    BY <1>1, <1>2, <2>1, <2>2, <2>3, <2>4, <2>5 DEF InStepWith, Node
  <2> QED BY <2>6 DEF InStep, InStepWith, Alive, IsPrimary, Node, None
<1> QED BY <1>1, <1>2, <1>3 DEF RedisOK

\* A replica that takes over from a node that is gone disturbs no other link.
LEMMA TakesOverOK ==
  ASSUME RedisOK, NEW r \in up, master[r] # None, ~Alive(master[r]), TakesOver(r),
         UNCHANGED <<up, gen, members, open, data>>
  PROVE  RedisOK'
<1> DEFINE m == master[r]
<1>1. r \in Pods /\ m \in Nodes /\ Node(r) \in Nodes
  BY NodesOfPods DEF RedisOK
<1>2. /\ owner' \in [Slots -> Nodes]
      /\ master' \in [Pods -> Nodes \cup {None}]
      /\ linked' \subseteq linked
  BY <1>1 DEF TakesOver, RedisOK
<1>3. ASSUME NEW k \in linked' PROVE InStep(k)'
  <2>1. k \in linked /\ k # r /\ master[k] # m
    BY DEF TakesOver
  <2>2. PICK q \in Pods : InStepWith(k, q)
    BY <2>1, LinkedReplica
  <2>3. k \in Pods /\ q \in up /\ k \in up
    BY <2>1, <2>2 DEF InStepWith, RedisOK
  <2>4. Node(q) # m /\ Node(k) # m
    <3>1. \A p \in Pods : p \in up => Alive(Node(p))
      BY PodsOfNodes, NodesOfPods DEF RedisOK
    <3> QED BY <2>2, <2>3, <3>1
  <2>5. master[q] = None /\ m # None
    BY <2>2, <1>1 DEF InStepWith
  <2>6. master'[k] = master[k] /\ master'[q] = None
    BY <2>1, <2>2, <2>3, <2>4, <2>5 DEF TakesOver
  <2>7. InStepWith(k, q)'
    BY <2>2, <2>6 DEF InStepWith, Node
  <2> QED BY <2>7 DEF InStep, InStepWith, Alive, IsPrimary, Node, None
<1> QED BY <1>2, <1>3 DEF RedisOK

\* Pods are told to replicate others that are not among them.
LEMMA ReplicatingOK ==
  ASSUME RedisOK, NEW f, DOMAIN f \subseteq Pods,
         \A r \in DOMAIN f : f[r] \in Pods \ DOMAIN f,
         Replicating(f), members' \subseteq Nodes, UNCHANGED <<up, gen, owner, open, data>>
  PROVE  RedisOK'
<1>1. \A r \in DOMAIN f : Node(f[r]) \in Nodes
  BY NodesOfPods DEF RedisOK
<1>2. master' \in [Pods -> Nodes \cup {None}] /\ linked' \subseteq linked
  BY <1>1 DEF Replicating, RedisOK
<1>3. ASSUME NEW k \in linked' PROVE InStep(k)'
  <2>1. k \in linked
    BY <1>2
  <2>2. PICK q \in Pods : InStepWith(k, q)
    BY <2>1, LinkedReplica
  <2>3. k \in Pods /\ master[k] = Node(q) /\ master[q] = None
    BY <2>2 DEF InStepWith
  <2>4. q \notin DOMAIN f /\ (k \in DOMAIN f => Node(f[k]) = Node(q))
    <3>1. CASE k \in DOMAIN f
      <4>1. master[k] = Node(f[k])
        BY <3>1 DEF Replicating
      <4>2. f[k] = q
        BY <2>3, <3>1, <4>1, NodesOfPods DEF RedisOK
      <4> QED BY <3>1, <4>2
    <3>2. CASE k \notin DOMAIN f
      BY <2>3, <3>2 DEF Replicating
    <3> QED BY <3>1, <3>2
  <2>5. master'[k] = master[k] /\ master'[q] = None
    BY <2>3, <2>4 DEF Replicating
  <2>6. InStepWith(k, q)'
    BY <2>2, <2>5 DEF InStepWith, Node
  <2> QED BY <2>6 DEF InStep, InStepWith, Alive, IsPrimary, Node, None
<1> QED BY <1>2, <1>3 DEF RedisOK

\* The data after a move: the primary that takes the slots has them, and a replica
\* in step with its primary stays so.
LEMMA MovedData ==
  ASSUME RedisOK, NEW S \in SUBSET Slots, NEW y \in Nodes, Alive(y), IsPrimary(y[1])
  PROVE  /\ Moved(S, y) \in [Pods -> SUBSET Slots]
         /\ \A p \in Pods : Node(p) = y => Moved(S, y)[p] = data[p] \cup S
         /\ \A p \in Pods, s \in Slots : s \notin S => (s \in Moved(S, y)[p] <=> s \in data[p])
         /\ \A r \in linked, q \in Pods :
              InStepWith(r, q) => Moved(S, y)[r] = Moved(S, y)[q]
<1>1. Moved(S, y) \in [Pods -> SUBSET Slots]
  BY DEF Moved, RedisOK
<1>2. \A p \in Pods : Node(p) = y => Moved(S, y)[p] = data[p] \cup S
  BY DEF Moved
<1>3. \A p \in Pods, s \in Slots : s \notin S => (s \in Moved(S, y)[p] <=> s \in data[p])
  BY DEF Moved
<1>4. ASSUME NEW r \in linked, NEW q \in Pods, InStepWith(r, q)
      PROVE  Moved(S, y)[r] = Moved(S, y)[q]
  <2>1. r \in Pods /\ r \in up /\ q \in up /\ master[r] = Node(q) /\ master[q] = None
        /\ data[r] = data[q]
    BY <1>4 DEF InStepWith, RedisOK
  <2>2. q \notin linked
    <3>1. ASSUME q \in linked PROVE FALSE
      <4>1. PICK p \in Pods : InStepWith(q, p)
        BY <3>1, LinkedReplica
      <4> QED BY <4>1, <2>1, NodesOfPods DEF InStepWith, RedisOK
    <3> QED BY <3>1
  <2>3. y # Node(r)
    <3>1. Node(r)[1] = r /\ Node(q) # None
      BY <2>1, NodesOfPods DEF RedisOK
    <3> QED BY <2>1, <3>1 DEF IsPrimary
  <2> DEFINE Served(p) == {Node(p)} \cup {master[k] : k \in {p} \cap linked}
  <2>4. y \in Served(r) <=> y = Node(q)
    BY <2>1, <2>3
  <2>5. y \in Served(q) <=> y = Node(q)
    BY <2>2
  <2>6. \A p \in {r, q} : Moved(S, y)[p] = IF y \in Served(p) THEN data[p] \cup S ELSE data[p] \ S
    BY <2>1 DEF Moved
  <2> HIDE DEF Served
  <2> QED BY <2>1, <2>4, <2>5, <2>6
<1> QED BY <1>1, <1>2, <1>3, <1>4

\* The links after a move.
LEMMA MovedOK ==
  ASSUME RedisOK, NEW S \in SUBSET Slots, NEW y \in Nodes, Alive(y), IsPrimary(y[1]),
         data' = Moved(S, y), UNCHANGED <<up, gen, master, linked>>
  PROVE  data' \in [Pods -> SUBSET Slots] /\ \A r \in linked' : InStep(r)'
<1>1. data' \in [Pods -> SUBSET Slots]
  BY MovedData
<1>2. ASSUME NEW k \in linked' PROVE InStep(k)'
  <2>1. k \in linked
    OBVIOUS
  <2>2. PICK q \in Pods : InStepWith(k, q)
    BY <2>1, LinkedReplica
  <2>3. data'[k] = data'[q]
    <3>1. \A r \in linked, p \in Pods : InStepWith(r, p) => Moved(S, y)[r] = Moved(S, y)[p]
      BY MovedData, Zenon
    <3> QED BY <2>1, <2>2, <3>1, Zenon
  <2>4. InStepWith(k, q)'
    BY <2>2, <2>3 DEF InStepWith, Node
  <2> QED BY <2>4 DEF InStep, InStepWith, Alive, IsPrimary, Node, None
<1> QED BY <1>1, <1>2

\* A fix gives slots to nodes that run, and ends a migration with its data.
LEMMA FixOK ==
  ASSUME RedisOK, NEW M, Fix(M), members' \subseteq Nodes, UNCHANGED <<up, gen, master, linked>>
  PROVE  RedisOK'
<1> DEFINE uncovered == {s \in Slots : owner[s] \notin M}
           finished == {e \in open : Alive(e[2]) /\ IsPrimary(e[2][1])}
<1>1. CASE UNCHANGED <<owner, open, data>>
  <2>1. ASSUME NEW k \in linked' PROVE InStep(k)'
    BY <1>1 DEF RedisOK, InStep, Alive, IsPrimary, Node
  <2> QED BY <1>1, <2>1 DEF RedisOK
<1>2. CASE ~UNCHANGED <<owner, open, data>>
  <2>1. PICK f \in [uncovered -> up] :
          owner' = [s \in Slots |->
                      IF s \in uncovered THEN Node(f[s])
                      ELSE IF \E e \in finished : e[1] = s
                           THEN (CHOOSE e \in finished : e[1] = s)[2]
                      ELSE owner[s]]
    BY <1>2 DEF Fix
  <2>2. open' = {} /\ data' = IF finished = {} THEN data
                              ELSE LET e == CHOOSE e \in finished : TRUE IN Moved({e[1]}, e[2])
    BY <1>2 DEF Fix
  <2>3. \A e \in finished : e[1] \in Slots /\ e[2] \in Nodes /\ Alive(e[2]) /\ IsPrimary(e[2][1])
    BY DEF RedisOK
  <2>4. owner' \in [Slots -> Nodes]
    <3>1. ASSUME NEW s \in Slots PROVE owner'[s] \in Nodes
      <4>1. CASE s \in uncovered
        <5>1. f[s] \in Pods
          BY <2>1, <4>1 DEF RedisOK
        <5>2. Node(f[s]) \in Nodes
          BY <5>1, NodesOfPods DEF RedisOK
        <5> QED BY <2>1, <4>1, <5>2
      <4>2. CASE s \notin uncovered /\ \E e \in finished : e[1] = s
        <5>1. (CHOOSE e \in finished : e[1] = s) \in finished
          BY <4>2
        <5> QED BY <2>1, <2>3, <4>2, <5>1
      <4>3. CASE s \notin uncovered /\ ~\E e \in finished : e[1] = s
        BY <2>1, <4>3 DEF RedisOK
      <4> QED BY <4>1, <4>2, <4>3
    <3> QED BY <2>1, <3>1
  <2>5. data' \in [Pods -> SUBSET Slots] /\ \A k \in linked' : InStep(k)'
    <3>1. CASE finished = {}
      <4>1. ASSUME NEW k \in linked' PROVE InStep(k)'
        BY <2>2, <3>1 DEF RedisOK, InStep, Alive, IsPrimary, Node
      <4> QED BY <2>2, <3>1, <4>1 DEF RedisOK
    <3>2. CASE finished # {}
      <4>1. PICK e \in finished : e = CHOOSE d \in finished : TRUE
        BY <3>2
      <4>2. data' = Moved({e[1]}, e[2]) /\ {e[1]} \in SUBSET Slots /\ e[2] \in Nodes
        BY <2>2, <2>3, <3>2, <4>1
      <4> HIDE DEF finished
      <4>3. PICK S \in SUBSET Slots, y \in Nodes : S = {e[1]} /\ y = e[2]
        BY <4>2
      <4> QED BY <2>3, <4>1, <4>2, <4>3, MovedOK
    <3> QED BY <3>1, <3>2
  <2> QED BY <2>2, <2>4, <2>5 DEF RedisOK
<1> QED BY <1>1, <1>2

\* Steps that touch neither pods nor roles nor data: members and slots only.
LEMMA MembersOK ==
  ASSUME RedisOK, members' \subseteq Nodes,
         UNCHANGED <<up, gen, master, linked, owner, open, data>>
  PROVE  RedisOK'
<1>1. ASSUME NEW k \in linked' PROVE InStep(k)'
  BY DEF RedisOK, InStep, Alive, IsPrimary, Node
<1> QED BY <1>1 DEF RedisOK

\* What Robin remembers between steps.
RobinOK ==
  /\ sub \in Substatuses
  /\ part \in 0 .. Primaries - 1
  /\ target \in Pods
  /\ StepFits

\* A view names nodes.
LEMMA ViewsOK ==
  ASSUME RedisOK, NEW q \in up, NEW view \in Views(q)
  PROVE  view \subseteq Nodes
<1>1. q \in Pods /\ members \subseteq Nodes /\ master[q] \in Nodes \cup {None}
  BY DEF RedisOK
<1>2. Node(q) \in Nodes
  BY <1>1, NodesOfPods DEF RedisOK
<1> QED BY <1>1, <1>2 DEF Views

\* healTopology keeps the types and the links.
LEMMA HealOK ==
  ASSUME RedisOK, healTopology
  PROVE  RedisOK'
<1>1. PICK q \in up : \E view \in Views(q) : \E flagged \in SUBSET MaybeStaleIn(view) :
         \/ healTopologyPromotes(view, StaleIn(view) \cup flagged)
         \/ healTopologyForgets(view, StaleIn(view) \cup flagged)
  BY DEF healTopology
<1>2. PICK view \in Views(q) : \E flagged \in SUBSET MaybeStaleIn(view) :
         \/ healTopologyPromotes(view, StaleIn(view) \cup flagged)
         \/ healTopologyForgets(view, StaleIn(view) \cup flagged)
  BY <1>1
<1>3. PICK flagged \in SUBSET MaybeStaleIn(view) :
         \/ healTopologyPromotes(view, StaleIn(view) \cup flagged)
         \/ healTopologyForgets(view, StaleIn(view) \cup flagged)
  BY <1>2
<1> DEFINE stale == StaleIn(view) \cup flagged
<1>4. view \subseteq Nodes
  BY ViewsOK
<1>5. \A x \in stale : x \in view /\ ~Alive(x)
  BY DEF StaleIn, MaybeStaleIn
<1>6. UNCHANGED <<up, gen>>
  BY DEF healTopology, kube
<1> HIDE DEF stale
<1>7. CASE healTopologyPromotes(view, stale)
  <2>1. PICK x \in stale : \E r \in Promotable(x, view) : TakesOver(r)
    BY <1>7 DEF healTopologyPromotes
  <2>2. PICK r \in Promotable(x, view) : TakesOver(r)
    BY <2>1
  <2>3. r \in up /\ master[r] = x
    BY <2>2 DEF Promotable
  <2>4. x # None
    BY <1>4, <1>5, <2>1, PodsOfNodes
  <2>5. ~Alive(master[r]) /\ master[r] # None
    BY <1>5, <2>1, <2>3, <2>4
  <2>6. UNCHANGED <<members, open, data>>
    BY <1>7 DEF healTopologyPromotes
  <2> QED BY <1>6, <2>2, <2>3, <2>5, <2>6, TakesOverOK
<1>8. CASE healTopologyForgets(view, stale)
  <2>1. members' \subseteq Nodes
    <3>1. {Node(p) : p \in MissingIn(view)} \subseteq Nodes
      BY NodesOfPods DEF MissingIn, RedisOK
    <3>2. members' \subseteq members \cup {Node(p) : p \in MissingIn(view)} \cup view
      BY <1>8 DEF healTopologyForgets
    <3> QED BY <1>4, <3>1, <3>2 DEF RedisOK
  <2>2. UNCHANGED <<master, linked>>
    BY <1>8 DEF healTopologyForgets
  <2>3. Fix(members') \/ UNCHANGED <<owner, open, data>>
    BY <1>8 DEF healTopologyForgets
  <2>4. CASE UNCHANGED <<owner, open, data>>
    BY <1>6, <2>1, <2>2, <2>4, MembersOK
  <2>5. CASE Fix(members')
    <3>1. PICK M : M = members'
      OBVIOUS
    <3>2. Fix(M)
      BY <2>5, <3>1
    <3> QED BY <1>6, <2>1, <2>2, <3>2, FixOK
  <2> QED BY <2>3, <2>4, <2>5
<1> QED BY <1>3, <1>7, <1>8 DEF stale

\* The steps of Kubernetes and Redis keep the types and the links.
LEMMA EnvironmentOK ==
  ASSUME RedisOK, NEW p \in Pods,
         KubeStartsPod(p) \/ KubeStopsPod(p) \/ PodFails(p) \/ Links(p) \/ FailsOver(p)
  PROVE  RedisOK'
<1>1. CASE KubeStartsPod(p)
  <2>1. up' = up \cup {p} /\ UNCHANGED <<gen, members, master, linked, owner, open, data>>
    BY <1>1 DEF KubeStartsPod, redis
  <2>2. ASSUME NEW k \in linked' PROVE InStep(k)'
    BY <2>1 DEF RedisOK, InStep, Alive, IsPrimary, Node
  <2> QED BY <2>1, <2>2 DEF RedisOK
<1>2. CASE KubeStopsPod(p)
  BY <1>2, PodStopsOK DEF KubeStopsPod
<1>3. CASE PodFails(p)
  BY <1>3, PodStopsOK DEF PodFails
<1>4. CASE Links(p)
  <2>1. p \in up /\ p \notin linked /\ Alive(master[p]) /\ IsPrimary(master[p][1])
    BY <1>4 DEF Links
  <2> DEFINE x == master[p]
  <2>2. x \in Nodes
    BY <2>1 DEF RedisOK, Alive
  <2>3. x[1] \in Pods /\ x # None /\ x[1] \in up /\ x = Node(x[1]) /\ master[x[1]] = None
    BY <2>1, <2>2, PodsOfNodes DEF IsPrimary
  <2>4. linked' = linked \cup {p} /\ data' = [data EXCEPT ![p] = data[x[1]]]
        /\ UNCHANGED <<up, gen, members, master, owner, open>>
    BY <1>4 DEF Links, kube
  <2>5. data' \in [Pods -> SUBSET Slots]
    BY <2>3, <2>4 DEF RedisOK
  <2>6. ASSUME NEW k \in linked' PROVE InStep(k)'
    <3>1. CASE k = p
      <4>1. x[1] # p
        BY <2>3
      <4>2. data'[p] = data'[x[1]]
        BY <2>3, <2>4, <4>1 DEF RedisOK
      <4> QED BY <2>1, <2>4, <3>1, <4>2 DEF InStep, Alive, IsPrimary, Node
    <3>2. CASE k # p
      <4>1. k \in linked
        BY <2>4, <3>2
      <4>2. PICK q \in Pods : InStepWith(k, q)
        BY <4>1, LinkedReplica
      <4>3. q # p
        BY <4>2, <2>3 DEF InStepWith
      <4>4. data'[k] = data[k] /\ data'[q] = data[q]
        BY <2>4, <3>2, <4>2, <4>3 DEF RedisOK, InStepWith
      <4>5. InStepWith(k, q)'
        BY <2>4, <4>2, <4>4 DEF InStepWith, Node
      <4> QED BY <4>5 DEF InStep, InStepWith, Alive, IsPrimary, Node, None
    <3> QED BY <3>1, <3>2
  <2> QED BY <2>1, <2>4, <2>5, <2>6 DEF RedisOK
<1>5. CASE FailsOver(p)
  BY <1>5, TakesOverOK DEF FailsOver, kube
<1> QED BY <1>1, <1>2, <1>3, <1>4, <1>5

\* The steps of Robin that send no command.
Idling ==
  \/ Interrupted \/ SetStatefulSetPartition \/ startsPass \/ handleUpgradeStart
  \/ waitPivotSynced \/ waitReplicaSynced \/ advances \/ handleUpgradeScalingDown

\* The steps that change who is a member, and who replicates whom.
Arranging ==
  \/ handleUpgradeScalingUp \/ handleUpgradeResharding \/ ensurePivotReplica
  \/ forgetReplicasOfNode \/ forgetExtraReplicas \/ rebalanceReplicas

\* The steps that move slots.
Moving == readNodes \/ ClusterReshard \/ handleUpgradeEnding

\* The steps that recycle pods.
Recycling == handleUpgradeRollingUpdate \/ DeletePod \/ recycleReplicasForPrimary

\* Every step of Robin is of one of these kinds.
LEMMA KindsOfSteps == Robin => Idling \/ healTopology \/ Arranging \/ Moving \/ Recycling
BY DEF Robin, Idling, Arranging, Moving, Recycling

\* A step that sends no command changes no pod and nothing in Redis.
LEMMA IdlingChanges ==
  ASSUME Idling
  PROVE  UNCHANGED <<storage, up, rev, gen, members, master, linked, owner, open, data, failed>>
BY DEF Idling, Interrupted, SetStatefulSetPartition, startsPass, handleUpgradeStart,
       waitPivotSynced, waitReplicaSynced, advances, handleUpgradeScalingDown, kube, redis, bounds

\* Steps that arrange members and replicas leave the rest alone, and attach only
\* replicas by ordinal to primaries by ordinal that run.
LEMMA ArrangingChanges ==
  ASSUME RedisOK, RobinOK, Arranging
  PROVE  /\ UNCHANGED <<storage, sts, up, rev, gen, owner, open, data, failed>>
         /\ members' \subseteq Nodes
         /\ \/ UNCHANGED <<master, linked>>
            \/ \E f : /\ Replicating(f)
                      /\ DOMAIN f \subseteq Pods \ PrimaryPods
                      /\ \A r \in DOMAIN f : f[r] \in PrimaryPods /\ CanReplicate(r, f[r])
                      /\ \/ DOMAIN f = Extra /\ \A r \in Extra : f[r] = Pivot
                         \/ \A r \in DOMAIN f : r < Total /\ f[r] = OrdinalOfPrimary(r)
<1>1. UNCHANGED <<storage, sts, up, rev, gen, owner, open, data, failed>>
  BY DEF Arranging, handleUpgradeScalingUp, handleUpgradeResharding, ensurePivotReplica,
         forgetReplicasOfNode, forgetExtraReplicas, rebalanceReplicas, kube, bounds
<1>2. \A p \in Pods : Node(p) \in Nodes
  BY NodesOfPods DEF RedisOK
<1>3. \A r \in Extra : r \in Pods \ PrimaryPods
  BY Ordinals DEF PrimaryPods
<1> DEFINE e == [r \in Extra |-> Pivot]
<1>4. /\ DOMAIN e = Extra /\ \A r \in Extra : e[r] = Pivot
      /\ Pivot \in PrimaryPods
  BY DEF PrimaryPods
<1> HIDE DEF e
<1>5. CASE handleUpgradeScalingUp
  <2>1. CASE Pods \subseteq up /\ \A r \in Extra : CanReplicate(r, Pivot)
    <3>1. Replicating(e) /\ members' = members \cup {Node(p) : p \in Pods}
      BY <1>5, <2>1 DEF handleUpgradeScalingUp, e
    <3> QED BY <1>1, <1>2, <1>3, <1>4, <2>1, <3>1 DEF RedisOK
  <2>2. CASE ~(Pods \subseteq up /\ \A r \in Extra : CanReplicate(r, Pivot))
    BY <1>1, <1>5, <2>2 DEF handleUpgradeScalingUp, RedisOK
  <2> QED BY <2>1, <2>2
<1>6. CASE handleUpgradeResharding
  BY <1>1, <1>6 DEF handleUpgradeResharding, forgetFailedNodes, RedisOK
<1>7. CASE ensurePivotReplica
  <2>1. CASE UNCHANGED <<members, master, linked>>
    BY <1>1, <2>1 DEF RedisOK
  <2>2. CASE ~UNCHANGED <<members, master, linked>>
    <3>1. Attached(e) /\ \A r \in Extra : CanReplicate(r, Pivot)
      BY <1>7, <2>2 DEF ensurePivotReplica, e
    <3>2. Replicating(e) /\ members' \subseteq Nodes
      BY <1>2, <1>3, <1>4, <3>1 DEF Attached, RedisOK
    <3> QED BY <1>1, <1>3, <1>4, <3>1, <3>2
  <2> QED BY <2>1, <2>2
<1>8. CASE forgetReplicasOfNode
  BY <1>1, <1>8 DEF forgetReplicasOfNode, RedisOK
<1>9. CASE forgetExtraReplicas
  BY <1>1, <1>9 DEF forgetExtraReplicas, RedisOK
<1>10. CASE rebalanceReplicas
  <2> DEFINE replicas == Primaries .. Total - 1
             refused == {r \in replicas : ~CanReplicate(r, OrdinalOfPrimary(r))}
             reached == {r \in replicas : \A q \in refused : r < q}
             f == [r \in reached |-> OrdinalOfPrimary(r)]
  <2>1. CASE UNCHANGED <<members, master, linked>>
    BY <1>1, <2>1 DEF RedisOK
  <2>2. CASE ~UNCHANGED <<members, master, linked>>
    <3>1. Attached(f)
      BY <1>10, <2>2 DEF rebalanceReplicas
    <3>2. \A r \in reached : r \in replicas /\ CanReplicate(r, OrdinalOfPrimary(r))
      BY Ordinals
    <3>3. \A r \in replicas : r \in Pods \ PrimaryPods /\ r < Total
      BY Ordinals DEF PrimaryPods
    <3>4. \A r \in replicas : OrdinalOfPrimary(r) \in PrimaryPods
      BY ReplicaHasPrimary DEF PrimaryPods
    <3>5. DOMAIN f = reached /\ \A r \in reached : f[r] = OrdinalOfPrimary(r)
      OBVIOUS
    <3> HIDE DEF f, reached, refused
    <3>6. Replicating(f) /\ members' \subseteq Nodes
      BY <1>2, <3>1, <3>2, <3>3, <3>5 DEF Attached, RedisOK
    <3>7. DOMAIN f \subseteq Pods \ PrimaryPods
      BY <3>2, <3>3, <3>5
    <3>8. \A r \in DOMAIN f : /\ f[r] \in PrimaryPods /\ CanReplicate(r, f[r])
                              /\ r < Total /\ f[r] = OrdinalOfPrimary(r)
      BY <3>2, <3>3, <3>4, <3>5
    <3> QED BY <1>1, <3>6, <3>7, <3>8
  <2> QED BY <2>1, <2>2
<1> QED BY <1>5, <1>6, <1>7, <1>8, <1>9, <1>10 DEF Arranging

\* A reshard hands over slots with their data, or does nothing.
LEMMA ReshardMoves ==
  ASSUME RedisOK, ClusterReshard
  PROVE  \/ UNCHANGED <<owner, open, data>>
         \/ /\ CanReshard(ids.source, ids.dest)
            /\ ids.dest \in Nodes /\ Alive(ids.dest) /\ IsPrimary(ids.dest[1])
            /\ \E S \in SUBSET SlotsOf(ids.source) :
                 /\ owner' = [s \in Slots |-> IF s \in S THEN ids.dest ELSE owner[s]]
                 /\ data' = Moved(S, ids.dest)
                 /\ \/ open' = open /\ S = SlotsOf(ids.source) /\ pc' # "idle"
                    \/ \E s \in SlotsOf(ids.source) :
                         s \notin S /\ open' \in {{}, {<<s, ids.dest>>}} /\ pc' = "idle"
<1> DEFINE all == SlotsOf(ids.source)
<1>1. ASSUME CanReshard(ids.source, ids.dest)
      PROVE  ids.dest \in Nodes /\ Alive(ids.dest) /\ IsPrimary(ids.dest[1])
  BY <1>1 DEF CanReshard, RedisOK
<1>2. CASE /\ CanReshard(ids.source, ids.dest)
           /\ owner' = [s \in Slots |-> IF s \in all THEN ids.dest ELSE owner[s]]
           /\ data' = Moved(all, ids.dest)
           /\ GoTo(IF sub = "Ending" THEN "forgetExtra" ELSE "forgetReplicas")
           /\ UNCHANGED <<open, faults>>
  <2>1. all \in SUBSET SlotsOf(ids.source) /\ pc' # "idle"
    BY <1>2 DEF GoTo
  <2>2. PICK S \in SUBSET SlotsOf(ids.source) : S = all
    BY <2>1
  <2> QED BY <1>1, <1>2, <2>1, <2>2
<1>3. CASE /\ CanReshard(ids.source, ids.dest)
           /\ \E s \in all :
                LET done == {t \in all : t < s}
                IN  /\ owner' = [t \in Slots |-> IF t \in done THEN ids.dest ELSE owner[t]]
                    /\ data' = Moved(done, ids.dest)
                    /\ open' \in {{}, {<<s, ids.dest>>}}
           /\ Return
  <2>1. PICK s \in all :
                LET done == {t \in all : t < s}
                IN  /\ owner' = [t \in Slots |-> IF t \in done THEN ids.dest ELSE owner[t]]
                    /\ data' = Moved(done, ids.dest)
                    /\ open' \in {{}, {<<s, ids.dest>>}}
    BY <1>3
  <2>2. PICK S : S = {t \in all : t < s}
    OBVIOUS
  <2>3. S \in SUBSET SlotsOf(ids.source) /\ s \notin S
    <3>1. s \in Int
      BY DEF SlotsOf, Slots
    <3> QED BY <2>2, <3>1
  <2>4. owner' = [t \in Slots |-> IF t \in S THEN ids.dest ELSE owner[t]]
        /\ data' = Moved(S, ids.dest) /\ open' \in {{}, {<<s, ids.dest>>}}
    BY <2>1, <2>2
  <2> QED BY <1>1, <1>3, <2>3, <2>4 DEF Return
<1>4. CASE UNCHANGED <<owner, open, data, faults>>
  BY <1>4
<1> QED BY <1>2, <1>3, <1>4 DEF ClusterReshard

\* What the steps that move slots leave alone.
LEMMA MovingChanges ==
  ASSUME RedisOK, Moving
  PROVE  UNCHANGED <<storage, sts, up, rev, gen, master, linked, failed>> /\ members' \subseteq members
<1>1. UNCHANGED <<storage, sts, up, rev, gen, master, linked, failed>>
  BY DEF Moving, readNodes, ClusterReshard, handleUpgradeEnding, kube, bounds
<1>2. members' \subseteq members
  <2>1. CASE readNodes \/ ClusterReshard
    BY <2>1 DEF readNodes, ClusterReshard
  <2>2. CASE handleUpgradeEnding
    BY <2>2 DEF handleUpgradeEnding, forgetFailedNodes
  <2> QED BY <2>1, <2>2 DEF Moving
<1> QED BY <1>1, <1>2

LEMMA MovingOK ==
  ASSUME RedisOK, Moving
  PROVE  RedisOK'
<1>1. UNCHANGED <<up, gen, master, linked>> /\ members' \subseteq Nodes
  BY MovingChanges DEF RedisOK
<1>2. CASE UNCHANGED <<owner, open, data>>
  BY <1>1, <1>2, MembersOK
<1>3. CASE ~UNCHANGED <<owner, open, data>> /\ (readNodes \/ handleUpgradeEnding)
  <2>1. Fix(members)
    BY <1>3 DEF readNodes, handleUpgradeEnding
  <2> QED BY <1>1, <2>1, FixOK
<1>4. CASE ~UNCHANGED <<owner, open, data>> /\ ClusterReshard
  <2>1. PICK y \in Nodes : y = ids.dest
    BY <1>4, ReshardMoves
  <2>2. PICK S \in SUBSET SlotsOf(ids.source) :
          /\ owner' = [s \in Slots |-> IF s \in S THEN y ELSE owner[s]]
          /\ data' = Moved(S, y)
          /\ \/ open' = open
             \/ \E s \in SlotsOf(ids.source) : open' \in {{}, {<<s, y>>}}
    BY <1>4, <2>1, ReshardMoves
  <2>3. Alive(y) /\ IsPrimary(y[1])
    BY <1>4, <2>1, ReshardMoves
  <2>4. S \in SUBSET Slots /\ SlotsOf(ids.source) \subseteq Slots
    BY DEF SlotsOf
  <2>5. data' \in [Pods -> SUBSET Slots] /\ \A r \in linked' : InStep(r)'
    BY <1>1, <2>2, <2>3, <2>4, MovedOK
  <2>6. owner' \in [Slots -> Nodes]
    BY <2>2 DEF RedisOK
  <2>7. open' \subseteq Slots \X Nodes /\ \A d, e \in open' : d = e
    BY <2>2, <2>4 DEF RedisOK
  <2> QED BY <1>1, <2>5, <2>6, <2>7 DEF RedisOK
<1> QED BY <1>2, <1>3, <1>4 DEF Moving

\* What recycling a pod changes: the pod stops, or it is reset and comes next.
LEMMA RecyclesOK ==
  ASSUME RedisOK, NEW p \in Pods, recycles(p)
  PROVE  RedisOK' /\ UNCHANGED <<sts, rev, members, owner>>
<1>1. CASE PodStops(p)
  BY <1>1, PodStopsOK DEF PodStops
<1>2. CASE flushAndPersistNode(p)
  BY <1>2, FlushOK DEF flushAndPersistNode
<1> QED BY <1>1, <1>2 DEF recycles

\* What a step that recycles does, apart from what Robin remembers.
LEMMA RecyclingChanges ==
  ASSUME RedisOK, RobinOK, Recycling
  PROVE  /\ UNCHANGED <<storage, sts, rev, owner, failed>>
         /\ \/ pc = "RollingUpdate" /\ recycles(part)
            \/ pc = "replicas" /\ part \in up /\ recycles(target)
            \/ pc = "delete" /\ target \in up /\ PodStops(target) /\ Return
            \/ /\ UNCHANGED <<up, gen, open, data>>
               /\ members' \subseteq Nodes
               /\ \/ UNCHANGED <<master, linked>>
                  \/ /\ pc = "replicas" /\ pc' = "sync" /\ CanReplicate(target, part)
                     /\ Attached([r \in {target} |-> part])
<1>1. part \in Pods /\ target \in Pods
  BY Ordinals DEF RobinOK
<1>2. \A p \in Pods : Node(p) \in Nodes
  BY NodesOfPods DEF RedisOK
<1>3. CASE handleUpgradeRollingUpdate
  <2>1. CASE recycles(part)
    BY <1>1, <1>3, <2>1, RecyclesOK DEF handleUpgradeRollingUpdate, bounds
  <2>2. CASE UNCHANGED <<kube, redis>>
    BY <1>3, <2>2 DEF handleUpgradeRollingUpdate, kube, redis, bounds, RedisOK
  <2>3. CASE /\ IF Pivot \notin up THEN Return /\ UNCHANGED members
                ELSE /\ \E flagged \in SUBSET {x \in members : ~Alive(x) /\ SlotsOf(x) = {}} :
                          members' = (members \cup {Node(part)})
                                       \ {x \in flagged : \A r \in up : master[r] # x}
                     /\ pc' = IF ReplicasPerPrimary > 0 THEN "replicas" ELSE "check"
                     /\ target' = Primaries + part * ReplicasPerPrimary
                     /\ UNCHANGED <<status, ids>>
             /\ UNCHANGED <<kube, master, linked, owner, open, data>>
    <3>1. members' \subseteq Nodes
      BY <1>1, <1>2, <2>3 DEF RedisOK
    <3> QED BY <1>3, <2>3, <3>1 DEF handleUpgradeRollingUpdate, kube, bounds
  <2> QED BY <1>3, <2>1, <2>2, <2>3 DEF handleUpgradeRollingUpdate
<1>4. CASE DeletePod
  <2>1. CASE target \in up
    BY <1>4, <2>1 DEF DeletePod, PodStops, bounds
  <2>2. CASE target \notin up
    BY <1>4, <2>2 DEF DeletePod, kube, redis, bounds, RedisOK
  <2> QED BY <2>1, <2>2
<1>5. CASE recycleReplicasForPrimary
  <2>1. CASE part \in up /\ recycles(target)
    BY <1>1, <1>5, <2>1, RecyclesOK DEF recycleReplicasForPrimary, bounds
  <2>2. CASE UNCHANGED <<kube, redis>>
    BY <1>5, <2>2 DEF recycleReplicasForPrimary, kube, redis, bounds, RedisOK
  <2>3. CASE /\ IF CanReplicate(target, part)
                THEN Attached([r \in {target} |-> part]) /\ GoTo("sync")
                ELSE /\ members' \in {members, members \cup {Node(target)}}
                     /\ Return
                     /\ UNCHANGED <<master, linked>>
             /\ UNCHANGED <<kube, owner, open, data>>
    <3>1. CASE CanReplicate(target, part)
      <4>1. members' = members \cup {Node(r) : r \in {target}}
        BY <2>3, <3>1 DEF Attached
      <4>2. members' \subseteq Nodes
        BY <1>1, <1>2, <4>1 DEF RedisOK
      <4> QED BY <1>5, <2>3, <3>1, <4>2 DEF recycleReplicasForPrimary, kube, bounds, GoTo
    <3>2. CASE ~CanReplicate(target, part)
      <4>1. members' \subseteq Nodes
        BY <1>1, <1>2, <2>3, <3>2 DEF RedisOK
      <4> QED BY <1>5, <2>3, <3>2, <4>1 DEF recycleReplicasForPrimary, kube, bounds
    <3> QED BY <3>1, <3>2
  <2> QED BY <1>5, <2>1, <2>2, <2>3 DEF recycleReplicasForPrimary
<1> QED BY <1>3, <1>4, <1>5 DEF Recycling

\* Every step keeps the types of Kubernetes's and Redis's part, and the links.
LEMMA RedisStep ==
  ASSUME RedisOK, RobinOK, [Next]_vars
  PROVE  RedisOK'
<1>1. CASE Idling
  BY <1>1, IdlingChanges, MembersOK DEF RedisOK
<1>2. CASE healTopology
  BY <1>2, HealOK
<1>3. CASE Arranging
  <2>1. /\ UNCHANGED <<up, gen, owner, open, data>> /\ members' \subseteq Nodes
    BY <1>3, ArrangingChanges
  <2>2. CASE UNCHANGED <<master, linked>>
    BY <2>1, <2>2, MembersOK
  <2>3. CASE \E f : /\ Replicating(f)
                    /\ DOMAIN f \subseteq Pods \ PrimaryPods
                    /\ \A r \in DOMAIN f : f[r] \in PrimaryPods /\ CanReplicate(r, f[r])
    <3>1. PICK f : /\ Replicating(f)
                   /\ DOMAIN f \subseteq Pods \ PrimaryPods
                   /\ \A r \in DOMAIN f : f[r] \in PrimaryPods /\ CanReplicate(r, f[r])
      BY <2>3
    <3>2. \A r \in DOMAIN f : f[r] \in Pods \ DOMAIN f
      BY <3>1, Ordinals DEF PrimaryPods
    <3> QED BY <2>1, <3>1, <3>2, ReplicatingOK
  <2> QED BY <1>3, <2>2, <2>3, ArrangingChanges
<1>4. CASE Moving
  BY <1>4, MovingOK
<1>5. CASE Recycling
  <2>1. part \in Pods /\ target \in Pods /\ part < Primaries
    BY Ordinals DEF RobinOK
  <2>2. CASE recycles(part) \/ recycles(target)
    BY <2>1, <2>2, RecyclesOK
  <2>3. CASE PodStops(target)
    BY <2>1, <2>3, PodStopsOK
  <2>4. CASE /\ UNCHANGED <<up, gen, owner, open, data>> /\ members' \subseteq Nodes
             /\ UNCHANGED <<master, linked>>
    BY <2>4, MembersOK
  <2>5. CASE /\ UNCHANGED <<up, gen, owner, open, data>> /\ members' \subseteq Nodes
             /\ pc = "replicas" /\ Attached([r \in {target} |-> part])
    <3>1. target \in ReplicaOrdinals(part)
      BY <2>5 DEF RobinOK, StepFits
    <3>2. target >= Primaries
      BY <3>1, ReplicasInRange DEF RobinOK
    <3>3. PICK f : f = [r \in {target} |-> part]
      OBVIOUS
    <3>4. DOMAIN f = {target} /\ f[target] = part /\ Replicating(f)
      BY <2>5, <3>3 DEF Attached
    <3>5. target # part
      BY <2>1, <3>2, Ordinals
    <3> QED BY <2>1, <2>5, <3>4, <3>5, ReplicatingOK
  <2> QED BY <1>5, <2>2, <2>3, <2>4, <2>5, RecyclingChanges
<1>6. CASE \E p \in Pods : KubeStartsPod(p) \/ KubeStopsPod(p) \/ PodFails(p) \/ Links(p) \/ FailsOver(p)
  BY <1>6, EnvironmentOK
<1>7. CASE UNCHANGED vars
  BY <1>7, MembersOK DEF vars, kube, redis, RedisOK
<1>8. CASE Robin
  BY <1>8, <1>1, <1>2, <1>3, <1>4, <1>5, KindsOfSteps
<1> QED BY <1>6, <1>7, <1>8 DEF Next

-----------------------------------------------------------------------------
(* Robin's part, the StatefulSet and the templates of the pods.            *)

KubeOK ==
  /\ sts \in [size : {Total, Total + 1 + ReplicasPerPrimary}, template : {"old", "new"},
              strategy : {"RollingUpdate", "OnDelete"}]
  /\ rev \in [Pods -> {"old", "new"}]
  /\ StatefulSetFits
  /\ TemplatesFit

\* The replicas of a primary as an interval.
LEMMA ReplicaInterval ==
  ASSUME NEW p \in 0 .. Primaries - 1
  PROVE  \E a \in Nat : /\ a = Primaries + p * ReplicasPerPrimary
                        /\ a >= Primaries /\ a + ReplicasPerPrimary <= Total
                        /\ ReplicaOrdinals(p) = a .. a + ReplicasPerPrimary - 1
<1>1. Primaries \in Nat /\ p \in Nat /\ p < Primaries /\ ReplicasPerPrimary \in Nat
  BY Ordinals
<1>2. p * ReplicasPerPrimary \in Nat
  BY <1>1
<1>3. p * ReplicasPerPrimary + ReplicasPerPrimary <= Primaries * ReplicasPerPrimary
  BY <1>1, Shares
<1>4. Total = Primaries + Primaries * ReplicasPerPrimary /\ Primaries * ReplicasPerPrimary \in Nat
  BY <1>1, Ordinals
<1> DEFINE a == Primaries + p * ReplicasPerPrimary
<1>5. a \in Nat /\ a >= Primaries /\ a + ReplicasPerPrimary <= Total
  BY <1>1, <1>2, <1>3, <1>4
<1> QED BY <1>5 DEF ReplicaOrdinals

\* Pods start and stop, and nothing Robin remembers changes.
LEMMA EnvironmentFits ==
  ASSUME RedisOK, RobinOK, KubeOK, NEW p \in Pods,
         KubeStartsPod(p) \/ KubeStopsPod(p) \/ PodFails(p) \/ Links(p) \/ FailsOver(p)
  PROVE  RobinOK' /\ KubeOK'
<1>1. UNCHANGED <<sub, part, pc, target, sts>>
  BY DEF KubeStartsPod, KubeStopsPod, PodFails, Links, FailsOver, robin, status, kube, PodStops
<1>2. RobinOK'
  BY <1>1 DEF RobinOK, StepFits
<1>3. ASSUME rev' = rev, up' \subseteq up, failed \subseteq failed',
             pc = "delete" => (target \in up' \/ target \in failed' \/ target \notin up)
      PROVE  KubeOK'
  <2>1. StatefulSetFits'
    BY <1>1 DEF KubeOK, StatefulSetFits
  <2>2. TemplatesFit'
    BY <1>1, <1>3 DEF KubeOK, TemplatesFit, PartitionDone, ReplicaDone, Renewed
  <2> QED BY <1>1, <1>3, <2>1, <2>2 DEF KubeOK
<1>4. CASE KubeStartsPod(p)
  <2>1. /\ p \notin up /\ p < sts.size /\ up' = up \cup {p} /\ failed' = failed
        /\ rev' = [rev EXCEPT ![p] = sts.template]
    BY <1>4 DEF KubeStartsPod, bounds
  <2>2. StatefulSetFits'
    BY <1>1 DEF KubeOK, StatefulSetFits
  <2>3. sts.template = "new" \/ \A q \in Pods : rev[q] = "old" /\ rev'[q] = "old"
    BY <2>1 DEF KubeOK, TemplatesFit
  <2>4. rev' \in [Pods -> {"old", "new"}]
        /\ \A q \in Pods : rev'[q] = IF q = p THEN sts.template ELSE rev[q]
    BY <2>1 DEF KubeOK
  <2>5. \A q \in Pods : sts.template = "new" /\ rev[q] = "new" => rev'[q] = "new"
    BY <2>4
  <2>6. p >= Total => rev'[p] = "new"
    <3>1. p >= Total => sts.size # Total
      BY <2>1, Ordinals
    <3>2. p >= Total => sts.template = "new"
      BY <3>1 DEF KubeOK, StatefulSetFits
    <3> QED BY <2>4, <3>2
  <2>7. \A q \in 0 .. Primaries - 1 : q \in Pods /\ \A r \in ReplicaOrdinals(q) : r \in Pods
    BY Ordinals, ReplicasInRange
  <2>8. sub # "Start" => sts.template = "new"
    BY DEF KubeOK, StatefulSetFits
  <2>9. \A q \in 0 .. Primaries - 1 : sub # "Start" /\ Renewed(q) => Renewed(q)'
    BY <2>5, <2>7, <2>8 DEF Renewed
  <2>10. part \in 0 .. Primaries - 1 /\ part \in Nat /\ Primaries \in Nat
    BY Ordinals DEF RobinOK
  <2>11. pc # "idle" => sub # "Start"
    BY DEF RobinOK, StepFits, Steps
  <2>12. TemplatesFit'
    <3>1. (sts.template = "old" => \A q \in Pods : rev[q] = "old")'
      BY <1>1, <2>3
    <3>2. (\A q \in up : q >= Total => rev[q] = "new")'
      <4>1. \A q \in up : q \in Pods
        BY DEF RedisOK
      <4> QED BY <2>1, <2>4, <2>6, <4>1 DEF KubeOK, TemplatesFit
    <3>3. (sub \in {"Resharding", "RollingUpdate"} => \A q \in part + 1 .. Primaries - 1 : Renewed(q))'
      <4>1. \A q \in part + 1 .. Primaries - 1 : q \in 0 .. Primaries - 1
        BY <2>10
      <4> QED BY <1>1, <2>9, <4>1 DEF KubeOK, TemplatesFit
    <3>4. (sub \in {"Ending", "ScalingDown", "Ready"} => \A q \in 0 .. Primaries - 1 : Renewed(q))'
      BY <1>1, <2>9 DEF KubeOK, TemplatesFit
    <3>5. (PartitionDone \/ pc \in {"replicas", "sync"} => rev[part] = "new")'
      BY <1>1, <2>5, <2>7, <2>8, <2>10, <2>11 DEF KubeOK, TemplatesFit, PartitionDone
    <3>6. (sub = "RollingUpdate" => \A r \in ReplicaOrdinals(part) : ReplicaDone(r) => rev[r] = "new")'
      <4>1. \A r : ReplicaDone(r)' <=> ReplicaDone(r)
        BY <1>1 DEF ReplicaDone, PartitionDone
      <4> QED BY <1>1, <2>5, <2>7, <2>8, <2>10, <4>1 DEF KubeOK, TemplatesFit
    <3>7. (pc = "delete" => target \in failed \/ (target \in up /\ rev[target] # sts.template))'
      <4>1. target \in Pods
        BY DEF RobinOK
      <4> QED BY <1>1, <2>1, <2>4, <4>1 DEF KubeOK, TemplatesFit
    <3> QED BY <3>1, <3>2, <3>3, <3>4, <3>5, <3>6, <3>7 DEF TemplatesFit
  <2> QED BY <1>1, <1>2, <2>2, <2>4, <2>12 DEF KubeOK
<1>5. CASE KubeStopsPod(p)
  <2>1. pc = "delete" => ~KubeStopsPod(p)
    <3>1. pc = "delete" => sts.size = Total + 1 + ReplicasPerPrimary /\ sts.strategy = "OnDelete"
      BY DEF RobinOK, StepFits, KubeOK, StatefulSetFits
    <3> QED BY <3>1, Ordinals DEF KubeStopsPod
  <2> QED BY <1>2, <1>3, <1>5, <2>1 DEF KubeStopsPod, PodStops, bounds
<1>6. CASE PodFails(p)
  BY <1>2, <1>3, <1>6 DEF PodFails, PodStops
<1>7. CASE Links(p) \/ FailsOver(p)
  BY <1>2, <1>3, <1>7 DEF Links, FailsOver, kube, bounds
<1> QED BY <1>2, <1>4, <1>5, <1>6, <1>7

\* The pods by name, for the steps below.
LEMMA PartitionInRange ==
  ASSUME RobinOK
  PROVE  /\ part \in Nat /\ Primaries \in Nat /\ part < Primaries /\ part \in Pods
         /\ \A p \in part + 1 .. Primaries - 1 : p \in 0 .. Primaries - 1
         /\ \A r \in ReplicaOrdinals(part) :
              r \in Pods /\ r \in Nat /\ r >= Primaries /\ r < Total /\ r # part
<1>1. part \in Nat /\ Primaries \in Nat /\ part < Primaries /\ part \in Pods
  BY Ordinals DEF RobinOK
<1>2. \A p \in part + 1 .. Primaries - 1 : p \in 0 .. Primaries - 1
  BY <1>1
<1>3. \A r \in ReplicaOrdinals(part) : r \in Nat /\ r >= Primaries /\ r < Total
  BY ReplicasInRange DEF RobinOK
<1> QED BY <1>1, <1>2, <1>3, Ordinals

\* A step that only ends the pass keeps what the StatefulSet and the pods fulfil.
LEMMA PassEnds ==
  ASSUME RobinOK, KubeOK, UNCHANGED <<sts, rev, failed, sub, part>>, up' \subseteq up,
         pc' = "idle", target' \in Pods
  PROVE  RobinOK' /\ KubeOK'
<1>1. RobinOK'
  BY DEF RobinOK, StepFits, Steps
<1>2. StatefulSetFits'
  BY DEF KubeOK, StatefulSetFits
<1>3. TemplatesFit'
  BY DEF KubeOK, TemplatesFit, PartitionDone, ReplicaDone, Renewed
<1> QED BY <1>1, <1>2, <1>3 DEF KubeOK

\* The steps that send no command.
LEMMA IdlingFits ==
  ASSUME RedisOK, RobinOK, KubeOK, Idling
  PROVE  RobinOK' /\ KubeOK'
<1>1. UNCHANGED <<up, rev, failed>>
  BY IdlingChanges
<1>2. target \in Pods
  BY DEF RobinOK
<1>3. CASE Interrupted
  BY <1>1, <1>2, <1>3, PassEnds DEF Interrupted, Return, status, kube
<1>4. CASE SetStatefulSetPartition
  <2>1. /\ pc = "idle" /\ sub = "ScalingDown" /\ UNCHANGED <<sub, part, pc, target>>
        /\ sts' = Restored \/ sts' = [sts EXCEPT !.strategy = "RollingUpdate"]
    BY <1>4 DEF SetStatefulSetPartition, robin, status
  <2>2. /\ sts' \in [size : {Total, Total + 1 + ReplicasPerPrimary}, template : {"old", "new"},
                     strategy : {"RollingUpdate", "OnDelete"}]
        /\ sts'.template = sts.template /\ sts'.strategy = "RollingUpdate"
    BY <2>1 DEF KubeOK, Restored
  <2>3. RobinOK'
    BY <2>1 DEF RobinOK, StepFits
  <2>4. StatefulSetFits'
    BY <2>1, <2>2 DEF KubeOK, StatefulSetFits
  <2>5. TemplatesFit'
    BY <1>1, <2>1, <2>2 DEF KubeOK, TemplatesFit, PartitionDone, ReplicaDone, Renewed
  <2> QED BY <1>1, <2>2, <2>3, <2>4, <2>5 DEF KubeOK
<1>5. CASE startsPass
  <2>1. /\ pc = "idle" /\ pc' = sub /\ sub \notin {"Start", "Ready"}
        /\ UNCHANGED <<sts, sub, part, target>>
        /\ sub = "ScalingDown" => sts = Restored
    BY <1>5 DEF startsPass, GoTo, status, kube, AllPodsReady
  <2>2. sub = "ScalingDown" => sts.size = Total
    BY <2>1 DEF Restored, KubeOK
  <2>3. RobinOK'
    BY <2>1, <2>2 DEF RobinOK, StepFits, Steps, Substatuses
  <2>4. StatefulSetFits'
    BY <2>1 DEF KubeOK, StatefulSetFits
  <2>5. ~PartitionDone' /\ pc' \notin {"replicas", "sync", "delete"}
    BY <2>1 DEF PartitionDone, RobinOK, Substatuses
  <2>6. TemplatesFit'
    BY <1>1, <2>1, <2>5 DEF KubeOK, TemplatesFit, ReplicaDone, Renewed
  <2> QED BY <1>1, <2>1, <2>3, <2>4, <2>6 DEF KubeOK
<1>6. CASE handleUpgradeStart
  <2>1. /\ pc = "idle" /\ pc' = "idle" /\ sub = "Start" /\ UNCHANGED <<part, target>>
        /\ \/ /\ sts' = [size |-> Total + 1 + ReplicasPerPrimary, template |-> "new",
                         strategy |-> "OnDelete"]
              /\ sub' \in {"Start", "ScalingUp"}
           \/ sts' = [sts EXCEPT !.template = "new", !.strategy = "OnDelete"] /\ sub' = "Start"
    BY <1>6 DEF handleUpgradeStart, updateSubstatus, robin, status
  <2>2. /\ sts' \in [size : {Total, Total + 1 + ReplicasPerPrimary}, template : {"old", "new"},
                     strategy : {"RollingUpdate", "OnDelete"}]
        /\ sts'.template = "new" /\ sts'.strategy = "OnDelete"
        /\ sub' # "Start" => sts'.size = Total + 1 + ReplicasPerPrimary
    <3>1. CASE sts' = [size |-> Total + 1 + ReplicasPerPrimary, template |-> "new",
                       strategy |-> "OnDelete"]
      BY <3>1
    <3>2. CASE sts' = [sts EXCEPT !.template = "new", !.strategy = "OnDelete"] /\ sub' = "Start"
      BY <3>2 DEF KubeOK
    <3> QED BY <2>1, <3>1, <3>2
  <2>3. RobinOK'
    BY <2>1 DEF RobinOK, StepFits, Steps, Substatuses
  <2>4. StatefulSetFits'
    BY <2>1, <2>2 DEF KubeOK, StatefulSetFits
  <2>5. TemplatesFit'
    BY <1>1, <2>1, <2>2 DEF KubeOK, TemplatesFit, PartitionDone, ReplicaDone
  <2> QED BY <1>1, <2>2, <2>3, <2>4, <2>5 DEF KubeOK
<1>7. CASE waitPivotSynced
  <2>1. CASE Return
    BY <1>1, <1>2, <1>7, <2>1, PassEnds DEF waitPivotSynced, Return, status, kube
  <2>2. CASE GoTo(AfterPivot)
    <3>1. /\ pc = "pivotSync" /\ pc' = AfterPivot /\ UNCHANGED <<sts, sub, part, target>>
      BY <1>7, <2>2 DEF waitPivotSynced, GoTo, status, kube
    <3>2. sub \in {"Resharding", "RollingUpdate"}
      BY <3>1 DEF RobinOK, StepFits
    <3>3. pc' \in {"read", "check"} /\ (pc' = "check" <=> sub = "RollingUpdate")
      BY <3>1, <3>2 DEF AfterPivot
    <3>4. RobinOK'
      BY <3>1, <3>2, <3>3 DEF RobinOK, StepFits, Steps
    <3>5. StatefulSetFits'
      BY <3>1 DEF KubeOK, StatefulSetFits
    <3>6. TemplatesFit'
      BY <1>1, <3>1, <3>2, <3>3 DEF KubeOK, TemplatesFit, PartitionDone, ReplicaDone, Renewed
    <3> QED BY <1>1, <3>1, <3>4, <3>5, <3>6 DEF KubeOK
  <2> QED BY <1>7, <2>1, <2>2 DEF waitPivotSynced
<1>8. CASE waitReplicaSynced
  <2>1. CASE Return
    BY <1>1, <1>2, <1>8, <2>1, PassEnds DEF waitReplicaSynced, Return, status, kube
  <2>2. CASE ~Return
    <3>1. /\ pc = "sync" /\ UNCHANGED <<sts, sub, part>>
          /\ IF target + 1 \in ReplicaOrdinals(part)
             THEN pc' = "replicas" /\ target' = target + 1
             ELSE pc' = "pivot" /\ target' = target
      BY <1>8, <2>2 DEF waitReplicaSynced, status, kube
    <3>2. sub = "RollingUpdate" /\ target \in ReplicaOrdinals(part)
      BY <3>1 DEF RobinOK, StepFits
    <3>3. PICK a \in Nat : ReplicaOrdinals(part) = a .. a + ReplicasPerPrimary - 1
      BY ReplicaInterval DEF RobinOK
    <3>4. StatefulSetFits'
      BY <3>1 DEF KubeOK, StatefulSetFits
    <3>5. CASE target + 1 \in ReplicaOrdinals(part)
      <4>1. target' \in Pods
        BY <3>1, <3>5, PartitionInRange
      <4>2. RobinOK'
        BY <3>1, <3>2, <3>5, <4>1 DEF RobinOK, StepFits, Steps
      <4>3. \A r \in ReplicaOrdinals(part) : ReplicaDone(r)' => ReplicaDone(r)
        BY <3>1, <3>2, <3>3, <3>5, Ordinals DEF ReplicaDone, PartitionDone
      <4>4. TemplatesFit'
        BY <1>1, <3>1, <3>2, <3>5, <4>3 DEF KubeOK, TemplatesFit, Renewed, PartitionDone
      <4> QED BY <1>1, <3>1, <3>4, <4>2, <4>4 DEF KubeOK
    <3>6. CASE target + 1 \notin ReplicaOrdinals(part)
      <4>1. RobinOK'
        BY <3>1, <3>2, <3>6 DEF RobinOK, StepFits, Steps
      <4>2. \A r \in ReplicaOrdinals(part) : ReplicaDone(r)
        BY <3>1, <3>2, <3>3, <3>6, Ordinals DEF ReplicaDone
      <4>3. TemplatesFit'
        BY <1>1, <3>1, <3>2, <3>6, <4>2 DEF KubeOK, TemplatesFit, Renewed, PartitionDone, ReplicaDone
      <4> QED BY <1>1, <3>1, <3>4, <4>1, <4>3 DEF KubeOK
    <3> QED BY <3>5, <3>6
  <2> QED BY <2>1, <2>2
<1>9. CASE advances
  <2>1. pc = "check" /\ pc' = "idle" /\ UNCHANGED <<sts, target>>
    BY <1>9 DEF advances, updateSubstatus, Return, kube
  <2>2. sub = "RollingUpdate"
    BY <2>1 DEF RobinOK, StepFits
  <2>3. CASE UNCHANGED <<sub, part>>
    BY <1>1, <1>2, <2>1, <2>3, PassEnds
  <2>4. CASE ~UNCHANGED <<sub, part>>
    <3>1. IF part > 0 THEN sub' = "Resharding" /\ part' = part - 1
                      ELSE sub' = "Ending" /\ part' = part
      BY <1>9, <2>4 DEF advances, updateSubstatus, Return, status
    <3>2. part \in Nat /\ Primaries \in Nat /\ part < Primaries
      BY PartitionInRange
    <3>3. Renewed(part)
      BY <2>1, <2>2 DEF KubeOK, TemplatesFit, PartitionDone, ReplicaDone, Renewed
    <3>4. \A p \in part + 1 .. Primaries - 1 : Renewed(p)
      BY <2>2 DEF KubeOK, TemplatesFit
    <3>5. \A p \in part .. Primaries - 1 : Renewed(p)'
      <4>1. \A p : Renewed(p)' <=> Renewed(p)
        BY <1>1 DEF Renewed
      <4> QED BY <3>2, <3>3, <3>4, <4>1
    <3>6. RobinOK'
      BY <2>1, <3>1, <3>2 DEF RobinOK, StepFits, Steps, Substatuses
    <3>7. StatefulSetFits'
      BY <2>1, <2>2, <3>1 DEF KubeOK, StatefulSetFits
    <3>8. TemplatesFit'
      BY <1>1, <2>1, <3>1, <3>2, <3>5 DEF KubeOK, TemplatesFit, PartitionDone, ReplicaDone
    <3> QED BY <1>1, <2>1, <3>6, <3>7, <3>8 DEF KubeOK
  <2> QED BY <2>3, <2>4
<1>10. CASE handleUpgradeScalingDown
  <2>1. pc = "topology" /\ pc' = "idle" /\ UNCHANGED <<sts, part, target>> /\ sub' \in {sub, "Ready"}
    BY <1>10 DEF handleUpgradeScalingDown, kube
  <2>2. sub = "ScalingDown" /\ sts.size = Total
    BY <2>1 DEF RobinOK, StepFits
  <2>3. RobinOK'
    BY <2>1 DEF RobinOK, StepFits, Steps, Substatuses
  <2>4. StatefulSetFits'
    BY <2>1, <2>2 DEF KubeOK, StatefulSetFits
  <2>5. TemplatesFit'
    BY <1>1, <2>1, <2>2 DEF KubeOK, TemplatesFit, PartitionDone, ReplicaDone, Renewed
  <2> QED BY <1>1, <2>1, <2>3, <2>4, <2>5 DEF KubeOK
<1> QED BY <1>3, <1>4, <1>5, <1>6, <1>7, <1>8, <1>9, <1>10 DEF Idling

\* A step that goes on within the pass, to where no replica was looked after yet.
LEMMA PassGoesOn ==
  ASSUME RobinOK, KubeOK, UNCHANGED <<sts, up, rev, failed, sub, part, target>>, RobinOK',
         pc' \notin {"replicas", "sync", "delete"}, PartitionDone' => PartitionDone
  PROVE  KubeOK'
<1>1. StatefulSetFits'
  BY DEF KubeOK, StatefulSetFits
<1>2. TemplatesFit'
  BY DEF KubeOK, TemplatesFit, ReplicaDone, Renewed
<1> QED BY <1>1, <1>2 DEF KubeOK

\* A step that writes the next substatus and ends the pass.
LEMMA NextSubstatus ==
  ASSUME RobinOK, KubeOK, UNCHANGED <<sts, up, rev, failed>>, RobinOK', pc' = "idle",
         \/ sub = "ScalingUp" /\ sub' = "Resharding" /\ part' = Primaries - 1
         \/ sub = "Resharding" /\ sub' = "RollingUpdate" /\ part' = part
         \/ sub = "Ending" /\ sub' = "ScalingDown" /\ part' = part
  PROVE  KubeOK'
<1>1. StatefulSetFits'
  BY Ordinals DEF KubeOK, StatefulSetFits
<1>2. TemplatesFit'
  BY Ordinals DEF KubeOK, TemplatesFit, PartitionDone, ReplicaDone, Renewed
<1> QED BY <1>1, <1>2 DEF KubeOK

\* The steps that change who is a member, and who replicates whom.
LEMMA ArrangingFits ==
  ASSUME RedisOK, RobinOK, KubeOK, Arranging
  PROVE  RobinOK' /\ KubeOK'
<1>1. UNCHANGED <<sts, up, rev, failed>>
  BY ArrangingChanges
<1>2. target \in Pods
  BY DEF RobinOK
<1>3. CASE Return
  BY <1>1, <1>2, <1>3, PassEnds DEF Return, status
<1>4. CASE handleUpgradeScalingUp /\ updateSubstatus("Resharding", Primaries - 1)
  <2>1. /\ pc = "ScalingUp" /\ pc' = "idle" /\ target' = target
        /\ \/ sub' = "Resharding" /\ part' = Primaries - 1
           \/ UNCHANGED <<sub, part>>
    BY <1>4 DEF handleUpgradeScalingUp, updateSubstatus, status
  <2>2. sub = "ScalingUp"
    BY <2>1 DEF RobinOK, StepFits
  <2>3. CASE UNCHANGED <<sub, part>>
    BY <1>1, <1>2, <2>1, <2>3, PassEnds
  <2>4. CASE sub' = "Resharding" /\ part' = Primaries - 1
    <3>1. RobinOK'
      BY <2>1, <2>4, Ordinals DEF RobinOK, StepFits, Steps, Substatuses
    <3> QED BY <1>1, <2>1, <2>2, <2>4, <3>1, NextSubstatus
  <2> QED BY <2>1, <2>3, <2>4
<1>5. CASE handleUpgradeResharding
  <2>1. pc = "Resharding" /\ pc' \in {"pivot", "read"} /\ UNCHANGED <<sub, part, target>>
    BY <1>5 DEF handleUpgradeResharding, GoTo, status
  <2>2. sub = "Resharding"
    BY <2>1 DEF RobinOK, StepFits
  <2>3. RobinOK'
    BY <2>1, <2>2 DEF RobinOK, StepFits, Steps
  <2> QED BY <1>1, <2>1, <2>2, <2>3, PassGoesOn DEF PartitionDone
<1>6. CASE ensurePivotReplica /\ ~Return
  <2>1. pc = "pivot" /\ pc' \in {AfterPivot, "pivotSync"} /\ UNCHANGED <<sub, part, target>>
    BY <1>6 DEF ensurePivotReplica, GoTo, status
  <2>2. sub \in {"Resharding", "RollingUpdate"}
    BY <2>1 DEF RobinOK, StepFits
  <2>3. pc' \in {"read", "check", "pivotSync"} /\ (pc' = "check" => sub = "RollingUpdate")
        /\ (pc' = "read" => sub = "Resharding")
    BY <2>1, <2>2 DEF AfterPivot
  <2>4. RobinOK'
    BY <2>1, <2>2, <2>3 DEF RobinOK, StepFits, Steps
  <2> QED BY <1>1, <2>1, <2>2, <2>3, <2>4, PassGoesOn DEF PartitionDone
<1>7. CASE forgetReplicasOfNode /\ updateSubstatus("RollingUpdate", part)
  <2>1. /\ pc = "forgetReplicas" /\ pc' = "idle" /\ target' = target /\ part' = part
        /\ sub' \in {"RollingUpdate", sub}
    BY <1>7 DEF forgetReplicasOfNode, updateSubstatus, status
  <2>2. sub = "Resharding"
    BY <2>1 DEF RobinOK, StepFits
  <2>3. CASE sub' = sub
    BY <1>1, <1>2, <2>1, <2>3, PassEnds
  <2>4. CASE sub' = "RollingUpdate"
    <3>1. RobinOK'
      BY <2>1, <2>4 DEF RobinOK, StepFits, Steps, Substatuses
    <3> QED BY <1>1, <2>1, <2>2, <2>4, <3>1, NextSubstatus
  <2> QED BY <2>1, <2>3, <2>4
<1>8. CASE forgetExtraReplicas /\ updateSubstatus("ScalingDown", part)
  <2>1. /\ pc = "forgetExtra" /\ pc' = "idle" /\ target' = target /\ part' = part
        /\ sub' \in {"ScalingDown", sub}
    BY <1>8 DEF forgetExtraReplicas, updateSubstatus, status
  <2>2. sub = "Ending"
    BY <2>1 DEF RobinOK, StepFits
  <2>3. CASE sub' = sub
    BY <1>1, <1>2, <2>1, <2>3, PassEnds
  <2>4. CASE sub' = "ScalingDown"
    <3>1. RobinOK'
      BY <2>1, <2>4 DEF RobinOK, StepFits, Steps, Substatuses
    <3> QED BY <1>1, <2>1, <2>2, <2>4, <3>1, NextSubstatus
  <2> QED BY <2>1, <2>3, <2>4
<1>9. CASE rebalanceReplicas /\ ~Return
  <2>1. pc = "ScalingDown" /\ pc' = "topology" /\ UNCHANGED <<sub, part, target>>
    BY <1>9 DEF rebalanceReplicas, GoTo, status
  <2>2. RobinOK'
    BY <1>1, <2>1 DEF RobinOK, StepFits, Steps
  <2> QED BY <1>1, <2>1, <2>2, PassGoesOn DEF PartitionDone
<1>10. handleUpgradeScalingUp => Return \/ updateSubstatus("Resharding", Primaries - 1)
  BY DEF handleUpgradeScalingUp
<1>11. forgetReplicasOfNode => Return \/ updateSubstatus("RollingUpdate", part)
  BY DEF forgetReplicasOfNode
<1>12. forgetExtraReplicas => Return \/ updateSubstatus("ScalingDown", part)
  BY DEF forgetExtraReplicas
<1> QED BY <1>3, <1>4, <1>5, <1>6, <1>7, <1>8, <1>9, <1>10, <1>11, <1>12 DEF Arranging

\* The steps that move slots.
LEMMA MovingFits ==
  ASSUME RedisOK, RobinOK, KubeOK, Moving
  PROVE  RobinOK' /\ KubeOK'
<1>1. UNCHANGED <<sts, up, rev, failed>>
  BY MovingChanges
<1>2. target \in Pods
  BY DEF RobinOK
<1>3. CASE Return
  BY <1>1, <1>2, <1>3, PassEnds DEF Return, status
<1>4. CASE readNodes /\ ~Return
  <2>1. CASE pc' = "reshard"
    <3>1. pc = "read" /\ UNCHANGED <<sub, part, target>>
      BY <1>4, <2>1 DEF readNodes, updateSubstatus, status
    <3>2. RobinOK'
      BY <2>1, <3>1 DEF RobinOK, StepFits, Steps
    <3> QED BY <1>1, <2>1, <3>1, <3>2, PassGoesOn DEF PartitionDone
  <2>2. CASE pc' # "reshard"
    <3>1. /\ pc = "read" /\ pc' = "idle" /\ target' = target /\ part' = part
          /\ sub' \in {"RollingUpdate", sub}
      BY <1>4, <2>2 DEF readNodes, updateSubstatus, status
    <3>2. sub = "Resharding"
      BY <3>1 DEF RobinOK, StepFits
    <3>3. CASE sub' = sub
      BY <1>1, <1>2, <3>1, <3>3, PassEnds
    <3>4. CASE sub' = "RollingUpdate"
      <4>1. RobinOK'
        BY <3>1, <3>4 DEF RobinOK, StepFits, Steps, Substatuses
      <4> QED BY <1>1, <3>1, <3>2, <3>4, <4>1, NextSubstatus
    <3> QED BY <3>1, <3>3, <3>4
  <2> QED BY <2>1, <2>2
<1>5. CASE ClusterReshard /\ ~Return
  <2>1. /\ pc = "reshard" /\ pc' = (IF sub = "Ending" THEN "forgetExtra" ELSE "forgetReplicas")
        /\ UNCHANGED <<sub, part, target>>
    BY <1>5 DEF ClusterReshard, GoTo, status
  <2>2. RobinOK'
    BY <2>1 DEF RobinOK, StepFits, Steps
  <2> QED BY <1>1, <2>1, <2>2, PassGoesOn DEF PartitionDone
<1>6. CASE handleUpgradeEnding /\ ~Return
  <2>1. pc = "Ending" /\ pc' \in {"forgetExtra", "reshard"} /\ UNCHANGED <<sub, part, target>>
    BY <1>6 DEF handleUpgradeEnding, GoTo, status
  <2>2. RobinOK'
    BY <2>1 DEF RobinOK, StepFits, Steps
  <2> QED BY <1>1, <2>1, <2>2, PassGoesOn DEF PartitionDone
<1> QED BY <1>3, <1>4, <1>5, <1>6 DEF Moving

\* Recycling a pod of the current partition: it stops, or it is to be deleted next.
LEMMA RecyclesFits ==
  ASSUME RedisOK, RobinOK, KubeOK, sub = "RollingUpdate",
         NEW p \in Pods, p \in {part} \cup ReplicaOrdinals(part), recycles(p), UNCHANGED failed
  PROVE  RobinOK' /\ KubeOK'
<1>1. p \in up /\ rev[p] # sts.template
  BY DEF recycles
<1>2. CASE PodStops(p) /\ Return
  <2>1. UNCHANGED <<sts, rev, sub, part>> /\ up' \subseteq up /\ pc' = "idle" /\ target' \in Pods
    BY <1>2 DEF PodStops, Return, status, RobinOK
  <2> QED BY <2>1, PassEnds
<1>3. CASE flushAndPersistNode(p) /\ pc' = "delete" /\ target' = p /\ UNCHANGED <<status, ids>>
  <2>1. UNCHANGED <<sts, rev, up, sub, part>>
    BY <1>3 DEF flushAndPersistNode, status
  <2>2. RobinOK'
    BY <1>3, <2>1 DEF RobinOK, StepFits, Steps
  <2>3. StatefulSetFits'
    BY <2>1 DEF KubeOK, StatefulSetFits
  <2>4. TemplatesFit'
    BY <1>1, <1>3, <2>1 DEF KubeOK, TemplatesFit, PartitionDone, ReplicaDone, Renewed
  <2> QED BY <2>1, <2>2, <2>3, <2>4 DEF KubeOK
<1> QED BY <1>2, <1>3 DEF recycles

\* The steps that recycle pods.
LEMMA RecyclingFits ==
  ASSUME RedisOK, RobinOK, KubeOK, Recycling
  PROVE  RobinOK' /\ KubeOK'
<1>1. UNCHANGED <<sts, rev, failed>>
  BY RecyclingChanges
<1>2. target \in Pods /\ part \in Pods
  BY PartitionInRange DEF RobinOK
<1>3. CASE Return /\ up' \subseteq up
  BY <1>1, <1>2, <1>3, PassEnds DEF Return, status
<1>4. CASE handleUpgradeRollingUpdate
  <2>1. pc = "RollingUpdate" /\ sub = "RollingUpdate"
    BY <1>4 DEF handleUpgradeRollingUpdate, RobinOK, StepFits
  <2>2. CASE recycles(part)
    BY <1>1, <1>2, <2>1, <2>2, RecyclesFits
  <2>3. CASE Return /\ UNCHANGED up
    BY <1>3, <2>3
  <2>4. CASE /\ rev[part] = sts.template
             /\ pc' = IF ReplicasPerPrimary > 0 THEN "replicas" ELSE "check"
             /\ target' = Primaries + part * ReplicasPerPrimary
             /\ UNCHANGED <<status, ids, kube>>
    <3>1. UNCHANGED <<sub, part, up>>
      BY <2>4 DEF status, kube
    <3>2. PICK a \in Nat : /\ a = Primaries + part * ReplicasPerPrimary
                           /\ a >= Primaries /\ a + ReplicasPerPrimary <= Total
                           /\ ReplicaOrdinals(part) = a .. a + ReplicasPerPrimary - 1
      BY ReplicaInterval DEF RobinOK
    <3>3. target' = a /\ a \in Pods
      BY <2>4, <3>2, Ordinals
    <3>4. RobinOK'
      BY <2>1, <2>4, <3>1, <3>2, <3>3, Ordinals DEF RobinOK, StepFits, Steps
    <3>5. \A r \in ReplicaOrdinals(part) : ~ReplicaDone(r)'
      BY <2>4, <3>1, <3>2, <3>3, Ordinals DEF ReplicaDone, PartitionDone
    <3>6. rev[part] = "new"
      BY <2>1, <2>4 DEF KubeOK, StatefulSetFits
    <3>7. StatefulSetFits'
      BY <1>1, <3>1 DEF KubeOK, StatefulSetFits
    <3>8. TemplatesFit'
      BY <1>1, <2>1, <2>4, <3>1, <3>5, <3>6 DEF KubeOK, TemplatesFit, Renewed
    <3> QED BY <1>1, <3>1, <3>4, <3>7, <3>8 DEF KubeOK
  <2> QED BY <1>4, <2>2, <2>3, <2>4 DEF handleUpgradeRollingUpdate, kube
<1>5. CASE DeletePod
  <2>1. Return /\ up' \subseteq up
    BY <1>5 DEF DeletePod, PodStops, kube
  <2> QED BY <1>3, <2>1
<1>6. CASE recycleReplicasForPrimary
  <2>1. pc = "replicas" /\ sub = "RollingUpdate" /\ target \in ReplicaOrdinals(part)
    BY <1>6 DEF recycleReplicasForPrimary, RobinOK, StepFits
  <2>2. CASE recycles(target)
    BY <1>1, <1>2, <2>1, <2>2, RecyclesFits
  <2>3. CASE Return /\ UNCHANGED up
    BY <1>3, <2>3
  <2>4. CASE rev[target] = sts.template /\ GoTo("sync") /\ UNCHANGED kube
    <3>1. pc' = "sync" /\ UNCHANGED <<sub, part, target, up>>
      BY <2>4 DEF GoTo, status, kube
    <3>2. RobinOK'
      BY <2>1, <3>1 DEF RobinOK, StepFits, Steps
    <3>3. \A r : ReplicaDone(r)' => ReplicaDone(r) \/ r = target
      BY <2>1, <3>1 DEF ReplicaDone, PartitionDone
    <3>4. rev[target] = "new"
      BY <2>1, <2>4 DEF KubeOK, StatefulSetFits
    <3>5. StatefulSetFits'
      BY <1>1, <3>1 DEF KubeOK, StatefulSetFits
    <3>6. TemplatesFit'
      BY <1>1, <2>1, <3>1, <3>3, <3>4 DEF KubeOK, TemplatesFit, Renewed, PartitionDone
    <3> QED BY <1>1, <3>1, <3>2, <3>5, <3>6 DEF KubeOK
  <2> QED BY <1>6, <2>2, <2>3, <2>4 DEF recycleReplicasForPrimary, kube
<1> QED BY <1>4, <1>5, <1>6 DEF Recycling

\* Every step keeps what Robin remembers and what the pods and templates fulfil.
LEMMA RobinStep ==
  ASSUME RedisOK, RobinOK, KubeOK, [Next]_vars
  PROVE  RobinOK' /\ KubeOK'
<1>1. ASSUME UNCHANGED <<sts, up, rev, failed, sub, part, pc, target>> PROVE RobinOK' /\ KubeOK'
  <2>1. RobinOK'
    BY <1>1 DEF RobinOK, StepFits
  <2>2. StatefulSetFits'
    BY <1>1 DEF KubeOK, StatefulSetFits
  <2>3. TemplatesFit'
    BY <1>1 DEF KubeOK, TemplatesFit, PartitionDone, ReplicaDone, Renewed
  <2> QED BY <1>1, <2>1, <2>2, <2>3 DEF KubeOK
<1>2. CASE healTopology
  BY <1>1, <1>2 DEF healTopology, kube, robin, status, bounds
<1>3. CASE UNCHANGED vars
  BY <1>1, <1>3 DEF vars, kube, robin, status, bounds
<1>4. CASE \E p \in Pods : KubeStartsPod(p) \/ KubeStopsPod(p) \/ PodFails(p) \/ Links(p) \/ FailsOver(p)
  BY <1>4, EnvironmentFits
<1>5. CASE Robin
  BY <1>5, <1>2, KindsOfSteps, IdlingFits, ArrangingFits, MovingFits, RecyclingFits
<1> QED BY <1>3, <1>4, <1>5 DEF Next

\* The part of the invariant that holds whatever pods fail.
PodsInv == RedisOK /\ RobinOK /\ KubeOK

\* The cluster as it was created.
LEMMA InitialNodes ==
  ASSUME Init
  PROVE  /\ \A p \in Pods : gen[p] = 0 /\ Node(p) = <<p, 0>> /\ Node(p) \in Nodes
         /\ \A s \in Slots : s % Primaries \in 0 .. Primaries - 1 /\ owner[s] = <<s % Primaries, 0>>
         /\ \A p \in 0 .. Primaries - 1 : p \in Pods /\ p \in up /\ master[p] = None
         /\ \A r \in Primaries .. Total - 1 :
              /\ r \in Pods /\ r \in up
              /\ OrdinalOfPrimary(r) \in 0 .. Primaries - 1
              /\ master[r] = <<OrdinalOfPrimary(r), 0>>
<1>1. gen \in [Pods -> Nat] /\ \A p \in Pods : gen[p] = 0
  BY DEF Init
<1>2. \A p \in Pods : Node(p) = <<p, 0>> /\ Node(p) \in Nodes
  BY <1>1, NodesOfPods DEF Node
<1>3. \A p \in 0 .. Primaries - 1 : p \in Pods /\ p \in up
  <2>1. up = 0 .. Total - 1
    BY DEF Init
  <2> QED BY <2>1, Ordinals
<1>4. \A p \in 0 .. Primaries - 1 : master[p] = None
  BY <1>3, Ordinals DEF Init
<1>5. \A s \in Slots : s % Primaries \in 0 .. Primaries - 1
  BY Ordinals, UpgradeAssumption DEF Slots
<1>6. \A s \in Slots : owner[s] = <<s % Primaries, 0>>
  BY <1>2, <1>3, <1>5 DEF Init
<1>7. \A r \in Primaries .. Total - 1 : r \in Pods /\ r \in up
  BY Ordinals DEF Init
<1>8. \A r \in Primaries .. Total - 1 : OrdinalOfPrimary(r) \in 0 .. Primaries - 1
  BY ReplicaHasPrimary
<1>9. \A r \in Primaries .. Total - 1 : master[r] = <<OrdinalOfPrimary(r), 0>>
  BY <1>2, <1>3, <1>7, <1>8 DEF Init
<1> QED BY <1>1, <1>2, <1>3, <1>4, <1>5, <1>6, <1>7, <1>8, <1>9

LEMMA InitOK ==
  ASSUME Init
  PROVE  PodsInv
<1>1. RedisOK
  <2>1. up \subseteq Pods /\ linked \subseteq up
    <3>1. up = 0 .. Total - 1 /\ linked = Primaries .. Total - 1
      BY DEF Init
    <3> QED BY <3>1, Ordinals
  <2>2. gen \in [Pods -> Nat] /\ open = {}
    BY DEF Init
  <2>3. members \subseteq Nodes
    BY <2>1, InitialNodes DEF Init
  <2>4. master \in [Pods -> Nodes \cup {None}]
    <3>1. \A p \in Pods : master[p] \in Nodes \cup {None}
      BY InitialNodes DEF Init
    <3> QED BY <3>1 DEF Init
  <2>5. owner \in [Slots -> Nodes]
    <3>1. \A s \in Slots : owner[s] \in Nodes
      BY InitialNodes
    <3> QED BY <3>1 DEF Init
  <2>6. data \in [Pods -> SUBSET Slots]
    BY DEF Init
  <2>7. ASSUME NEW r \in linked PROVE InStep(r)
    <3>1. r \in Primaries .. Total - 1
      BY DEF Init
    <3>2. PICK q \in 0 .. Primaries - 1 : q = OrdinalOfPrimary(r)
      BY <3>1, InitialNodes
    <3>3. q \in Pods /\ q \in up /\ master[q] = None /\ r \in Pods /\ r \in up
          /\ master[r] = <<q, 0>> /\ gen[q] = 0
      BY <3>1, <3>2, InitialNodes
    <3>4. data[r] = {s \in Slots : owner[s] \in {<<r, 0>>, <<q, 0>>}}
      BY <3>3, InitialNodes DEF Init
    <3>5. data[q] = {s \in Slots : owner[s] \in {<<q, 0>>, None}}
      BY <3>3, InitialNodes DEF Init
    <3>6. \A s \in Slots : owner[s] # <<r, 0>> /\ owner[s] # None
      <4>1. ASSUME NEW s \in Slots PROVE owner[s] # <<r, 0>> /\ owner[s] # None
        <5>1. PICK k \in 0 .. Primaries - 1 : owner[s] = <<k, 0>>
          BY InitialNodes
        <5>2. k # r
          BY <3>1, Ordinals
        <5> QED BY <5>1, <5>2 DEF None
      <4> QED BY <4>1
    <3>7. data[r] = data[q]
      BY <3>4, <3>5, <3>6
    <3>8. master[r][1] = q /\ master[r] # None
      BY <3>3 DEF None
    <3> QED BY <3>3, <3>7, <3>8 DEF InStep, Alive, IsPrimary, Node
  <2> QED BY <2>1, <2>2, <2>3, <2>4, <2>5, <2>6, <2>7 DEF RedisOK
<1>2. RobinOK
  BY Ordinals DEF Init, RobinOK, Substatuses, StepFits, Steps
<1>3. KubeOK
  <2>1. sts \in [size : {Total, Total + 1 + ReplicasPerPrimary}, template : {"old", "new"},
                 strategy : {"RollingUpdate", "OnDelete"}]
        /\ rev \in [Pods -> {"old", "new"}]
    BY DEF Init
  <2>2. StatefulSetFits
    BY DEF Init, StatefulSetFits
  <2>3. TemplatesFit
    BY Ordinals DEF Init, TemplatesFit, PartitionDone
  <2> QED BY <2>1, <2>2, <2>3 DEF KubeOK
<1> QED BY <1>1, <1>2, <1>3 DEF PodsInv

\* At most one slot is in migration.
LEMMA OneMigration ==
  ASSUME \A d, e \in open : d = e
  PROVE  Cardinality(open) <= 1
<1>1. CASE open = {}
  BY <1>1, FS_EmptySet
<1>2. CASE open # {}
  <2>1. PICK e : open = {e}
    BY <1>2
  <2>2. Cardinality({e}) = 1
    BY FS_Singleton, Zenon
  <2> QED BY <2>1, <2>2
<1> QED BY <1>1, <1>2

\* What PodsInv says in the terms of the model.
LEMMA PodsInvIs ==
  PodsInv <=> TypeOK /\ ClusterTypeOK /\ StepFits /\ StatefulSetFits /\ TemplatesFit
<1>1. PodsInv => TypeOK /\ ClusterTypeOK /\ StepFits /\ StatefulSetFits /\ TemplatesFit
  BY OneMigration
     DEF PodsInv, RedisOK, RobinOK, KubeOK, TypeOK, ClusterTypeOK, Substatuses, InStep
<1>2. TypeOK /\ ClusterTypeOK /\ StepFits /\ StatefulSetFits /\ TemplatesFit => PodsInv
  BY DEF PodsInv, RedisOK, RobinOK, KubeOK, TypeOK, ClusterTypeOK, Substatuses, InStep
<1> QED BY <1>1, <1>2

\* Every step keeps it.
LEMMA PodsInvStep == PodsInv /\ [Next]_vars => PodsInv'
BY RedisStep, RobinStep DEF PodsInv

LEMMA PodsInvariance == Spec => []PodsInv
<1>1. Init => PodsInv
  BY InitOK
<1> QED BY <1>1, PodsInvStep, PTL DEF Spec

\* The types hold for any cluster and any failures: a linked replica is in step
\* with a primary that runs, at most one slot is in migration, and the partition
\* never counts past the first.
THEOREM TypeCorrect == Spec => []TypeOK
<1>1. PodsInv => TypeOK
  BY PodsInvIs
<1> QED BY <1>1, PodsInvariance, PTL

\* A pod that has the new template is not recycled again, unless it failed.
THEOREM OnlyOutdatedAreRecycled == Spec => RecycledOnce
<1>1. ASSUME PodsInv, [Next]_vars
      PROVE  [\A p \in up \ up' : p < sts.size /\ p \notin failed' => rev[p] # sts.template]_vars
  <2> SUFFICES ASSUME Next, NEW p \in up, p \notin up', p < sts.size, p \notin failed'
               PROVE  rev[p] # sts.template
    BY <1>1
  <2>1. RedisOK /\ RobinOK /\ KubeOK
    BY <1>1 DEF PodsInv
  <2>2. CASE Idling
    BY <2>2, IdlingChanges
  <2>3. CASE healTopology
    BY <2>3 DEF healTopology, kube
  <2>4. CASE Arranging
    BY <2>1, <2>4, ArrangingChanges
  <2>5. CASE Moving
    BY <2>1, <2>5, MovingChanges
  <2>6. CASE Recycling
    <3>1. \/ recycles(part) \/ recycles(target)
          \/ pc = "delete" /\ PodStops(target) /\ failed' = failed
      BY <2>1, <2>6, RecyclingChanges
    <3>2. CASE recycles(part)
      BY <3>2 DEF recycles, PodStops, flushAndPersistNode
    <3>3. CASE recycles(target)
      BY <3>3 DEF recycles, PodStops, flushAndPersistNode
    <3>4. CASE pc = "delete" /\ PodStops(target) /\ failed' = failed
      <4>1. p = target
        BY <3>4 DEF PodStops
      <4> QED BY <2>1, <3>4, <4>1 DEF KubeOK, TemplatesFit
    <3> QED BY <3>1, <3>2, <3>3, <3>4
  <2>7. CASE \E q \in Pods : KubeStartsPod(q) \/ KubeStopsPod(q) \/ PodFails(q) \/ Links(q) \/ FailsOver(q)
    <3>1. PICK q \in Pods :
            KubeStartsPod(q) \/ KubeStopsPod(q) \/ PodFails(q) \/ Links(q) \/ FailsOver(q)
      BY <2>7
    <3>2. CASE KubeStartsPod(q) \/ Links(q) \/ FailsOver(q)
      BY <3>2 DEF KubeStartsPod, Links, FailsOver, kube
    <3>3. CASE KubeStopsPod(q)
      <4>1. p = q
        BY <3>3 DEF KubeStopsPod, PodStops
      <4>2. p \in Nat /\ sts.size \in Nat
        BY <2>1, <4>1, Ordinals DEF KubeOK
      <4> QED BY <3>3, <4>1, <4>2 DEF KubeStopsPod
    <3>4. CASE PodFails(q)
      BY <3>4 DEF PodFails, PodStops
    <3> QED BY <3>1, <3>2, <3>3, <3>4
  <2>8. CASE Robin
    BY <2>8, <2>2, <2>3, <2>4, <2>5, <2>6, KindsOfSteps
  <2> QED BY <2>7, <2>8 DEF Next
<1> QED BY <1>1, PodsInvariance, PTL DEF Spec, RecycledOnce

-----------------------------------------------------------------------------
(* The slots, as long as no primary fails by itself.                       *)

\* The primaries by ordinal are primaries, and serve all slots.
Serving ==
  /\ \A p \in PrimaryPods : master[p] = None
  /\ \A s \in Slots : \E p \in PrimaryPods \cap up :
       owner[s] = Node(p) /\ Node(p) \in members /\ s \in data[p]

Drained(p) == SlotsOf(Node(p)) = {}

\* The open migration is the one that Robin began.
OpenFits ==
  \A e \in open :
    /\ sub \in {"Resharding", "Ending"}
    /\ owner[e[1]] = Node(Source)
    /\ Dest \in up /\ e[2] = Node(Dest) /\ e[2] \in members

\* A step after which the slots are where they were.
KeepsSlots == Serving' /\ \A p \in PrimaryPods : Drained(p) => Drained(p)'

\* The primaries by ordinal are pods, and Robin moves slots between two of them.
LEMMA PrimaryPodsArePods ==
  /\ \A p \in PrimaryPods : p \in Pods
  /\ Pivot \in PrimaryPods /\ 0 \in PrimaryPods
  /\ \A p \in 0 .. Primaries - 1 : p \in PrimaryPods /\ p # Pivot
BY Ordinals DEF PrimaryPods

LEMMA SourceAndDest ==
  ASSUME RobinOK
  PROVE  Source \in PrimaryPods /\ Dest \in PrimaryPods /\ Source # Dest
<1>1. part \in 0 .. Primaries - 1 /\ part \in Nat /\ part < Primaries /\ Primaries \in Nat
  BY PartitionInRange DEF RobinOK
<1>2. CASE sub = "Ending"
  BY <1>2, PrimaryPodsArePods, Ordinals DEF Source, Dest
<1>3. CASE sub # "Ending" /\ part = Primaries - 1
  BY <1>1, <1>3, PrimaryPodsArePods, Ordinals DEF Source, Dest
<1>4. CASE sub # "Ending" /\ part # Primaries - 1
  <2>1. part + 1 \in 0 .. Primaries - 1
    BY <1>1, <1>4
  <2> QED BY <1>1, <1>4, <2>1, PrimaryPodsArePods DEF Source, Dest
<1> QED BY <1>2, <1>3, <1>4

\* Who owns a slot.
LEMMA SlotOwner ==
  ASSUME PodsInv, Serving, NEW s \in Slots
  PROVE  \E p \in PrimaryPods \cap up :
           /\ p \in Pods /\ owner[s] = Node(p) /\ Node(p) \in members /\ s \in data[p]
           /\ Alive(owner[s]) /\ owner[s] # None /\ master[p] = None /\ IsPrimary(p)
<1>1. PICK p \in PrimaryPods \cap up : owner[s] = Node(p) /\ Node(p) \in members /\ s \in data[p]
  BY DEF Serving
<1>2. p \in Pods
  BY PrimaryPodsArePods
<1>3. Node(p) \in Nodes /\ Node(p)[1] = p /\ Node(p) # None
  BY <1>2, NodesOfPods DEF PodsInv, RedisOK
<1>4. Alive(Node(p))
  BY <1>1, <1>3, PodsOfNodes
<1>5. master[p] = None /\ IsPrimary(p)
  BY DEF Serving, IsPrimary
<1> QED BY <1>1, <1>2, <1>3, <1>4, <1>5

\* A node that does not run owns no slot.
LEMMA DeadOwnNothing ==
  ASSUME PodsInv, Serving, NEW x, ~Alive(x)
  PROVE  SlotsOf(x) = {}
BY SlotOwner DEF SlotsOf

\* A pod that owns a slot is not drained.
LEMMA OwnersAreNotDrained ==
  ASSUME NEW s \in Slots, NEW p, owner[s] = Node(p)
  PROVE  ~Drained(p)
BY DEF Drained, SlotsOf

\* Slots stay with primaries that run, are members and keep the data.
LEMMA SlotsStay ==
  ASSUME PodsInv, PodsInv', Serving, \A p \in PrimaryPods : master'[p] = None,
         owner' = owner,
         \A p \in PrimaryPods \cap up : ~Drained(p) =>
           p \in up' /\ gen'[p] = gen[p] /\ (Node(p) \in members => Node(p) \in members')
           /\ data[p] \subseteq data'[p]
  PROVE  KeepsSlots
<1>1. ASSUME NEW s \in Slots
      PROVE  \E p \in PrimaryPods \cap up' :
               /\ owner'[s] = Node(p)' /\ Node(p)' \in members' /\ s \in data'[p]
               /\ owner[s] = Node(p)
  <2>1. PICK p \in PrimaryPods \cap up : owner[s] = Node(p) /\ Node(p) \in members /\ s \in data[p]
    BY DEF Serving
  <2>2. ~Drained(p)
    BY <2>1, OwnersAreNotDrained
  <2>3. Node(p)' = Node(p)
    BY <2>2 DEF Node
  <2> QED BY <2>1, <2>2, <2>3
<1>2. Serving'
  BY <1>1 DEF Serving
<1>3. ASSUME NEW p \in PrimaryPods, Drained(p), NEW s \in Slots PROVE owner'[s] # Node(p)'
  <2>1. PICK q \in PrimaryPods : owner'[s] = Node(q)' /\ owner[s] = Node(q)
    BY <1>1
  <2>2. q # p
    BY <1>3, <2>1, OwnersAreNotDrained
  <2> QED BY <2>1, <2>2 DEF Node
<1>4. \A p \in PrimaryPods : Drained(p) => Drained(p)'
  BY <1>3 DEF Drained, SlotsOf
<1> QED BY <1>2, <1>4 DEF KeepsSlots

\* A pod that stops or is reset, and owns no slot.
LEMMA StopsKeepSlots ==
  ASSUME PodsInv, PodsInv', Serving, NEW p \in Pods, PodStops(p) \/ flushAndPersistNode(p),
         p \in PrimaryPods => Drained(p)
  PROVE  KeepsSlots
<1>1. RedisOK /\ gen \in [Pods -> Nat] /\ master \in [Pods -> Nodes \cup {None}]
      /\ data \in [Pods -> SUBSET Slots] /\ up \subseteq Pods
  BY DEF PodsInv, RedisOK
<1>2. /\ UNCHANGED <<members, owner>>
      /\ up' = up \/ up' = up \ {p}
      /\ \A q \in Pods : q # p => gen'[q] = gen[q] /\ master'[q] = master[q]
      /\ master'[p] \in {master[p], None}
  BY <1>1 DEF PodStops, flushAndPersistNode
<1>3. \A q \in PrimaryPods : q \in Pods /\ master[q] = None
  BY PrimaryPodsArePods DEF Serving
<1>4. \A q \in PrimaryPods : q # p => data'[q] = data[q]
  <2>1. CASE PodStops(p)
    BY <1>1, <1>3, <2>1 DEF PodStops
  <2>2. CASE flushAndPersistNode(p)
    <3>1. Node(p) # None
      BY <1>1, NodesOfPods
    <3> QED BY <1>3, <2>2, <3>1 DEF flushAndPersistNode
  <2> QED BY <2>1, <2>2
<1>5. \A q \in PrimaryPods : master'[q] = None
  BY <1>2, <1>3
<1>6. \A q \in PrimaryPods \cap up : ~Drained(q) =>
        q \in up' /\ gen'[q] = gen[q] /\ (Node(q) \in members => Node(q) \in members')
        /\ data[q] \subseteq data'[q]
  BY <1>2, <1>3, <1>4
<1> QED BY <1>2, <1>5, <1>6, SlotsStay

\* Kubernetes stops a primary on its own only when it is a pivot without slots.
LEMMA PrimariesStay ==
  ASSUME PodsInv, NEW p \in PrimaryPods,
         KubeStopsPod(p) \/ (PodFails(p) /\ PrimariesKeepRunning')
  PROVE  p = Pivot /\ sub \in {"Start", "ScalingDown", "Ready"}
<1>1. CASE PodFails(p) /\ PrimariesKeepRunning'
  BY <1>1 DEF PodFails, PrimariesKeepRunning, PrimaryPods
<1>2. CASE KubeStopsPod(p)
  <2>1. p \in up /\ p \in Pods /\ (p >= sts.size \/ (sts.strategy = "RollingUpdate" /\ rev[p] # sts.template))
    BY <1>2, PrimaryPodsArePods DEF KubeStopsPod
  <2>2. sts.size \in {Total, Total + 1 + ReplicasPerPrimary} /\ sub \in Substatuses
        /\ rev[p] \in {"old", "new"} /\ sts.template \in {"old", "new"}
    BY <2>1 DEF PodsInv, KubeOK, RobinOK
  <2>3. sub \in {"Start", "ScalingDown", "Ready"}
    <3>1. ASSUME sub \in {"ScalingUp", "Resharding", "RollingUpdate", "Ending"} PROVE FALSE
      <4>1. sts.size = Total + 1 + ReplicasPerPrimary /\ sts.strategy = "OnDelete"
        BY <3>1 DEF PodsInv, KubeOK, StatefulSetFits
      <4> QED BY <2>1, <4>1, Ordinals
    <3> QED BY <2>2, <3>1 DEF Substatuses
  <2>4. p >= sts.size => p = Pivot
    BY <2>2, Ordinals, PrimaryPodsArePods DEF PrimaryPods
  <2>5. ASSUME sts.strategy = "RollingUpdate", rev[p] # sts.template PROVE FALSE
    <3>1. CASE sub = "Start"
      BY <2>1, <2>5, <3>1 DEF PodsInv, KubeOK, StatefulSetFits, TemplatesFit
    <3>2. CASE sub \in {"ScalingDown", "Ready"}
      <4>1. sts.template = "new" /\ rev[p] = "old"
        BY <2>2, <2>5, <3>2 DEF PodsInv, KubeOK, StatefulSetFits
      <4>2. p # Pivot
        BY <2>1, <4>1, Ordinals DEF PodsInv, KubeOK, TemplatesFit
      <4>3. p \in 0 .. Primaries - 1
        BY <4>2 DEF PrimaryPods
      <4> QED BY <3>2, <4>1, <4>3 DEF PodsInv, KubeOK, TemplatesFit, Renewed
    <3> QED BY <2>3, <3>1, <3>2
  <2> QED BY <2>1, <2>3, <2>4, <2>5
<1> QED BY <1>1, <1>2

\* The steps of Kubernetes and Redis keep the slots where they are.
LEMMA EnvironmentKeepsSlots ==
  ASSUME PodsInv, PodsInv', SlotsFit, Serving, PrimariesKeepRunning', NEW p \in Pods,
         KubeStartsPod(p) \/ KubeStopsPod(p) \/ PodFails(p) \/ Links(p) \/ FailsOver(p)
  PROVE  KeepsSlots
<1>1. \A q \in PrimaryPods : q \in Pods /\ master[q] = None
  BY PrimaryPodsArePods DEF Serving
<1>2. CASE KubeStartsPod(p)
  BY <1>1, <1>2, SlotsStay DEF KubeStartsPod, redis
<1>3. CASE KubeStopsPod(p) \/ PodFails(p)
  <2>1. PodStops(p)
    BY <1>3 DEF KubeStopsPod, PodFails
  <2>2. p \in PrimaryPods => Drained(p)
    BY <1>3, PrimariesStay DEF SlotsFit, Drained
  <2> QED BY <2>1, <2>2, StopsKeepSlots
<1>4. CASE Links(p)
  <2>1. p \notin PrimaryPods
    BY <1>1, <1>4 DEF Links, Alive
  <2>2. UNCHANGED <<up, gen, members, master, owner>>
    BY <1>4 DEF Links, kube
  <2>3. \A q \in Pods : q # p => data'[q] = data[q]
    BY <1>4 DEF Links, PodsInv, RedisOK
  <2> QED BY <1>1, <2>1, <2>2, <2>3, SlotsStay
<1>5. CASE FailsOver(p)
  BY <1>5, DeadOwnNothing DEF FailsOver
<1> QED BY <1>2, <1>3, <1>4, <1>5

\* healTopology finds no slot owner to replace: it forgets and meets members.
LEMMA HealKeepsSlots ==
  ASSUME PodsInv, PodsInv', Serving, healTopology
  PROVE  /\ KeepsSlots
         /\ UNCHANGED <<storage, kube, master, linked, owner, open, data, robin, failed>>
         /\ \A x \in members : Alive(x) => x \in members'
<1>1. PICK q \in up : \E view \in Views(q) : \E flagged \in SUBSET MaybeStaleIn(view) :
         \/ healTopologyPromotes(view, StaleIn(view) \cup flagged)
         \/ healTopologyForgets(view, StaleIn(view) \cup flagged)
  BY DEF healTopology
<1>2. PICK view \in Views(q) : \E flagged \in SUBSET MaybeStaleIn(view) :
         \/ healTopologyPromotes(view, StaleIn(view) \cup flagged)
         \/ healTopologyForgets(view, StaleIn(view) \cup flagged)
  BY <1>1
<1>3. PICK flagged \in SUBSET MaybeStaleIn(view) :
         \/ healTopologyPromotes(view, StaleIn(view) \cup flagged)
         \/ healTopologyForgets(view, StaleIn(view) \cup flagged)
  BY <1>2
<1> DEFINE stale == StaleIn(view) \cup flagged
<1>4. \A x \in stale : ~Alive(x)
  BY DEF StaleIn, MaybeStaleIn
<1>5. \A x \in stale : SlotsOf(x) = {}
  BY <1>4, DeadOwnNothing
<1> HIDE DEF stale
<1>6. healTopologyForgets(view, stale)
  BY <1>3, <1>5 DEF healTopologyPromotes, stale
<1>7. UNCHANGED <<storage, kube, robin, failed, up, gen>>
  BY DEF healTopology, kube, bounds
<1>8. UNCHANGED <<master, linked, owner, open, data>>
  BY <1>5, <1>6 DEF healTopologyForgets
<1>9. \A x \in members : Alive(x) => x \in members'
  BY <1>4, <1>6 DEF healTopologyForgets
<1>10. ASSUME NEW p \in PrimaryPods \cap up, Node(p) \in members PROVE Node(p) \in members'
  <2>1. Node(p) \in Nodes /\ Node(p)[1] = p
    BY PrimaryPodsArePods, NodesOfPods DEF PodsInv, RedisOK
  <2>2. Alive(Node(p))
    BY <2>1, PodsOfNodes
  <2> QED BY <1>9, <1>10, <2>2
<1>11. KeepsSlots
  BY <1>7, <1>8, <1>10, SlotsStay DEF Serving
<1> QED BY <1>7, <1>8, <1>9, <1>11

\* Attaching replicas and forgetting members leaves the slots where they are.
LEMMA ArrangingKeepsSlots ==
  ASSUME PodsInv, PodsInv', SlotsFit, Serving, Arranging
  PROVE  /\ KeepsSlots
         /\ \A p \in PrimaryPods \cap up :
              (p # Pivot \/ pc # "forgetExtra") /\ Node(p) \in members => Node(p) \in members'
<1>1. RedisOK /\ RobinOK /\ gen \in [Pods -> Nat]
  BY DEF PodsInv, RedisOK
<1>2. UNCHANGED <<up, gen, owner, data>>
  BY <1>1, ArrangingChanges
<1>3. \A p \in PrimaryPods : p \in Pods /\ master[p] = None
  BY PrimaryPodsArePods DEF Serving
<1>4. \A p \in PrimaryPods : master'[p] = None
  <2>1. CASE UNCHANGED <<master, linked>>
    BY <1>3, <2>1
  <2>2. CASE \E f : Replicating(f) /\ DOMAIN f \subseteq Pods \ PrimaryPods
    <3>1. PICK f : Replicating(f) /\ DOMAIN f \subseteq Pods \ PrimaryPods
      BY <2>2
    <3> QED BY <1>3, <3>1 DEF Replicating
  <2> QED BY <1>1, <2>1, <2>2, ArrangingChanges
<1>5. \A p \in PrimaryPods \cap up : Alive(Node(p)) /\ Node(p) # None
  BY <1>1, <1>3, NodesOfPods, PodsOfNodes
<1>6. \A p, q \in Pods : Node(p) = Node(q) => p = q
  BY <1>1, NodesOfPods
<1>7. ASSUME NEW p \in PrimaryPods \cap up, p # Pivot \/ pc # "forgetExtra", Node(p) \in members
      PROVE  Node(p) \in members'
  <2>1. CASE handleUpgradeScalingUp \/ ensurePivotReplica \/ rebalanceReplicas
    BY <1>7, <2>1 DEF handleUpgradeScalingUp, ensurePivotReplica, rebalanceReplicas, Attached
  <2>2. CASE handleUpgradeResharding
    BY <1>5, <1>7, <2>2 DEF handleUpgradeResharding, forgetFailedNodes
  <2>3. CASE forgetReplicasOfNode
    <3>1. Node(p) \notin members' =>
            Alive(ids.source) /\ \E r \in Pods : master[r] = ids.source /\ Node(r) = Node(p)
      BY <1>7, <2>3 DEF forgetReplicasOfNode
    <3>2. Alive(ids.source) => ids.source # None
      BY DEF Alive
    <3> QED BY <1>3, <1>6, <1>7, <3>1, <3>2
  <2>4. CASE forgetExtraReplicas
    <3>1. pc = "forgetExtra"
          /\ \/ members' = members
             \/ /\ Pivot \in up
                /\ members' = members \ ({Node(Pivot)} \cup
                     {Node(r) : r \in {q \in Pods : master[q] = Node(Pivot)}})
      BY <2>4 DEF forgetExtraReplicas
    <3>2. Pivot \in up => Node(Pivot) # None
      BY <1>5, PrimaryPodsArePods
    <3>3. Pivot \in Pods
      BY PrimaryPodsArePods
    <3> QED BY <1>3, <1>6, <1>7, <3>1, <3>2, <3>3
  <2> QED BY <2>1, <2>2, <2>3, <2>4 DEF Arranging
<1>8. pc = "forgetExtra" => Drained(Pivot)
  BY DEF SlotsFit, Drained
<1>9. KeepsSlots
  <2>1. \A p \in PrimaryPods \cap up : ~Drained(p) =>
          p \in up' /\ gen'[p] = gen[p] /\ (Node(p) \in members => Node(p) \in members')
          /\ data[p] \subseteq data'[p]
    BY <1>2, <1>7, <1>8
  <2> QED BY <1>2, <1>4, <2>1, SlotsStay
<1> QED BY <1>7, <1>9

\* The pods that are recycled own no slot.
LEMMA RecyclingKeepsSlots ==
  ASSUME PodsInv, PodsInv', SlotsFit, Serving, Recycling
  PROVE  /\ KeepsSlots /\ sub = "RollingUpdate"
         /\ \A p \in up : p \notin up' \/ gen'[p] # gen[p] => Drained(p)
<1>1. RedisOK /\ RobinOK /\ gen \in [Pods -> Nat]
  BY DEF PodsInv, RedisOK
<1>2. sub = "RollingUpdate"
  BY <1>1 DEF Recycling, handleUpgradeRollingUpdate, DeletePod, recycleReplicasForPrimary,
              RobinOK, StepFits
<1>3. Drained(part)
  BY <1>2 DEF SlotsFit, Drained
<1>4. part \in Pods /\ target \in Pods
  BY <1>1, PartitionInRange DEF RobinOK
<1>5. \A p \in Pods : p \notin PrimaryPods => Drained(p)
  <2>1. ASSUME NEW p \in Pods, p \notin PrimaryPods, NEW s \in Slots PROVE owner[s] # Node(p)
    <3>1. PICK q \in PrimaryPods : owner[s] = Node(q)
      BY SlotOwner
    <3> QED BY <1>1, <2>1, <3>1, NodesOfPods, PrimaryPodsArePods
  <2> QED BY <2>1 DEF Drained, SlotsOf
<1>6. pc \in {"replicas", "delete"} => Drained(target)
  <2>1. pc \in {"replicas", "delete"} => target \in {part} \cup ReplicaOrdinals(part)
    BY <1>1 DEF RobinOK, StepFits
  <2>2. \A r \in ReplicaOrdinals(part) : r \notin PrimaryPods
    BY <1>1, PartitionInRange, Ordinals DEF PrimaryPods
  <2> QED BY <1>3, <1>4, <1>5, <2>1, <2>2
<1>7. ASSUME NEW p \in Pods, Drained(p), PodStops(p) \/ flushAndPersistNode(p)
      PROVE  KeepsSlots /\ \A q \in up : q \notin up' \/ gen'[q] # gen[q] => Drained(q)
  <2>1. KeepsSlots
    BY <1>7, StopsKeepSlots
  <2>2. \A q \in up : q # p => q \in up' /\ gen'[q] = gen[q]
    BY <1>1, <1>7 DEF PodStops, flushAndPersistNode, RedisOK
  <2> QED BY <1>7, <2>1, <2>2
<1>8. CASE recycles(part)
  BY <1>2, <1>3, <1>4, <1>7, <1>8 DEF recycles
<1>9. CASE pc = "replicas" /\ recycles(target)
  BY <1>2, <1>4, <1>6, <1>7, <1>9 DEF recycles
<1>10. CASE pc = "delete" /\ PodStops(target)
  BY <1>2, <1>4, <1>6, <1>7, <1>10
<1>11. CASE /\ UNCHANGED <<up, gen, owner, open, data>>
            /\ \/ UNCHANGED <<master, linked>>
               \/ pc = "replicas" /\ Attached([r \in {target} |-> part])
  <2>1. \A p \in PrimaryPods : p \in Pods /\ master[p] = None
    BY PrimaryPodsArePods DEF Serving
  <2>2. \A p \in PrimaryPods : master'[p] = None
    <3>1. pc = "replicas" => target \notin PrimaryPods
      BY <1>1, PartitionInRange, Ordinals DEF PrimaryPods, RobinOK, StepFits
    <3> QED BY <1>11, <2>1, <3>1 DEF Attached, Replicating
  <2>3. ASSUME NEW p \in PrimaryPods \cap up, Node(p) \in members PROVE Node(p) \in members'
    <3>1. Alive(Node(p))
      BY <1>1, <2>1, NodesOfPods, PodsOfNodes
    <3>2. CASE handleUpgradeRollingUpdate /\ ~recycles(part)
      BY <2>3, <3>1, <3>2 DEF handleUpgradeRollingUpdate, redis
    <3>3. CASE recycleReplicasForPrimary /\ ~recycles(target)
      BY <2>3, <3>3 DEF recycleReplicasForPrimary, redis, Attached
    <3>4. CASE DeletePod
      BY <2>3, <3>4 DEF DeletePod, PodStops, redis
    <3>5. CASE recycles(part) \/ recycles(target)
      BY <2>3, <3>5 DEF recycles, PodStops, flushAndPersistNode
    <3> QED BY <3>2, <3>3, <3>4, <3>5 DEF Recycling
  <2> QED BY <1>2, <1>11, <2>2, <2>3, SlotsStay
<1> QED BY <1>1, <1>8, <1>9, <1>10, <1>11, RecyclingChanges

\* Slots that move, with their data, to the destination of the reshard.
LEMMA SlotsMove ==
  ASSUME PodsInv, PodsInv', Serving, UNCHANGED <<up, gen, master>>,
         NEW d \in PrimaryPods \cap up, Node(d) \in members',
         \A p \in PrimaryPods \cap up : Node(p) \in members => Node(p) \in members',
         \A s \in Slots : \/ owner'[s] = Node(d) /\ s \in data'[d]
                          \/ owner'[s] = owner[s] /\ \A p \in Pods : s \in data[p] => s \in data'[p]
  PROVE  Serving' /\ \A p \in PrimaryPods : Drained(p) /\ p # d => Drained(p)'
<1>1. \A p \in Pods : Node(p)' = Node(p)
  BY DEF Node
<1>2. ASSUME NEW s \in Slots
      PROVE  \E p \in PrimaryPods \cap up :
               owner'[s] = Node(p) /\ Node(p) \in members' /\ s \in data'[p]
               /\ (p = d \/ owner[s] = Node(p))
  <2>1. PICK p \in PrimaryPods \cap up : owner[s] = Node(p) /\ Node(p) \in members /\ s \in data[p]
    BY DEF Serving
  <2>2. p \in Pods
    BY PrimaryPodsArePods
  <2> QED BY <2>1, <2>2
<1>3. Serving'
  <2>1. \A p \in PrimaryPods : master'[p] = None
    BY DEF Serving
  <2>2. \A s \in Slots : \E p \in PrimaryPods \cap up' :
          owner'[s] = Node(p)' /\ Node(p)' \in members' /\ s \in data'[p]
    BY <1>1, <1>2, PrimaryPodsArePods
  <2> QED BY <2>1, <2>2 DEF Serving
<1>4. ASSUME NEW p \in PrimaryPods, Drained(p), p # d, NEW s \in Slots PROVE owner'[s] # Node(p)'
  <2>1. PICK q \in PrimaryPods : owner'[s] = Node(q) /\ (q = d \/ owner[s] = Node(q))
    BY <1>2
  <2>2. q # p
    BY <1>4, <2>1, OwnersAreNotDrained
  <2> QED BY <1>1, <2>1, <2>2, PrimaryPodsArePods DEF Node
<1>5. \A p \in PrimaryPods : Drained(p) /\ p # d => Drained(p)'
  BY <1>4 DEF Drained, SlotsOf
<1> QED BY <1>3, <1>5

\* A fix finds every slot owner in place: it only ends the open migration.
LEMMA FixEndsMigration ==
  ASSUME PodsInv, PodsInv', Serving, OpenFits, Fix(members), UNCHANGED <<up, gen, master, linked>>,
         \A p \in PrimaryPods \cap up : Node(p) \in members => Node(p) \in members',
         Dest \in up, Node(Dest) \in members
  PROVE  /\ Serving' /\ open' = {}
         /\ \A p \in PrimaryPods : Drained(p) /\ p # Dest => Drained(p)'
<1> DEFINE uncovered == {s \in Slots : owner[s] \notin members}
           finished == {e \in open : Alive(e[2]) /\ IsPrimary(e[2][1])}
<1>1. RedisOK /\ RobinOK
  BY DEF PodsInv
<1>2. uncovered = {} /\ ~\E s \in Slots \ uncovered : ~Alive(owner[s])
  BY SlotOwner
<1>3. open' = {} /\ data' = IF finished = {} THEN data
                            ELSE LET e == CHOOSE e \in finished : TRUE IN Moved({e[1]}, e[2])
  BY <1>2 DEF Fix
<1>4. \A s \in Slots : owner'[s] = IF \E e \in finished : e[1] = s
                                   THEN (CHOOSE e \in finished : e[1] = s)[2] ELSE owner[s]
  BY <1>2 DEF Fix
<1>5. PICK d \in PrimaryPods \cap up : d = Dest /\ d \in Pods
  BY <1>1, SourceAndDest, PrimaryPodsArePods
<1>6. \A e \in finished : e[1] \in Slots /\ e[2] = Node(d) /\ Alive(Node(d)) /\ IsPrimary(Node(d)[1])
  BY <1>1, <1>5 DEF RedisOK, OpenFits
<1>7. \A e, f \in finished : e = f
  BY <1>1 DEF RedisOK
<1>8. Node(d) \in Nodes
  BY <1>1, <1>5, NodesOfPods DEF RedisOK
<1> HIDE DEF finished, uncovered
<1>9. ASSUME NEW s \in Slots
      PROVE  \/ owner'[s] = Node(d) /\ s \in data'[d]
             \/ owner'[s] = owner[s] /\ \A p \in Pods : s \in data[p] => s \in data'[p]
  <2>1. CASE finished = {}
    BY <1>3, <1>4, <2>1
  <2>2. CASE finished # {}
    <3>1. PICK e \in finished : TRUE
      BY <2>2
    <3>2. (CHOOSE f \in finished : TRUE) = e
      BY <1>7, <3>1
    <3>3. PICK S \in SUBSET Slots, y \in Nodes : S = {e[1]} /\ y = Node(d)
      BY <1>6, <1>8, <3>1
    <3>4. data' = Moved(S, y)
      BY <1>3, <1>6, <2>2, <3>2, <3>3
    <3>5. /\ \A p \in Pods : Node(p) = y => Moved(S, y)[p] = data[p] \cup S
          /\ \A p \in Pods, t \in Slots : t \notin S => (t \in Moved(S, y)[p] <=> t \in data[p])
      <4>1. Alive(y) /\ IsPrimary(y[1])
        BY <1>6, <3>1, <3>3
      <4> QED BY <1>1, <4>1, MovedData
    <3>6. CASE s = e[1]
      <4>1. (CHOOSE f \in finished : f[1] = s) = e
        BY <1>7, <3>1, <3>6
      <4>2. owner'[s] = Node(d)
        BY <1>4, <1>6, <3>1, <3>6, <4>1
      <4> QED BY <1>5, <3>3, <3>4, <3>5, <3>6, <4>2
    <3>7. CASE s # e[1]
      <4>1. owner'[s] = owner[s]
        BY <1>4, <1>7, <3>1, <3>7
      <4> QED BY <3>3, <3>4, <3>5, <3>7, <4>1
    <3> QED BY <3>6, <3>7
  <2> QED BY <2>1, <2>2
<1>10. Node(d) \in members'
  BY <1>5
<1>11. Serving' /\ \A p \in PrimaryPods : Drained(p) /\ p # d => Drained(p)'
  BY <1>9, <1>10, SlotsMove
<1> QED BY <1>3, <1>5, <1>11

LEMMA FixKeepsServing ==
  ASSUME PodsInv, PodsInv', Serving, OpenFits, Fix(members), UNCHANGED <<up, gen, master, linked>>,
         \A p \in PrimaryPods \cap up : Node(p) \in members => Node(p) \in members'
  PROVE  /\ Serving' /\ open' = {}
         /\ \A p \in PrimaryPods : Drained(p) /\ p # Dest => Drained(p)'
<1>1. CASE open # {}
  <2>1. Dest \in up /\ Node(Dest) \in members
    BY <1>1 DEF OpenFits
  <2> QED BY <2>1, FixEndsMigration
<1>2. CASE open = {}
  <2>1. \A s \in Slots : owner[s] \in members /\ Alive(owner[s])
    BY SlotOwner
  <2>2. open' = {} /\ data' = data
    BY <1>2, <2>1 DEF Fix
  <2>3. \A s \in Slots : owner'[s] = owner[s]
    BY <1>2, <2>1 DEF Fix
  <2>4. owner' = owner
    BY <2>3 DEF PodsInv, RedisOK
  <2>5. \A p \in PrimaryPods : master'[p] = None
    BY DEF Serving
  <2>6. KeepsSlots
    BY <2>2, <2>4, <2>5, SlotsStay
  <2> QED BY <2>2, <2>6 DEF KeepsSlots
<1> QED BY <1>1, <1>2

\* What Robin remembers of a reshard follows from the slots.
LEMMA SlotsFitIs ==
  SlotsFit <=> /\ Serving
               /\ sub = "RollingUpdate" \/ pc = "forgetReplicas" => Drained(part)
               /\ sub \notin {"Resharding", "RollingUpdate", "Ending"} \/ pc = "forgetExtra" =>
                    Drained(Pivot)
BY DEF SlotsFit, Serving, Drained

LEMMA ReshardFitsIs ==
  ReshardFits <=> /\ pc = "reshard" => ids = [source |-> Node(Source), dest |-> Node(Dest)]
                  /\ pc = "forgetReplicas" => ids.source = Node(part)
                  /\ OpenFits
BY DEF ReshardFits, OpenFits

\* The slots and the reshard that is under way.
SlotsInv == SlotsFit /\ ReshardFits

\* A source without slots has no open migration.
LEMMA DrainedSource ==
  ASSUME PodsInv, OpenFits, Drained(Source)
  PROVE  open = {}
<1>1. ASSUME NEW e \in open PROVE FALSE
  <2>1. e[1] \in Slots
    BY DEF PodsInv, RedisOK
  <2> QED BY <2>1, OwnersAreNotDrained DEF OpenFits
<1> QED BY <1>1

\* A reshard hands over all slots of the source, or leaves one in migration.
LEMMA ReshardServes ==
  ASSUME PodsInv, PodsInv', SlotsInv, ClusterReshard
  PROVE  SlotsInv'
<1>1. RedisOK /\ RobinOK /\ Serving /\ OpenFits /\ pc = "reshard"
      /\ ids = [source |-> Node(Source), dest |-> Node(Dest)]
  BY SlotsFitIs, ReshardFitsIs DEF PodsInv, SlotsInv, ClusterReshard
<1>2. UNCHANGED <<up, gen, master, members>>
  BY DEF ClusterReshard, kube
<1>3. UNCHANGED <<sub, part, ids>> /\ pc' \in {"idle", "forgetExtra", "forgetReplicas"}
      /\ (pc' = "forgetExtra" => sub = "Ending") /\ (pc' = "forgetReplicas" => sub # "Ending")
  BY DEF ClusterReshard, GoTo, Return, status
<1>4. sub \in {"Resharding", "Ending"} /\ part \in Pods
  BY <1>1, PartitionInRange DEF RobinOK, StepFits
<1>5. \A p \in Pods : Node(p)' = Node(p)
  BY <1>2 DEF Node
<1>6. Source' = Source /\ Dest' = Dest
  BY <1>3 DEF Source, Dest
<1>7. PICK d \in PrimaryPods, a \in PrimaryPods : d = Dest /\ a = Source /\ d # a /\ d \in Pods /\ a \in Pods
  BY <1>1, SourceAndDest, PrimaryPodsArePods
<1>8. ids.source = Node(a) /\ ids.dest = Node(d)
  BY <1>1, <1>7
<1>9. CASE UNCHANGED <<owner, open, data>>
  <2>1. pc' = "idle" \/ Drained(a)
    <3>1. CASE pc' # "idle"
      <4>1. open' = open /\ CanReshard(ids.source, ids.dest)
            /\ owner' = [s \in Slots |-> IF s \in SlotsOf(ids.source) THEN ids.dest ELSE owner[s]]
        BY <3>1 DEF ClusterReshard, Return
      <4>2. Node(a) # Node(d)
        BY <1>1, <1>7, NodesOfPods DEF RedisOK
      <4>3. \A s \in Slots : owner[s] # Node(a)
        BY <1>8, <1>9, <4>1, <4>2 DEF SlotsOf
      <4> QED BY <4>3 DEF Drained, SlotsOf
    <3> QED BY <3>1
  <2>2. KeepsSlots
    BY <1>1, <1>2, <1>9, SlotsStay DEF Serving
  <2>3. Drained(a) => Drained(a)'
    BY <2>2 DEF KeepsSlots
  <2>4. OpenFits'
    BY <1>1, <1>2, <1>3, <1>5, <1>6, <1>7, <1>9 DEF OpenFits
  <2>5. SlotsFit'
    <3>1. pc' = "forgetReplicas" => Drained(part)'
      BY <1>3, <1>4, <1>7, <2>1, <2>3 DEF Source
    <3>2. pc' = "forgetExtra" => Drained(Pivot)'
      BY <1>3, <1>7, <2>1, <2>3 DEF Source
    <3> QED BY <1>3, <1>4, <2>2, <3>1, <3>2 DEF SlotsFit, Serving, Drained, KeepsSlots
  <2>6. ReshardFits'
    <3>1. pc' = "forgetReplicas" => ids'.source = Node(part)'
      BY <1>3, <1>4, <1>5, <1>7, <1>8 DEF Source
    <3> QED BY <1>3, <2>4, <3>1 DEF ReshardFits, OpenFits
  <2> QED BY <2>5, <2>6 DEF SlotsInv
<1>10. CASE ~UNCHANGED <<owner, open, data>>
  <2>1. PICK y \in Nodes : y = ids.dest /\ Alive(y) /\ IsPrimary(y[1]) /\ CanReshard(ids.source, y)
    BY <1>1, <1>10, ReshardMoves
  <2>2. PICK S \in SUBSET SlotsOf(ids.source) :
          /\ owner' = [s \in Slots |-> IF s \in S THEN y ELSE owner[s]]
          /\ data' = Moved(S, y)
          /\ \/ open' = open /\ S = SlotsOf(ids.source) /\ pc' # "idle"
             \/ \E s \in SlotsOf(ids.source) : s \notin S /\ open' \in {{}, {<<s, y>>}} /\ pc' = "idle"
    BY <1>1, <1>10, <2>1, ReshardMoves
  <2>3. y = Node(d) /\ d \in up /\ Node(d) \in members /\ open = {}
    <3>1. y = Node(d)
      BY <1>8, <2>1
    <3>2. Node(d)[1] = d
      BY <1>1, <1>7, NodesOfPods DEF RedisOK
    <3> QED BY <2>1, <3>1, <3>2 DEF Alive, CanReshard, ClusterCheck
  <2>4. S \in SUBSET Slots
    BY DEF SlotsOf
  <2>5. /\ \A p \in Pods : Node(p) = y => Moved(S, y)[p] = data[p] \cup S
        /\ \A p \in Pods, t \in Slots : t \notin S => (t \in Moved(S, y)[p] <=> t \in data[p])
    BY <1>1, <2>1, <2>4, MovedData
  <2>6. \A s \in Slots : \/ owner'[s] = Node(d) /\ s \in data'[d]
                         \/ owner'[s] = owner[s] /\ \A p \in Pods : s \in data[p] => s \in data'[p]
    BY <1>7, <2>2, <2>3, <2>5
  <2>7. Serving' /\ \A p \in PrimaryPods : Drained(p) /\ p # d => Drained(p)'
    <3>1. d \in PrimaryPods \cap up /\ Node(d) \in members'
      BY <1>2, <1>7, <2>3
    <3> QED BY <1>1, <1>2, <2>6, <3>1, SlotsMove
  <2>8. Node(a) # Node(d)
    BY <1>1, <1>7, NodesOfPods DEF RedisOK
  <2>9. pc' # "idle" => Drained(a)'
    <3>1. ASSUME pc' # "idle", NEW s \in Slots PROVE owner'[s] # Node(a)'
      <4>1. S = SlotsOf(Node(a))
        BY <1>8, <2>2, <3>1
      <4>2. owner'[s] # Node(a)
        BY <2>2, <2>3, <2>8, <4>1 DEF SlotsOf
      <4> QED BY <1>5, <1>7, <4>2
    <3> QED BY <3>1 DEF Drained, SlotsOf
  <2>10. OpenFits'
    <3>1. CASE open' = open
      BY <2>3, <3>1 DEF OpenFits
    <3>2. CASE \E s \in SlotsOf(ids.source) : s \notin S /\ open' \in {{}, {<<s, y>>}}
      <4>1. PICK s \in SlotsOf(ids.source) : s \notin S /\ open' \in {{}, {<<s, y>>}}
        BY <3>2
      <4>2. s \in Slots /\ owner'[s] = Node(a)
        BY <1>8, <2>2, <4>1 DEF SlotsOf
      <4> QED BY <1>2, <1>3, <1>4, <1>5, <1>6, <1>7, <2>3, <4>1, <4>2 DEF OpenFits
    <3> QED BY <2>2, <3>1, <3>2
  <2>11. SlotsFit'
    <3>1. pc' = "forgetReplicas" => Drained(part)'
      BY <1>3, <1>4, <1>7, <2>9 DEF Source
    <3>2. pc' = "forgetExtra" => Drained(Pivot)'
      BY <1>3, <1>7, <2>9 DEF Source
    <3> QED BY <1>3, <1>4, <2>7, <3>1, <3>2 DEF SlotsFit, Serving, Drained
  <2>12. ReshardFits'
    <3>1. pc' = "forgetReplicas" => ids'.source = Node(part)'
      BY <1>3, <1>4, <1>5, <1>7, <1>8 DEF Source
    <3> QED BY <1>3, <2>10, <3>1 DEF ReshardFits, OpenFits
  <2> QED BY <2>11, <2>12 DEF SlotsInv
<1> QED BY <1>9, <1>10

\* Steps that leave the slots where they are.
LEMMA KeepsInv ==
  ASSUME PodsInv, SlotsInv, KeepsSlots, RobinOK, owner' = owner, open' \subseteq open,
         sub' = "RollingUpdate" \/ pc' = "forgetReplicas" => part' = part /\ Drained(part),
         sub' \notin {"Resharding", "RollingUpdate", "Ending"} \/ pc' = "forgetExtra" => Drained(Pivot),
         pc' \in {"reshard", "forgetReplicas"} => pc' = pc /\ ids' = ids,
         pc' \in {"reshard", "forgetReplicas"} \/ open' # {} =>
           UNCHANGED <<sub, part>> /\ \A p \in PrimaryPods : gen'[p] = gen[p],
         open' # {} => Dest \in up' /\ Node(Dest) \in members'
  PROVE  SlotsInv'
<1>1. part \in PrimaryPods /\ Pivot \in PrimaryPods
  BY PrimaryPodsArePods DEF RobinOK
<1>2. SlotsFit'
  BY <1>1 DEF KeepsSlots, SlotsFit, Serving, Drained
<1>3. Source \in PrimaryPods /\ Dest \in PrimaryPods
  BY SourceAndDest
<1>4. ASSUME pc' \in {"reshard", "forgetReplicas"} \/ open' # {}
      PROVE  /\ Source' = Source /\ Dest' = Dest /\ part' = part /\ sub' = sub
             /\ Node(Source)' = Node(Source) /\ Node(Dest)' = Node(Dest) /\ Node(part)' = Node(part)
  <2>1. Source' = Source /\ Dest' = Dest
    BY <1>4 DEF Source, Dest
  <2> QED BY <1>1, <1>3, <1>4, <2>1 DEF Node
<1>5. ReshardFits'
  <2>1. (pc = "reshard" => ids = [source |-> Node(Source), dest |-> Node(Dest)])'
    BY <1>4 DEF SlotsInv, ReshardFits
  <2>2. (pc = "forgetReplicas" => ids.source = Node(part))'
    BY <1>4 DEF SlotsInv, ReshardFits
  <2>3. OpenFits'
    BY <1>4 DEF SlotsInv, ReshardFits, OpenFits
  <2> QED BY <2>1, <2>2, <2>3 DEF ReshardFits, OpenFits
<1> QED BY <1>2, <1>5 DEF SlotsInv

\* The substatuses in which no migration is open.
LEMMA NoMigration ==
  ASSUME SlotsInv, sub \notin {"Resharding", "Ending"}
  PROVE  open = {}
BY DEF SlotsInv, ReshardFits

LEMMA EnvironmentServes ==
  ASSUME PodsInv, PodsInv', SlotsInv, PrimariesKeepRunning', NEW p \in Pods,
         KubeStartsPod(p) \/ KubeStopsPod(p) \/ PodFails(p) \/ Links(p) \/ FailsOver(p)
  PROVE  SlotsInv'
<1>1. RedisOK /\ RobinOK /\ Serving /\ SlotsFit /\ OpenFits
  BY SlotsFitIs, ReshardFitsIs DEF PodsInv, SlotsInv
<1>2. KeepsSlots
  BY <1>1, EnvironmentKeepsSlots
<1>3. UNCHANGED <<sub, part, pc, ids, members>> /\ open' \subseteq open
  BY DEF KubeStartsPod, KubeStopsPod, PodFails, Links, FailsOver, robin, status, redis, PodStops
<1>4. ~FailsOver(p)
  BY <1>1, DeadOwnNothing DEF FailsOver
<1>5. owner' = owner
  BY <1>4 DEF KubeStartsPod, KubeStopsPod, PodFails, Links, redis, PodStops
<1>6. pc \in {"reshard", "forgetReplicas"} \/ open # {} => sub \in {"Resharding", "Ending"}
  BY <1>1 DEF OpenFits, RobinOK, StepFits
<1>7. ASSUME sub \in {"Resharding", "Ending"}, NEW q \in PrimaryPods
      PROVE  gen'[q] = gen[q] /\ (q \in up => q \in up')
  <2>1. KubeStopsPod(p) \/ PodFails(p) => q # p
    BY <1>7, PrimariesStay
  <2>2. CASE KubeStopsPod(p) \/ PodFails(p)
    BY <1>1, <2>1, <2>2, PrimaryPodsArePods DEF KubeStopsPod, PodFails, PodStops, RedisOK
  <2>3. CASE KubeStartsPod(p) \/ Links(p)
    BY <2>3 DEF KubeStartsPod, Links, kube
  <2> QED BY <1>4, <2>2, <2>3
<1>8. open' # {} => Dest \in up' /\ Node(Dest) \in members'
  BY <1>1, <1>3, <1>6, <1>7, SourceAndDest DEF OpenFits
<1>9. sub' = "RollingUpdate" \/ pc' = "forgetReplicas" => part' = part /\ Drained(part)
  BY <1>1, <1>3 DEF SlotsFit, Drained
<1>10. sub' \notin {"Resharding", "RollingUpdate", "Ending"} \/ pc' = "forgetExtra" => Drained(Pivot)
  BY <1>1, <1>3 DEF SlotsFit, Drained
<1> QED BY <1>1, <1>2, <1>3, <1>5, <1>6, <1>7, <1>8, <1>9, <1>10, KeepsInv

LEMMA HealServes ==
  ASSUME PodsInv, PodsInv', SlotsInv, healTopology
  PROVE  SlotsInv'
<1>1. RedisOK /\ RobinOK /\ Serving /\ SlotsFit /\ OpenFits
  BY SlotsFitIs, ReshardFitsIs DEF PodsInv, SlotsInv
<1>2. KeepsSlots
  BY <1>1, HealKeepsSlots
<1>3. UNCHANGED <<sub, part, pc, ids, up, gen, owner, open>>
  BY <1>1, HealKeepsSlots DEF kube, robin, status
<1>4. \A x \in members : Alive(x) => x \in members'
  BY <1>1, HealKeepsSlots
<1>5. open' # {} => Dest \in up' /\ Node(Dest) \in members'
  <2>1. open # {} => Dest \in up /\ Node(Dest) \in members
    BY <1>1 DEF OpenFits
  <2>2. Dest \in up => Alive(Node(Dest))
    BY <1>1, SourceAndDest, PrimaryPodsArePods, NodesOfPods, PodsOfNodes DEF RedisOK
  <2> QED BY <1>3, <1>4, <2>1, <2>2
<1>6. sub' = "RollingUpdate" \/ pc' = "forgetReplicas" => part' = part /\ Drained(part)
  BY <1>1, <1>3 DEF SlotsFit, Drained
<1>7. sub' \notin {"Resharding", "RollingUpdate", "Ending"} \/ pc' = "forgetExtra" => Drained(Pivot)
  BY <1>1, <1>3 DEF SlotsFit, Drained
<1> QED BY <1>1, <1>2, <1>3, <1>5, <1>6, <1>7, KeepsInv

\* How the substatus changes in steps that send no command.
LEMMA IdlingSubstatus ==
  ASSUME RobinOK, Idling
  PROVE  /\ pc' \notin {"reshard", "forgetReplicas", "forgetExtra"}
         /\ \/ UNCHANGED <<sub, part>>
            \/ sub = "Start" /\ sub' = "ScalingUp"
            \/ sub = "RollingUpdate" /\ sub' \in {"Resharding", "Ending"} /\ pc = "check"
            \/ sub = "ScalingDown" /\ sub' = "Ready"
<1>1. CASE Interrupted
  BY <1>1 DEF Interrupted, Return, status
<1>2. CASE SetStatefulSetPartition
  BY <1>2 DEF SetStatefulSetPartition, robin, status
<1>3. CASE startsPass
  BY <1>3 DEF startsPass, GoTo, status, RobinOK, Substatuses
<1>4. CASE handleUpgradeStart
  BY <1>4 DEF handleUpgradeStart, updateSubstatus, robin, status
<1>5. CASE waitPivotSynced
  BY <1>5 DEF waitPivotSynced, GoTo, Return, AfterPivot, status
<1>6. CASE waitReplicaSynced
  BY <1>6 DEF waitReplicaSynced, Return, status
<1>7. CASE advances
  <2>1. sub = "RollingUpdate" /\ pc = "check"
    BY <1>7 DEF advances, RobinOK, StepFits
  <2> QED BY <1>7, <2>1 DEF advances, updateSubstatus, Return, status
<1>8. CASE handleUpgradeScalingDown
  <2>1. sub = "ScalingDown"
    BY <1>8 DEF handleUpgradeScalingDown, RobinOK, StepFits
  <2> QED BY <1>8, <2>1 DEF handleUpgradeScalingDown
<1> QED BY <1>1, <1>2, <1>3, <1>4, <1>5, <1>6, <1>7, <1>8 DEF Idling

LEMMA IdlingServes ==
  ASSUME PodsInv, PodsInv', SlotsInv, Idling
  PROVE  SlotsInv'
<1>1. RedisOK /\ RobinOK /\ Serving /\ SlotsFit /\ OpenFits
  BY SlotsFitIs, ReshardFitsIs DEF PodsInv, SlotsInv
<1>2. UNCHANGED <<up, gen, members, master, owner, open, data>>
  BY IdlingChanges
<1>3. KeepsSlots
  BY <1>1, <1>2, SlotsStay DEF Serving
<1>4. open' # {} => UNCHANGED <<sub, part>>
  BY <1>1, <1>2, IdlingSubstatus, NoMigration
<1>5. open' # {} => Dest \in up' /\ Node(Dest) \in members'
  BY <1>1, <1>2 DEF OpenFits
<1>6. sub' = "RollingUpdate" \/ pc' = "forgetReplicas" => part' = part /\ Drained(part)
  BY <1>1, IdlingSubstatus DEF SlotsFit, Drained
<1>7. sub' \notin {"Resharding", "RollingUpdate", "Ending"} \/ pc' = "forgetExtra" => Drained(Pivot)
  BY <1>1, IdlingSubstatus DEF SlotsFit, Drained
<1> QED BY <1>1, <1>2, <1>3, <1>4, <1>5, <1>6, <1>7, IdlingSubstatus, KeepsInv

\* How it changes in steps that arrange members and replicas.
LEMMA ArrangingSubstatus ==
  ASSUME RobinOK, Arranging
  PROVE  /\ pc' \notin {"reshard", "forgetReplicas", "forgetExtra", "replicas", "sync", "delete"}
         /\ \/ UNCHANGED <<sub, part>>
            \/ pc = "ScalingUp" /\ sub = "ScalingUp" /\ sub' = "Resharding"
            \/ pc = "forgetReplicas" /\ sub = "Resharding" /\ sub' = "RollingUpdate" /\ part' = part
            \/ pc = "forgetExtra" /\ sub = "Ending" /\ sub' = "ScalingDown" /\ part' = part
<1>1. CASE handleUpgradeScalingUp
  BY <1>1 DEF handleUpgradeScalingUp, updateSubstatus, Return, status, RobinOK, StepFits
<1>2. CASE handleUpgradeResharding
  BY <1>2 DEF handleUpgradeResharding, GoTo, status
<1>3. CASE ensurePivotReplica
  BY <1>3 DEF ensurePivotReplica, GoTo, Return, AfterPivot, status
<1>4. CASE forgetReplicasOfNode
  BY <1>4 DEF forgetReplicasOfNode, updateSubstatus, Return, status, RobinOK, StepFits
<1>5. CASE forgetExtraReplicas
  BY <1>5 DEF forgetExtraReplicas, updateSubstatus, Return, status, RobinOK, StepFits
<1>6. CASE rebalanceReplicas
  BY <1>6 DEF rebalanceReplicas, GoTo, Return, status
<1> QED BY <1>1, <1>2, <1>3, <1>4, <1>5, <1>6 DEF Arranging

LEMMA ArrangingServes ==
  ASSUME PodsInv, PodsInv', SlotsInv, Arranging
  PROVE  SlotsInv'
<1>1. RedisOK /\ RobinOK /\ Serving /\ SlotsFit /\ OpenFits
  BY SlotsFitIs, ReshardFitsIs DEF PodsInv, SlotsInv
<1>2. UNCHANGED <<up, gen, owner, open>>
  BY <1>1, ArrangingChanges
<1>3. KeepsSlots
  BY <1>1, ArrangingKeepsSlots
<1>4. pc \in {"forgetReplicas", "forgetExtra"} => open = {}
  <2>1. pc = "forgetReplicas" => Drained(part) /\ Source = part
    BY <1>1 DEF SlotsFit, Drained, Source, RobinOK, StepFits
  <2>2. pc = "forgetExtra" => Drained(Pivot) /\ Source = Pivot
    BY <1>1 DEF SlotsFit, Drained, Source, RobinOK, StepFits
  <2> QED BY <1>1, <2>1, <2>2, DrainedSource
<1>5. open' # {} => UNCHANGED <<sub, part>>
  BY <1>1, <1>2, <1>4, ArrangingSubstatus, NoMigration
<1>6. open' # {} => Dest \in up' /\ Node(Dest) \in members'
  <2>1. open # {} => Dest \in up /\ Node(Dest) \in members
    BY <1>1 DEF OpenFits
  <2>2. Dest \in PrimaryPods
    BY <1>1, SourceAndDest
  <2> QED BY <1>1, <1>2, <1>4, <2>1, <2>2, ArrangingKeepsSlots
<1>7. sub' = "RollingUpdate" \/ pc' = "forgetReplicas" => part' = part /\ Drained(part)
  BY <1>1, ArrangingSubstatus DEF SlotsFit, Drained
<1>8. sub' \notin {"Resharding", "RollingUpdate", "Ending"} \/ pc' = "forgetExtra" => Drained(Pivot)
  BY <1>1, ArrangingSubstatus DEF SlotsFit, Drained
<1> QED BY <1>1, <1>2, <1>3, <1>5, <1>6, <1>7, <1>8, ArrangingSubstatus, KeepsInv

LEMMA RecyclingServes ==
  ASSUME PodsInv, PodsInv', SlotsInv, Recycling
  PROVE  SlotsInv'
<1>1. RedisOK /\ RobinOK /\ Serving /\ SlotsFit /\ OpenFits
  BY SlotsFitIs, ReshardFitsIs DEF PodsInv, SlotsInv
<1>2. KeepsSlots /\ sub = "RollingUpdate"
  BY <1>1, RecyclingKeepsSlots
<1>3. open = {}
  BY <1>2, NoMigration
<1>4. owner' = owner
  BY <1>1, RecyclingChanges
<1>5. open' = {}
  BY <1>1, <1>3, RecyclingChanges DEF recycles, PodStops, flushAndPersistNode
<1>6. UNCHANGED <<sub, part>> /\ pc' \notin {"reshard", "forgetReplicas", "forgetExtra"}
  <2>1. CASE handleUpgradeRollingUpdate
    BY <2>1 DEF handleUpgradeRollingUpdate, recycles, Return, status
  <2>2. CASE DeletePod
    BY <2>2 DEF DeletePod, Return, status
  <2>3. CASE recycleReplicasForPrimary
    BY <2>3 DEF recycleReplicasForPrimary, recycles, Return, GoTo, status
  <2> QED BY <2>1, <2>2, <2>3 DEF Recycling
<1>7. Drained(part)
  BY <1>1, <1>2, SlotsFitIs
<1> QED BY <1>1, <1>2, <1>3, <1>4, <1>5, <1>6, <1>7, KeepsInv

\* What Robin reads before a reshard is what the reshard will find.
LEMMA ReadServes ==
  ASSUME PodsInv, PodsInv', SlotsInv, readNodes
  PROVE  SlotsInv'
<1>1. RedisOK /\ RobinOK /\ Serving /\ SlotsFit /\ OpenFits /\ pc = "read" /\ sub = "Resharding"
  BY SlotsFitIs, ReshardFitsIs DEF PodsInv, SlotsInv, readNodes, RobinOK, StepFits
<1>2. UNCHANGED <<up, gen, master, linked, members>>
  BY DEF readNodes, kube
<1>3. Source = part /\ Source \in PrimaryPods /\ Dest \in PrimaryPods
  BY <1>1, SourceAndDest DEF Source
<1>4. CASE UNCHANGED <<owner, open, data>> /\ UNCHANGED <<sub, part>> /\ pc' = "idle"
  <2>1. KeepsSlots
    BY <1>1, <1>2, <1>4, SlotsStay DEF Serving
  <2>2. open' # {} => Dest \in up' /\ Node(Dest) \in members'
    BY <1>1, <1>2, <1>4 DEF OpenFits
  <2> QED BY <1>1, <1>2, <1>4, <2>1, <2>2, KeepsInv
<1>5. CASE /\ UNCHANGED <<owner, open, data>> /\ Drained(Source)
           /\ sub' = "RollingUpdate" /\ part' = part /\ pc' = "idle"
  <2>1. KeepsSlots
    BY <1>1, <1>2, <1>5, SlotsStay DEF Serving
  <2>2. open = {}
    BY <1>1, <1>5, DrainedSource
  <2> QED BY <1>1, <1>2, <1>3, <1>5, <2>1, <2>2, KeepsInv
<1>6. CASE /\ Fix(members) /\ ids' = [source |-> Node(Source), dest |-> Node(Dest)]
           /\ pc' = "reshard" /\ UNCHANGED <<sub, part>>
  <2>1. Serving' /\ open' = {}
    BY <1>1, <1>2, <1>6, FixKeepsServing
  <2>2. SlotsFit'
    BY <1>1, <1>6, <2>1 DEF SlotsFit, Serving
  <2>3. Source' = Source /\ Dest' = Dest
    BY <1>6 DEF Source, Dest
  <2>4. Node(Source)' = Node(Source) /\ Node(Dest)' = Node(Dest)
    BY <1>2, <2>3 DEF Node
  <2> QED BY <1>6, <2>1, <2>2, <2>4 DEF SlotsInv, ReshardFits
<1> QED BY <1>4, <1>5, <1>6 DEF readNodes, Return, updateSubstatus, status, Drained

LEMMA EndingServes ==
  ASSUME PodsInv, PodsInv', SlotsInv, handleUpgradeEnding
  PROVE  SlotsInv'
<1>1. RedisOK /\ RobinOK /\ Serving /\ SlotsFit /\ OpenFits /\ pc = "Ending" /\ sub = "Ending"
  BY SlotsFitIs, ReshardFitsIs DEF PodsInv, SlotsInv, handleUpgradeEnding, RobinOK, StepFits
<1>2. UNCHANGED <<up, gen, master, linked, sub, part>>
  BY DEF handleUpgradeEnding, kube, Return, GoTo, status
<1>3. Source = Pivot /\ Source \in PrimaryPods /\ Dest \in PrimaryPods
  BY <1>1, SourceAndDest DEF Source
<1>4. CASE UNCHANGED <<members, owner, open, data>> /\ (pc' = "idle" \/ (pc' = "forgetExtra" /\ Drained(Pivot)))
  <2>1. KeepsSlots
    BY <1>1, <1>2, <1>4, SlotsStay DEF Serving
  <2>2. open' # {} => Dest \in up' /\ Node(Dest) \in members'
    BY <1>1, <1>2, <1>4 DEF OpenFits
  <2> QED BY <1>1, <1>2, <1>4, <2>1, <2>2, KeepsInv
<1>5. CASE /\ forgetFailedNodes /\ Fix(members)
           /\ ids' = [source |-> Node(Source), dest |-> Node(Dest)] /\ pc' = "reshard"
  <2>1. ASSUME NEW p \in PrimaryPods \cap up, Node(p) \in members PROVE Node(p) \in members'
    <3>1. Alive(Node(p))
      BY <1>1, PrimaryPodsArePods, NodesOfPods, PodsOfNodes DEF RedisOK
    <3> QED BY <1>5, <2>1, <3>1 DEF forgetFailedNodes
  <2>2. Serving' /\ open' = {}
    BY <1>1, <1>2, <1>5, <2>1, FixKeepsServing
  <2>3. SlotsFit'
    BY <1>1, <1>2, <1>5, <2>2 DEF SlotsFit, Serving
  <2>4. Source' = Source /\ Dest' = Dest
    BY <1>2 DEF Source, Dest
  <2>5. Node(Source)' = Node(Source) /\ Node(Dest)' = Node(Dest)
    BY <1>2, <2>4 DEF Node
  <2> QED BY <1>5, <2>2, <2>3, <2>5 DEF SlotsInv, ReshardFits
<1> QED BY <1>4, <1>5 DEF handleUpgradeEnding, Return, GoTo, Drained

\* Every step keeps the slots with primaries that stay, unless a primary fails.
LEMMA SlotsStep ==
  ASSUME PodsInv, PodsInv', PrimariesKeepRunning => SlotsInv, PrimariesKeepRunning', [Next]_vars
  PROVE  SlotsInv'
<1>1. failed \subseteq failed'
  <2>1. CASE Robin
    <3>1. CASE healTopology
      BY <3>1 DEF healTopology, bounds
    <3> QED BY <2>1, <3>1, KindsOfSteps, IdlingChanges, ArrangingChanges, MovingChanges,
               RecyclingChanges DEF PodsInv
  <2>2. CASE \E p \in Pods : KubeStartsPod(p) \/ KubeStopsPod(p) \/ PodFails(p) \/ Links(p) \/ FailsOver(p)
    BY <2>2 DEF KubeStartsPod, KubeStopsPod, PodFails, Links, FailsOver, bounds
  <2>3. CASE UNCHANGED vars
    BY <2>3 DEF vars, bounds
  <2> QED BY <2>1, <2>2, <2>3 DEF Next
<1>2. SlotsInv
  BY <1>1 DEF PrimariesKeepRunning
<1>3. CASE Robin
  <2>1. CASE Moving
    BY <1>2, <2>1, ReadServes, ReshardServes, EndingServes DEF Moving
  <2> QED BY <1>2, <1>3, <2>1, KindsOfSteps, IdlingServes, HealServes, ArrangingServes, RecyclingServes
<1>4. CASE \E p \in Pods : KubeStartsPod(p) \/ KubeStopsPod(p) \/ PodFails(p) \/ Links(p) \/ FailsOver(p)
  BY <1>2, <1>4, EnvironmentServes
<1>5. CASE UNCHANGED vars
  <2>1. UNCHANGED <<up, gen, members, master, owner, open, data, sub, part, pc, ids>>
    BY <1>5 DEF vars, kube, redis, robin, status
  <2> QED BY <1>2, <2>1 DEF SlotsInv, SlotsFit, ReshardFits, Node, SlotsOf, Source, Dest
<1> QED BY <1>3, <1>4, <1>5 DEF Next

\* The cluster as it was created has every slot with one of the primaries.
LEMMA InitServes ==
  ASSUME Init
  PROVE  SlotsInv
<1>1. PodsInv /\ RedisOK
  BY InitOK DEF PodsInv
<1>2. sub = "Start" /\ pc = "idle" /\ open = {} /\ up = 0 .. Total - 1
  BY DEF Init
<1>3. Pivot \in Pods /\ Pivot \notin 0 .. Primaries - 1 /\ Pivot \notin Primaries .. Total - 1
  BY Ordinals
<1>4. master[Pivot] = None
  BY <1>3 DEF Init
<1>5. \A p \in PrimaryPods : master[p] = None
  BY <1>4, InitialNodes DEF PrimaryPods
<1>6. ASSUME NEW s \in Slots
      PROVE  \E p \in PrimaryPods \cap up :
               /\ owner[s] = Node(p) /\ Node(p) \in members /\ s \in data[p]
               /\ p # Pivot
  <2>1. PICK p \in 0 .. Primaries - 1 : owner[s] = <<p, 0>>
    BY InitialNodes
  <2>2. p \in Pods /\ p \in up /\ Node(p) = <<p, 0>> /\ p \in PrimaryPods /\ p # Pivot
    BY InitialNodes, PrimaryPodsArePods
  <2>3. Node(p) \in members
    BY <2>2 DEF Init
  <2>4. s \in data[p]
    BY <2>1, <2>2 DEF Init
  <2> QED BY <2>1, <2>2, <2>3, <2>4
<1>7. SlotsOf(Node(Pivot)) = {}
  <2>1. ASSUME NEW s \in Slots PROVE owner[s] # Node(Pivot)
    <3>1. PICK p \in 0 .. Primaries - 1 : owner[s] = <<p, 0>>
      BY InitialNodes
    <3> QED BY <1>3, <3>1, InitialNodes
  <2> QED BY <2>1 DEF SlotsOf
<1>8. SlotsFit
  BY <1>2, <1>5, <1>6, <1>7 DEF SlotsFit
<1> QED BY <1>2, <1>8 DEF SlotsInv, ReshardFits

LEMMA SlotsInvariance == Spec => [](PrimariesKeepRunning => SlotsInv)
<1>1. Init => (PrimariesKeepRunning => SlotsInv)
  BY InitServes
<1>2. PodsInv /\ PodsInv' /\ (PrimariesKeepRunning => SlotsInv) /\ [Next]_vars
        => (PrimariesKeepRunning => SlotsInv)'
  BY SlotsStep
<1> QED BY <1>1, <1>2, PodsInvariance, PTL DEF Spec

\* Throughout the upgrade, and wherever it is interrupted, every slot is owned by
\* a member that runs and has its data, whatever replicas fail.
THEOREM SlotsAlwaysServed == Spec => []AlwaysServed
<1>1. PodsInv /\ (PrimariesKeepRunning => SlotsInv) => AlwaysServed
  <2> SUFFICES ASSUME PodsInv, SlotsInv, NEW s \in Slots
               PROVE  owner[s] \in members /\ Alive(owner[s]) /\ s \in data[owner[s][1]]
    BY DEF AlwaysServed
  <2>1. Serving
    BY SlotsFitIs DEF SlotsInv
  <2>2. PICK p \in PrimaryPods \cap up :
          p \in Pods /\ owner[s] = Node(p) /\ Node(p) \in members /\ s \in data[p] /\ Alive(owner[s])
    BY <2>1, SlotOwner
  <2>3. Node(p)[1] = p
    BY <2>2, NodesOfPods DEF PodsInv, RedisOK
  <2> QED BY <2>2, <2>3
<1> QED BY <1>1, PodsInvariance, SlotsInvariance, PTL

\* The replicas by ordinal own no slots.
LEMMA ReplicasOwnNothing ==
  ASSUME PodsInv, Serving, NEW p \in Pods, p \notin PrimaryPods
  PROVE  Drained(p)
<1>1. ASSUME NEW s \in Slots PROVE owner[s] # Node(p)
  <2>1. PICK q \in PrimaryPods : q \in Pods /\ owner[s] = Node(q)
    BY SlotOwner
  <2> QED BY <2>1, NodesOfPods DEF PodsInv, RedisOK
<1> QED BY <1>1 DEF Drained, SlotsOf

\* The pods that Robin or Kubernetes recycle own no slots at that time.
THEOREM DrainedBeforeRecycled == Spec => DrainedFirst
<1>1. ASSUME PodsInv, PrimariesKeepRunning => SlotsInv, PodsInv', [Next]_vars
      PROVE  [PrimariesKeepRunning => RecycledAreDrained]_vars
  <2> SUFFICES ASSUME Next, PrimariesKeepRunning, NEW p \in up, failed' = failed,
                      p < sts.size, p \notin up' \/ gen'[p] # gen[p]
               PROVE  Drained(p)
    BY <1>1 DEF RecycledAreDrained, Drained
  <2>1. RedisOK /\ RobinOK /\ Serving /\ SlotsFit /\ p \in Pods
    BY <1>1, SlotsFitIs DEF PodsInv, SlotsInv, RedisOK
  <2>2. CASE Robin
    <3>1. CASE healTopology
      BY <3>1 DEF healTopology, kube
    <3>2. CASE Recycling
      BY <1>1, <2>1, <3>2, RecyclingKeepsSlots
    <3> QED BY <2>1, <2>2, <3>1, <3>2, KindsOfSteps, IdlingChanges, ArrangingChanges, MovingChanges
  <2>3. CASE \E q \in Pods : KubeStartsPod(q) \/ KubeStopsPod(q) \/ PodFails(q) \/ Links(q) \/ FailsOver(q)
    <3>1. PICK q \in Pods :
            KubeStartsPod(q) \/ KubeStopsPod(q) \/ PodFails(q) \/ Links(q) \/ FailsOver(q)
      BY <2>3
    <3>2. KubeStopsPod(q) \/ PodFails(q)
      BY <3>1 DEF KubeStartsPod, Links, FailsOver, kube
    <3>3. p = q
      BY <2>1, <3>2 DEF KubeStopsPod, PodFails, PodStops, RedisOK
    <3>4. CASE p \notin PrimaryPods
      BY <1>1, <2>1, <3>4, ReplicasOwnNothing
    <3>5. CASE p \in PrimaryPods
      <4>1. PrimariesKeepRunning'
        BY DEF PrimariesKeepRunning
      <4>2. p = Pivot /\ sub \in {"Start", "ScalingDown", "Ready"}
        BY <1>1, <3>2, <3>3, <3>5, <4>1, PrimariesStay
      <4> QED BY <2>1, <4>2, SlotsFitIs
    <3> QED BY <3>4, <3>5
  <2> QED BY <2>2, <2>3 DEF Next
<1> QED BY <1>1, PodsInvariance, SlotsInvariance, PTL DEF Spec, DrainedFirst

-----------------------------------------------------------------------------
(* The replicas, as long as no pod fails by itself.                        *)

\* Pod r runs and replicates pod p.
Follows(r, p) == r \in up /\ master[r] = Node(p)

\* A step after which the replicas by ordinal follow whom they did.
KeepsReplicas ==
  /\ \A p \in 0 .. Primaries - 1 : \A r \in ReplicaOrdinals(p) : Follows(r, p) => Follows(r, p)'
  /\ \A r \in Extra : Follows(r, Pivot) => Follows(r, Pivot)'

LEMMA ReplicasFitIs ==
  ReplicasFit <=>
    /\ \A p \in 0 .. Primaries - 1 : \A r \in ReplicaOrdinals(p) :
         (sub = "RollingUpdate" /\ p = part) \/ Follows(r, p)
    /\ sub \in {"Resharding", "RollingUpdate", "Ending"} => \A r \in Extra : Follows(r, Pivot)
    /\ sub = "RollingUpdate" =>
         \A r \in ReplicaOrdinals(part) : ReplicaDone(r) => Follows(r, part)
BY DEF ReplicasFit, Covered, Follows

\* What a step has to show when it keeps the replicas: what is new.
LEMMA ReplicasStay ==
  ASSUME RobinOK, ReplicasFit, KeepsReplicas,
         sub = "RollingUpdate" =>
           (sub' = "RollingUpdate" /\ part' = part)
           \/ \A r \in ReplicaOrdinals(part) : Follows(r, part),
         sub' \in {"Resharding", "RollingUpdate", "Ending"} =>
           sub \in {"Resharding", "RollingUpdate", "Ending"} \/ \A r \in Extra : Follows(r, Pivot)',
         sub' = "RollingUpdate" =>
           /\ part' = part
           /\ \A r \in ReplicaOrdinals(part) : ReplicaDone(r)' =>
                (sub = "RollingUpdate" /\ ReplicaDone(r)) \/ Follows(r, part)'
  PROVE  ReplicasFit'
<1>1. part \in 0 .. Primaries - 1
  BY DEF RobinOK
<1>2. ASSUME NEW p \in 0 .. Primaries - 1, NEW r \in ReplicaOrdinals(p),
             ~(sub' = "RollingUpdate" /\ p = part')
      PROVE  Follows(r, p)'
  <2>1. Follows(r, p)
    BY <1>2, ReplicasFitIs
  <2> QED BY <1>2, <2>1 DEF KeepsReplicas
<1>3. ASSUME sub' \in {"Resharding", "RollingUpdate", "Ending"}, NEW r \in Extra
      PROVE  Follows(r, Pivot)'
  BY <1>3, ReplicasFitIs DEF KeepsReplicas
<1>4. ASSUME sub' = "RollingUpdate", NEW r \in ReplicaOrdinals(part), ReplicaDone(r)'
      PROVE  Follows(r, part)'
  BY <1>1, <1>4, ReplicasFitIs DEF KeepsReplicas
<1>5. \A p \in 0 .. Primaries - 1 : (sub' = "RollingUpdate" /\ p = part') \/ Covered(p)'
  BY <1>2 DEF Covered, Follows
<1>6. sub' \in {"Resharding", "RollingUpdate", "Ending"} =>
        \A r \in Extra : r \in up' /\ master'[r] = Node(Pivot)'
  BY <1>3 DEF Follows
<1>7. sub' = "RollingUpdate" =>
        \A r \in ReplicaOrdinals(part)' : ReplicaDone(r)' => r \in up' /\ master'[r] = Node(part)'
  <2>1. sub' = "RollingUpdate" => ReplicaOrdinals(part)' = ReplicaOrdinals(part)
    BY DEF ReplicaOrdinals
  <2> QED BY <1>4, <2>1 DEF Follows, Node
<1> QED BY <1>5, <1>6, <1>7 DEF ReplicasFit

\* Nothing that a replica's role depends on changes.
LEMMA ReplicasUnmoved ==
  ASSUME UNCHANGED <<master, gen>>, up \subseteq up'
  PROVE  KeepsReplicas
BY DEF KeepsReplicas, Follows, Node

\* Replicas that are attached are attached where their ordinal says.
LEMMA AttachedByOrdinal ==
  ASSUME RedisOK, UNCHANGED <<up, gen>>, NEW f, Replicating(f), DOMAIN f \subseteq Pods,
         \/ DOMAIN f = Extra /\ \A r \in Extra : f[r] = Pivot
         \/ \A r \in DOMAIN f : r < Total /\ f[r] = OrdinalOfPrimary(r)
  PROVE  KeepsReplicas
<1>1. \A p \in Pods : Node(p)' = Node(p)
  BY DEF Node
<1>2. \A r \in Pods : master'[r] = IF r \in DOMAIN f THEN Node(f[r]) ELSE master[r]
  BY DEF Replicating
<1>3. ASSUME NEW p \in 0 .. Primaries - 1, NEW r \in ReplicaOrdinals(p), Follows(r, p)
      PROVE  Follows(r, p)'
  <2>1. r \in Nat /\ r >= Primaries /\ r < Total /\ p \in Pods
    BY ReplicasInRange, Ordinals
  <2>2. OrdinalOfPrimary(r) = p
    BY PrimaryOfReplica
  <2>3. r \notin Extra /\ r \in Pods
    BY <2>1, Ordinals
  <2>4. r \in DOMAIN f => f[r] = p
    BY <2>2, <2>3
  <2>5. master'[r] = Node(p)
    BY <1>2, <1>3, <2>3, <2>4 DEF Follows
  <2> QED BY <1>1, <1>3, <2>1, <2>5 DEF Follows
<1>4. ASSUME NEW r \in Extra, Follows(r, Pivot)
      PROVE  Follows(r, Pivot)'
  <2>1. r \in Pods /\ r \in Nat /\ ~(r < Total) /\ Pivot \in Pods
    BY Ordinals
  <2>2. r \in DOMAIN f => f[r] = Pivot
    BY <2>1
  <2>3. master'[r] = Node(Pivot)
    BY <1>2, <1>4, <2>1, <2>2 DEF Follows
  <2> QED BY <1>1, <1>4, <2>1, <2>3 DEF Follows
<1> QED BY <1>3, <1>4 DEF KeepsReplicas

\* Kubernetes by itself stops only extra pods, when they are not needed.
LEMMA OnlyExtraStop ==
  ASSUME PodsInv, NEW p \in Pods, KubeStopsPod(p)
  PROVE  p >= Total /\ sub \in {"Start", "ScalingDown", "Ready"}
<1>1. p \in up /\ p \in Nat /\ (p >= sts.size \/ (sts.strategy = "RollingUpdate" /\ rev[p] # sts.template))
  BY Ordinals DEF KubeStopsPod
<1>2. sts.size \in {Total, Total + 1 + ReplicasPerPrimary} /\ sub \in Substatuses
      /\ rev[p] \in {"old", "new"} /\ sts.template \in {"old", "new"}
  BY DEF PodsInv, KubeOK, RobinOK
<1>3. sub \in {"Start", "ScalingDown", "Ready"}
  <2>1. ASSUME sub \in {"ScalingUp", "Resharding", "RollingUpdate", "Ending"} PROVE FALSE
    <3>1. sts.size = Total + 1 + ReplicasPerPrimary /\ sts.strategy = "OnDelete"
      BY <2>1 DEF PodsInv, KubeOK, StatefulSetFits
    <3> QED BY <1>1, <3>1, Ordinals
  <2> QED BY <1>2, <2>1 DEF Substatuses
<1>4. ASSUME p < Total PROVE FALSE
  <2>1. sts.strategy = "RollingUpdate" /\ rev[p] # sts.template
    BY <1>1, <1>2, <1>4, Ordinals
  <2>2. CASE sub = "Start"
    BY <2>1, <2>2 DEF PodsInv, KubeOK, StatefulSetFits, TemplatesFit
  <2>3. CASE sub \in {"ScalingDown", "Ready"}
    <3>1. sts.template = "new" /\ rev[p] = "old"
      BY <1>2, <2>1, <2>3 DEF PodsInv, KubeOK, StatefulSetFits
    <3>2. \A q \in 0 .. Primaries - 1 : Renewed(q)
      BY <2>3 DEF PodsInv, KubeOK, TemplatesFit
    <3>3. CASE p < Primaries
      BY <1>1, <3>1, <3>2, <3>3, Ordinals DEF Renewed
    <3>4. CASE p >= Primaries
      <4>1. p \in Primaries .. Total - 1
        BY <1>1, <1>4, <3>4, Ordinals
      <4> QED BY <3>1, <3>2, <4>1, ReplicaHasPrimary DEF Renewed
    <3> QED BY <1>1, <3>3, <3>4, Ordinals
  <2> QED BY <1>3, <2>2, <2>3
<1> QED BY <1>1, <1>2, <1>3, <1>4, Ordinals

LEMMA EnvironmentCovers ==
  ASSUME PodsInv, SlotsInv, ReplicasFit, failed' = {}, NEW p \in Pods,
         KubeStartsPod(p) \/ KubeStopsPod(p) \/ PodFails(p) \/ Links(p) \/ FailsOver(p)
  PROVE  ReplicasFit'
<1>1. RobinOK /\ Serving /\ RedisOK
  BY SlotsFitIs DEF PodsInv, SlotsInv
<1>2. ~FailsOver(p) /\ ~PodFails(p)
  BY <1>1, DeadOwnNothing DEF FailsOver, PodFails
<1>3. UNCHANGED <<sub, part, pc, target>>
  BY <1>2 DEF KubeStartsPod, KubeStopsPod, Links, robin, status
<1>4. \A r : ReplicaDone(r)' <=> ReplicaDone(r)
  BY <1>3 DEF ReplicaDone, PartitionDone
<1>5. CASE KubeStartsPod(p) \/ Links(p)
  <2>1. UNCHANGED <<master, gen>> /\ up \subseteq up'
    BY <1>5 DEF KubeStartsPod, Links, kube, redis
  <2>2. KeepsReplicas
    BY <2>1, ReplicasUnmoved
  <2> QED BY <1>1, <1>3, <1>4, <2>2, ReplicasStay
<1>6. CASE KubeStopsPod(p)
  <2>1. p >= Total /\ sub \in {"Start", "ScalingDown", "Ready"}
    BY <1>6, OnlyExtraStop
  <2>2. up' = up \ {p} /\ \A q \in Pods : q # p => gen'[q] = gen[q] /\ master'[q] = master[q]
    BY <1>1, <1>6 DEF KubeStopsPod, PodStops, RedisOK
  <2>3. ASSUME NEW q \in 0 .. Primaries - 1, NEW r \in ReplicaOrdinals(q)
        PROVE  r \in up' /\ master'[r] = Node(q)'
    <3>1. r \in Pods /\ q \in Pods /\ r # p /\ q # p
      BY <2>1, ReplicasInRange, Ordinals
    <3>2. r \in up /\ master[r] = Node(q)
      BY <2>1, ReplicasFitIs DEF Follows
    <3> QED BY <2>2, <3>1, <3>2 DEF Node
  <2> QED BY <1>3, <2>1, <2>3 DEF ReplicasFit, Covered
<1> QED BY <1>2, <1>5, <1>6

LEMMA HealCovers ==
  ASSUME PodsInv, PodsInv', SlotsInv, ReplicasFit, healTopology
  PROVE  ReplicasFit'
<1>1. RobinOK /\ Serving
  BY SlotsFitIs DEF PodsInv, SlotsInv
<1>2. UNCHANGED <<up, gen, master, sub, part, pc, target>>
  BY <1>1, HealKeepsSlots DEF kube, robin, status
<1>3. KeepsReplicas
  BY <1>2, ReplicasUnmoved
<1>4. \A r : ReplicaDone(r)' <=> ReplicaDone(r)
  BY <1>2 DEF ReplicaDone, PartitionDone
<1> QED BY <1>1, <1>2, <1>3, <1>4, ReplicasStay

\* How far the recycling of the partition has come, in steps that send no command.
LEMMA IdlingDone ==
  ASSUME RobinOK, Idling, sub' = "RollingUpdate", NEW r \in ReplicaOrdinals(part), ReplicaDone(r)'
  PROVE  ReplicaDone(r)
<1>1. sub = "RollingUpdate" /\ part' = part
  BY IdlingSubstatus
<1>2. pc' # "idle"
  BY DEF ReplicaDone, PartitionDone
<1>3. CASE startsPass
  BY <1>1, <1>3 DEF startsPass, GoTo, ReplicaDone, PartitionDone
<1>4. CASE waitPivotSynced
  BY <1>1, <1>4 DEF waitPivotSynced, ReplicaDone, PartitionDone
<1>5. CASE waitReplicaSynced
  <2>1. /\ pc = "sync"
        /\ IF target + 1 \in ReplicaOrdinals(part)
           THEN pc' = "replicas" /\ target' = target + 1
           ELSE pc' = "pivot" /\ target' = target
    BY <1>2, <1>5 DEF waitReplicaSynced, Return
  <2>2. target \in ReplicaOrdinals(part)
    BY <2>1 DEF RobinOK, StepFits
  <2>3. PICK a \in Nat : ReplicaOrdinals(part) = a .. a + ReplicasPerPrimary - 1
    BY ReplicaInterval DEF RobinOK
  <2>4. CASE target + 1 \in ReplicaOrdinals(part)
    BY <2>1, <2>2, <2>3, <2>4, Ordinals DEF ReplicaDone, PartitionDone
  <2>5. CASE target + 1 \notin ReplicaOrdinals(part)
    BY <2>1, <2>2, <2>3, <2>5, Ordinals DEF ReplicaDone
  <2> QED BY <2>4, <2>5
<1>6. CASE SetStatefulSetPartition \/ handleUpgradeStart
  BY <1>2, <1>6 DEF SetStatefulSetPartition, handleUpgradeStart, updateSubstatus, robin
<1> QED BY <1>2, <1>3, <1>4, <1>5, <1>6
       DEF Idling, Interrupted, Return, advances, updateSubstatus, handleUpgradeScalingDown

LEMMA IdlingCovers ==
  ASSUME PodsInv, ReplicasFit, Idling
  PROVE  ReplicasFit'
<1>1. RobinOK
  BY DEF PodsInv
<1>2. UNCHANGED <<up, gen, master>>
  BY IdlingChanges
<1>3. KeepsReplicas
  BY <1>2, ReplicasUnmoved
<1>4. pc = "check" /\ sub = "RollingUpdate" => \A r \in ReplicaOrdinals(part) : Follows(r, part)
  BY ReplicasFitIs DEF ReplicaDone, PartitionDone
<1>5. sub = "RollingUpdate" => (sub' = "RollingUpdate" /\ part' = part)
                               \/ \A r \in ReplicaOrdinals(part) : Follows(r, part)
  BY <1>1, <1>4, IdlingSubstatus
<1>6. sub' \in {"Resharding", "RollingUpdate", "Ending"} => sub \in {"Resharding", "RollingUpdate", "Ending"}
  BY <1>1, IdlingSubstatus
<1>7. sub' = "RollingUpdate" => sub = "RollingUpdate" /\ part' = part
  BY <1>1, IdlingSubstatus
<1>8. sub' = "RollingUpdate" =>
        \A r \in ReplicaOrdinals(part) : ReplicaDone(r)' => ReplicaDone(r)
  BY <1>1, IdlingDone
<1> QED BY <1>1, <1>3, <1>5, <1>6, <1>7, <1>8, ReplicasStay

LEMMA ArrangingCovers ==
  ASSUME PodsInv, ReplicasFit, Arranging
  PROVE  ReplicasFit'
<1>1. RedisOK /\ RobinOK
  BY DEF PodsInv
<1>2. UNCHANGED <<up, gen>>
  BY <1>1, ArrangingChanges
<1>3. KeepsReplicas
  <2>1. CASE UNCHANGED <<master, linked>>
    BY <1>2, <2>1, ReplicasUnmoved
  <2>2. CASE \E f : /\ Replicating(f) /\ DOMAIN f \subseteq Pods
                    /\ \/ DOMAIN f = Extra /\ \A r \in Extra : f[r] = Pivot
                       \/ \A r \in DOMAIN f : r < Total /\ f[r] = OrdinalOfPrimary(r)
    <3>1. PICK f : /\ Replicating(f) /\ DOMAIN f \subseteq Pods
                   /\ \/ DOMAIN f = Extra /\ \A r \in Extra : f[r] = Pivot
                      \/ \A r \in DOMAIN f : r < Total /\ f[r] = OrdinalOfPrimary(r)
      BY <2>2
    <3> QED BY <1>1, <1>2, <3>1, AttachedByOrdinal
  <2> QED BY <1>1, <2>1, <2>2, ArrangingChanges
<1>4. sub = "RollingUpdate" => sub' = "RollingUpdate" /\ part' = part
  BY <1>1, ArrangingSubstatus
<1>5. ASSUME sub = "ScalingUp", sub' = "Resharding", NEW r \in Extra PROVE Follows(r, Pivot)'
  <2>1. pc = "ScalingUp"
    BY <1>1, <1>5, ArrangingSubstatus
  <2>2. handleUpgradeScalingUp
    BY <2>1 DEF Arranging, handleUpgradeResharding, ensurePivotReplica, forgetReplicasOfNode,
                forgetExtraReplicas, rebalanceReplicas
  <2>3. Pods \subseteq up /\ Replicating([k \in Extra |-> Pivot])
    BY <1>5, <2>2 DEF handleUpgradeScalingUp, Return, status
  <2>4. r \in Pods /\ Pivot \in Pods
    BY Ordinals
  <2>5. master'[r] = Node(Pivot)
    BY <2>3, <2>4 DEF Replicating
  <2> QED BY <1>2, <2>3, <2>4, <2>5 DEF Follows, Node
<1>6. sub' \in {"Resharding", "RollingUpdate", "Ending"} =>
        sub \in {"Resharding", "RollingUpdate", "Ending"} \/ \A r \in Extra : Follows(r, Pivot)'
  BY <1>1, <1>5, ArrangingSubstatus
<1>7. sub' = "RollingUpdate" => part' = part
  BY <1>1, ArrangingSubstatus
<1>8. ASSUME sub' = "RollingUpdate", NEW r \in ReplicaOrdinals(part), ReplicaDone(r)'
      PROVE  sub = "RollingUpdate" /\ ReplicaDone(r)
  <2>1. pc' \notin {"idle", "replicas", "sync"}
    BY <1>1, <1>8, ArrangingSubstatus DEF ReplicaDone, PartitionDone
  <2>2. pc' \in {"check", "pivot", "pivotSync"}
    BY <1>8, <2>1 DEF ReplicaDone, PartitionDone
  <2>3. sub = "RollingUpdate"
    <3>1. pc # "forgetReplicas"
      BY <2>1 DEF Arranging, handleUpgradeScalingUp, handleUpgradeResharding, ensurePivotReplica,
                  forgetReplicasOfNode, forgetExtraReplicas, rebalanceReplicas, updateSubstatus, Return
    <3> QED BY <1>1, <1>8, <3>1, ArrangingSubstatus
  <2>4. pc = "pivot"
    BY <1>1, <2>3 DEF Arranging, handleUpgradeScalingUp, handleUpgradeResharding, ensurePivotReplica,
                      forgetReplicasOfNode, forgetExtraReplicas, rebalanceReplicas, RobinOK, StepFits
  <2> QED BY <2>3, <2>4 DEF ReplicaDone, PartitionDone
<1> QED BY <1>1, <1>3, <1>4, <1>6, <1>7, <1>8, ReplicasStay

LEMMA MovingCovers ==
  ASSUME PodsInv, ReplicasFit, Moving
  PROVE  ReplicasFit'
<1>1. RedisOK /\ RobinOK
  BY DEF PodsInv
<1>2. UNCHANGED <<up, gen, master>>
  BY <1>1, MovingChanges
<1>3. KeepsReplicas
  BY <1>2, ReplicasUnmoved
<1>4. sub \in {"Resharding", "Ending"} /\ part' = part /\ (sub' = sub \/ (sub' = "RollingUpdate" /\ pc' = "idle"))
  <2>1. CASE readNodes
    BY <1>1, <2>1 DEF readNodes, RobinOK, StepFits, Return, updateSubstatus, status
  <2>2. CASE ClusterReshard
    BY <1>1, <2>2 DEF ClusterReshard, RobinOK, StepFits, Return, GoTo, status
  <2>3. CASE handleUpgradeEnding
    BY <1>1, <2>3 DEF handleUpgradeEnding, RobinOK, StepFits, Return, GoTo, status
  <2> QED BY <2>1, <2>2, <2>3 DEF Moving
<1>5. sub' = "RollingUpdate" => \A r : ~ReplicaDone(r)'
  BY <1>4 DEF ReplicaDone, PartitionDone
<1> QED BY <1>1, <1>3, <1>4, <1>5, ReplicasStay

\* A pod of the partition stops or is reset: the other partitions do not notice.
LEMMA PartitionStops ==
  ASSUME RedisOK, RobinOK, ReplicasFit, NEW p \in {part} \cup ReplicaOrdinals(part),
         PodStops(p) \/ flushAndPersistNode(p),
         sub = "RollingUpdate", UNCHANGED <<sub, part>>, pc' \in {"idle", "delete"}
  PROVE  ReplicasFit'
<1>1. part \in 0 .. Primaries - 1 /\ part \in Nat /\ part < Primaries /\ Primaries \in Nat
  BY PartitionInRange DEF RobinOK
<1>2. p \in Nat /\ p < Total /\ (p = part \/ (p >= Primaries /\ p \in ReplicaOrdinals(part)))
  BY <1>1, PartitionInRange, Ordinals
<1>3. p \in Pods
  BY <1>2, Ordinals
<1>4. \A q \in Pods : q # p => gen'[q] = gen[q] /\ master'[q] = master[q] /\ (q \in up => q \in up')
  BY <1>3 DEF PodStops, flushAndPersistNode, RedisOK
<1>5. ASSUME NEW q \in 0 .. Primaries - 1, q # part, NEW r \in ReplicaOrdinals(q)
      PROVE  r \in up' /\ master'[r] = Node(q)'
  <2>1. r \in Nat /\ r >= Primaries /\ r < Total
    BY ReplicasInRange
  <2>2. r \in Pods /\ q \in Pods
    BY <2>1, Ordinals
  <2>3. q # p
    BY <1>2, <1>5, Ordinals
  <2>4. r # p
    BY <1>1, <1>2, <1>5, <2>1, ReplicasDisjoint
  <2>5. r \in up /\ master[r] = Node(q)
    BY <1>5, ReplicasFitIs DEF Follows
  <2> QED BY <1>4, <2>2, <2>3, <2>4, <2>5 DEF Node
<1>6. ASSUME NEW r \in Extra PROVE r \in up' /\ master'[r] = Node(Pivot)'
  <2>1. r \in Pods /\ Pivot \in Pods /\ r # p /\ Pivot # p
    BY <1>2, Ordinals
  <2>2. r \in up /\ master[r] = Node(Pivot)
    BY ReplicasFitIs DEF Follows
  <2> QED BY <1>4, <2>1, <2>2 DEF Node
<1>7. \A r : ~ReplicaDone(r)'
  BY DEF ReplicaDone, PartitionDone
<1> QED BY <1>5, <1>6, <1>7 DEF ReplicasFit, Covered

LEMMA RecyclingCovers ==
  ASSUME PodsInv, ReplicasFit, Recycling
  PROVE  ReplicasFit'
<1>1. RedisOK /\ RobinOK
  BY DEF PodsInv
<1>2. sub = "RollingUpdate" /\ part \in 0 .. Primaries - 1
  BY <1>1 DEF Recycling, handleUpgradeRollingUpdate, DeletePod, recycleReplicasForPrimary,
              RobinOK, StepFits
<1>3. UNCHANGED <<sub, part>>
  BY DEF Recycling, handleUpgradeRollingUpdate, DeletePod, recycleReplicasForPrimary,
         recycles, Return, GoTo, status
<1>4. /\ pc = "replicas" => target \in ReplicaOrdinals(part)
      /\ pc = "delete" => target \in {part} \cup ReplicaOrdinals(part)
  BY <1>1 DEF RobinOK, StepFits
<1>5. CASE recycles(part)
  BY <1>1, <1>2, <1>3, <1>5, ReplicasFitIs, PartitionStops DEF recycles, Return
<1>6. CASE pc = "replicas" /\ recycles(target)
  BY <1>1, <1>2, <1>3, <1>4, <1>6, PartitionStops DEF recycles, Return
<1>7. CASE pc = "delete" /\ PodStops(target) /\ Return
  BY <1>1, <1>2, <1>3, <1>4, <1>7, PartitionStops DEF Return
<1>8. CASE /\ UNCHANGED <<up, gen>> /\ UNCHANGED <<master, linked>>
           /\ ~recycles(part) /\ ~recycles(target)
  <2>1. KeepsReplicas
    BY <1>8, ReplicasUnmoved
  <2>2. ASSUME NEW r \in ReplicaOrdinals(part), ReplicaDone(r)'
        PROVE  ReplicaDone(r) \/ Follows(r, part)'
    <3>1. pc' # "idle"
      BY <2>2 DEF ReplicaDone, PartitionDone
    <3>2. CASE handleUpgradeRollingUpdate
      <4>1. pc' = (IF ReplicasPerPrimary > 0 THEN "replicas" ELSE "check")
            /\ target' = Primaries + part * ReplicasPerPrimary
        BY <1>8, <3>1, <3>2 DEF handleUpgradeRollingUpdate, Return
      <4>2. PICK a \in Nat : /\ a = Primaries + part * ReplicasPerPrimary
                             /\ ReplicaOrdinals(part) = a .. a + ReplicasPerPrimary - 1
        BY <1>2, ReplicaInterval
      <4>3. r \in Nat /\ r >= a /\ ReplicasPerPrimary > 0
        BY <4>2, Ordinals
      <4>4. pc' = "replicas" /\ target' = a
        BY <4>1, <4>2, <4>3
      <4> QED BY <2>2, <4>3, <4>4 DEF ReplicaDone, PartitionDone
    <3>3. CASE DeletePod
      BY <3>1, <3>3 DEF DeletePod, Return
    <3>4. CASE recycleReplicasForPrimary
      <4>1. pc' = "sync" /\ pc = "replicas" /\ target' = target /\ CanReplicate(target, part)
            /\ Attached([k \in {target} |-> part])
        BY <1>8, <3>1, <3>4 DEF recycleReplicasForPrimary, Return, GoTo
      <4>2. CASE r = target
        <5>1. target \in up /\ target \in Pods
          BY <1>1, <4>1 DEF CanReplicate, RedisOK
        <5>2. master'[target] = Node(part)
          BY <4>1, <5>1 DEF Attached, Replicating
        <5> QED BY <1>3, <1>8, <4>2, <5>1, <5>2 DEF Follows, Node
      <4>3. CASE r # target
        BY <2>2, <4>1, <4>3 DEF ReplicaDone, PartitionDone
      <4> QED BY <4>2, <4>3
    <3> QED BY <3>2, <3>3, <3>4 DEF Recycling
  <2> QED BY <1>1, <1>2, <1>3, <2>1, <2>2, ReplicasStay
<1>9. CASE /\ UNCHANGED <<up, gen>> /\ pc = "replicas" /\ pc' = "sync"
           /\ CanReplicate(target, part) /\ Attached([r \in {target} |-> part])
           /\ ~recycles(part) /\ ~recycles(target)
  <2>1. PICK f : f = [r \in {target} |-> part]
    OBVIOUS
  <2>2. DOMAIN f = {target} /\ f[target] = part /\ Replicating(f)
    BY <1>9, <2>1 DEF Attached
  <2>3. target \in Pods /\ target < Total /\ OrdinalOfPrimary(target) = part /\ target \in up
    BY <1>1, <1>2, <1>4, <1>9, PartitionInRange, PrimaryOfReplica DEF CanReplicate
  <2>4. KeepsReplicas
    <3>1. DOMAIN f \subseteq Pods /\ \A r \in DOMAIN f : r < Total /\ f[r] = OrdinalOfPrimary(r)
      BY <2>2, <2>3
    <3> QED BY <1>1, <1>9, <2>2, <3>1, AttachedByOrdinal
  <2>5. target' = target
    <3>1. recycleReplicasForPrimary
      BY <1>9 DEF Recycling, handleUpgradeRollingUpdate, DeletePod
    <3> QED BY <1>9, <3>1 DEF recycleReplicasForPrimary, Return, GoTo
  <2>6. master'[target] = Node(part)
    BY <2>2, <2>3 DEF Replicating
  <2>7. \A r \in ReplicaOrdinals(part) : r = target => Follows(r, part)'
    BY <1>3, <1>9, <2>3, <2>6 DEF Follows, Node
  <2>8. \A r \in ReplicaOrdinals(part) : ReplicaDone(r)' => ReplicaDone(r) \/ r = target
    BY <1>9, <2>5 DEF ReplicaDone, PartitionDone
  <2> QED BY <1>1, <1>2, <1>3, <2>4, <2>7, <2>8, ReplicasStay
<1>10. UNCHANGED <<up, gen>> => ~recycles(part) /\ ~recycles(target)
  <2>1. part \in Pods /\ target \in Pods /\ gen \in [Pods -> Nat]
    BY <1>1, PartitionInRange DEF RobinOK, RedisOK
  <2> QED BY <2>1 DEF recycles, PodStops, flushAndPersistNode
<1> QED BY <1>1, <1>5, <1>6, <1>7, <1>8, <1>9, <1>10, RecyclingChanges

\* Every step keeps the replicas of all partitions but the one that is recycled.
LEMMA ReplicasStep ==
  ASSUME PodsInv, PodsInv', PrimariesKeepRunning => SlotsInv, failed = {} => ReplicasFit,
         failed' = {}, [Next]_vars
  PROVE  ReplicasFit'
<1>1. failed = {}
  <2>1. CASE Robin
    <3>1. CASE healTopology
      BY <3>1 DEF healTopology, bounds
    <3> QED BY <2>1, <3>1, KindsOfSteps, IdlingChanges, ArrangingChanges, MovingChanges,
               RecyclingChanges DEF PodsInv
  <2>2. CASE \E p \in Pods : KubeStartsPod(p) \/ KubeStopsPod(p) \/ PodFails(p) \/ Links(p) \/ FailsOver(p)
    BY <2>2 DEF KubeStartsPod, KubeStopsPod, PodFails, Links, FailsOver, bounds
  <2>3. CASE UNCHANGED vars
    BY <2>3 DEF vars, bounds
  <2> QED BY <2>1, <2>2, <2>3 DEF Next
<1>2. SlotsInv /\ ReplicasFit
  BY <1>1 DEF PrimariesKeepRunning
<1>3. CASE Robin
  BY <1>2, <1>3, KindsOfSteps, IdlingCovers, HealCovers, ArrangingCovers, MovingCovers, RecyclingCovers
<1>4. CASE \E p \in Pods : KubeStartsPod(p) \/ KubeStopsPod(p) \/ PodFails(p) \/ Links(p) \/ FailsOver(p)
  BY <1>2, <1>4, EnvironmentCovers
<1>5. CASE UNCHANGED vars
  <2>1. UNCHANGED <<up, gen, master, sub, part, pc, target>>
    BY <1>5 DEF vars, kube, redis, robin, status
  <2>2. KeepsReplicas
    BY <2>1, ReplicasUnmoved
  <2>3. \A r : ReplicaDone(r)' <=> ReplicaDone(r)
    BY <2>1 DEF ReplicaDone, PartitionDone
  <2> QED BY <1>2, <2>1, <2>2, <2>3, ReplicasStay DEF PodsInv
<1> QED BY <1>3, <1>4, <1>5 DEF Next

\* The cluster as it was created has every replica where its ordinal says.
LEMMA InitCovers ==
  ASSUME Init
  PROVE  ReplicasFit
<1>1. ASSUME NEW p \in 0 .. Primaries - 1, NEW r \in ReplicaOrdinals(p)
      PROVE  r \in up /\ master[r] = Node(p)
  <2>1. r \in Primaries .. Total - 1
    BY ReplicasInRange, Ordinals
  <2>2. OrdinalOfPrimary(r) = p
    BY PrimaryOfReplica
  <2> QED BY <2>1, <2>2, InitialNodes
<1>2. sub = "Start"
  BY DEF Init
<1> QED BY <1>1, <1>2 DEF ReplicasFit, Covered

LEMMA ReplicasInvariance == Spec => [](failed = {} => ReplicasFit)
<1>1. Init => (failed = {} => ReplicasFit)
  BY InitCovers
<1>2. PodsInv /\ PodsInv' /\ (PrimariesKeepRunning => SlotsInv) /\ (failed = {} => ReplicasFit)
        /\ [Next]_vars => (failed = {} => ReplicasFit)'
  BY ReplicasStep
<1> QED BY <1>1, <1>2, PodsInvariance, SlotsInvariance, PTL DEF Spec

\* Wherever a pass stands, and wherever it is cut off, the pods behind the current
\* partition are renewed, the slots are with primaries that stay, and the others
\* keep their replicas.
THEOREM InvariantHolds == Spec => []IInv
<1>1. PodsInv /\ (PrimariesKeepRunning => SlotsInv) /\ (failed = {} => ReplicasFit) => IInv
  BY PodsInvIs DEF SlotsInv, IInv
<1> QED BY <1>1, PodsInvariance, SlotsInvariance, ReplicasInvariance, PTL

\* With replicas configured, a primary with slots is never left without one during
\* the upgrade, as long as no pod fails: also the pivot has its own.
THEOREM SlotsAlwaysCovered ==
  ASSUME ReplicasPerPrimary > 0
  PROVE  Spec => []AlwaysCovered
<1>1. PodsInv /\ (PrimariesKeepRunning => SlotsInv) /\ (failed = {} => ReplicasFit) => AlwaysCovered
  <2> SUFFICES ASSUME PodsInv, PrimariesKeepRunning => SlotsInv, ReplicasFit, failed = {}, NEW s \in Slots
               PROVE  \E r \in up : master[r] = owner[s]
    BY DEF AlwaysCovered
  <2>1. SlotsInv
    BY DEF PrimariesKeepRunning
  <2>2. Serving /\ SlotsFit
    BY <2>1, SlotsFitIs DEF SlotsInv
  <2>3. PICK p \in PrimaryPods : owner[s] = Node(p)
    BY <2>2, SlotOwner
  <2>4. ~Drained(p)
    BY <2>3, OwnersAreNotDrained
  <2>5. CASE p = Pivot
    <3>1. sub \in {"Resharding", "RollingUpdate", "Ending"}
      BY <2>2, <2>4, <2>5, SlotsFitIs
    <3>2. Total + 1 \in Extra
      BY Ordinals
    <3>3. Follows(Total + 1, Pivot)
      BY <3>1, <3>2, ReplicasFitIs
    <3> QED BY <2>3, <2>5, <3>3 DEF Follows
  <2>6. CASE p # Pivot
    <3>1. p \in 0 .. Primaries - 1
      BY <2>6 DEF PrimaryPods
    <3>2. ~(sub = "RollingUpdate" /\ p = part)
      BY <2>2, <2>4, SlotsFitIs
    <3>3. PICK a \in Nat : ReplicaOrdinals(p) = a .. a + ReplicasPerPrimary - 1
      BY <3>1, ReplicaInterval
    <3>4. a \in ReplicaOrdinals(p)
      BY <3>3, Ordinals
    <3>5. Follows(a, p)
      BY <3>1, <3>2, <3>4, ReplicasFitIs
    <3> QED BY <2>3, <3>5 DEF Follows
  <2> QED BY <2>5, <2>6
<1> QED BY <1>1, PodsInvariance, SlotsInvariance, ReplicasInvariance, PTL
=============================================================================
