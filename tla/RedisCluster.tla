----------------------------- MODULE RedisCluster -----------------------------
(***************************************************************************)
(* The Redis cluster and its pods as Robin meets them: who knows whom, who *)
(* replicates whom, who owns which slot and who holds its data. This is    *)
(* not code of the repository. What Redis and Kubernetes do is taken from  *)
(* how internal/reconciler and internal/redis use them and from what those *)
(* files say of the commands they send.                                    *)
(*                                                                         *)
(* Membership is a view per node (CLUSTER NODES of that node). Roles and   *)
(* slot ownership are one truth: a node that knows another one sees its    *)
(* current role and slots.                                                 *)
(***************************************************************************)
EXTENDS Integers, FiniteSets, FiniteSetsExt, Functions

CONSTANTS
  MaxPods,      \* bound: the largest StatefulSet
  NumSlots,     \* the hash slots: 16384 in Redis
  MaxRestarts   \* bound: how many pods fail

ASSUME ClusterAssumption ==
  /\ MaxPods \in Nat \ {0}
  /\ NumSlots \in Nat \ {0}
  /\ MaxRestarts \in Nat

Pods == 0 .. MaxPods - 1
Slots == 1 .. NumSlots

\* Node IDs. A new one is drawn when a pod loses its storage.
Ids == 1 .. MaxPods + MaxRestarts
None == 0

VARIABLES
  spec,     \* the Spec of the RedkeyConfig: primaries, replicas, storage
  node,     \* the node each pod runs, or ran before it failed
  listed,   \* the pods whose address Kubernetes reports
  alive,    \* the nodes that run
  moved,    \* nodes that came back at an address their peers do not know yet
  known,    \* the members in CLUSTER NODES of each node
  banned,   \* nodes forgotten within the last minute: a MEET is dropped
  master,   \* the node each one replicates, None for a primary
  owner,    \* the node that owns each slot, or None
  open,     \* interrupted migrations: <<slot, destination>>
  copy,     \* the slots whose data each node holds
  restarts, \* pods that failed so far
  fresh     \* the next node ID

pods == <<node, listed, alive, moved, restarts, fresh>>
views == <<known, banned>>
roles == <<master, owner, open, copy>>
redisVars == <<pods, views, roles>>

Primaries == spec.primaries
ReplicasPerPrimary == spec.replicas

\* A restarted pod has lost its data and its nodes.conf: it is a new node.
Ephemeral == spec.storage = "ephemeral"

IsPrimary(x) == master[x] = None
SlotsOf(x) == {s \in Slots : owner[s] = x}
ReplicasOf(x) == {r \in Ids : master[r] = x}

\* Two members that exchange gossip.
Linked(a, b) == {a, b} \subseteq alive /\ a \in known[b] /\ b \in known[a]

\* The first n pods run and know each other, with these roles and slots.
FormedCluster(n, m, o) ==
  LET formed == 1 .. n
  IN  /\ node = [p \in Pods |-> p + 1]
      /\ listed = 0 .. n - 1
      /\ alive = formed
      /\ moved = {}
      /\ known = [x \in Ids |-> IF x \in formed THEN formed ELSE {x}]
      /\ banned = [x \in Ids |-> {}]
      /\ master = [x \in Ids |-> IF x \in formed THEN m[x] ELSE None]
      /\ owner = o
      /\ open = {}
      /\ copy = [x \in Ids |-> {s \in Slots : o[s] \in {x, master[x]}}]
      /\ fresh = MaxPods + 1

\* The first pods are the primaries, as formCluster makes a cluster of topology
\* t: the first ones get what is left of an even share. The code gives ranges of
\* slots; nothing here depends on which ones a primary has, only on how many.
AsCreated(t) ==
  LET n == t.primaries * (1 + t.replicas)
  IN  /\ FormedCluster(n,
           [x \in 1 .. n |-> IF x <= t.primaries THEN None
                             ELSE 1 + ((x - t.primaries - 1) \div t.replicas)],
           [s \in Slots |-> 1 + ((s - 1) % t.primaries)])
      /\ restarts = 0

\* Whatever roles and slot ranges an interrupted operation left; no pod fails
\* any more.
Disarranged ==
  /\ \E P \in SUBSET (1 .. MaxPods) \ {{}} :
       \E m \in [1 .. MaxPods -> P \cup {None}], o \in [Slots -> P] :
         /\ \A x \in 1 .. MaxPods : m[x] = None <=> x \in P
         /\ \A s, t \in Slots : s < t => o[s] <= o[t]
         /\ FormedCluster(MaxPods, m, o)
  /\ restarts = MaxRestarts

-----------------------------------------------------------------------------
(* Kubernetes.                                                             *)

\* The node of pod p stops running. With the pod's storage it loses its data
\* and its nodes.conf.
NodeStops(p) ==
  LET x == node[p]
  IN  /\ x \in alive
      /\ alive' = alive \ {x}
      /\ moved' = moved \ {x}
      /\ banned' = [banned EXCEPT ![x] = {}]
      /\ open' = {e \in open : owner[e[1]] # x /\ e[2] # x}
      /\ IF Ephemeral
         THEN /\ copy' = [copy EXCEPT ![x] = {}]
              /\ known' = [known EXCEPT ![x] = {}]
         ELSE UNCHANGED <<copy, known>>
      /\ UNCHANGED <<node, fresh, master, owner>>

\* A pod fails or is deleted. Its address may stay listed for a while.
PodFails(p) ==
  /\ NodeStops(p)
  /\ restarts < MaxRestarts
  /\ restarts' = restarts + 1
  /\ listed' \in {listed, listed \ {p}}

\* Its replacement starts, as a rule at another address: a new node that knows
\* nobody, or the same node with its nodes.conf.
PodReturns(p, sameAddress) ==
  LET x == IF Ephemeral THEN fresh ELSE node[p]
  IN  /\ node[p] \notin alive
      /\ node' = [node EXCEPT ![p] = x]
      /\ listed' = listed \cup {p}
      /\ alive' = alive \cup {x}
      /\ IF Ephemeral
         THEN /\ fresh' = fresh + 1
              /\ known' = [known EXCEPT ![x] = {x}]
              /\ UNCHANGED moved
         ELSE /\ moved' = IF sameAddress THEN moved ELSE moved \cup {x}
              /\ UNCHANGED <<fresh, known>>
      /\ UNCHANGED <<restarts, banned, roles>>

-----------------------------------------------------------------------------
(* Redis on its own.                                                       *)

\* A node that came back greets the peers in its nodes.conf; those that
\* still know it learn its new address.
Reconnects(x) ==
  /\ x \in moved
  /\ \E y \in alive \ {x} : Linked(x, y)
  /\ moved' = moved \ {x}
  /\ UNCHANGED <<node, listed, alive, restarts, fresh, views, roles>>

\* What the peers of a node tell it: a member that is down is mentioned too,
\* until everybody has forgotten it.
Heard(a) ==
  {x \in Ids \ banned[a] : \E b \in Ids : Linked(a, b) /\ x \in known[b]}

GossipReaches(a) ==
  /\ ~(Heard(a) \subseteq known[a])
  /\ known' = [known EXCEPT ![a] = @ \cup Heard(a)]
  /\ UNCHANGED <<pods, banned, roles>>

BanExpires(a) ==
  /\ banned[a] # {}
  /\ banned' = [banned EXCEPT ![a] = {}]
  /\ UNCHANGED <<pods, known, roles>>

\* A replica has loaded the data of its primary.
Syncs(r) ==
  /\ r \in alive
  /\ master[r] \in alive
  /\ Linked(r, master[r])
  /\ copy[r] # copy[master[r]]
  /\ copy' = [copy EXCEPT ![r] = copy[master[r]]]
  /\ UNCHANGED <<pods, views, master, owner, open>>

\* Replica r takes the slots of its primary, which becomes its replica when
\* it returns, like the other replicas it had.
TakesOver(r) ==
  LET m == master[r]
  IN  /\ owner' = [s \in Slots |-> IF owner[s] = m THEN r ELSE owner[s]]
      /\ master' = [x \in Ids |-> IF x = r THEN None
                                  ELSE IF x = m \/ master[x] = m THEN r
                                  ELSE master[x]]

\* The failover of Redis itself: only a replica with current data stands.
FailsOver(r) ==
  LET m == master[r]
  IN  /\ r \in alive
      /\ m \notin alive \cup {None}
      /\ m \in known[r]
      /\ SlotsOf(m) # {}
      /\ SlotsOf(m) \subseteq copy[r]
      /\ TakesOver(r)
      /\ UNCHANGED <<pods, views, open, copy>>

Settles ==
  \E x \in Ids :
    \/ Reconnects(x)
    \/ GossipReaches(x)
    \/ BanExpires(x)
    \/ Syncs(x)

Redis == Settles \/ \E x \in Ids : FailsOver(x)

\* Pods are restarted, gossip spreads and replicas catch up, all by
\* themselves. Redis may or may not fail over.
RedisFairness ==
  /\ WF_redisVars(\E p \in Pods : PodReturns(p, FALSE))
  /\ WF_redisVars(Settles)

-----------------------------------------------------------------------------
(* The commands Robin sends, as what they change.                          *)

\* CLUSTER FORGET x at each of the peers: a node does not forget itself or
\* the primary it replicates.
Forgetting(x, peers) ==
  {a \in peers \cap alive : a # x /\ master[a] # x /\ x \in known[a]}

\* CLUSTER MEET of each target from each of the peers.
Met(view, targets, peers) ==
  [a \in Ids |->
     LET By(b, c) == b \in peers \cap alive /\ c \in targets \cap alive /\ b # c
     IN  view[a] \cup {x \in Ids : (By(a, x) \/ By(x, a)) /\ x \notin banned[a]}]

\* CLUSTER REPLICATE m at r.
CanReplicate(r, m) ==
  /\ r \in alive
  /\ m \in known[r] \ {r}
  /\ IsPrimary(m)
  /\ SlotsOf(r) = {}

\* redis-cli --cluster fix from node x: it refuses while a primary it knows
\* of is unreachable. It ends the migrations that were interrupted, with their
\* data. Slots nobody owns go to a primary that has their data, or to any.
CanFix(x) ==
  /\ x \in alive
  /\ {y \in known[x] : IsPrimary(y)} \subseteq alive
  /\ \E y \in known[x] : IsPrimary(y)

Finished(x) ==
  {e \in open : {owner[e[1]], e[2]} \subseteq {y \in known[x] : IsPrimary(y)}}

Fixed(x) ==
  LET candidates == {y \in known[x] : IsPrimary(y)}
      lost == {s \in Slots : owner[s] \notin known[x]}
      Able(s) == IF \E y \in candidates : s \in copy[y]
                 THEN {y \in candidates : s \in copy[y]} ELSE candidates
  IN  {[s \in Slots |-> IF s \in lost THEN g[s]
                        ELSE IF \E e \in Finished(x) : e[1] = s
                             THEN (CHOOSE e \in Finished(x) : e[1] = s)[2]
                        ELSE owner[s]] :
         g \in {h \in [lost -> candidates] : \A s \in lost : h[s] \in Able(s)}}

FixedCopy(x) ==
  [y \in Ids |->
     (copy[y] \ {e[1] : e \in {d \in Finished(x) : owner[d[1]] = y}})
       \cup {e[1] : e \in {d \in Finished(x) : d[2] = y /\ d[1] \in copy[owner[d[1]]]}}]

\* redis-cli --cluster rebalance from node x, which moves slots with their
\* data until every primary outside drained has its share.
CanRebalance(x) ==
  /\ x \in alive
  /\ open = {}
  /\ known[x] \subseteq alive
  /\ Range(owner) \subseteq known[x]

Rebalanced(x, drained) ==
  LET takers == {y \in known[x] : IsPrimary(y)} \ drained
      Share(o, y) == Cardinality({s \in Slots : o[s] = y})
      even == NumSlots \div Cardinality(takers)
  IN  {o \in [Slots -> takers] :
         \A y \in takers :
           /\ Share(o, y) \in {even, even + 1}
           /\ Share(o, y) >= Share(owner, y) => \A s \in SlotsOf(y) : o[s] = y
           /\ Share(o, y) <= Share(owner, y) =>
                \A s \in Slots : o[s] = y => owner[s] = y}

\* The data that moves with the slots: from the old owner to the new one.
Carried(o) ==
  [x \in Ids |->
     (copy[x] \ {s \in Slots : owner[s] = x /\ o[s] # x})
       \cup {s \in Slots : o[s] = x /\ s \in copy[owner[s]]}]

-----------------------------------------------------------------------------
ClusterTypeOK ==
  /\ node \in [Pods -> Ids]
  /\ listed \subseteq Pods
  /\ alive \subseteq Ids
  /\ moved \subseteq alive
  /\ known \in [Ids -> SUBSET Ids]
  /\ banned \in [Ids -> SUBSET Ids]
  /\ master \in [Ids -> Ids \cup {None}]
  /\ owner \in [Slots -> Ids \cup {None}]
  /\ open \subseteq Slots \X Ids
  /\ copy \in [Ids -> SUBSET Slots]
  /\ restarts \in 0 .. MaxRestarts
=============================================================================
