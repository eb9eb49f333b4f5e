---------------------------- MODULE RollingUpgrade ----------------------------
(***************************************************************************)
(* The rolling upgrade (internal/reconciler/upgrade_reconciler.go) pod by  *)
(* pod and slot by slot: an extra primary, the pivot, takes the slots of   *)
(* the last partition, the drained primary and its replicas are recycled   *)
(* with the new template, the next partition moves its slots there, and in *)
(* the end the pivot gives back what it holds.                             *)
(*                                                                         *)
(* Robin addresses pods by ordinal. Which node a pod runs, what it         *)
(* replicates and which slots it owns is Redis's business and may change   *)
(* under its hands. All members agree on who is one, except that a node    *)
(* that was forgotten, or whose primary was, still sees them: how views    *)
(* differ and spread is the subject of module Health.                      *)
(***************************************************************************)
EXTENDS Integers, FiniteSets

CONSTANTS
  Primaries,           \* Spec.Primaries
  ReplicasPerPrimary,  \* Spec.ReplicasPerPrimary
  NumSlots,            \* the hash slots: 16384 in Redis
  Storage,             \* Spec.Ephemeral: "ephemeral", "persistent" or both
  MaxFaults,           \* bound: failed calls and lost writes
  Fragile,             \* the pods that may fail on their own
  MaxFailures          \* bound: how many of them do

Total == Primaries * (1 + ReplicasPerPrimary)
Pivot == Total
Extra == Total + 1 .. Total + ReplicasPerPrimary
Pods == 0 .. Total + ReplicasPerPrimary
Slots == 1 .. NumSlots

ASSUME UpgradeAssumption ==
  /\ Primaries \in Nat \ {0}
  /\ ReplicasPerPrimary \in Nat
  /\ NumSlots \in Nat
  /\ Storage \subseteq {"ephemeral", "persistent"}
  /\ MaxFaults \in Nat /\ MaxFailures \in Nat
  /\ Fragile \subseteq Pods

VARIABLES
  storage,  \* what this deployment has; it does not change
  sts,      \* the StatefulSet: its size, template and update strategy
  up,       \* the pods that run and are ready
  rev,      \* the template each pod was created from
  gen,      \* how often the pod's node was replaced by a new one
  members,  \* the nodes that are members of the cluster, dead ones included
  master,   \* the node that each pod's node replicates, or None
  linked,   \* the replicas whose link to their primary is up
  owner,    \* the node that owns each slot, or None
  open,     \* interrupted migrations: <<slot, destination>>
  data,     \* the slots whose data each pod holds
  sub,      \* Substatus.Status
  part,     \* Substatus.UpgradingPartition
  pc,       \* the step of the handler that comes next
  target,   \* the pod being recycled
  ids,      \* the node IDs read for the reshard
  faults,
  failed    \* the pods that failed on their own

kube == <<sts, up, rev, gen>>
redis == <<members, master, linked, owner, open, data>>
status == <<sub, part>>
robin == <<status, pc, target, ids>>
bounds == <<faults, failed>>
vars == <<storage, kube, redis, robin, bounds>>

\* A restarted pod has lost its data and its nodes.conf: it is a new node.
Ephemeral == storage = "ephemeral"

None == <<>>
Node(p) == <<p, gen[p]>>
Alive(x) == x # None /\ x[1] \in up /\ x = Node(x[1])
IsPrimary(p) == master[p] = None
SlotsOf(x) == {s \in Slots : owner[s] = x}

\* Pods 0 to Primaries - 1 are the primaries; their replicas follow.
ReplicaOrdinals(p) ==
  LET first == Primaries + p * ReplicasPerPrimary
  IN  first .. first + ReplicasPerPrimary - 1

OrdinalOfPrimary(r) == (r - Primaries) \div ReplicasPerPrimary

Init ==
  /\ storage \in Storage
  /\ sts = [size |-> Total, template |-> "old", strategy |-> "RollingUpdate"]
  /\ up = 0 .. Total - 1
  /\ rev = [p \in Pods |-> "old"]
  /\ gen = [p \in Pods |-> 0]
  /\ members = {Node(p) : p \in up}
  /\ master = [p \in Pods |-> IF p \in Primaries .. Total - 1
                              THEN Node(OrdinalOfPrimary(p)) ELSE None]
  /\ linked = Primaries .. Total - 1
  /\ owner = [s \in Slots |-> Node(s % Primaries)]
  /\ open = {}
  /\ data = [p \in Pods |-> {s \in Slots : p \in up /\ owner[s] \in {Node(p), master[p]}}]
  /\ sub = "Start"
  /\ part = 0
  /\ pc = "idle"
  /\ target = 0
  /\ ids = [source |-> None, dest |-> None]
  /\ faults = 0
  /\ failed = {}

-----------------------------------------------------------------------------
(* Kubernetes.                                                             *)

\* The pod goes away. Without its storage its node never returns.
PodStops(p) ==
  /\ up' = up \ {p}
  /\ linked' = {r \in linked : r # p /\ master[r] # Node(p)}
  /\ IF Ephemeral
     THEN /\ gen' = [gen EXCEPT ![p] = @ + 1]
          /\ master' = [master EXCEPT ![p] = None]
          /\ data' = [data EXCEPT ![p] = {}]
          /\ open' = {e \in open : Node(p) \notin {e[2], owner[e[1]]}}
     ELSE UNCHANGED <<gen, master, data, open>>
  /\ UNCHANGED <<sts, rev, members, owner>>

KubeStartsPod(p) ==
  /\ p \notin up /\ p < sts.size
  /\ up' = up \cup {p}
  /\ rev' = [rev EXCEPT ![p] = sts.template]
  /\ UNCHANGED <<storage, sts, gen, redis, robin, bounds>>

\* The StatefulSet controller removes the pods above its size and, with the
\* strategy RollingUpdate, recreates those of an older template.
KubeStopsPod(p) ==
  /\ p \in up
  /\ p >= sts.size \/ (sts.strategy = "RollingUpdate" /\ rev[p] # sts.template)
  /\ PodStops(p)
  /\ UNCHANGED <<storage, robin, bounds>>

PodFails(p) ==
  /\ p \in up /\ p \in Fragile /\ p < sts.size
  /\ Cardinality(failed) < MaxFailures
  /\ failed' = failed \cup {p}
  /\ PodStops(p)
  /\ UNCHANGED <<storage, robin, faults>>

-----------------------------------------------------------------------------
(* Redis.                                                                  *)

\* A replica has loaded what its primary holds. A replica has no replicas: those
\* of a primary that becomes one are not served until they follow a primary.
Links(r) ==
  /\ r \in up \ linked
  /\ Alive(master[r]) /\ IsPrimary(master[r][1])
  /\ linked' = linked \cup {r}
  /\ data' = [data EXCEPT ![r] = data[master[r][1]]]
  /\ UNCHANGED <<storage, kube, members, master, owner, open, robin, bounds>>

\* Replica r takes the slots of its primary. Its other replicas follow, and so
\* does the old primary, if it ever returns.
TakesOver(r) ==
  LET m == master[r]
  IN  /\ owner' = [s \in Slots |-> IF owner[s] = m THEN Node(r) ELSE owner[s]]
      /\ master' = [p \in Pods |->
                      IF p = r THEN None
                      ELSE IF master[p] = m \/ Node(p) = m THEN Node(r)
                      ELSE master[p]]
      /\ linked' = {p \in linked : p # r /\ master[p] # m}

FailsOver(r) ==
  LET m == master[r]
  IN  /\ r \in up
      /\ m # None /\ ~Alive(m)
      /\ {Node(r), m} \subseteq members
      /\ SlotsOf(m) # {} /\ SlotsOf(m) \subseteq data[r]
      /\ TakesOver(r)
      /\ UNCHANGED <<storage, kube, members, open, data, robin, bounds>>

\* The data after the slots in S have moved to node y: the linked replicas of
\* a primary have what it has.
Moved(S, y) ==
  [p \in Pods |->
     IF y \in {Node(p)} \cup {master[r] : r \in {p} \cap linked} THEN data[p] \cup S
     ELSE IF p \in up THEN data[p] \ S ELSE data[p]]

\* redis-cli --cluster fix refuses while a slot owner is unreachable. It ends
\* the migrations that were interrupted, and gives the slots that no member of
\* M owns to a primary that has their data, or to any.
Fix(M) ==
  LET Candidates(s) ==
        LET all == {p \in up : Node(p) \in M /\ IsPrimary(p)}
            able == {p \in all : s \in data[p]}
        IN  IF able = {} THEN all ELSE able
      uncovered == {s \in Slots : owner[s] \notin M}
      finished == {e \in open : Alive(e[2]) /\ IsPrimary(e[2][1])}
  IN  IF \E s \in Slots \ uncovered : ~Alive(owner[s]) THEN UNCHANGED <<owner, open, data>>
      ELSE /\ \E f \in [uncovered -> up] :
                /\ \A s \in uncovered : f[s] \in Candidates(s)
                /\ owner' = [s \in Slots |->
                               IF s \in uncovered THEN Node(f[s])
                               ELSE IF \E e \in finished : e[1] = s
                                    THEN (CHOOSE e \in finished : e[1] = s)[2]
                               ELSE owner[s]]
           /\ open' = {}
           /\ data' = IF finished = {} THEN data
                      ELSE LET e == CHOOSE e \in finished : TRUE IN Moved({e[1]}, e[2])

\* redis-cli --cluster check, and reshard, which begins with it.
ClusterCheck ==
  open = {} /\ \A s \in Slots : owner[s] \in members /\ Alive(owner[s])

CanReshard(x, y) ==
  /\ ClusterCheck
  /\ Alive(x) /\ IsPrimary(x[1])
  /\ Alive(y) /\ IsPrimary(y[1]) /\ y \in members

\* CLUSTER REPLICATE, after a CLUSTER MEET: refused by a node with slots, and
\* to a node that is a replica itself.
CanReplicate(r, p) == {r, p} \subseteq up /\ SlotsOf(Node(r)) = {} /\ IsPrimary(p)

\* The pods in the domain of f are told to replicate pod f[r]: a node that gets
\* another primary drops its own replicas.
Replicating(f) ==
  /\ master' = [p \in Pods |-> IF p \in DOMAIN f THEN Node(f[p]) ELSE master[p]]
  /\ linked' = {r \in linked : IF r \in DOMAIN f THEN master[r] = Node(f[r])
                               ELSE master[r] \notin {Node(q) : q \in DOMAIN f}}

\* They have been met before.
Attached(f) ==
  /\ members' = members \cup {Node(r) : r \in DOMAIN f}
  /\ Replicating(f)

-----------------------------------------------------------------------------
(* Robin: the frame of a pass.                                             *)

Return == pc' = "idle" /\ UNCHANGED <<status, target, ids>>
GoTo(step) == pc' = step /\ UNCHANGED <<status, target, ids>>

MayFail == faults < MaxFaults /\ faults' = faults + 1

\* updateSubstatus ends a pass. A write that fails is ignored.
updateSubstatus(ss, p) ==
  /\ pc' = "idle"
  /\ UNCHANGED <<target, ids>>
  /\ \/ sub' = ss /\ part' = p /\ faults' = faults
     \/ MayFail /\ UNCHANGED status

\* A command fails, or Robin is restarted: the next pass starts over.
Interrupted ==
  /\ pc # "idle"
  /\ MayFail
  /\ Return
  /\ UNCHANGED <<storage, kube, redis, failed>>

Restored == [sts EXCEPT !.size = Total, !.strategy = "RollingUpdate"]

\* ReadyReplicas is compared before the topology is looked at.
AllPodsReady ==
  /\ sub = "ScalingUp" => Cardinality(up) >= Total + 1 + ReplicasPerPrimary
  /\ sub = "ScalingDown" => Cardinality(up) >= Total /\ sts = Restored

\* ScalingDown begins with the strategy and the size, in two writes.
SetStatefulSetPartition ==
  /\ pc = "idle" /\ sub = "ScalingDown" /\ sts # Restored
  /\ \/ sts' = Restored /\ faults' = faults
     \/ sts' = [sts EXCEPT !.strategy = "RollingUpdate"] /\ MayFail
  /\ UNCHANGED <<storage, up, rev, gen, redis, robin, failed>>

-----------------------------------------------------------------------------
(* Robin: healTopology, at the start of every pass but the first. Its seed  *)
(* is any pod: the order of a Go map.                                       *)

\* The members that pod q sees. A replica does not forget its primary; a node
\* that is not a member has been forgotten and sees them all, or is new and
\* sees nobody.
Views(q) ==
  IF Node(q) \in members THEN {members \cup ({master[q]} \ {None})}
  ELSE {members \cup {Node(q)}, {Node(q)}}

\* A node that was reset but whose pod was not deleted yet: the address is that
\* of a live pod, and it counts as stale once it is marked failed.
AtLiveAddress(x) ==
  ~Ephemeral /\ x[1] \in up /\ rev[x[1]] = "old"

StaleIn(view) == {x \in view : ~Alive(x) /\ ~AtLiveAddress(x)}
MaybeStaleIn(view) == {x \in view : ~Alive(x) /\ AtLiveAddress(x)}
MissingIn(view) == {p \in up : \A x \in view : x # Node(p) /\ ~(x[1] = p /\ AtLiveAddress(x))}

Promotable(x, view) == {r \in up : master[r] = x /\ Node(r) \in view}

healTopologyPromotes(view, stale) ==
  /\ \E x \in stale : SlotsOf(x) # {} /\ \E r \in Promotable(x, view) : TakesOver(r)
  /\ UNCHANGED <<members, open, data>>

\* Slot owners that cannot be replaced are left in place when they keep their
\* data, and forgotten and fixed otherwise.
healTopologyForgets(view, stale) ==
  LET forgotten == {x \in stale : Ephemeral \/ SlotsOf(x) = {}}
      met == {Node(p) : p \in MissingIn(view)}
      newcomer == IF Cardinality(view) = 1 THEN view ELSE {}
  IN  /\ \A x \in stale : SlotsOf(x) # {} => Promotable(x, view) = {}
      /\ forgotten \cup met # {}
      /\ members' = (members \ forgotten) \cup met \cup newcomer
      /\ IF \E x \in forgotten : SlotsOf(x) # {} THEN Fix(members')
         ELSE UNCHANGED <<owner, open, data>>
      /\ UNCHANGED <<master, linked>>

\* Something was out of date: the pass ends.
healTopology ==
  /\ pc = "idle" /\ sub \notin {"Start", "Ready"} /\ AllPodsReady
  /\ \E q \in up : \E view \in Views(q) : \E flagged \in SUBSET MaybeStaleIn(view) :
       \/ healTopologyPromotes(view, StaleIn(view) \cup flagged)
       \/ healTopologyForgets(view, StaleIn(view) \cup flagged)
  /\ UNCHANGED <<storage, kube, robin, bounds>>

\* Nothing was, or the seed did not answer, which is only logged.
startsPass ==
  /\ pc = "idle" /\ sub \notin {"Start", "Ready"} /\ AllPodsReady
  /\ \/ /\ \E q \in up : \E view \in Views(q) :
             /\ MissingIn(view) = {}
             /\ \A x \in StaleIn(view) :
                  ~Ephemeral /\ SlotsOf(x) # {} /\ Promotable(x, view) = {}
        /\ faults' = faults
     \/ MayFail
  /\ GoTo(sub)
  /\ UNCHANGED <<storage, kube, redis, failed>>
-----------------------------------------------------------------------------
(* Robin: Start and ScalingUp.                                             *)

\* The template first, so that the extra pods get it; OnDelete keeps the others
\* as they are. A call in between may fail.
handleUpgradeStart ==
  /\ pc = "idle" /\ sub = "Start"
  /\ \/ /\ sts' = [size |-> Total + 1 + ReplicasPerPrimary, template |-> "new",
                   strategy |-> "OnDelete"]
        /\ updateSubstatus("ScalingUp", part)
     \/ /\ sts' = [sts EXCEPT !.template = "new", !.strategy = "OnDelete"]
        /\ MayFail
        /\ UNCHANGED robin
  /\ UNCHANGED <<storage, up, rev, gen, redis, failed>>

\* The extra pods are met, and the extra replicas attached to the pivot.
handleUpgradeScalingUp ==
  /\ pc = "ScalingUp"
  /\ IF Pods \subseteq up /\ \A r \in Extra : CanReplicate(r, Pivot)
     THEN /\ members' = members \cup {Node(p) : p \in Pods}
          /\ Replicating([r \in Extra |-> Pivot])
          /\ updateSubstatus("Resharding", Primaries - 1)
     ELSE Return /\ UNCHANGED <<members, master, linked, faults>>
  /\ UNCHANGED <<storage, kube, owner, open, data, failed>>

-----------------------------------------------------------------------------
(* Robin: Resharding, partition by partition.                              *)

\* The dead nodes without slots that are marked failed by now. A node that is
\* still somebody's primary stays.
forgetFailedNodes ==
  \E flagged \in SUBSET {x \in members : ~Alive(x) /\ SlotsOf(x) = {}} :
    members' = members \ {x \in flagged : \A r \in up : master[r] # x}

handleUpgradeResharding ==
  /\ pc = "Resharding"
  /\ forgetFailedNodes
  /\ GoTo(IF ReplicasPerPrimary > 0 THEN "pivot" ELSE "read")
  /\ UNCHANGED <<storage, kube, master, linked, owner, open, data, bounds>>

AfterPivot == IF sub = "Resharding" THEN "read" ELSE "check"

\* Nothing is done, or waited for, when the pivot has its replicas.
ensurePivotReplica ==
  /\ pc = "pivot"
  /\ IF Pivot \notin up THEN Return /\ UNCHANGED <<members, master, linked>>
     ELSE IF Cardinality({r \in up : master[r] = Node(Pivot) /\ Node(r) \in members})
               >= ReplicasPerPrimary
     THEN GoTo(AfterPivot) /\ UNCHANGED <<members, master, linked>>
     ELSE IF \A r \in Extra : CanReplicate(r, Pivot)
     THEN Attached([r \in Extra |-> Pivot]) /\ GoTo("pivotSync")
     ELSE Return /\ UNCHANGED <<members, master, linked>>
  /\ UNCHANGED <<storage, kube, owner, open, data, bounds>>

waitPivotSynced ==
  /\ pc = "pivotSync"
  /\ IF Extra \subseteq linked THEN GoTo(AfterPivot)
     ELSE \E r \in Extra : ~Alive(master[r]) /\ Return
  /\ UNCHANGED <<storage, kube, redis, bounds>>

Dest == IF sub = "Ending" THEN 0
        ELSE IF part = Primaries - 1 THEN Pivot ELSE part + 1
Source == IF sub = "Ending" THEN Pivot ELSE part

\* Faulty: no redis-cli fix before the reshard.
readNodesWithoutFix ==
  /\ pc = "read"
  /\ IF ~({Source, Dest} \subseteq up) THEN Return /\ UNCHANGED faults
     ELSE IF SlotsOf(Node(Source)) = {} THEN updateSubstatus("RollingUpdate", part)
     ELSE /\ ids' = [source |-> Node(Source), dest |-> Node(Dest)]
          /\ pc' = "reshard"
          /\ UNCHANGED <<status, target, faults>>
  /\ UNCHANGED <<storage, kube, redis, failed>>

\* The IDs and the slots of the source. A source without slots is ready to be
\* recycled: its replicas are not forgotten then.
readNodes ==
  /\ pc = "read"
  /\ IF ~({Source, Dest} \subseteq up)
     THEN Return /\ UNCHANGED <<owner, open, data, faults>>
     ELSE IF SlotsOf(Node(Source)) = {}
     THEN updateSubstatus("RollingUpdate", part) /\ UNCHANGED <<owner, open, data>>
     ELSE /\ Fix(members)
          /\ ids' = [source |-> Node(Source), dest |-> Node(Dest)]
          /\ pc' = "reshard"
          /\ UNCHANGED <<status, target, faults>>
  /\ UNCHANGED <<storage, kube, members, master, linked, failed>>

\* Faulty: what is left on the source is not counted after the reshard.
ClusterReshardUnverified ==
  /\ pc = "reshard"
  /\ CanReshard(ids.source, ids.dest)
  /\ \E done \in SUBSET SlotsOf(ids.source) :
       /\ owner' = [s \in Slots |-> IF s \in done THEN ids.dest ELSE owner[s]]
       /\ data' = Moved(done, ids.dest)
  /\ GoTo(IF sub = "Ending" THEN "forgetExtra" ELSE "forgetReplicas")
  /\ UNCHANGED <<storage, kube, members, master, linked, open, bounds>>

\* All slots of the source, or some of them when it is cut short, be it between
\* two slots or in the middle of one.
ClusterReshard ==
  /\ pc = "reshard"
  /\ LET S == SlotsOf(ids.source)
     IN  \/ /\ CanReshard(ids.source, ids.dest)
           /\ owner' = [s \in Slots |-> IF s \in S THEN ids.dest ELSE owner[s]]
           /\ data' = Moved(S, ids.dest)
           /\ GoTo(IF sub = "Ending" THEN "forgetExtra" ELSE "forgetReplicas")
           /\ UNCHANGED <<open, faults>>
        \/ /\ CanReshard(ids.source, ids.dest)
           /\ \E s \in S :
                LET done == {t \in S : t < s}
                IN  /\ owner' = [t \in Slots |-> IF t \in done THEN ids.dest ELSE owner[t]]
                    /\ data' = Moved(done, ids.dest)
                    /\ open' \in {{}, {<<s, ids.dest>>}}
           /\ MayFail
           /\ Return
        \/ /\ ~CanReshard(ids.source, ids.dest)
           /\ Return
           /\ UNCHANGED <<owner, open, data, faults>>
  /\ UNCHANGED <<storage, kube, members, master, linked, failed>>

forgetReplicasOfNode ==
  /\ pc = "forgetReplicas"
  /\ IF 0 \in up /\ Alive(ids.source)
     THEN /\ members' = members \ {Node(r) : r \in {q \in Pods : master[q] = ids.source}}
          /\ updateSubstatus("RollingUpdate", part)
     ELSE Return /\ UNCHANGED <<members, faults>>
  /\ UNCHANGED <<storage, kube, master, linked, owner, open, data, failed>>
-----------------------------------------------------------------------------
(* Robin: RollingUpdate, the recycling of a drained primary and its replicas.*)

\* flushAndPersistNode: FLUSHALL, which its linked replicas repeat, unless the
\* node is a replica, and CLUSTER RESET HARD: it is a new node now, of the same
\* pod, and the others keep the entry of the old one.
flushAndPersistNode(p) ==
  LET emptied == {p} \cup (IF IsPrimary(p) THEN {r \in linked : master[r] = Node(p)} ELSE {})
  IN  /\ data' = [q \in Pods |-> IF q \in emptied THEN {} ELSE data[q]]
      /\ gen' = [gen EXCEPT ![p] = @ + 1]
      /\ master' = [master EXCEPT ![p] = None]
      /\ linked' = {r \in linked : r # p /\ master[r] # Node(p)}
      /\ open' = {e \in open : Node(p) \notin {e[2], owner[e[1]]}}
      /\ UNCHANGED <<sts, up, rev, members, owner>>

\* Faulty: the revision of the pod is not compared.
recyclesAlways(p) ==
  /\ p \in up
  /\ IF Ephemeral
     THEN PodStops(p) /\ Return
     ELSE /\ flushAndPersistNode(p)
          /\ pc' = "delete" /\ target' = p
          /\ UNCHANGED <<status, ids>>

\* An outdated pod is deleted, after a flush if it keeps its data.
recycles(p) ==
  /\ p \in up /\ rev[p] # sts.template
  /\ IF Ephemeral
     THEN PodStops(p) /\ Return
     ELSE /\ flushAndPersistNode(p)
          /\ pc' = "delete" /\ target' = p
          /\ UNCHANGED <<status, ids>>

DeletePod ==
  /\ pc = "delete"
  /\ IF target \in up THEN PodStops(target) ELSE UNCHANGED <<kube, redis>>
  /\ Return
  /\ UNCHANGED <<storage, bounds>>

\* Faulty: the replicas of the drained primary are left to themselves.
handleUpgradeRollingUpdateOfPrimary ==
  /\ pc = "RollingUpdate"
  /\ \/ recycles(part)
     \/ /\ part \notin up
        /\ Return
        /\ UNCHANGED <<kube, redis>>
     \/ /\ part \in up /\ rev[part] = sts.template
        /\ members' = members \cup {Node(part)}
        /\ GoTo("pivot")
        /\ UNCHANGED <<kube, master, linked, owner, open, data>>
  /\ UNCHANGED <<storage, bounds>>

\* The primary of the partition: deleted once, then waited for, then met.
handleUpgradeRollingUpdate ==
  /\ pc = "RollingUpdate"
  /\ \/ recycles(part)
     \/ /\ part \notin up
        /\ Return
        /\ UNCHANGED <<kube, redis>>
     \/ /\ part \in up /\ rev[part] = sts.template
        /\ IF Pivot \notin up THEN Return /\ UNCHANGED members
           ELSE /\ \E flagged \in SUBSET {x \in members : ~Alive(x) /\ SlotsOf(x) = {}} :
                     members' = (members \cup {Node(part)})
                                  \ {x \in flagged : \A r \in up : master[r] # x}
                /\ pc' = IF ReplicasPerPrimary > 0 THEN "replicas" ELSE "check"
                /\ target' = Primaries + part * ReplicasPerPrimary
                /\ UNCHANGED <<status, ids>>
        /\ UNCHANGED <<kube, master, linked, owner, open, data>>
  /\ UNCHANGED <<storage, bounds>>

\* One replica after the other, by ordinal: met, then attached. One that refuses
\* to replicate stays a member, unless it had been forgotten within the last
\* minute, when a MEET is dropped.
recycleReplicasForPrimary ==
  /\ pc = "replicas"
  /\ \/ part \in up /\ recycles(target)
     \/ /\ ~({part, target} \subseteq up)
        /\ Return
        /\ UNCHANGED <<kube, redis>>
     \/ /\ {part, target} \subseteq up /\ rev[target] = sts.template
        /\ IF CanReplicate(target, part)
           THEN Attached([r \in {target} |-> part]) /\ GoTo("sync")
           ELSE /\ members' \in {members, members \cup {Node(target)}}
                /\ Return
                /\ UNCHANGED <<master, linked>>
        /\ UNCHANGED <<kube, owner, open, data>>
  /\ UNCHANGED <<storage, bounds>>

waitReplicaSynced ==
  /\ pc = "sync"
  /\ IF target \in linked
     THEN /\ IF target + 1 \in ReplicaOrdinals(part)
             THEN pc' = "replicas" /\ target' = target + 1
             ELSE pc' = "pivot" /\ UNCHANGED target
          /\ UNCHANGED <<status, ids>>
     ELSE ~(target \in up /\ Alive(master[target])) /\ Return
  /\ UNCHANGED <<storage, kube, redis, bounds>>

\* Faulty: one partition too many.
advancesPastZero ==
  /\ pc = "check"
  /\ IF Pivot \in up /\ ClusterCheck
     THEN IF part >= 0 THEN updateSubstatus("Resharding", part - 1)
          ELSE updateSubstatus("Ending", part)
     ELSE Return /\ UNCHANGED faults
  /\ UNCHANGED <<storage, kube, redis, failed>>

\* The next partition begins only on a cluster in order.
advances ==
  /\ pc = "check"
  /\ IF Pivot \in up /\ ClusterCheck
     THEN IF part > 0 THEN updateSubstatus("Resharding", part - 1)
          ELSE updateSubstatus("Ending", part)
     ELSE Return /\ UNCHANGED faults
  /\ UNCHANGED <<storage, kube, redis, failed>>

-----------------------------------------------------------------------------
(* Robin: Ending and ScalingDown.                                          *)

\* Faulty: the pivot is forgotten with the slots it still holds.
handleUpgradeEndingForgets ==
  /\ pc = "Ending"
  /\ IF Pivot \in up THEN GoTo("forgetExtra") ELSE Return
  /\ UNCHANGED <<storage, kube, redis, bounds>>

handleUpgradeEnding ==
  /\ pc = "Ending"
  /\ IF Pivot \notin up THEN Return /\ UNCHANGED <<members, owner, open, data>>
     ELSE IF SlotsOf(Node(Pivot)) = {}
     THEN GoTo("forgetExtra") /\ UNCHANGED <<members, owner, open, data>>
     ELSE IF 0 \notin up THEN Return /\ UNCHANGED <<members, owner, open, data>>
     ELSE /\ forgetFailedNodes
          /\ Fix(members)
          /\ ids' = [source |-> Node(Source), dest |-> Node(Dest)]
          /\ pc' = "reshard"
          /\ UNCHANGED <<status, target>>
  /\ UNCHANGED <<storage, kube, master, linked, bounds>>

\* The pivot, unless one of the pods that stay replicates it, and its replicas.
forgetExtraReplicas ==
  /\ pc = "forgetExtra"
  /\ IF {Pivot, 0} \subseteq up /\ \A r \in up : r < Total => master[r] # Node(Pivot)
     THEN /\ members' = members \ ({Node(Pivot)} \cup
                          {Node(r) : r \in {q \in Pods : master[q] = Node(Pivot)}})
          /\ updateSubstatus("ScalingDown", part)
     ELSE Return /\ UNCHANGED <<members, faults>>
  /\ UNCHANGED <<storage, kube, master, linked, owner, open, data, failed>>

\* The final check, and every replica to the primary its ordinal says. It stops
\* at the first that cannot be attached.
rebalanceReplicas ==
  /\ pc = "ScalingDown"
  /\ LET replicas == Primaries .. Total - 1
         refused == {r \in replicas : ~CanReplicate(r, OrdinalOfPrimary(r))}
         reached == {r \in replicas : \A q \in refused : r < q}
     IN  IF 0 \in up /\ ClusterCheck
         THEN /\ Attached([r \in reached |-> OrdinalOfPrimary(r)])
              /\ IF refused = {} THEN GoTo("topology") ELSE Return
         ELSE Return /\ UNCHANGED <<members, master, linked>>
  /\ UNCHANGED <<storage, kube, owner, open, data, bounds>>

\* ensureReplicaTopology: only the pods that stay are members, each in its role.
\* With the replicas attached, nothing is left to remediate but to wait for the
\* extra pods to go.
handleUpgradeScalingDown ==
  /\ pc = "topology"
  /\ IF /\ members = {Node(p) : p \in up}
        /\ Cardinality({p \in up : IsPrimary(p)}) = Primaries
        /\ \A p \in up : IsPrimary(p) =>
             Cardinality({r \in up : master[r] = Node(p)}) = ReplicasPerPrimary
     THEN \/ sub' = "Ready" /\ faults' = faults
          \/ MayFail /\ UNCHANGED sub
     ELSE UNCHANGED <<sub, faults>>
  /\ pc' = "idle"
  /\ UNCHANGED <<storage, kube, redis, part, target, ids, failed>>

-----------------------------------------------------------------------------
Robin ==
  \/ Interrupted
  \/ SetStatefulSetPartition \/ healTopology \/ startsPass
  \/ handleUpgradeStart \/ handleUpgradeScalingUp
  \/ handleUpgradeResharding \/ ensurePivotReplica \/ waitPivotSynced
  \/ readNodes \/ ClusterReshard \/ forgetReplicasOfNode
  \/ handleUpgradeRollingUpdate \/ DeletePod
  \/ recycleReplicasForPrimary \/ waitReplicaSynced \/ advances
  \/ handleUpgradeEnding \/ forgetExtraReplicas
  \/ rebalanceReplicas \/ handleUpgradeScalingDown

Next ==
  \/ Robin
  \/ \E p \in Pods : KubeStartsPod(p) \/ KubeStopsPod(p) \/ PodFails(p)
  \/ \E r \in Pods : Links(r) \/ FailsOver(r)

Spec == Init /\ [][Next]_vars

\* Robin's loop goes on, the seed of a pass is any pod in turn, Kubernetes starts
\* and stops pods and replicas catch up. Redis may or may not fail over.
Fairness ==
  /\ WF_vars(Robin) /\ SF_vars(healTopology) /\ SF_vars(startsPass)
  /\ WF_vars(\E p \in Pods : KubeStartsPod(p) \/ KubeStopsPod(p))
  /\ WF_vars(\E r \in Pods : Links(r))

FairSpec == Spec /\ Fairness

-----------------------------------------------------------------------------
\* The types. A linked replica has the data of a primary that runs, at most one
\* slot is in migration, and the partition counts down to 0 and no further.
TypeOK ==
  /\ up \subseteq Pods
  /\ rev \in [Pods -> {"old", "new"}]
  /\ linked \subseteq up
  /\ \A r \in linked :
       Alive(master[r]) /\ IsPrimary(master[r][1]) /\ data[r] = data[master[r][1]]
  /\ sub \in {"Start", "ScalingUp", "Resharding", "RollingUpdate", "Ending",
              "ScalingDown", "Ready"}
  /\ part \in 0 .. Primaries - 1
  /\ target \in Pods
  /\ Cardinality(open) <= 1

\* No pod that is a primary by its ordinal failed.
PrimariesKeepRunning == failed \cap (0 .. Primaries - 1 \cup {Pivot}) = {}

\* Every slot is owned by a member that runs and has its data, all the time: the
\* upgrade is without downtime, also when replicas fail.
AlwaysServed ==
  PrimariesKeepRunning =>
    \A s \in Slots :
      /\ owner[s] \in members
      /\ Alive(owner[s])
      /\ s \in data[owner[s][1]]

\* Every primary with slots has a replica attached, unless a pod failed.
AlwaysCovered ==
  failed = {} => \A s \in Slots : \E r \in up : master[r] = owner[s]

\* A pod that has the new template is not recycled again, unless it failed: it is
\* deleted by name, and may be another one than the pod that was checked.
RecycledOnce ==
  [][\A p \in up \ up' : p < sts.size /\ p \notin failed' => rev[p] # sts.template]_vars

\* The pods that are flushed or deleted, other than by a failure, own no slots.
RecycledAreDrained ==
  \A p \in up : p < sts.size /\ failed' = failed /\ (p \notin up' \/ gen'[p] # gen[p])
    => SlotsOf(Node(p)) = {}

\* handleUpgradeRollingUpdate recycles ONLY the drained primary and its replicas.
OnlyDrainedAreRecycled == [][RecycledAreDrained]_vars

\* It does as long as the primaries keep their slots until Robin moves them.
DrainedFirst == [][PrimariesKeepRunning => RecycledAreDrained]_vars

\* The upgrade comes to its end, with every pod on the new template and no extra
\* pod left, whatever calls and replicas fail on the way.
UpgradeCompletes ==
  \/ <>~PrimariesKeepRunning
  \/ <>[](/\ sub = "Ready"
          /\ up = 0 .. Total - 1
          /\ \A p \in up : rev[p] = "new")

(***************************************************************************)
(* The inductive invariant behind TypeOK, AlwaysServed, AlwaysCovered,      *)
(* RecycledOnce and DrainedFirst.                                           *)
(***************************************************************************)

Nodes == Pods \X Nat
PrimaryPods == 0 .. Primaries - 1 \cup {Pivot}
Substatuses == {"Start", "ScalingUp", "Resharding", "RollingUpdate", "Ending",
                "ScalingDown", "Ready"}
Steps == {"idle", "ScalingUp", "Resharding", "pivot", "pivotSync", "read", "reshard",
          "forgetReplicas", "RollingUpdate", "replicas", "sync", "check", "delete",
          "Ending", "forgetExtra", "ScalingDown", "topology"}

\* The types of Kubernetes's and Redis's part.
ClusterTypeOK ==
  /\ sts \in [size : {Total, Total + 1 + ReplicasPerPrimary}, template : {"old", "new"},
              strategy : {"RollingUpdate", "OnDelete"}]
  /\ gen \in [Pods -> Nat]
  /\ members \subseteq Nodes
  /\ master \in [Pods -> Nodes \cup {None}]
  /\ owner \in [Slots -> Nodes]
  /\ data \in [Pods -> SUBSET Slots]
  /\ open \subseteq Slots \X Nodes
  /\ \A d, e \in open : d = e

\* The step of a pass fits the substatus the pass began with.
StepFits ==
  /\ pc \in Steps
  /\ pc = "ScalingUp" => sub = "ScalingUp"
  /\ pc \in {"Resharding", "read", "forgetReplicas"} => sub = "Resharding"
  /\ pc = "reshard" => sub \in {"Resharding", "Ending"}
  /\ pc \in {"pivot", "pivotSync"} => sub \in {"Resharding", "RollingUpdate"}
  /\ pc \in {"RollingUpdate", "replicas", "sync", "check", "delete"} => sub = "RollingUpdate"
  /\ pc \in {"Ending", "forgetExtra"} => sub = "Ending"
  /\ pc \in {"ScalingDown", "topology"} => sub = "ScalingDown" /\ sts.size = Total
  /\ pc \in {"replicas", "sync"} => target \in ReplicaOrdinals(part)
  /\ pc = "delete" => target \in {part} \cup ReplicaOrdinals(part)

\* The StatefulSet is enlarged, and deletes nothing by itself, from the substatus
\* ScalingUp until the substatus ScalingDown.
StatefulSetFits ==
  /\ sub # "Start" => sts.template = "new"
  /\ sub = "Start" => (sts.template = "old" <=> sts.strategy = "RollingUpdate")
  /\ sts.template = "old" => sts.size = Total
  /\ sub \in {"ScalingUp", "Resharding", "RollingUpdate", "Ending"} =>
       sts.size = Total + 1 + ReplicasPerPrimary /\ sts.strategy = "OnDelete"
  /\ sub \in {"ScalingDown", "Ready"} /\ sts.size = Total => sts.strategy = "RollingUpdate"
  /\ sub = "Ready" => sts.size = Total

\* All replicas of the current partition were looked after in this pass.
PartitionDone == pc = "check" \/ (pc \in {"pivot", "pivotSync"} /\ sub = "RollingUpdate")

\* Replica r of the current partition was, by now.
ReplicaDone(r) ==
  PartitionDone \/ (pc \in {"replicas", "sync"} /\ (r < target \/ (pc = "sync" /\ r = target)))

Renewed(p) == rev[p] = "new" /\ \A r \in ReplicaOrdinals(p) : rev[r] = "new"

\* What is behind the current partition has the new template.
TemplatesFit ==
  /\ sts.template = "old" => \A p \in Pods : rev[p] = "old"
  /\ \A p \in up : p >= Total => rev[p] = "new"
  /\ sub \in {"Resharding", "RollingUpdate"} => \A p \in part + 1 .. Primaries - 1 : Renewed(p)
  /\ sub \in {"Ending", "ScalingDown", "Ready"} => \A p \in 0 .. Primaries - 1 : Renewed(p)
  /\ PartitionDone \/ pc \in {"replicas", "sync"} => rev[part] = "new"
  /\ sub = "RollingUpdate" => \A r \in ReplicaOrdinals(part) : ReplicaDone(r) => rev[r] = "new"
  /\ pc = "delete" => target \in failed \/ (target \in up /\ rev[target] # sts.template)

\* Only primaries by ordinal own slots, and not those that are about to go.
SlotsFit ==
  /\ \A p \in PrimaryPods : master[p] = None
  /\ \A s \in Slots : \E p \in PrimaryPods \cap up :
       owner[s] = Node(p) /\ Node(p) \in members /\ s \in data[p]
  /\ sub = "RollingUpdate" \/ pc = "forgetReplicas" => SlotsOf(Node(part)) = {}
  /\ sub \notin {"Resharding", "RollingUpdate", "Ending"} \/ pc = "forgetExtra" =>
       SlotsOf(Node(Pivot)) = {}

\* The nodes a reshard was begun with are still those of the pods.
ReshardFits ==
  /\ pc = "reshard" => ids = [source |-> Node(Source), dest |-> Node(Dest)]
  /\ pc = "forgetReplicas" => ids.source = Node(part)
  /\ \A e \in open :
       /\ sub \in {"Resharding", "Ending"}
       /\ owner[e[1]] = Node(Source)
       /\ Dest \in up /\ e[2] = Node(Dest) /\ e[2] \in members

\* The replicas that its ordinal gives a primary run and follow it.
Covered(p) == \A r \in ReplicaOrdinals(p) : r \in up /\ master[r] = Node(p)

\* Every primary is covered but the one whose partition is being recycled.
ReplicasFit ==
  /\ \A p \in 0 .. Primaries - 1 : (sub = "RollingUpdate" /\ p = part) \/ Covered(p)
  /\ sub \in {"Resharding", "RollingUpdate", "Ending"} =>
       \A r \in Extra : r \in up /\ master[r] = Node(Pivot)
  /\ sub = "RollingUpdate" =>
       \A r \in ReplicaOrdinals(part) : ReplicaDone(r) => r \in up /\ master[r] = Node(part)

\* The inductive invariant of handleRollingUpgrade: wherever a pass stands, and
\* wherever it is cut off, the pods behind the current partition are renewed, the
\* slots are with primaries that stay, and the others keep their replicas.
IInv ==
  /\ TypeOK /\ ClusterTypeOK /\ StepFits /\ StatefulSetFits /\ TemplatesFit
  /\ PrimariesKeepRunning => SlotsFit /\ ReshardFits
  /\ failed = {} => ReplicasFit
=============================================================================
