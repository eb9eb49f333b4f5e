-------------------------------- MODULE Health --------------------------------
(***************************************************************************)
(* The health check of a Ready cluster and the remediation that follows it *)
(* (internal/health/checker.go, internal/reconciler/health_reconciler.go). *)
(* Robin lists the pods, asks one node for its view of the cluster, and    *)
(* then acts on that report command by command while pods fail and return, *)
(* gossip spreads and Redis fails over.                                    *)
(***************************************************************************)
EXTENDS RedisCluster

CONSTANTS
  Storage,   \* the values of Spec.Ephemeral: "ephemeral", "persistent"
  Topology,  \* the primaries and replicas of the spec
  Losable,   \* commands that may fail: see Commands
  MaxLost    \* bound: how many of them do

Commands == {"takeover", "forget", "drain", "rebalance", "restart"}

ASSUME HealthAssumption ==
  /\ Losable \subseteq Commands /\ MaxLost \in Nat
  /\ Storage \subseteq {"ephemeral", "persistent"}

VARIABLES
  pc,      \* the step of Reconcile that comes next
  nodes,   \* buildHealthNodes: the pods that were listed, and their nodes
  gone,    \* nodes that left the address that nodes has for them
  report,  \* the Report of the check: what the seed answered, what is wrong
  heal,    \* HealMembership: the answer it works on, and what is left of it
  lost     \* commands that failed so far

robin == <<pc, nodes, gone, report, heal, lost>>
vars == <<spec, redisVars, robin>>

NoReport == [ids |-> {}, master |-> <<>>, owner |-> <<>>, busy |-> {}, wrong |-> {}]
NoHeal == [todo |-> {}, ids |-> {}, master |-> <<>>, owner |-> <<>>,
           orphaned |-> FALSE, seed |-> None, meet |-> FALSE]

Listed == [p \in listed |-> node[p]]
Members == Range(nodes)
First == nodes[Min(DOMAIN nodes)]

\* The nodes that answer at the address Robin has.
Reachable == alive \ gone

MayLose(command) == command \in Losable /\ lost < MaxLost

-----------------------------------------------------------------------------
(* The checks, on the answer of one node.                                  *)

\* The seed's own line shows its interrupted migrations; ParseSlotRanges
\* gives up on such a line.
Unreadable(seed) ==
  IF \E e \in open : seed \in {owner[e[1]], e[2]} THEN {seed} ELSE {}

checkMembership(N, seed) ==
  /\ known[seed] \subseteq alive \ (moved \ {seed})
  /\ Cardinality(known[seed]) = Cardinality(Range(N))
  /\ \A x \in Range(N) : x \in alive /\ known[x] = known[seed]

slotsCovered(seed) ==
  /\ Unreadable(seed) = {}
  /\ \A s \in Slots : owner[s] \in known[seed]

\* ReplicaSpreadOK: without replicas, the primaries are not counted.
replicaSpreadOK(ids) ==
  LET primaries == {x \in ids : IsPrimary(x)}
  IN  IF ReplicasPerPrimary = 0 THEN ids \subseteq primaries
      ELSE /\ Cardinality(primaries) = Primaries
           /\ \A x \in ids \ primaries : master[x] \in primaries
           /\ \A x \in primaries :
                Cardinality(ReplicasOf(x) \cap ids) = ReplicasPerPrimary

CeilShare(n) == (NumSlots + n - 1) \div n

balanced(seed) ==
  LET primaries == {x \in known[seed] : IsPrimary(x)}
      share == CeilShare(Cardinality(primaries))
      slack == (share * 2) \div 100
  IN  /\ Unreadable(seed) = {}
      /\ primaries # {}
      /\ \A x \in primaries :
           LET n == Cardinality(SlotsOf(x))
           IN  n > 0 /\ n \in share - slack .. share + slack

\* redis-cli --cluster check.
clusterCheckOK(seed) ==
  open = {} /\ \A s \in Slots : owner[s] \in known[seed] \cap alive

Wrong(N, seed) ==
  {step \in {"membership", "slots", "spread", "check", "balance"} :
     \/ step = "membership" /\ ~checkMembership(N, seed)
     \/ step = "slots" /\ ~slotsCovered(seed)
     \/ step = "spread" /\ ~replicaSpreadOK(known[seed])
     \/ step = "check" /\ ~clusterCheckOK(seed)
     \/ step = "balance" /\ ~balanced(seed)}

\* The remediation pipeline, in its order.
Pipeline == <<"membership", "slots", "spread", "check", "balance">>
StepsFrom(i, wrong) == {j \in i .. 5 : Pipeline[j] \in wrong}
StepFrom(i, wrong) == IF StepsFrom(i, wrong) = {} THEN "idle"
                      ELSE Pipeline[Min(StepsFrom(i, wrong))]

\* The cycle ends: nothing but the cluster itself carries over to the next.
Return ==
  /\ pc' = "idle"
  /\ nodes' = <<>>
  /\ gone' = {}
  /\ report' = NoReport
  /\ heal' = NoHeal

\* On to the next check that failed, with the same report.
Proceed(i) ==
  LET next == StepFrom(i, report.wrong)
  IN  IF next = "idle" THEN Return
      ELSE pc' = next /\ UNCHANGED <<nodes, gone, report, heal>>

\* buildHealthNodes and Check: the first node that answers is the seed.
Check ==
  /\ pc = "idle"
  /\ \E p \in listed : node[p] \in alive
  /\ LET N == Listed
         seed == node[Min({p \in listed : node[p] \in alive})]
         wrong == Wrong(N, seed)
     IN  IF wrong = {} THEN UNCHANGED robin
         ELSE /\ pc' = StepFrom(1, wrong)
              /\ nodes' = N
              /\ gone' = Range(N) \ alive
              /\ UNCHANGED <<heal, lost>>
              /\ report' = IF "membership" \in wrong THEN NoReport
                           ELSE [ids |-> known[seed], master |-> master,
                                 owner |-> owner, busy |-> Unreadable(seed),
                                 wrong |-> wrong]
  /\ UNCHANGED redisVars

-----------------------------------------------------------------------------
(* Membership: HealMembership, with meetMissing.                           *)

\* ClusterMeetWait: the pause after membership changed. It is taken to be
\* long enough for gossip to settle.
WaitForGossip ==
  /\ pc = "wait"
  /\ \A a \in Ids : Heard(a) \subseteq known[a]
  /\ Return
  /\ UNCHANGED <<redisVars, lost>>

\* Members whose address in an answer is not the one that was listed: the
\* answer or the list, from which the nodes in g are gone, is out of date.
Readdressed(g) == (moved \ g) \cup ((alive \cap g) \ moved)

\* CLUSTER NODES of the seed, when the pods in N are listed. A member is stale
\* when its address is not that of a listed pod, or when it is down and the
\* answer says so.
Answers(N, g, seed, meetMissing) ==
  LET current == known[seed] \ (Readdressed(g) \ {seed})
  IN  {[todo |-> (known[seed] \ (current \cap Range(N))) \cup failing,
        ids |-> current, master |-> master, owner |-> owner,
        orphaned |-> FALSE, seed |-> seed, meet |-> meetMissing] :
         failing \in SUBSET ((known[seed] \cap Range(N)) \ alive)}

\* A Ready cluster is healed from its first pod.
HealRead ==
  /\ pc = "membership"
  /\ IF First \notin Reachable THEN Return
     ELSE /\ heal' \in Answers(nodes, gone, First, TRUE)
          /\ pc' = "heal"
          /\ UNCHANGED <<nodes, gone, report>>
  /\ UNCHANGED <<redisVars, lost>>

OwnedSlots(x) == \E s \in Slots : heal.owner[s] = x

\* Faulty variant: it looks for the ID of the primary itself.
PromotableOfItself(x) ==
  {r \in heal.ids \cap Members \cap Reachable : r = x /\ ~IsPrimary(r)}

\* The replicas that promoteReplicaOfDeadMaster finds and that obey.
Promotable(x) ==
  {r \in heal.ids \cap Members \cap Reachable : heal.master[r] = x /\ ~IsPrimary(r)}

HealDone(x) == heal' = [heal EXCEPT !.todo = @ \ {x}]

promoteReplicaOfDeadMaster(x) ==
  /\ pc = "heal" /\ x \in heal.todo
  /\ OwnedSlots(x)
  /\ \E r \in Promotable(x) : TakesOver(r)
  /\ HealDone(x)
  /\ UNCHANGED <<pods, views, open, copy, pc, nodes, gone, report, lost>>

\* A slot owner without a replica that obeys waits for its pod, unless its
\* data went with the pod.
leaveSlotOwner(x) ==
  /\ pc = "heal" /\ x \in heal.todo
  /\ OwnedSlots(x)
  /\ ~Ephemeral
  /\ Promotable(x) = {}
  /\ HealDone(x)
  /\ UNCHANGED <<redisVars, pc, nodes, gone, report, lost>>

\* CLUSTER FORGET at every listed node, the seed included. One that cannot
\* be reached keeps the entry.
forgetFromAllPeers(x) ==
  /\ pc = "heal" /\ x \in heal.todo
  /\ OwnedSlots(x) => Ephemeral
  /\ LET obey == Forgetting(x, Members \ gone)
         promotable == OwnedSlots(x) /\ Promotable(x) # {}
     IN  \E missed \in {{}} \cup {{a} : a \in obey} :
           LET failures == (IF promotable THEN {"takeover"} ELSE {})
                             \cup (IF missed = {} THEN {} ELSE {"forget"})
           IN  /\ failures \subseteq Losable
               /\ lost + Cardinality(failures) <= MaxLost
               /\ lost' = lost + Cardinality(failures)
               /\ known' = [a \in Ids |-> IF a \in obey \ missed THEN known[a] \ {x}
                                          ELSE known[a]]
               /\ banned' = [a \in Ids |-> IF a \in obey \ missed
                                           THEN banned[a] \cup {x} ELSE banned[a]]
  /\ heal' = [heal EXCEPT !.todo = @ \ {x}, !.orphaned = @ \/ OwnedSlots(x)]
  /\ UNCHANGED <<pods, roles, pc, nodes, gone, report>>

\* CLUSTER MEET of the listed nodes that are missing, from those that are not.
meetFromAllPeers ==
  /\ pc = "heal" /\ heal.todo = {}
  /\ LET missing == IF heal.meet THEN (Members \ heal.ids) \ gone ELSE {}
         peers == (Members \cap heal.ids) \ gone
     IN  /\ known' = Met(known, missing, peers)
         /\ moved' = {x \in moved : ~\E a \in peers : x \in missing /\ x \in known'[a]}
  /\ pc' = IF heal.orphaned THEN "fix" ELSE "wait"
  /\ UNCHANGED <<nodes, gone, report, heal>>
  /\ UNCHANGED <<node, listed, alive, restarts, fresh, banned, roles, lost>>

clusterFix ==
  /\ pc = "fix"
  /\ IF heal.seed \in Reachable /\ CanFix(heal.seed)
     THEN /\ owner' \in Fixed(heal.seed)
          /\ copy' = FixedCopy(heal.seed)
          /\ open' = {}
     ELSE UNCHANGED <<owner, copy, open>>
  /\ pc' = "wait"
  /\ UNCHANGED <<pods, views, master, nodes, gone, report, heal, lost>>

-----------------------------------------------------------------------------
(* Slot coverage.                                                          *)

ReportPrimaries == {x \in report.ids : report.master[x] = None}
ReportReplicas == report.ids \ ReportPrimaries
ReportSlots(x) == {s \in Slots : report.owner[s] = x}

\* The slots no readable line of the report has, and the primaries emptiest
\* first: each is filled up to its share.
SlotTargets == ReportPrimaries \ report.busy
MissingSlots == {s \in Slots : report.owner[s] \notin SlotTargets}
FillOrders ==
  {f \in Bijection(SlotTargets, 1 .. Cardinality(SlotTargets)) :
     \A x, y \in SlotTargets :
       f[x] < f[y] => Cardinality(ReportSlots(x)) <= Cardinality(ReportSlots(y))}

Needed(x) ==
  Max({0, CeilShare(Cardinality(SlotTargets)) - Cardinality(ReportSlots(x))})

Assigned(f, x) ==
  LET before == MapThenSumSet(Needed, {y \in SlotTargets : f[y] < f[x]})
      Place(s) == Cardinality({t \in MissingSlots : t <= s})
  IN  {s \in MissingSlots :
         /\ Needed(x) > 0
         /\ Place(s) > before
         /\ Place(s) <= before + Needed(x) \/ f[x] = Cardinality(SlotTargets)}

\* CLUSTER ADDSLOTS refuses a slot that the node sees owned.
Busy(x, S) == \E s \in S : owner[s] # None /\ owner[s] \in known[x]

\* ADDSLOTS at the primaries of P. Peers take no notice of slots a replica
\* claims.
WithSlots(f, P) ==
  [s \in Slots |->
     IF \E x \in P : s \in Assigned(f, x) /\ IsPrimary(x)
     THEN CHOOSE x \in P : s \in Assigned(f, x) ELSE owner[s]]

\* resolveSlotDisagreement: SETSLOT to the owner any node reports, which also
\* closes the slot; what has no owner goes to the first pod.
Resolvable == {s \in MissingSlots : \E x \in Members \cap Reachable : owner[s] \in known[x]}

resolveSlotDisagreement(o) ==
  /\ open' = {e \in open : e[1] \notin Resolvable}
  /\ IF Resolvable = {} \/ (MissingSlots # Resolvable /\ First \notin Reachable)
     THEN owner' = o /\ Return
     ELSE /\ owner' = [s \in Slots |->
                         IF s \in MissingSlots \ Resolvable /\ IsPrimary(First)
                              /\ o[s] = owner[s]
                         THEN First ELSE o[s]]
          /\ Proceed(3)

remediateSlotCoverage ==
  /\ pc = "slots"
  /\ IF SlotTargets = {} THEN Return /\ UNCHANGED <<owner, open>>
     ELSE \E f \in FillOrders :
            LET targets == {x \in SlotTargets : Assigned(f, x) # {}}
                refused == {x \in targets : x \notin Reachable \/ Busy(x, Assigned(f, x))}
                stop == CHOOSE x \in refused : \A y \in refused : f[x] <= f[y]
                reached == {x \in targets : refused = {} \/ f[x] < f[stop]}
                o == WithSlots(f, reached)
            IN  IF refused = {} THEN owner' = o /\ Proceed(3) /\ UNCHANGED open
                ELSE IF stop \notin Reachable THEN owner' = o /\ Return /\ UNCHANGED open
                ELSE resolveSlotDisagreement(o)
  /\ UNCHANGED <<pods, views, master, copy, lost>>

-----------------------------------------------------------------------------
(* Replica spread.                                                         *)

Following(x) == {r \in ReportReplicas : report.master[r] = x}
Deficit(x) == Max({0, ReplicasPerPrimary - Cardinality(Following(x))})

\* The ways to give n of the nodes to primaries that lack replicas.
Attachments(candidates, targets, n) ==
  UNION {{f \in [M -> targets] :
            \A x \in targets : Cardinality({r \in M : f[r] = x}) <= Deficit(x)} :
         M \in kSubset(n, candidates)}

Obeys(r, x) == r \in Reachable /\ CanReplicate(r, x)

\* CLUSTER REPLICATE one after the other, up to the first that is refused.
Attached(f) ==
  LET obey == {r \in DOMAIN f : Obeys(r, f[r])}
  IN  {[x \in Ids |-> IF x \in done THEN f[x] ELSE master[x]] :
         done \in IF obey = DOMAIN f THEN {obey} ELSE SUBSET obey}

reassignReplicas ==
  LET orphaned == {r \in ReportReplicas : report.master[r] \notin ReportPrimaries}
      Surplus(x) == Max({0, Cardinality(Following(x)) - ReplicasPerPrimary})
      needed == MapThenSumSet(Deficit, ReportPrimaries)
  IN  /\ Cardinality(ReportPrimaries) = Primaries
      /\ \E over \in SUBSET (ReportReplicas \ orphaned) :
           /\ \A x \in ReportPrimaries : Cardinality(over \cap Following(x)) = Surplus(x)
           /\ LET n == Min({Cardinality(orphaned \cup over), needed})
              IN  \E f \in Attachments(orphaned \cup over, ReportPrimaries, n) :
                    /\ orphaned \subseteq DOMAIN f \/ DOMAIN f \subseteq orphaned
                    /\ master' \in Attached(f)
                    /\ IF \A r \in DOMAIN f : Obeys(r, f[r])
                       THEN Proceed(4) ELSE Return
      /\ UNCHANGED <<known, banned, owner, open, copy, lost>>

Excess == Cardinality(ReportPrimaries) - Primaries
EmptyPrimaries == {x \in ReportPrimaries \ report.busy : ReportSlots(x) = {}}

demoteEmptyPrimaries ==
  LET targets == ReportPrimaries \ EmptyPrimaries
      n == Min({Excess, Cardinality(EmptyPrimaries), MapThenSumSet(Deficit, targets)})
  IN  /\ Excess > 0
      /\ EmptyPrimaries # {}
      /\ \E f \in Attachments(EmptyPrimaries, targets, n) : master' \in Attached(f)
      /\ IF n = 0 THEN Proceed(4) ELSE Return
      /\ UNCHANGED <<known, banned, owner, open, copy, lost>>

Rebalances(x) == x \in Reachable /\ CanRebalance(x)

\* A rebalance from x, or one that times out in the middle of a slot when some
\* of the others have moved.
Rebalance(command, x, drained) ==
  \/ /\ Rebalances(x)
     /\ owner' \in Rebalanced(x, drained)
     /\ copy' = Carried(owner')
     /\ UNCHANGED <<open, lost>>
  \/ /\ Rebalances(x)
     /\ MayLose(command)
     /\ \E o \in Rebalanced(x, drained) :
          LET moving == {s \in Slots : o[s] # owner[s]}
          IN  \E s \in moving : \E done \in SUBSET (moving \ {s}) :
                /\ owner' = [t \in Slots |-> IF t \in done THEN o[t] ELSE owner[t]]
                /\ open' = {<<s, o[s]>>}
     /\ copy' = Carried(owner')
     /\ lost' = lost + 1
  \/ ~Rebalances(x) /\ UNCHANGED <<owner, copy, open, lost>>

\* Faulty variant: one primary more than desired is kept.
DrainCountOffByOne == Excess - 1

DrainCount == Min({Excess, Cardinality(ReportPrimaries) - 1})

\* drainPrimaries: those with the fewest slots; a line with an interrupted
\* migration counts as none.
drainSurplusPrimaries ==
  LET Count(x) == IF x \in report.busy THEN 0 ELSE Cardinality(ReportSlots(x))
  IN  /\ Excess > 0
      /\ EmptyPrimaries = {}
      /\ IF DrainCount <= 0 THEN Proceed(4) /\ UNCHANGED <<owner, copy, open, lost>>
         ELSE /\ \E drained \in kSubset(DrainCount, ReportPrimaries) :
                   /\ \A x \in drained, y \in ReportPrimaries \ drained :
                        Count(x) <= Count(y)
                   /\ \E seed \in ReportPrimaries \ drained :
                        Rebalance("drain", seed, drained)
              /\ Return
      /\ UNCHANGED <<known, banned, master>>

\* remediatePrimaryDeficit: CLUSTER RESET SOFT, then MEET again.
CanReset(r) == r \in Reachable /\ (IsPrimary(r) => copy[r] = {})

\* Faulty variant: the last missing primary is not replaced.
PromoteCountOffByOne == -Excess - 1

PromoteCount == Min({-Excess, Cardinality(ReportReplicas) - Primaries * ReplicasPerPrimary})

promoteSurplusReplicas ==
  LET n == PromoteCount
  IN  /\ Excess < 0
      /\ IF n <= 0 THEN Proceed(4) /\ UNCHANGED <<known, master, owner, copy>>
         ELSE /\ \E M \in kSubset(n, ReportReplicas) :
                   LET obey == {r \in M : CanReset(r)}
                   IN  \E reset \in IF obey = M THEN {M} ELSE SUBSET obey :
                         LET view == [x \in Ids |-> IF x \in reset THEN {x} ELSE known[x]]
                         IN  /\ known' = IF reset = M THEN Met(view, M \ gone, Members \ (M \cup gone))
                                         ELSE view
                             /\ master' = [x \in Ids |-> IF x \in reset THEN None
                                                         ELSE master[x]]
                             /\ owner' = [s \in Slots |-> IF owner[s] \in reset THEN None
                                                          ELSE owner[s]]
                             /\ copy' = [x \in Ids |-> IF x \in reset THEN {}
                                                       ELSE copy[x]]
              /\ pc' = "wait" /\ UNCHANGED <<nodes, gone, report, heal>>
      /\ UNCHANGED <<banned, open, lost>>

remediateReplicaSpread ==
  /\ pc = "spread"
  /\ \/ reassignReplicas
     \/ demoteEmptyPrimaries
     \/ drainSurplusPrimaries
     \/ promoteSurplusReplicas
  /\ UNCHANGED pods

-----------------------------------------------------------------------------
(* Cluster check and balance.                                              *)

\* Fix from the first node it works on. All nodes see one owner per slot
\* here, so resolveConfigDisagreement finds nothing to settle and fails.
remediateClusterCheck ==
  /\ pc = "check"
  /\ LET able == {p \in DOMAIN nodes : nodes[p] \in Reachable /\ CanFix(nodes[p])}
     IN  IF able = {} THEN Return /\ UNCHANGED <<owner, copy, open>>
         ELSE /\ owner' \in Fixed(nodes[Min(able)])
              /\ copy' = FixedCopy(nodes[Min(able)])
              /\ open' = {}
              /\ Proceed(5)
  /\ UNCHANGED <<pods, views, master, lost>>

remediateBalance ==
  /\ pc = "balance"
  /\ Rebalance("rebalance", First, {})
  /\ Return
  /\ UNCHANGED <<pods, views, master>>

-----------------------------------------------------------------------------
Remediate ==
  \/ WaitForGossip
  \/ HealRead
  \/ \E x \in heal.todo :
       \/ promoteReplicaOfDeadMaster(x)
       \/ leaveSlotOwner(x)
       \/ forgetFromAllPeers(x)
  \/ meetFromAllPeers
  \/ clusterFix
  \/ remediateSlotCoverage
  \/ remediateReplicaSpread
  \/ remediateClusterCheck
  \/ remediateBalance

Reconcile == (Check \/ Remediate) /\ UNCHANGED spec

RobinInit ==
  /\ pc = "idle"
  /\ nodes = <<>>
  /\ gone = {}
  /\ report = NoReport
  /\ heal = NoHeal
  /\ lost = 0

\* The storage makes no difference when no pod fails.
Init ==
  /\ \E k \in Storage :
       /\ spec = [primaries |-> Topology.primaries, replicas |-> Topology.replicas,
                  storage |-> k]
       /\ \/ AsCreated(Topology)
          \/ Disarranged /\ k = CHOOSE j \in Storage : TRUE
  /\ RobinInit

\* A pod that fails under Robin's hands takes its address with it.
Kubernetes ==
  /\ \/ \E p \in Pods :
          /\ PodFails(p)
          /\ gone' = IF pc = "idle" THEN {} ELSE gone \cup {node[p]}
     \/ (\E p \in Pods : PodReturns(p, FALSE)) /\ UNCHANGED gone
  /\ UNCHANGED <<spec, pc, nodes, report, heal, lost>>

Next ==
  \/ Reconcile
  \/ Kubernetes
  \/ Redis /\ UNCHANGED <<spec, robin>>

Spec == Init /\ [][Next]_vars
FairSpec == Spec /\ RedisFairness /\ WF_vars(Reconcile)

-----------------------------------------------------------------------------
HealthSteps == {"idle", "wait", "heal", "fix"} \cup Range(Pipeline)

\* Between cycles Reconcile remembers no pods.
StateTypeOK ==
  /\ ClusterTypeOK
  /\ pc = "idle" <=> nodes = <<>>
  /\ gone \subseteq Ids
  /\ heal.todo \cup report.ids \subseteq Ids
  /\ lost \in 0 .. MaxLost

\* The types of the cluster and of what Reconcile remembers. No node that is
\* down waits to be reconnected.
TypeOK == pc \in HealthSteps /\ StateTypeOK

\* The check of a cluster whose pods all run finds nothing wrong.
Healthy ==
  /\ Range(node) \subseteq alive
  /\ listed = Pods
  /\ Wrong(node, node[0]) = {}

\* The first pod came back with a nodes.conf that has members which have
\* forgotten it: its own answer shows nothing to heal.
Stranded ==
  /\ ~Ephemeral
  /\ \E x \in Range(Listed) \cap known[node[0]] : node[0] \notin known[x]

\* The drain of a surplus primary timed out in the middle of a slot: no
\* rebalance runs with an open slot, and the step that would close it comes
\* after the one that fails.
DrainBlocked ==
  /\ open # {}
  /\ Cardinality({x \in Range(node) : IsPrimary(x)}) > Primaries

\* The owner of a slot runs and has its data; some running node has them.
Served(s) == owner[s] \in alive /\ s \in copy[owner[s]]
Held(s) == \E x \in alive : s \in copy[x]

\* Remediation converges: from any roles and slots, and once pods stop failing,
\* the cluster becomes healthy, serves the data that any running node has left,
\* and stays so. The steps of Reconcile never undo each other for ever, and all
\* that can keep them from it is a stranded first pod or a blocked drain.
Converges ==
  <>[](\/ Healthy /\ \A s \in Slots : Held(s) => Served(s)
       \/ Stranded
       \/ DrainBlocked)

\* A slot never goes to a node without its data while another node has it.
DataIsKept ==
  [][\A s \in Slots :
       owner'[s] \notin {owner[s], None} /\ s \notin copy'[owner'[s]]
         => \A x \in Ids : s \notin copy[x]]_vars

-----------------------------------------------------------------------------
(* Why the types hold: what Reconcile remembers are pods and nodes that     *)
(* exist, and every new node finds an ID.                                   *)

HealFields == {"todo", "ids", "master", "owner", "orphaned", "seed", "meet"}

\* The pods a pass works with have nodes, and there is a first one.
MemoryFits ==
  /\ DOMAIN nodes \subseteq Pods
  /\ \A p \in DOMAIN nodes : nodes[p] \in Ids
  /\ pc # "idle" => DOMAIN nodes # {}
  /\ DOMAIN heal = HealFields

\* The pods whose node does not run. No two pods run the same node, and a new ID
\* is drawn only for a pod that failed.
Missing == {p \in Pods : node[p] \notin alive}
IdsSuffice ==
  /\ \A p, q \in Pods : node[p] = node[q] => p = q
  /\ fresh \in Nat
  /\ \A p \in Pods : node[p] < fresh
  /\ fresh + Cardinality(Missing) <= MaxPods + 1 + restarts

\* The strengthening from which the proofs derive TypeOK. It is about the
\* bookkeeping of the model and says nothing of the code.
IInv == TypeOK /\ MemoryFits /\ IdsSuffice

\* The pods are those of the spec: what the proofs assume of the constants.
TopologyFits ==
  /\ Topology.primaries \in Nat \ {0} /\ Topology.replicas \in Nat
  /\ Topology.primaries * (1 + Topology.replicas) = MaxPods
=============================================================================
