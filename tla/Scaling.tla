------------------------------- MODULE Scaling -------------------------------
(***************************************************************************)
(* Scaling a cluster up and down (internal/reconciler/scale_reconciler.go) *)
(* node by node: which pods become, stay and cease to be primaries, which  *)
(* slots move, whom the cluster forgets, and which pods the StatefulSet    *)
(* takes away. Robin chooses nodes by their role; the StatefulSet always   *)
(* removes the highest ordinals.                                           *)
(*                                                                         *)
(* The handlers call HealMembership and the remediation of roles of module *)
(* Health, which also looks after the cluster once it is Ready again.      *)
(***************************************************************************)
EXTENDS Health, ChangeDetection, Sequences

CONSTANTS
  Resizes,     \* the changes of topology: pairs of what is and what is wanted
  MaxAttempts, \* defaultRebalanceMaxAttempts: 5 in the code
  Fragile      \* bound: pods fail in clusters of at most this size

ASSUME ScalingAssumption ==
  /\ MaxAttempts \in Nat \ {0} /\ Fragile \in Nat
  /\ \A r \in Resizes, i \in 1 .. 2 :
       r[i].primaries \in Nat \ {0} /\ r[i].replicas \in Nat /\ Total(r[i]) <= MaxPods

VARIABLES
  size,   \* the replicas of the StatefulSet
  stage,  \* Status.Status
  shut,   \* pods whose node was shut down: they restart in place
  plan    \* the classification of the nodes a pass works with

scaling == <<size, stage, shut, plan>>
scalingVars == <<vars, scaling>>

NoPlan == [primaries |-> <<>>, replicas |-> <<>>, fill |-> {}, drained |-> {},
           remove |-> <<>>, unmet |-> {}, attempt |-> 0]

Target == Total(spec)

\* The nodes that N has for the pods in S, by ordinal.
ByOrdinal(N, S) ==
  LET At(i) == CHOOSE p \in S : Cardinality({q \in S : q < p}) = i - 1
  IN  [i \in 1 .. Cardinality(S) |-> N[At(i)]]

Anchor == Head(plan.primaries)

-----------------------------------------------------------------------------
(* A pass.                                                                 *)

\* The pass ends; the next one starts from what the cluster says then.
EndPass == Return /\ plan' = NoPlan

GoTo(step) == pc' = step /\ UNCHANGED <<nodes, gone, report, heal, plan>>

\* An answer that HealMembership leaves as it is: slot owners that keep their
\* data and have no replica are waited for.
Quiet(N, g, a) ==
  /\ a.meet => (Range(N) \ a.ids) \ g = {}
  /\ \A x \in a.todo :
       /\ ~Ephemeral
       /\ \E s \in Slots : a.owner[s] = x
       /\ ~\E r \in a.ids \cap Range(N) \cap (alive \ g) :
             a.master[r] = x /\ ~IsPrimary(r)

Silent == Range(Listed) \ alive

\* healTopology asks any of the listed pods. When it changes something the pass
\* ends with that.
healTopology(meetMissing) ==
  \E p \in listed :
    /\ node[p] \in alive
    /\ heal' \in {a \in Answers(Listed, Silent, node[p], meetMissing) :
                    ~Quiet(Listed, Silent, a)}
    /\ pc' = "heal"
    /\ nodes' = Listed
    /\ gone' = Silent
    /\ report' = NoReport
    /\ plan' = NoPlan

\* The seeds that leave it nothing to do.
QuietSeeds(meetMissing) ==
  {x \in Range(Listed) \ Silent :
     \E a \in Answers(Listed, Silent, x, meetMissing) : Quiet(Listed, Silent, a)}

\* ScaleStatefulSet.
ScaleStatefulSet == size' = Target

-----------------------------------------------------------------------------
(* Scale down.                                                             *)

\* Faulty variant: the pods that a StatefulSet takes away first are kept.
Highest(S, n) == {p \in S : Cardinality({q \in S : q > p}) < n}

Lowest(S, n) == {p \in S : Cardinality({q \in S : q < p}) < n}

\* Which nodes to keep is a matter of their role; among those of a role the
\* ones with the lowest ordinals stay.
ScaleDownPlan(N) ==
  LET primaries == {p \in DOMAIN N : IsPrimary(N[p])}
      replicas == DOMAIN N \ primaries
      keepPrimaries == Lowest(primaries, Primaries)
      keepReplicas == Lowest(replicas, Primaries * ReplicasPerPrimary)
      drain == primaries \ keepPrimaries
  IN  [NoPlan EXCEPT
         !.primaries = ByOrdinal(N, keepPrimaries),
         !.replicas = ByOrdinal(N, keepReplicas),
         !.drained = {N[p] : p \in drain},
         !.remove = ByOrdinal(N, replicas \ keepReplicas) \o ByOrdinal(N, drain),
         !.attempt = 1]

\* Faulty variant: a node with an interrupted migration counts as drained.
ScaleDownStepReadable(N, p) ==
  IF Cardinality(DOMAIN N) <= Target THEN "resize"
  ELSE IF \E x \in p.drained : SlotsOf(x) # {} /\ Unreadable(x) = {} THEN "rebalance"
  ELSE "remove"

ScaleDownStep(N, p) ==
  IF Cardinality(DOMAIN N) <= Target THEN "resize"
  ELSE IF \E x \in p.drained : SlotsOf(x) # {} THEN "rebalance"
  ELSE "remove"

\* initAllNodes, refreshRoles and healTopology: every listed pod must answer.
handleScalingDown ==
  /\ pc = "idle" /\ stage = "ScalingDown"
  /\ listed # {} /\ Range(Listed) \subseteq alive
  /\ LET p == ScaleDownPlan(Listed)
     IN  \/ healTopology(TRUE)
         \/ /\ QuietSeeds(TRUE) # {}
            /\ pc' = ScaleDownStep(Listed, p)
            /\ nodes' = Listed
            /\ plan' = p
            /\ UNCHANGED <<gone, report, heal>>
  /\ UNCHANGED <<redisVars, size, stage, shut, lost>>

\* Without pods there is nothing to classify.
handleScalingDownWaits ==
  /\ pc = "idle" /\ stage = "ScalingDown"
  /\ listed = {}
  /\ ScaleStatefulSet
  /\ UNCHANGED <<redisVars, robin, stage, shut, plan>>

\* CLUSTER INFO of node x. A slot owner that is down counts until that has been
\* noticed.
verifyCluster(x) ==
  /\ x \in Reachable
  /\ \A s \in Slots : owner[s] \in known[x]

\* No more nodes than wanted. With fewer, nodes[:targetTotal] is out of range:
\* Robin panics and is restarted.
handleScalingDownResizes ==
  /\ pc = "resize"
  /\ ScaleStatefulSet
  /\ \/ /\ verifyCluster(First)
        /\ Cardinality(DOMAIN nodes) = Target
        /\ GoTo("finish")
     \/ /\ verifyCluster(First) => \/ Cardinality(DOMAIN nodes) < Target
                                   \/ ~(Range(owner) \subseteq alive)
        /\ EndPass
  /\ UNCHANGED <<redisVars, stage, shut, lost>>

\* removeNodes, for one node: CLUSTER FORGET at the nodes that stay, then
\* SHUTDOWN SAVE. What fails is only logged.
Keepers == Range(plan.primaries) \cup Range(plan.replicas)

removeNodes ==
  /\ pc = "remove" /\ plan.remove # <<>>
  /\ LET x == Head(plan.remove)
         obey == Forgetting(x, Keepers \ gone)
         stops == {p \in Pods : node[p] = x /\ x \in Reachable}
         view == [a \in Ids |-> IF a \in obey THEN known[a] \ {x} ELSE known[a]]
     IN  /\ banned' = [a \in Ids |-> IF a \in obey THEN banned[a] \cup {x}
                                     ELSE IF a = x /\ stops # {} THEN {}
                                     ELSE banned[a]]
         /\ IF stops = {} THEN known' = view /\ UNCHANGED <<alive, moved, open, copy>>
            ELSE /\ alive' = alive \ {x}
                 /\ moved' = moved \ {x}
                 /\ open' = {e \in open : x \notin {owner[e[1]], e[2]}}
                 /\ copy' = [copy EXCEPT ![x] = IF Ephemeral THEN {} ELSE @]
                 /\ known' = [view EXCEPT ![x] = IF Ephemeral THEN {} ELSE @]
         /\ shut' = shut \cup stops
  /\ plan' = [plan EXCEPT !.remove = Tail(@)]
  /\ UNCHANGED <<pc, nodes, gone, report, heal, lost, size, stage>>
  /\ UNCHANGED <<node, listed, restarts, fresh, master, owner>>

\* After a pause for gossip to settle.
shrinksStatefulSet ==
  /\ pc = "remove" /\ plan.remove = <<>>
  /\ \A a \in Ids : Heard(a) \subseteq known[a]
  /\ ScaleStatefulSet
  /\ GoTo(IF ReplicasPerPrimary > 0 /\ plan.replicas # <<>> THEN "attach" ELSE "verify")
  /\ UNCHANGED <<redisVars, stage, shut, lost>>

-----------------------------------------------------------------------------
(* Scale up.                                                               *)

growsStatefulSet ==
  /\ pc = "idle" /\ stage = "ScalingUp"
  /\ size # Target
  /\ ScaleStatefulSet
  /\ UNCHANGED <<redisVars, robin, stage, shut, plan>>

\* Nodes are classified by the answer of the first pod: primaries with slots
\* and replicas keep their roles, the others are there to be given one.
ScaleUpPlan(N) ==
  LET joined == {p \in DOMAIN N : N[p] \in known[N[0]]}
      replicas == {p \in joined : ~IsPrimary(N[p])}
      primaries == {p \in joined \ replicas : SlotsOf(N[p]) # {}}
      available == ByOrdinal(N, joined \ (replicas \cup primaries))
                     \o ByOrdinal(N, DOMAIN N \ joined)
      needed == Max({0, Primaries - Cardinality(primaries)})
      first == Min({needed, Len(available)})
  IN  [NoPlan EXCEPT
         !.primaries = ByOrdinal(N, primaries) \o SubSeq(available, 1, first),
         !.replicas = ByOrdinal(N, replicas) \o SubSeq(available, first + 1, Len(available)),
         !.fill = Range(SubSeq(available, 1, first)),
         !.unmet = {N[p] : p \in DOMAIN N \ joined},
         !.attempt = 1]

\* Too few nodes for the primaries: replicas that are too many are promoted.
ScaleUpStep(p) ==
  IF Len(p.primaries) >= Primaries THEN "meet"
  ELSE IF Len(p.replicas) > Primaries * ReplicasPerPrimary THEN "promote"
  ELSE "idle"

handleScalingUp ==
  /\ pc = "idle" /\ stage = "ScalingUp"
  /\ size = Target
  /\ 0 .. Target - 1 \subseteq listed
  /\ LET N == [p \in 0 .. Target - 1 |-> node[p]]
         p == ScaleUpPlan(N)
     IN  /\ Range(N) \subseteq alive
         /\ ScaleUpStep(p) # "idle"
         /\ pc' = ScaleUpStep(p)
         /\ nodes' = N
         /\ plan' = p
  /\ UNCHANGED <<redisVars, gone, report, heal, lost, size, stage, shut>>

\* meetNodes and checkGossipConvergence: the group is introduced to each other.
\* It may take until the next pass for all of A to know all of A.
meets(group, A, step) ==
  /\ IF group \subseteq Reachable
     THEN known' = Met(known, group, group) /\ moved' = moved \ group
     ELSE UNCHANGED <<known, moved>>
  /\ LET converged == A \subseteq Reachable /\ \A x \in A : A \subseteq known'[x]
     IN  \/ converged /\ GoTo(step)
         \/ (~converged \/ known' # known) /\ EndPass

meetsPrimaries ==
  /\ pc = "meet"
  /\ LET unmet == plan.fill \cap plan.unmet
         group == (Range(plan.primaries) \ plan.fill) \cup unmet
     IN  IF unmet = {} THEN GoTo("rebalance") /\ UNCHANGED <<known, moved>>
         ELSE meets(group, group, "rebalance")
  /\ UNCHANGED <<node, listed, alive, restarts, fresh, banned, roles, lost, size, stage, shut>>

meetsReplicas ==
  /\ pc = "replicas"
  /\ LET unmet == Range(plan.replicas) \cap plan.unmet
     IN  IF ReplicasPerPrimary = 0 \/ plan.replicas = <<>>
         THEN GoTo("verify") /\ UNCHANGED <<known, moved>>
         ELSE IF unmet = {} THEN GoTo("attach") /\ UNCHANGED <<known, moved>>
         ELSE meets(Range(plan.primaries) \cup unmet, Keepers, "attach")
  /\ UNCHANGED <<node, listed, alive, restarts, fresh, banned, roles, lost, size, stage, shut>>

-----------------------------------------------------------------------------
(* rebalanceWithRetry, and what both directions end with.                  *)

\* Faulty variant: slots are rebalanced in every pass.
AlwaysMoves == TRUE

\* Faulty variant: only nodes this pass has met are filled.
MovesForNew == stage = "ScalingDown" \/ plan.fill \cap plan.unmet # {}

\* On the way up slots move only when there is a primary to fill.
Moves == stage = "ScalingDown" \/ plan.fill # {}
AfterMove == IF stage = "ScalingDown" THEN "remove" ELSE "replicas"

\* Every attempt begins with healTopology. Before the first one of a scale-up
\* it must be answered; otherwise that is only logged.
healsFirst ==
  /\ pc = "rebalance"
  /\ \/ healTopology(stage = "ScalingDown")
     \/ QuietSeeds(stage = "ScalingDown") # {} /\ GoTo("repair")
     \/ /\ Silent # {}
        /\ IF stage = "ScalingUp" /\ plan.attempt = 1 THEN EndPass ELSE GoTo("repair")
  /\ UNCHANGED <<redisVars, size, stage, shut, lost>>

mastersReachable ==
  /\ Anchor \in Reachable
  /\ \A y \in known[Anchor] : IsPrimary(y) => y \in alive \ (moved \ {Anchor})

NeedsFix == open # {} \/ \E s \in Slots : owner[s] \notin known[Anchor]

runClusterFix ==
  IF Anchor \in Reachable /\ CanFix(Anchor)
  THEN owner' \in Fixed(Anchor) /\ copy' = FixedCopy(Anchor) /\ open' = {}
  ELSE UNCHANGED <<owner, copy, open>>

\* A failed repair is only logged when a rebalance follows.
recoverOpenSlots ==
  /\ pc = "repair"
  /\ IF NeedsFix /\ (Moves => mastersReachable) THEN runClusterFix
     ELSE UNCHANGED <<owner, copy, open>>
  /\ IF Moves THEN IF mastersReachable THEN GoTo("move") ELSE EndPass
     ELSE IF Anchor \in Reachable /\ (NeedsFix => CanFix(Anchor))
     THEN GoTo("replicas") ELSE EndPass
  /\ UNCHANGED <<pods, views, master, lost, size, stage, shut>>

\* redis-cli refuses weights of nodes that are not primaries.
WeightsValid ==
  stage = "ScalingDown" =>
    \A x \in Range(plan.primaries) \cup plan.drained : x \in known[Anchor] /\ IsPrimary(x)

LastAttempt == plan.attempt = MaxAttempts

runRebalanceOnce ==
  /\ pc = "move"
  /\ IF WeightsValid THEN Rebalance("rebalance", Anchor, plan.drained)
     ELSE UNCHANGED <<owner, copy, open, lost>>
  /\ IF WeightsValid /\ Rebalances(Anchor) /\ lost' = lost THEN GoTo("stable")
     ELSE IF LastAttempt THEN EndPass ELSE GoTo("retry")
  /\ UNCHANGED <<pods, views, master, size, stage, shut>>

retries ==
  /\ pc = "retry"
  /\ runClusterFix
  /\ pc' = "rebalance"
  /\ plan' = [plan EXCEPT !.attempt = @ + 1]
  /\ UNCHANGED <<nodes, gone, report, heal>>
  /\ UNCHANGED <<pods, views, master, lost, size, stage, shut>>

\* slotsStable; on the way down the drained primaries must have no slots left.
slotsStable ==
  /\ pc = "stable"
  /\ IF /\ Anchor \in Reachable
        /\ Unreadable(Anchor) = {}
        /\ plan.drained \subseteq Reachable
        /\ \A x \in plan.drained : SlotsOf(x) = {}
     THEN GoTo(AfterMove) ELSE EndPass
  /\ UNCHANGED <<redisVars, size, stage, shut, lost>>

\* The i-th replica follows the primary of its share.
PrimaryFor(i) ==
  plan.primaries[Min({Len(plan.primaries), 1 + ((i - 1) \div ReplicasPerPrimary)})]

Follows(i) == master[plan.replicas[i]] = PrimaryFor(i)

\* setReplicas stops at the first replica that cannot be attached; without a
\* primary to attach it to, primaries[-1] is out of range and Robin panics.
setReplicas ==
  /\ pc = "attach"
  /\ LET all == DOMAIN plan.replicas
         refused == {i \in all : \/ plan.replicas[i] \notin Reachable
                                 \/ ~Follows(i) /\ ~CanReplicate(plan.replicas[i], PrimaryFor(i))}
         reached == {i \in all : \A j \in refused : i < j}
     IN  IF plan.primaries = <<>> \/ ~(Keepers \subseteq Reachable)
         THEN EndPass /\ UNCHANGED master
         ELSE /\ master' = [x \in Ids |->
                              IF \E i \in reached : plan.replicas[i] = x
                              THEN PrimaryFor(CHOOSE i \in reached : plan.replicas[i] = x)
                              ELSE master[x]]
              /\ IF refused = {} THEN GoTo("verify") ELSE EndPass
  /\ UNCHANGED <<pods, views, owner, open, copy, lost, size, stage, shut>>

\* A scale-down that keeps no node has none to ask.
verifies ==
  /\ pc = "verify"
  /\ LET asked == IF stage = "ScalingUp" THEN <<First>> ELSE plan.primaries \o plan.replicas
     IN  IF asked = <<>> THEN EndPass
         ELSE \/ verifyCluster(Head(asked)) /\ GoTo("finish")
              \/ /\ ~(verifyCluster(Head(asked)) /\ Range(owner) \subseteq alive)
                 /\ EndPass
  /\ UNCHANGED <<redisVars, size, stage, shut, lost>>

\* ensureReplicaTopology: membership first, then the roles, from the answer of
\* the same seed. A scaling ends when there is nothing to do.
ensureReplicaTopology ==
  /\ pc \in {"finish", "promote"}
  /\ \/ healTopology(TRUE) /\ UNCHANGED stage
     \/ Silent # {} /\ EndPass /\ UNCHANGED stage
     \/ \E seed \in QuietSeeds(TRUE) :
          IF replicaSpreadOK(known[seed])
          THEN EndPass /\ stage' = IF pc = "finish" THEN "Ready" ELSE stage
          ELSE /\ pc' = "spread"
               /\ nodes' = Listed
               /\ gone' = Silent
               /\ report' = [ids |-> known[seed], master |-> master, owner |-> owner,
                             busy |-> Unreadable(seed), wrong |-> {"spread"}]
               /\ plan' = NoPlan
               /\ UNCHANGED <<heal, stage>>
  /\ UNCHANGED <<redisVars, size, shut, lost>>

\* Robin is restarted, or a call fails that ends the pass.
interrupted ==
  /\ pc # "idle" /\ MayLose("restart")
  /\ lost' = lost + 1
  /\ EndPass
  /\ UNCHANGED <<redisVars, size, stage, shut>>

-----------------------------------------------------------------------------
(* The StatefulSet controller takes away the pods above its size and starts *)
(* those below it.                                                          *)

Unlist(p) == gone' = IF pc = "idle" THEN {} ELSE gone \cup {node[p]}

KubeStopsPod(p) ==
  /\ p \in listed /\ p >= size
  /\ IF node[p] \in alive THEN NodeStops(p)
     ELSE UNCHANGED <<node, alive, moved, fresh, views, roles>>
  /\ listed' = listed \ {p}
  /\ shut' = shut \ {p}
  /\ Unlist(p)
  /\ UNCHANGED <<restarts, pc, nodes, report, heal, lost, size, stage, plan>>

KubeStartsPod(p) ==
  /\ p < size
  /\ PodReturns(p, p \in shut \/ \A x \in alive : node[p] \notin known[x])
  /\ shut' = shut \ {p}
  /\ UNCHANGED <<robin, size, stage, plan>>

Fails(p) ==
  /\ p < size /\ Max({size, Target}) <= Fragile
  /\ PodFails(p)
  /\ Unlist(p)
  /\ UNCHANGED <<pc, nodes, report, heal, lost, scaling>>

\* The minute for which nodes are forgotten ends.
BansExpire ==
  /\ \E x \in Ids : banned[x] # {}
  /\ banned' = [x \in Ids |-> {}]
  /\ UNCHANGED <<pods, known, roles>>

ClusterSettles ==
  \/ \E x \in Ids : Reconnects(x) \/ GossipReaches(x) \/ Syncs(x)
  \/ BansExpire

-----------------------------------------------------------------------------
Scale ==
  \/ handleScalingDown \/ handleScalingDownWaits \/ handleScalingDownResizes
  \/ removeNodes \/ shrinksStatefulSet
  \/ growsStatefulSet \/ handleScalingUp \/ meetsPrimaries \/ meetsReplicas
  \/ healsFirst \/ recoverOpenSlots \/ runRebalanceOnce \/ retries \/ slotsStable
  \/ setReplicas \/ verifies \/ ensureReplicaTopology
  \/ interrupted

\* Once Ready, the cluster is checked in every cycle. The first comes an
\* interval later: the pods above the size are gone by then.
Heals ==
  /\ \/ stage = "Ready" /\ Check /\ \A p \in listed : p < size
     \/ Remediate
  /\ UNCHANGED scaling

Robin == (Scale \/ Heals) /\ UNCHANGED spec

Direction(r) ==
  IF determineScaleDirection(r[1], r[2]) = "ScaleUp" THEN "ScalingUp" ELSE "ScalingDown"

ScalingInit ==
  /\ \E r \in Resizes, k \in Storage :
       /\ spec = [primaries |-> r[2].primaries, replicas |-> r[2].replicas,
                  storage |-> k]
       /\ AsCreated(r[1])
       /\ size = Total(r[1])
       /\ stage = Direction(r)
  /\ RobinInit
  /\ shut = {}
  /\ plan = NoPlan

Controller == \E p \in Pods : KubeStopsPod(p) \/ KubeStartsPod(p)

ScalingNext ==
  \/ Robin
  \/ (Controller \/ \E p \in Pods : Fails(p)) /\ UNCHANGED spec
  \/ /\ ClusterSettles \/ \E x \in Ids : FailsOver(x)
     /\ UNCHANGED <<spec, robin, scaling>>

ScalingSpec == ScalingInit /\ [][ScalingNext]_scalingVars

\* Robin's passes, the StatefulSet controller, gossip, replication and the end
\* of a ban go on by themselves, each for itself. healTopology takes its seed
\* from a Go map: a pod that would show it something to heal comes first again
\* and again.
Alone == UNCHANGED <<spec, robin, scaling>>

ScalingFairness ==
  /\ WF_scalingVars(Robin)
  /\ SF_scalingVars(Robin /\ pc # "heal" /\ pc' = "heal")
  /\ \A p \in Pods : WF_scalingVars(KubeStopsPod(p) /\ UNCHANGED spec)
  /\ \A p \in Pods : WF_scalingVars(KubeStartsPod(p) /\ UNCHANGED spec)
  /\ \A x \in Ids : WF_scalingVars(GossipReaches(x) /\ Alone)
  /\ \A x \in Ids : WF_scalingVars((Reconnects(x) \/ Syncs(x)) /\ Alone)
  /\ WF_scalingVars(BansExpire /\ Alone)

FairScaling == ScalingSpec /\ ScalingFairness

-----------------------------------------------------------------------------
\* A pass has a plan only while it runs, and no more attempts to rebalance than
\* defaultRebalanceMaxAttempts.
ScalingTypeOK ==
  /\ StateTypeOK
  /\ pc \in HealthSteps \cup
           {"resize", "remove", "meet", "replicas", "rebalance", "repair", "move",
            "retry", "stable", "attach", "verify", "finish", "promote"}
  /\ size \in 1 .. MaxPods
  /\ stage \in {"ScalingUp", "ScalingDown", "Ready"}
  /\ shut \subseteq Pods
  /\ plan.attempt \in 0 .. MaxAttempts
  /\ plan # NoPlan => pc # "idle"

\* As long as no pod fails, every slot has an owner that runs and has its data,
\* throughout the scaling: no node is shut down that owns slots, whatever a
\* rebalance that was cut off left, and whatever Robin had done of the removal
\* when it was restarted.
ServedThroughout == restarts = 0 => \A s \in Slots : Served(s)

\* As long as no pod fails, the StatefulSet takes no pod away whose node owns
\* slots: the primaries handleScalingDown drains and removes by role are the ones
\* that go by ordinal, wherever a pass is interrupted. When a pod fails this is
\* not so: with fewer pods listed than wanted the StatefulSet is shrunk without
\* a drain, and after a failover the primaries that are kept may be those with
\* the highest ordinals.
OnlyEmptyPodsGo ==
  [][\A p \in listed \ listed' :
       p >= size /\ restarts = 0 => SlotsOf(node[p]) = {}]_scalingVars

\* As long as no pod fails, a rebalance gives slots to no node that the same
\* pass means to attach as a replica, although the nodes met in an earlier pass
\* look like empty primaries. When the first pod comes back with an old view it
\* may: primaries then count as nodes that are still to be met.
SlotsGoToPrimaries ==
  [][pc = "move" /\ pc' # "move" /\ restarts = 0
       => Range(owner') \subseteq Range(owner) \cup Range(plan.primaries)]_scalingVars

\* The nodes of the pods that stay.
Kept == {node[p] : p \in 0 .. Target - 1}

\* As long as no pod fails, Ready is written (finishScaling) only when scaling
\* is done, wherever earlier passes were interrupted: the StatefulSet has its
\* size, no migration is open, and as many primaries as are wanted own the slots,
\* none of them on a pod that goes. A replica that was kept may be on such a pod.
ReadyMeansScaled ==
  [][stage' # stage /\ restarts = 0 =>
       /\ size = Target
       /\ open = {}
       /\ Cardinality(Range(owner)) = Primaries
       /\ \A x \in Range(owner) : x \in Kept /\ IsPrimary(x)]_scalingVars

\* Ready, with a healthy cluster of the wanted topology.
Scaled ==
  /\ stage = "Ready"
  /\ listed = 0 .. Target - 1
  /\ Range(Listed) \subseteq alive
  /\ Wrong(Listed, node[0]) = {}

\* A pod that was taken away owns slots.
SlotsCutOff == \E p \in Pods \ listed : p >= size /\ SlotsOf(node[p]) # {}

\* Scaling ends with the wanted topology, whatever a pass was interrupted in:
\* the passes of the handlers, healTopology and the remediation of roles do not
\* undo each other for ever. Only slots on a pod that is taken away, or a first
\* pod the others have forgotten, keep the cluster from it.
ScalingCompletes == <>[](Scaled \/ Stranded \/ SlotsCutOff)

-----------------------------------------------------------------------------
(* Why the types hold.                                                     *)

PlanFields == {"primaries", "replicas", "fill", "drained", "remove", "unmet", "attempt"}

\* Remediation works without a plan, and a retry is never the last attempt.
PlanFits ==
  /\ DOMAIN plan = PlanFields
  /\ DOMAIN plan.replicas \subseteq Nat
  /\ plan # NoPlan => pc \notin HealthSteps
  /\ pc = "retry" => plan.attempt < MaxAttempts

\* Pods that keep their storage keep their node, so none needs a new ID.
SpecFits ==
  /\ Primaries \in Nat /\ ReplicasPerPrimary \in Nat
  /\ Target \in 1 .. MaxPods
  /\ ~Ephemeral

\* The strengthening from which the proofs derive ScalingTypeOK: bookkeeping of
\* the model.
ScalingIInv == ScalingTypeOK /\ MemoryFits /\ PlanFits /\ SpecFits
=============================================================================
