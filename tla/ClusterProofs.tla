---------------------------- MODULE ClusterProofs ----------------------------
(***************************************************************************)
(* Type correctness of the health check, of the remediation and of scaling *)
(* for any number of pods, slots, failures and lost commands. The lemmas   *)
(* go step by step: first what happens to the cluster by itself, then the  *)
(* remediation that both specifications share, then each of the two.       *)
(***************************************************************************)
EXTENDS Scaling, FiniteSetTheorems, SequenceTheorems, TLAPS

\* A non-empty set of ordinals has a least element, and Min is it: the first pod
\* that answers, that can be fixed, or that is left of a report.
LEMMA MinIsLeast ==
  ASSUME NEW S, S \subseteq Nat, S # {}
  PROVE  Min(S) \in S /\ \A y \in S : Min(S) <= y
<1>1. \E x \in S : \A y \in S : ~ (<<y, x>> \in OpToRel(<, Nat))
  BY NatLessThanWellFounded, WFMin, Zenon
<1>2. PICK x \in S : \A y \in S : ~ (<<y, x>> \in OpToRel(<, Nat))
  BY <1>1
<1>3. \A y \in S : x <= y
  <2> SUFFICES ASSUME NEW y \in S, ~(x <= y) PROVE FALSE
    OBVIOUS
  <2>1. y < x /\ x \in Nat /\ y \in Nat
    OBVIOUS
  <2>2. <<y, x>> \in OpToRel(<, Nat)
    BY <2>1 DEF OpToRel
  <2> QED
    BY <1>2, <2>2
<1> QED
  BY <1>3 DEF Min

LEMMA ConstantTypes ==
  /\ MaxPods \in Nat /\ MaxPods > 0 /\ NumSlots \in Nat /\ MaxRestarts \in Nat
  /\ MaxLost \in Nat
  /\ Pods \subseteq Nat
  /\ Ids \subseteq Nat
  /\ None \notin Ids
BY ClusterAssumption, HealthAssumption DEF Pods, Ids, None

-----------------------------------------------------------------------------
(* Kubernetes and Redis.                                                   *)

LEMMA NodeStopsTypes ==
  ASSUME NEW p \in Pods, ClusterTypeOK, NodeStops(p),
         listed' \subseteq Pods, restarts' \in 0 .. MaxRestarts
  PROVE  ClusterTypeOK'
<1>1. CASE Ephemeral
  BY <1>1 DEF ClusterTypeOK, NodeStops
<1>2. CASE ~Ephemeral
  BY <1>2 DEF ClusterTypeOK, NodeStops
<1> QED
  BY <1>1, <1>2

LEMMA PodFailsTypes ==
  ASSUME NEW p \in Pods, ClusterTypeOK, PodFails(p)
  PROVE  ClusterTypeOK'
<1>1. restarts' \in 0 .. MaxRestarts
  BY ConstantTypes DEF ClusterTypeOK, PodFails
<1>2. listed' \subseteq Pods
  BY DEF ClusterTypeOK, PodFails
<1> QED
  BY <1>1, <1>2, NodeStopsTypes DEF PodFails

LEMMA PodReturnsTypes ==
  ASSUME NEW p \in Pods, NEW same, ClusterTypeOK, PodReturns(p, same),
         Ephemeral => fresh \in Ids
  PROVE  ClusterTypeOK'
<1>1. CASE Ephemeral
  BY <1>1 DEF ClusterTypeOK, PodReturns, roles
<1>2. CASE ~Ephemeral
  <2>1. moved' \in {moved, moved \cup {node[p]}}
    BY <1>2 DEF PodReturns
  <2> QED
    BY <1>2, <2>1 DEF ClusterTypeOK, PodReturns, roles
<1> QED
  BY <1>1, <1>2

\* Gossip, replication and the end of a ban keep the types.
LEMMA SettlesTypes ==
  ASSUME ClusterTypeOK, NEW x \in Ids,
         Reconnects(x) \/ GossipReaches(x) \/ BanExpires(x) \/ Syncs(x)
  PROVE  ClusterTypeOK'
<1>1. CASE Reconnects(x)
  BY <1>1 DEF ClusterTypeOK, Reconnects, views, roles
<1>2. CASE GossipReaches(x)
  <2>1. Heard(x) \subseteq Ids
    BY DEF Heard
  <2>2. known' \in [Ids -> SUBSET Ids]
    BY <1>2, <2>1 DEF ClusterTypeOK, GossipReaches
  <2> QED
    BY <1>2, <2>2 DEF ClusterTypeOK, GossipReaches, pods, roles
<1>3. CASE BanExpires(x)
  BY <1>3 DEF ClusterTypeOK, BanExpires, pods, roles
<1>4. CASE Syncs(x)
  BY <1>4 DEF ClusterTypeOK, Syncs, pods, views
<1> QED
  BY <1>1, <1>2, <1>3, <1>4

LEMMA TakesOverTypes ==
  ASSUME ClusterTypeOK, NEW r \in Ids, TakesOver(r)
  PROVE  /\ owner' \in [Slots -> Ids \cup {None}]
         /\ master' \in [Ids -> Ids \cup {None}]
BY DEF ClusterTypeOK, TakesOver

LEMMA FailsOverTypes ==
  ASSUME ClusterTypeOK, NEW r \in Ids, FailsOver(r)
  PROVE  ClusterTypeOK'
BY TakesOverTypes DEF ClusterTypeOK, FailsOver, pods, views

-----------------------------------------------------------------------------
(* Robin's commands.                                                       *)

LEMMA MetTypes ==
  ASSUME NEW view \in [Ids -> SUBSET Ids], NEW T, NEW P
  PROVE  Met(view, T, P) \in [Ids -> SUBSET Ids]
BY DEF Met

LEMMA FixTypes ==
  ASSUME ClusterTypeOK, NEW x \in Ids, NEW o \in Fixed(x)
  PROVE  o \in [Slots -> Ids \cup {None}]
<1> DEFINE candidates == {y \in known[x] : IsPrimary(y)}
           lostSlots == {s \in Slots : owner[s] \notin known[x]}
<1>1. PICK g \in [lostSlots -> candidates] :
        o = [s \in Slots |-> IF s \in lostSlots THEN g[s]
                             ELSE IF \E e \in Finished(x) : e[1] = s
                                  THEN (CHOOSE e \in Finished(x) : e[1] = s)[2]
                             ELSE owner[s]]
  BY DEF Fixed
<1>2. candidates \subseteq Ids
  BY DEF ClusterTypeOK
<1>3. ASSUME NEW s \in Slots PROVE o[s] \in Ids \cup {None}
  <2>1. CASE s \in lostSlots
    BY <1>1, <1>2, <2>1
  <2>2. CASE s \notin lostSlots /\ \E e \in Finished(x) : e[1] = s
    <3> DEFINE e == CHOOSE d \in Finished(x) : d[1] = s
    <3>1. e \in Finished(x)
      BY <2>2
    <3>2. e[2] \in Ids
      BY <3>1 DEF Finished, ClusterTypeOK
    <3>3. o[s] = e[2]
      BY <1>1, <2>2
    <3> QED
      BY <3>2, <3>3
  <2>3. CASE s \notin lostSlots /\ ~\E e \in Finished(x) : e[1] = s
    BY <1>1, <2>3 DEF ClusterTypeOK
  <2> QED
    BY <2>1, <2>2, <2>3
<1> QED
  BY <1>1, <1>3

LEMMA FixedCopyTypes ==
  ASSUME ClusterTypeOK, NEW x
  PROVE  FixedCopy(x) \in [Ids -> SUBSET Slots]
<1>1. Finished(x) \subseteq Slots \X Ids
  BY DEF Finished, ClusterTypeOK
<1>2. ASSUME NEW y \in Ids PROVE FixedCopy(x)[y] \in SUBSET Slots
  BY <1>1 DEF FixedCopy, ClusterTypeOK
<1> QED
  BY <1>2 DEF FixedCopy

LEMMA CarriedTypes ==
  ASSUME ClusterTypeOK, NEW o
  PROVE  Carried(o) \in [Ids -> SUBSET Slots]
BY DEF ClusterTypeOK, Carried

\* Whatever becomes of a rebalance, slots belong to nodes.
LEMMA RebalanceTypes ==
  ASSUME NEW command, NEW x, NEW drained, ClusterTypeOK, lost \in 0 .. MaxLost,
         Rebalance(command, x, drained)
  PROVE  /\ owner' \in [Slots -> Ids \cup {None}]
         /\ copy' \in [Ids -> SUBSET Slots]
         /\ open' \subseteq Slots \X Ids
         /\ lost' \in 0 .. MaxLost
<1>1. CASE /\ Rebalances(x)
           /\ owner' \in Rebalanced(x, drained)
           /\ copy' = Carried(owner')
           /\ UNCHANGED <<open, lost>>
  <2>1. x \in Ids
    BY <1>1 DEF Rebalances, Reachable, ClusterTypeOK
  <2>2. owner' \in [Slots -> known[x]]
    BY <1>1 DEF Rebalanced
  <2> QED
    BY <1>1, <2>1, <2>2, CarriedTypes DEF ClusterTypeOK
<1>2. CASE /\ Rebalances(x)
           /\ MayLose(command)
           /\ \E o \in Rebalanced(x, drained) :
                LET moving == {s \in Slots : o[s] # owner[s]}
                IN  \E s \in moving : \E done \in SUBSET (moving \ {s}) :
                      /\ owner' = [t \in Slots |-> IF t \in done THEN o[t] ELSE owner[t]]
                      /\ open' = {<<s, o[s]>>}
           /\ copy' = Carried(owner')
           /\ lost' = lost + 1
  <2>1. x \in Ids
    BY <1>2 DEF Rebalances, Reachable, ClusterTypeOK
  <2>2. PICK o \in Rebalanced(x, drained) :
          \E s \in Slots, done \in SUBSET Slots :
            /\ owner' = [t \in Slots |-> IF t \in done THEN o[t] ELSE owner[t]]
            /\ open' = {<<s, o[s]>>}
    BY <1>2
  <2>3. PICK s \in Slots, done \in SUBSET Slots :
            /\ owner' = [t \in Slots |-> IF t \in done THEN o[t] ELSE owner[t]]
            /\ open' = {<<s, o[s]>>}
    BY <2>2
  <2>4. o \in [Slots -> known[x]]
    BY <2>2 DEF Rebalanced
  <2>5. o \in [Slots -> Ids]
    BY <2>1, <2>4 DEF ClusterTypeOK
  <2>6. owner' \in [Slots -> Ids \cup {None}]
    BY <2>3, <2>5 DEF ClusterTypeOK
  <2>7. open' \subseteq Slots \X Ids
    BY <2>3, <2>5
  <2>8. copy' \in [Ids -> SUBSET Slots]
    BY <1>2, CarriedTypes DEF ClusterTypeOK
  <2>9. lost' \in 0 .. MaxLost
    BY <1>2, ConstantTypes DEF MayLose
  <2> QED
    BY <2>6, <2>7, <2>8, <2>9
<1>3. CASE ~Rebalances(x) /\ UNCHANGED <<owner, copy, open, lost>>
  BY <1>3 DEF ClusterTypeOK
<1> QED
  BY <1>1, <1>2, <1>3 DEF Rebalance

-----------------------------------------------------------------------------
(* The steps of Reconcile, in whichever specification.                     *)

Fits == StateTypeOK /\ MemoryFits

LEMMA NothingRemembered ==
  /\ DOMAIN <<>> = {}
  /\ NoHeal.todo = {} /\ DOMAIN NoHeal = HealFields
  /\ NoReport.ids = {}
BY DEF NoHeal, NoReport, HealFields

\* The end of a pass.
LEMMA ReturnFits ==
  ASSUME Return, ClusterTypeOK', lost' \in 0 .. MaxLost
  PROVE  Fits' /\ pc' = "idle"
<1>1. MemoryFits'
  BY NothingRemembered DEF MemoryFits, Return
<1>2. StateTypeOK'
  BY NothingRemembered DEF StateTypeOK, Return
<1> QED
  BY <1>1, <1>2 DEF Return, Fits

\* A pass goes on with what it remembers.
LEMMA GoesOn ==
  ASSUME Fits, pc # "idle", pc' # "idle", UNCHANGED <<nodes, gone, report, heal>>,
         ClusterTypeOK', lost' \in 0 .. MaxLost
  PROVE  Fits'
BY DEF Fits, StateTypeOK, MemoryFits

LEMMA PipelineSteps ==
  /\ \A j \in 1 .. 5 : Pipeline[j] \in HealthSteps \ {"idle"}
  /\ "idle" \in HealthSteps
<1>1. Range(Pipeline) = {"membership", "slots", "spread", "check", "balance"}
  BY DEF Range, Pipeline
<1>2. ASSUME NEW j \in 1 .. 5
      PROVE  Pipeline[j] \in {"membership", "slots", "spread", "check", "balance"}
  BY DEF Pipeline
<1> QED
  BY <1>1, <1>2 DEF HealthSteps

LEMMA StepFromTypes ==
  ASSUME NEW i \in 1 .. 5, NEW wrong
  PROVE  /\ StepFrom(i, wrong) \in HealthSteps
         /\ StepsFrom(i, wrong) # {} => StepFrom(i, wrong) # "idle"
<1>1. StepsFrom(i, wrong) \subseteq 1 .. 5
  BY DEF StepsFrom
<1>2. CASE StepsFrom(i, wrong) = {}
  BY <1>2, PipelineSteps DEF StepFrom
<1>3. CASE StepsFrom(i, wrong) # {}
  <2>1. StepsFrom(i, wrong) \subseteq Nat
    BY <1>1
  <2>2. Min(StepsFrom(i, wrong)) \in 1 .. 5
    BY <1>1, <1>3, <2>1, MinIsLeast
  <2>3. StepFrom(i, wrong) = Pipeline[Min(StepsFrom(i, wrong))]
    BY <1>3 DEF StepFrom
  <2> QED
    BY <2>2, <2>3, PipelineSteps
<1> QED
  BY <1>2, <1>3

\* On to the next failed check, or to the end.
LEMMA ProceedFits ==
  ASSUME Fits, pc # "idle", NEW i \in 1 .. 5, Proceed(i),
         ClusterTypeOK', lost' \in 0 .. MaxLost
  PROVE  Fits' /\ pc' \in HealthSteps
<1>1. CASE StepFrom(i, report.wrong) = "idle"
  <2>1. Return
    BY <1>1 DEF Proceed
  <2> QED
    BY <2>1, ReturnFits, PipelineSteps
<1>2. CASE StepFrom(i, report.wrong) # "idle"
  <2>1. pc' = StepFrom(i, report.wrong) /\ UNCHANGED <<nodes, gone, report, heal>>
    BY <1>2 DEF Proceed
  <2>2. pc' \in HealthSteps
    BY <2>1, StepFromTypes
  <2> QED
    BY <1>2, <2>1, <2>2, GoesOn
<1> QED
  BY <1>1, <1>2

LEMMA ListedFits ==
  ASSUME ClusterTypeOK
  PROVE  /\ DOMAIN Listed = listed
         /\ \A p \in listed : Listed[p] \in Ids
         /\ Range(Listed) \subseteq Ids
BY DEF Listed, Range, ClusterTypeOK

\* The first pod of a pass has a node.
LEMMA FirstIsANode ==
  ASSUME Fits, pc # "idle"
  PROVE  First \in Ids
<1>1. DOMAIN nodes \subseteq Nat
  BY ConstantTypes DEF Fits, MemoryFits
<1> QED
  BY <1>1, MinIsLeast DEF First, Fits, MemoryFits

LEMMA CheckFits ==
  ASSUME Fits, Check
  PROVE  Fits' /\ pc' \in HealthSteps
<1> DEFINE seed == node[Min({p \in listed : node[p] \in alive})]
           wrong == Wrong(Listed, seed)
<1>1. ClusterTypeOK' /\ ClusterTypeOK
  BY DEF Check, Fits, StateTypeOK, ClusterTypeOK, redisVars, pods, views, roles
<1>2. CASE wrong = {}
  <2>1. UNCHANGED robin
    BY <1>2 DEF Check
  <2> QED
    BY <1>1, <2>1, PipelineSteps
       DEF Check, Fits, StateTypeOK, MemoryFits, robin
<1>3. CASE wrong # {}
  <2>1. /\ pc' = StepFrom(1, wrong)
        /\ nodes' = Listed
        /\ gone' = Range(Listed) \ alive
        /\ UNCHANGED <<heal, lost>>
        /\ report' = IF "membership" \in wrong THEN NoReport
                     ELSE [ids |-> known[seed], master |-> master,
                           owner |-> owner, busy |-> Unreadable(seed),
                           wrong |-> wrong]
    BY <1>3 DEF Check
  <2>2. StepsFrom(1, wrong) # {}
    <3>1. PICK w \in wrong : TRUE
      BY <1>3
    <3>2. w \in {"membership", "slots", "spread", "check", "balance"}
      BY <3>1 DEF Wrong
    <3>3. \E j \in 1 .. 5 : Pipeline[j] = w
      BY <3>2 DEF Pipeline
    <3> QED
      BY <3>1, <3>3 DEF StepsFrom
  <2>3. pc' \in HealthSteps \ {"idle"}
    BY <2>1, <2>2, StepFromTypes
  <2>4. PICK p \in listed : node[p] \in alive
    BY DEF Check
  <2>5. seed \in Ids
    <3> DEFINE S == {q \in listed : node[q] \in alive}
    <3>1. S \subseteq Nat /\ S # {}
      BY <1>1, <2>4, ConstantTypes DEF ClusterTypeOK
    <3>2. Min(S) \in S
      <4> HIDE DEF S
      <4> QED
        BY <3>1, MinIsLeast
    <3>3. Min(S) \in Pods
      BY <1>1, <3>2 DEF ClusterTypeOK
    <3> QED
      BY <1>1, <3>3 DEF ClusterTypeOK
  <2>6. report'.ids \subseteq Ids
    BY <1>1, <2>1, <2>5, NothingRemembered DEF ClusterTypeOK
  <2>7. nodes' # <<>>
    BY <2>1, <2>4, <1>1, ListedFits, NothingRemembered
  <2>8. StateTypeOK'
    BY <1>1, <2>1, <2>3, <2>6, <2>7, ListedFits DEF Fits, StateTypeOK
  <2>9. MemoryFits'
    BY <1>1, <2>1, <2>4, ListedFits DEF Fits, MemoryFits, ClusterTypeOK
  <2> QED
    BY <2>3, <2>8, <2>9 DEF Fits
<1> QED
  BY <1>2, <1>3

LEMMA WaitFits ==
  ASSUME Fits, WaitForGossip
  PROVE  Fits' /\ pc' \in HealthSteps
<1>1. ClusterTypeOK' /\ lost' \in 0 .. MaxLost
  BY DEF WaitForGossip, Fits, StateTypeOK, ClusterTypeOK, redisVars, pods, views, roles
<1> QED
  BY <1>1, ReturnFits, PipelineSteps DEF WaitForGossip

\* What HealMembership works on are nodes.
LEMMA AnswersTypes ==
  ASSUME ClusterTypeOK, NEW N, NEW g, NEW seed \in Ids, NEW meet,
         NEW a \in Answers(N, g, seed, meet)
  PROVE  a.todo \subseteq Ids /\ DOMAIN a = HealFields
<1> DEFINE current == known[seed] \ (Readdressed(g) \ {seed})
<1>1. PICK failing \in SUBSET ((known[seed] \cap Range(N)) \ alive) :
        a = [todo |-> (known[seed] \ (current \cap Range(N))) \cup failing,
             ids |-> current, master |-> master, owner |-> owner,
             orphaned |-> FALSE, seed |-> seed, meet |-> meet]
  BY DEF Answers
<1>2. known[seed] \subseteq Ids
  BY DEF ClusterTypeOK
<1> QED
  BY <1>1, <1>2 DEF HealFields

LEMMA HealReadFits ==
  ASSUME Fits, HealRead
  PROVE  Fits' /\ pc' \in HealthSteps
<1>1. ClusterTypeOK' /\ lost' \in 0 .. MaxLost /\ ClusterTypeOK
  BY DEF HealRead, Fits, StateTypeOK, ClusterTypeOK, redisVars, pods, views, roles
<1>2. CASE First \notin Reachable
  BY <1>1, <1>2, ReturnFits, PipelineSteps DEF HealRead
<1>3. CASE First \in Reachable
  <2>1. First \in Ids
    BY <1>1, <1>3 DEF Reachable, ClusterTypeOK
  <2>2. /\ heal' \in Answers(nodes, gone, First, TRUE)
        /\ pc = "membership" /\ pc' = "heal"
        /\ UNCHANGED <<nodes, gone, report>>
    BY <1>3 DEF HealRead
  <2>3. heal'.todo \subseteq Ids /\ DOMAIN heal' = HealFields
    <3>1. PICK seed \in Ids : seed = First
      BY <2>1
    <3>2. heal' \in Answers(nodes, gone, seed, TRUE)
      BY <2>2, <3>1
    <3> QED
      BY <1>1, <3>2, AnswersTypes
  <2> QED
    BY <1>1, <2>2, <2>3 DEF Fits, StateTypeOK, MemoryFits, HealthSteps
<1> QED
  BY <1>2, <1>3

\* A step of HealMembership on one node.
LEMMA HealDoneFits ==
  ASSUME Fits, pc = "heal", UNCHANGED <<pc, nodes, gone, report>>,
         DOMAIN heal' = DOMAIN heal, heal'.todo \subseteq heal.todo,
         ClusterTypeOK', lost' \in 0 .. MaxLost
  PROVE  Fits' /\ pc' \in HealthSteps
BY DEF Fits, StateTypeOK, MemoryFits, HealthSteps

LEMMA promoteFits ==
  ASSUME Fits, NEW x, promoteReplicaOfDeadMaster(x)
  PROVE  Fits' /\ pc' \in HealthSteps
<1>1. PICK r \in Promotable(x) : TakesOver(r)
  BY DEF promoteReplicaOfDeadMaster
<1>2. r \in Ids
  BY DEF Promotable, Reachable, Fits, StateTypeOK, ClusterTypeOK
<1>3. ClusterTypeOK' /\ lost' \in 0 .. MaxLost
  BY <1>1, <1>2, TakesOverTypes
     DEF promoteReplicaOfDeadMaster, Fits, StateTypeOK, ClusterTypeOK, pods, views
<1>4. DOMAIN heal' = DOMAIN heal /\ heal'.todo \subseteq heal.todo
  BY DEF promoteReplicaOfDeadMaster, HealDone, Fits, MemoryFits, HealFields
<1> QED
  BY <1>3, <1>4, HealDoneFits DEF promoteReplicaOfDeadMaster

LEMMA leaveFits ==
  ASSUME Fits, NEW x, leaveSlotOwner(x)
  PROVE  Fits' /\ pc' \in HealthSteps
<1>1. ClusterTypeOK' /\ lost' \in 0 .. MaxLost
  BY DEF leaveSlotOwner, Fits, StateTypeOK, ClusterTypeOK, redisVars, pods, views, roles
<1>2. DOMAIN heal' = DOMAIN heal /\ heal'.todo \subseteq heal.todo
  BY DEF leaveSlotOwner, HealDone, Fits, MemoryFits, HealFields
<1> QED
  BY <1>1, <1>2, HealDoneFits DEF leaveSlotOwner

LEMMA forgetFits ==
  ASSUME Fits, NEW x \in heal.todo, forgetFromAllPeers(x)
  PROVE  Fits' /\ pc' \in HealthSteps
<1> DEFINE obey == Forgetting(x, Members \ gone)
           promotable == OwnedSlots(x) /\ Promotable(x) # {}
<1>1. PICK missed :
        LET failures == (IF promotable THEN {"takeover"} ELSE {})
                          \cup (IF missed = {} THEN {} ELSE {"forget"})
        IN  /\ lost + Cardinality(failures) <= MaxLost
            /\ lost' = lost + Cardinality(failures)
            /\ known' = [a \in Ids |-> IF a \in obey \ missed THEN known[a] \ {x}
                                       ELSE known[a]]
            /\ banned' = [a \in Ids |-> IF a \in obey \ missed
                                        THEN banned[a] \cup {x} ELSE banned[a]]
  BY DEF forgetFromAllPeers
<1> DEFINE failures == (IF promotable THEN {"takeover"} ELSE {})
                         \cup (IF missed = {} THEN {} ELSE {"forget"})
<1>2. Cardinality(failures) \in Nat
  <2>1. IsFiniteSet({"takeover", "forget"})
    <3>1. {"takeover", "forget"} = {"takeover"} \cup {"forget"}
      OBVIOUS
    <3>2. IsFiniteSet({"takeover"})
      BY FS_Singleton
    <3> QED
      BY <3>1, <3>2, FS_AddElement
  <2>2. failures \subseteq {"takeover", "forget"}
    OBVIOUS
  <2> QED
    BY <2>1, <2>2, FS_Subset, FS_CardinalityType
<1>3. x \in Ids
  BY DEF Fits, StateTypeOK
<1>4. known' \in [Ids -> SUBSET Ids] /\ banned' \in [Ids -> SUBSET Ids]
  BY <1>1, <1>3 DEF Fits, StateTypeOK, ClusterTypeOK
<1>5. lost' \in 0 .. MaxLost
  <2> HIDE DEF failures
  <2>1. lost' = lost + Cardinality(failures) /\ lost + Cardinality(failures) <= MaxLost
    BY <1>1 DEF failures
  <2> QED
    BY <1>2, <2>1, ConstantTypes DEF Fits, StateTypeOK
<1>6. ClusterTypeOK'
  BY <1>4 DEF forgetFromAllPeers, Fits, StateTypeOK, ClusterTypeOK, pods, roles
<1>7. DOMAIN heal' = DOMAIN heal /\ heal'.todo \subseteq heal.todo
  BY DEF forgetFromAllPeers, Fits, MemoryFits, HealFields
<1> QED
  BY <1>5, <1>6, <1>7, HealDoneFits DEF forgetFromAllPeers

LEMMA meetFits ==
  ASSUME Fits, meetFromAllPeers
  PROVE  Fits' /\ pc' \in HealthSteps
<1>1. known' \in [Ids -> SUBSET Ids]
  BY MetTypes DEF meetFromAllPeers, Fits, StateTypeOK, ClusterTypeOK
<1>2. ClusterTypeOK' /\ lost' \in 0 .. MaxLost
  BY <1>1 DEF meetFromAllPeers, Fits, StateTypeOK, ClusterTypeOK, roles
<1>3. pc = "heal" /\ pc' \in {"fix", "wait"}
  BY DEF meetFromAllPeers
<1>4. pc' \in HealthSteps
  BY <1>3 DEF HealthSteps
<1> QED
  BY <1>2, <1>3, <1>4, GoesOn DEF meetFromAllPeers

LEMMA clusterFixFits ==
  ASSUME Fits, clusterFix
  PROVE  Fits' /\ pc' \in HealthSteps
<1>1. /\ owner' \in [Slots -> Ids \cup {None}]
      /\ copy' \in [Ids -> SUBSET Slots]
      /\ open' \subseteq Slots \X Ids
  <2>1. CASE heal.seed \in Reachable /\ CanFix(heal.seed)
    <3>1. PICK x \in Ids : x = heal.seed
      BY <2>1 DEF Reachable, Fits, StateTypeOK, ClusterTypeOK
    <3>2. owner' \in Fixed(x) /\ copy' = FixedCopy(x) /\ open' = {}
      BY <2>1, <3>1 DEF clusterFix
    <3> QED
      BY <3>2, FixTypes, FixedCopyTypes DEF Fits, StateTypeOK
  <2>2. CASE ~(heal.seed \in Reachable /\ CanFix(heal.seed))
    BY <2>2 DEF clusterFix, Fits, StateTypeOK, ClusterTypeOK
  <2> QED
    BY <2>1, <2>2
<1>2. ClusterTypeOK' /\ lost' \in 0 .. MaxLost
  BY <1>1 DEF clusterFix, Fits, StateTypeOK, ClusterTypeOK, pods, views
<1>3. pc = "fix" /\ pc' = "wait" /\ pc' \in HealthSteps
  BY DEF clusterFix, HealthSteps
<1> QED
  BY <1>2, <1>3, GoesOn DEF clusterFix

\* Missing slots go to nodes of the report, to owners some node reports or to
\* the first pod.
LEMMA remediateSlotCoverageFits ==
  ASSUME Fits, remediateSlotCoverage
  PROVE  Fits' /\ pc' \in HealthSteps
<1>1. SlotTargets \subseteq Ids
  BY DEF SlotTargets, ReportPrimaries, Fits, StateTypeOK
<1>2. pc # "idle" /\ UNCHANGED <<pods, views, master, copy, lost>>
  BY DEF remediateSlotCoverage
<1>3. ASSUME owner' \in [Slots -> Ids \cup {None}], open' \subseteq Slots \X Ids
      PROVE  ClusterTypeOK' /\ lost' \in 0 .. MaxLost
  BY <1>2, <1>3 DEF Fits, StateTypeOK, ClusterTypeOK, pods, views
<1>4. CASE SlotTargets = {}
  <2>1. Return /\ UNCHANGED <<owner, open>>
    BY <1>4 DEF remediateSlotCoverage
  <2>2. owner' \in [Slots -> Ids \cup {None}] /\ open' \subseteq Slots \X Ids
    BY <2>1 DEF Fits, StateTypeOK, ClusterTypeOK
  <2> QED
    BY <1>3, <2>1, <2>2, ReturnFits, PipelineSteps
<1>5. CASE SlotTargets # {}
  <2>1. PICK f \in FillOrders :
          LET targets == {x \in SlotTargets : Assigned(f, x) # {}}
              refused == {x \in targets : x \notin Reachable \/ Busy(x, Assigned(f, x))}
              stop == CHOOSE x \in refused : \A y \in refused : f[x] <= f[y]
              reached == {x \in targets : refused = {} \/ f[x] < f[stop]}
              o == WithSlots(f, reached)
          IN  \/ owner' = o /\ Proceed(3) /\ UNCHANGED open
              \/ owner' = o /\ Return /\ UNCHANGED open
              \/ resolveSlotDisagreement(o)
    BY <1>5 DEF remediateSlotCoverage
  <2>2. PICK reached \in SUBSET SlotTargets :
          \/ owner' = WithSlots(f, reached) /\ Proceed(3) /\ UNCHANGED open
          \/ owner' = WithSlots(f, reached) /\ Return /\ UNCHANGED open
          \/ resolveSlotDisagreement(WithSlots(f, reached))
    BY <2>1
  <2>3. PICK o : o = WithSlots(f, reached)
    OBVIOUS
  <2>4. o \in [Slots -> Ids \cup {None}]
    <3>1. ASSUME NEW s \in Slots PROVE o[s] \in Ids \cup {None}
      <4>1. CASE \E x \in reached : s \in Assigned(f, x) /\ IsPrimary(x)
        <5>1. o[s] = CHOOSE x \in reached : s \in Assigned(f, x)
          BY <2>3, <4>1 DEF WithSlots
        <5>2. o[s] \in reached
          BY <4>1, <5>1
        <5> QED
          BY <1>1, <5>2
      <4>2. CASE ~\E x \in reached : s \in Assigned(f, x) /\ IsPrimary(x)
        BY <2>3, <4>2 DEF WithSlots, Fits, StateTypeOK, ClusterTypeOK
      <4> QED
        BY <4>1, <4>2
    <3> QED
      BY <2>3, <3>1 DEF WithSlots
  <2>5. open \subseteq Slots \X Ids
    BY DEF Fits, StateTypeOK, ClusterTypeOK
  <2>6. CASE owner' = o /\ Proceed(3) /\ UNCHANGED open
    BY <1>2, <1>3, <2>4, <2>5, <2>6, ProceedFits
  <2>7. CASE owner' = o /\ Return /\ UNCHANGED open
    BY <1>3, <2>4, <2>5, <2>7, ReturnFits, PipelineSteps
  <2>8. CASE resolveSlotDisagreement(o)
    <3>1. open' \subseteq Slots \X Ids
      BY <2>5, <2>8 DEF resolveSlotDisagreement
    <3>2. CASE owner' = o /\ Return
      BY <1>3, <2>4, <3>1, <3>2, ReturnFits, PipelineSteps
    <3>3. CASE /\ owner' = [s \in Slots |->
                              IF s \in MissingSlots \ Resolvable /\ IsPrimary(First)
                                   /\ o[s] = owner[s]
                              THEN First ELSE o[s]]
               /\ Proceed(3)
      <4>1. First \in Ids
        BY <1>2, FirstIsANode
      <4>2. owner' \in [Slots -> Ids \cup {None}]
        BY <2>4, <3>3, <4>1
      <4> QED
        BY <1>2, <1>3, <3>1, <3>3, <4>2, ProceedFits
    <3> QED
      BY <2>8, <3>2, <3>3 DEF resolveSlotDisagreement
  <2> QED
    BY <2>2, <2>3, <2>6, <2>7, <2>8
<1> QED
  BY <1>4, <1>5

\* CLUSTER REPLICATE: whom a node follows is a node.
LEMMA AttachedTypes ==
  ASSUME ClusterTypeOK, NEW C, NEW T \in SUBSET Ids, NEW n,
         NEW f \in Attachments(C, T, n), NEW new \in Attached(f)
  PROVE  new \in [Ids -> Ids \cup {None}]
<1>1. PICK M : f \in [M -> T]
  BY DEF Attachments
<1>2. PICK done : /\ new = [x \in Ids |-> IF x \in done THEN f[x] ELSE master[x]]
                  /\ done \subseteq DOMAIN f
  BY DEF Attached
<1> QED
  BY <1>1, <1>2 DEF ClusterTypeOK

LEMMA ReportTypes ==
  ASSUME Fits
  PROVE  /\ ReportPrimaries \in SUBSET Ids
         /\ ReportReplicas \in SUBSET Ids
BY DEF ReportPrimaries, ReportReplicas, Fits, StateTypeOK

LEMMA reassignFits ==
  ASSUME Fits, pc = "spread", reassignReplicas, UNCHANGED pods
  PROVE  Fits' /\ pc' \in HealthSteps
<1>1. PICK C, n, f :
        /\ f \in Attachments(C, ReportPrimaries, n)
        /\ master' \in Attached(f)
        /\ Proceed(4) \/ Return
  BY DEF reassignReplicas
<1>2. PICK T \in SUBSET Ids : T = ReportPrimaries
  BY ReportTypes
<1>3. PICK new \in Attached(f) : master' = new
  BY <1>1
<1>4. new \in [Ids -> Ids \cup {None}]
  BY <1>1, <1>2, <1>3, AttachedTypes DEF Fits, StateTypeOK
<1>5. ClusterTypeOK' /\ lost' \in 0 .. MaxLost
  BY <1>3, <1>4 DEF reassignReplicas, Fits, StateTypeOK, ClusterTypeOK, pods
<1> QED
  BY <1>1, <1>5, ProceedFits, ReturnFits, PipelineSteps

LEMMA demoteFits ==
  ASSUME Fits, pc = "spread", demoteEmptyPrimaries, UNCHANGED pods
  PROVE  Fits' /\ pc' \in HealthSteps
<1>1. PICK n, f :
        /\ f \in Attachments(EmptyPrimaries, ReportPrimaries \ EmptyPrimaries, n)
        /\ master' \in Attached(f)
  BY DEF demoteEmptyPrimaries
<1>2. PICK T \in SUBSET Ids : T = ReportPrimaries \ EmptyPrimaries
  BY ReportTypes
<1>3. PICK new, C : new \in Attached(f) /\ master' = new /\ C = EmptyPrimaries
  BY <1>1
<1>4. new \in [Ids -> Ids \cup {None}]
  BY <1>1, <1>2, <1>3, AttachedTypes DEF Fits, StateTypeOK
<1>5. ClusterTypeOK' /\ lost' \in 0 .. MaxLost
  BY <1>3, <1>4 DEF demoteEmptyPrimaries, Fits, StateTypeOK, ClusterTypeOK, pods
<1>6. Proceed(4) \/ Return
  BY DEF demoteEmptyPrimaries
<1> QED
  BY <1>5, <1>6, ProceedFits, ReturnFits, PipelineSteps

LEMMA drainFits ==
  ASSUME Fits, pc = "spread", drainSurplusPrimaries, UNCHANGED pods
  PROVE  Fits' /\ pc' \in HealthSteps
<1>1. CASE DrainCount <= 0
  <2>1. Proceed(4) /\ UNCHANGED <<owner, copy, open, lost, known, banned, master>>
    BY <1>1 DEF drainSurplusPrimaries
  <2>2. ClusterTypeOK' /\ lost' \in 0 .. MaxLost
    BY <2>1 DEF Fits, StateTypeOK, ClusterTypeOK, pods
  <2> QED
    BY <2>1, <2>2, ProceedFits
<1>2. CASE ~(DrainCount <= 0)
  <2>1. PICK drained, seed : Rebalance("drain", seed, drained)
    BY <1>2 DEF drainSurplusPrimaries
  <2>2. Return /\ UNCHANGED <<known, banned, master>>
    BY <1>2 DEF drainSurplusPrimaries
  <2>3. ClusterTypeOK' /\ lost' \in 0 .. MaxLost
    <3>1. ClusterTypeOK /\ lost \in 0 .. MaxLost
      BY DEF Fits, StateTypeOK
    <3>2. /\ owner' \in [Slots -> Ids \cup {None}] /\ copy' \in [Ids -> SUBSET Slots]
          /\ open' \subseteq Slots \X Ids /\ lost' \in 0 .. MaxLost
      BY <2>1, <3>1, RebalanceTypes
    <3> QED
      BY <2>2, <3>1, <3>2 DEF ClusterTypeOK, pods
  <2> QED
    BY <2>2, <2>3, ReturnFits, PipelineSteps
<1> QED
  BY <1>1, <1>2

LEMMA promoteSurplusFits ==
  ASSUME Fits, pc = "spread", promoteSurplusReplicas, UNCHANGED pods
  PROVE  Fits' /\ pc' \in HealthSteps
<1> DEFINE n == PromoteCount
<1>1. CASE n <= 0
  <2>1. Proceed(4) /\ UNCHANGED <<known, master, owner, copy, banned, open, lost>>
    BY <1>1 DEF promoteSurplusReplicas
  <2>2. ClusterTypeOK' /\ lost' \in 0 .. MaxLost
    BY <2>1 DEF Fits, StateTypeOK, ClusterTypeOK, pods
  <2> QED
    BY <2>1, <2>2, ProceedFits
<1>2. CASE ~(n <= 0)
  <2>0. PICK M \in kSubset(n, ReportReplicas) :
          LET obey == {r \in M : CanReset(r)}
          IN  \E reset \in IF obey = M THEN {M} ELSE SUBSET obey :
                LET view == [x \in Ids |-> IF x \in reset THEN {x} ELSE known[x]]
                IN  /\ known' = IF reset = M THEN Met(view, M \ gone, Members \ (M \cup gone))
                                ELSE view
                    /\ master' = [x \in Ids |-> IF x \in reset THEN None
                                                ELSE master[x]]
                    /\ owner' = [s \in Slots |-> IF owner[s] \in reset THEN None
                                                 ELSE owner[s]]
                    /\ copy' = [x \in Ids |-> IF x \in reset THEN {} ELSE copy[x]]
    BY <1>2, Zenon DEF promoteSurplusReplicas
  <2>1. PICK reset :
          LET view == [x \in Ids |-> IF x \in reset THEN {x} ELSE known[x]]
          IN  /\ known' = IF reset = M THEN Met(view, M \ gone, Members \ (M \cup gone))
                          ELSE view
              /\ master' = [x \in Ids |-> IF x \in reset THEN None ELSE master[x]]
              /\ owner' = [s \in Slots |-> IF owner[s] \in reset THEN None ELSE owner[s]]
              /\ copy' = [x \in Ids |-> IF x \in reset THEN {} ELSE copy[x]]
    BY <2>0, Zenon
  <2>2. /\ pc' = "wait" /\ UNCHANGED <<nodes, gone, report, heal>>
        /\ UNCHANGED <<banned, open, lost>>
    BY <1>2 DEF promoteSurplusReplicas
  <2>3. PICK view : view = [x \in Ids |-> IF x \in reset THEN {x} ELSE known[x]]
    OBVIOUS
  <2>4. view \in [Ids -> SUBSET Ids]
    BY <2>3 DEF Fits, StateTypeOK, ClusterTypeOK
  <2>5. known' \in [Ids -> SUBSET Ids]
    <3>1. known' \in {Met(view, M \ gone, Members \ (M \cup gone)), view}
      BY <2>1, <2>3
    <3>2. PICK T, P : T = M \ gone /\ P = Members \ (M \cup gone)
      OBVIOUS
    <3>3. Met(view, T, P) \in [Ids -> SUBSET Ids]
      BY <2>4, MetTypes
    <3> QED
      BY <2>4, <3>1, <3>2, <3>3
  <2>6. ClusterTypeOK' /\ lost' \in 0 .. MaxLost
    <3>1. /\ master' \in [Ids -> Ids \cup {None}]
          /\ owner' \in [Slots -> Ids \cup {None}]
          /\ copy' \in [Ids -> SUBSET Slots]
      BY <2>1 DEF Fits, StateTypeOK, ClusterTypeOK
    <3> QED
      BY <2>2, <2>5, <3>1 DEF Fits, StateTypeOK, ClusterTypeOK, pods
  <2>7. pc' \in HealthSteps
    BY <2>2 DEF HealthSteps
  <2> QED
    BY <2>2, <2>6, <2>7, GoesOn
<1> QED
  BY <1>1, <1>2

LEMMA remediateClusterCheckFits ==
  ASSUME Fits, remediateClusterCheck
  PROVE  Fits' /\ pc' \in HealthSteps
<1> DEFINE able == {p \in DOMAIN nodes : nodes[p] \in Reachable /\ CanFix(nodes[p])}
<1>1. pc # "idle" /\ UNCHANGED <<pods, views, master, lost>>
  BY DEF remediateClusterCheck
<1>2. CASE able = {}
  <2>1. Return /\ UNCHANGED <<owner, copy, open>>
    BY <1>2 DEF remediateClusterCheck
  <2>2. ClusterTypeOK' /\ lost' \in 0 .. MaxLost
    BY <1>1, <2>1 DEF Fits, StateTypeOK, ClusterTypeOK, pods, views
  <2> QED
    BY <2>1, <2>2, ReturnFits, PipelineSteps
<1>3. CASE able # {}
  <2>1. /\ owner' \in Fixed(nodes[Min(able)])
        /\ copy' = FixedCopy(nodes[Min(able)])
        /\ open' = {}
        /\ Proceed(5)
    BY <1>3 DEF remediateClusterCheck
  <2>2. Min(able) \in able
    <3>1. able \subseteq Nat
      BY ConstantTypes DEF Fits, MemoryFits
    <3> HIDE DEF able
    <3> QED
      BY <1>3, <3>1, MinIsLeast
  <2>3. PICK x \in Ids : x = nodes[Min(able)]
    BY <2>2 DEF Fits, MemoryFits
  <2>4. owner' \in Fixed(x) /\ copy' = FixedCopy(x)
    BY <2>1, <2>3
  <2>5. /\ owner' \in [Slots -> Ids \cup {None}]
        /\ copy' \in [Ids -> SUBSET Slots]
    BY <2>4, FixTypes, FixedCopyTypes DEF Fits, StateTypeOK
  <2>6. ClusterTypeOK' /\ lost' \in 0 .. MaxLost
    BY <1>1, <2>1, <2>5 DEF Fits, StateTypeOK, ClusterTypeOK, pods, views
  <2> QED
    BY <1>1, <2>1, <2>6, ProceedFits
<1> QED
  BY <1>2, <1>3

LEMMA remediateBalanceFits ==
  ASSUME Fits, remediateBalance
  PROVE  Fits' /\ pc' \in HealthSteps
<1>1. PICK x, drained : Rebalance("rebalance", x, drained)
  BY DEF remediateBalance
<1>2. ClusterTypeOK /\ lost \in 0 .. MaxLost
  BY DEF Fits, StateTypeOK
<1>3. /\ owner' \in [Slots -> Ids \cup {None}] /\ copy' \in [Ids -> SUBSET Slots]
      /\ open' \subseteq Slots \X Ids /\ lost' \in 0 .. MaxLost
  BY <1>1, <1>2, RebalanceTypes
<1>4. ClusterTypeOK'
  BY <1>2, <1>3 DEF remediateBalance, ClusterTypeOK, pods, views
<1> QED
  BY <1>3, <1>4, ReturnFits, PipelineSteps DEF remediateBalance

\* The remediation as a whole.
LEMMA RemediateFits ==
  ASSUME Fits, Remediate
  PROVE  Fits' /\ pc' \in HealthSteps
<1>1. CASE WaitForGossip
  BY <1>1, WaitFits
<1>2. CASE HealRead
  BY <1>2, HealReadFits
<1>3. CASE \E x \in heal.todo : \/ promoteReplicaOfDeadMaster(x)
                                \/ leaveSlotOwner(x)
                                \/ forgetFromAllPeers(x)
  BY <1>3, promoteFits, leaveFits, forgetFits
<1>4. CASE meetFromAllPeers
  BY <1>4, meetFits
<1>5. CASE clusterFix
  BY <1>5, clusterFixFits
<1>6. CASE remediateSlotCoverage
  BY <1>6, remediateSlotCoverageFits
<1>7. CASE remediateReplicaSpread
  BY <1>7, reassignFits, demoteFits, drainFits, promoteSurplusFits
     DEF remediateReplicaSpread
<1>8. CASE remediateClusterCheck
  BY <1>8, remediateClusterCheckFits
<1>9. CASE remediateBalance
  BY <1>9, remediateBalanceFits
<1> QED
  BY <1>1, <1>2, <1>3, <1>4, <1>5, <1>6, <1>7, <1>8, <1>9 DEF Remediate

\* Steps of Kubernetes and of Redis leave what Robin remembers, except for the
\* node that went away.
LEMMA OthersFit ==
  ASSUME Fits, ClusterTypeOK', UNCHANGED <<pc, nodes, report, heal, lost>>,
         gone' \subseteq Ids
  PROVE  Fits'
BY DEF Fits, StateTypeOK, MemoryFits

-----------------------------------------------------------------------------
(* The initial states.                                                     *)

LEMMA FormedTypes ==
  ASSUME NEW n \in 0 .. MaxPods, NEW m \in [1 .. n -> 1 .. n \cup {None}],
         NEW o \in [Slots -> 1 .. n], FormedCluster(n, m, o),
         restarts \in 0 .. MaxRestarts
  PROVE  ClusterTypeOK
<1>1. 1 .. n \subseteq Ids /\ 0 .. n - 1 \subseteq Pods
  BY ConstantTypes DEF Ids, Pods
<1>2. node \in [Pods -> Ids]
  BY ConstantTypes DEF FormedCluster, Pods, Ids
<1>3. listed \subseteq Pods /\ alive \subseteq Ids /\ moved \subseteq alive /\ open = {}
  BY <1>1 DEF FormedCluster
<1>4. known \in [Ids -> SUBSET Ids] /\ banned \in [Ids -> SUBSET Ids]
  BY <1>1 DEF FormedCluster
<1>5. master \in [Ids -> Ids \cup {None}] /\ owner \in [Slots -> Ids \cup {None}]
  BY <1>1 DEF FormedCluster
<1>6. copy \in [Ids -> SUBSET Slots]
  BY DEF FormedCluster
<1> QED
  BY <1>2, <1>3, <1>4, <1>5, <1>6 DEF ClusterTypeOK

\* How many pods a topology has, and whom the x-th of them follows.
LEMMA TopologyArithmetic ==
  ASSUME NEW P \in Nat \ {0}, NEW R \in Nat
  PROVE  /\ P * (1 + R) = P + P * R
         /\ P * R \in Nat
         /\ P * (1 + R) \in Nat /\ P <= P * (1 + R)
<1>1. P * (1 + R) = P + P * R
  OBVIOUS
<1>2. P * R \in Nat
  OBVIOUS
<1> QED
  BY <1>1, <1>2

LEMMA Quotient ==
  ASSUME NEW a \in Nat, NEW b \in Nat \ {0}
  PROVE  a \div b \in 0 .. a
OBVIOUS

LEMMA Remainder ==
  ASSUME NEW a \in Nat, NEW b \in Nat \ {0}
  PROVE  a % b \in 0 .. b - 1
OBVIOUS

LEMMA AsCreatedTypes ==
  ASSUME NEW t, t.primaries \in Nat \ {0}, t.replicas \in Nat,
         t.primaries * (1 + t.replicas) <= MaxPods, AsCreated(t)
  PROVE  /\ ClusterTypeOK
         /\ \E m, o : FormedCluster(t.primaries * (1 + t.replicas), m, o)
<1>1. PICK P \in Nat \ {0}, R \in Nat : P = t.primaries /\ R = t.replicas
  OBVIOUS
<1>2. PICK n : n = P * (1 + R)
  OBVIOUS
<1>3. n \in 0 .. MaxPods /\ P <= n
  BY <1>1, <1>2, TopologyArithmetic, ConstantTypes
<1> DEFINE m == [x \in 1 .. n |-> IF x <= P THEN None ELSE 1 + ((x - P - 1) \div R)]
           o == [s \in Slots |-> 1 + ((s - 1) % P)]
<1>4. FormedCluster(n, m, o) /\ restarts = 0
  BY <1>1, <1>2, Zenon DEF AsCreated
<1>5. m \in [1 .. n -> 1 .. n \cup {None}]
  <2>1. ASSUME NEW x \in 1 .. n, ~(x <= P) PROVE 1 + ((x - P - 1) \div R) \in 1 .. n
    <3>1. R # 0
      BY <1>2, <1>3, <2>1
    <3>2. PICK a \in Nat : a = x - P - 1
      BY <1>3, <2>1
    <3>3. a \div R \in 0 .. a
      BY <3>1, Quotient
    <3> QED
      BY <1>3, <3>2, <3>3
  <2> QED
    BY <2>1
<1>6. o \in [Slots -> 1 .. n]
  <2>1. ASSUME NEW s \in Slots PROVE 1 + ((s - 1) % P) \in 1 .. n
    <3>1. PICK a \in Nat : a = s - 1
      BY ConstantTypes DEF Slots
    <3>2. a % P \in 0 .. P - 1
      BY Remainder
    <3> QED
      BY <1>3, <3>1, <3>2
  <2> QED
    BY <2>1
<1>7. restarts \in 0 .. MaxRestarts
  BY <1>4, ConstantTypes
<1>8. ClusterTypeOK
  <2> HIDE DEF m, o
  <2> QED
    BY <1>3, <1>4, <1>5, <1>6, <1>7, FormedTypes
<1> QED
  BY <1>1, <1>2, <1>4, <1>8

LEMMA DisarrangedTypes ==
  ASSUME Disarranged
  PROVE  /\ ClusterTypeOK
         /\ \E m, o : FormedCluster(MaxPods, m, o)
<1>1. PICK P \in SUBSET (1 .. MaxPods) \ {{}} :
        \E m \in [1 .. MaxPods -> P \cup {None}], o \in [Slots -> P] :
          FormedCluster(MaxPods, m, o)
  BY DEF Disarranged
<1>2. PICK m \in [1 .. MaxPods -> P \cup {None}], o \in [Slots -> P] :
        FormedCluster(MaxPods, m, o)
  BY <1>1
<1>3. m \in [1 .. MaxPods -> 1 .. MaxPods \cup {None}] /\ o \in [Slots -> 1 .. MaxPods]
  BY <1>1
<1>4. restarts \in 0 .. MaxRestarts /\ MaxPods \in 0 .. MaxPods
  BY ConstantTypes DEF Disarranged
<1> QED
  BY <1>2, <1>3, <1>4, FormedTypes

LEMMA RobinInitFits ==
  ASSUME ClusterTypeOK, RobinInit
  PROVE  Fits /\ pc = "idle"
BY NothingRemembered, ConstantTypes DEF RobinInit, Fits, StateTypeOK, MemoryFits

-----------------------------------------------------------------------------
(* Health.                                                                 *)

LEMMA MissingIsFinite ==
  IsFiniteSet(Missing) /\ Cardinality(Missing) \in Nat
<1>1. IsFiniteSet(Pods)
  BY FS_Interval, ConstantTypes DEF Pods
<1>2. Missing \in SUBSET Pods
  BY DEF Missing
<1> QED
  BY <1>1, <1>2, FS_Subset, FS_CardinalityType

LEMMA FormedIdsSuffice ==
  ASSUME NEW m, NEW o, FormedCluster(MaxPods, m, o), ClusterTypeOK
  PROVE  IdsSuffice
<1>1. \A p \in Pods : node[p] = p + 1
  BY DEF FormedCluster
<1>2. Missing = {}
  BY ConstantTypes DEF FormedCluster, Missing, Pods
<1>3. Cardinality(Missing) = 0
  BY <1>2, FS_EmptySet
<1>4. fresh = MaxPods + 1
  BY DEF FormedCluster
<1> QED
  BY <1>1, <1>3, <1>4, ConstantTypes DEF IdsSuffice, ClusterTypeOK, Pods

LEMMA HealthInit ==
  ASSUME TopologyFits, Init
  PROVE  IInv
<1>1. ClusterTypeOK /\ \E m, o : FormedCluster(MaxPods, m, o)
  <2>1. CASE AsCreated(Topology)
    BY <2>1, AsCreatedTypes, ConstantTypes DEF TopologyFits
  <2>2. CASE Disarranged
    BY <2>2, DisarrangedTypes
  <2> QED
    BY <2>1, <2>2 DEF Init
<1>2. Fits /\ pc = "idle"
  BY <1>1, RobinInitFits DEF Init
<1>3. IdsSuffice
  BY <1>1, FormedIdsSuffice
<1> QED
  BY <1>2, <1>3, PipelineSteps DEF IInv, TypeOK, Fits

\* Robin starts and stops no pods.
LEMMA ReconcileLeavesPods ==
  ASSUME Check \/ Remediate
  PROVE  UNCHANGED <<node, alive, fresh, restarts, listed>>
<1>1. CASE Check
  BY <1>1 DEF Check, redisVars, pods
<1>2. CASE Remediate
  BY <1>2 DEF Remediate, WaitForGossip, HealRead, promoteReplicaOfDeadMaster,
     leaveSlotOwner, forgetFromAllPeers, meetFromAllPeers, clusterFix,
     remediateSlotCoverage, remediateReplicaSpread, remediateClusterCheck,
     remediateBalance, redisVars, pods
<1> QED
  BY <1>1, <1>2

LEMMA SamePodsSuffice ==
  ASSUME IdsSuffice, UNCHANGED <<node, alive, fresh, restarts>>
  PROVE  IdsSuffice'
BY DEF IdsSuffice, Missing

\* A pod that fails is one more to be replaced, and no other pod ran its node.
LEMMA PodFailsSuffices ==
  ASSUME NEW p \in Pods, ClusterTypeOK, IdsSuffice, PodFails(p)
  PROVE  IdsSuffice'
<1>1. /\ node' = node /\ fresh' = fresh /\ restarts' = restarts + 1
      /\ node[p] \in alive /\ alive' = alive \ {node[p]}
  BY DEF PodFails, NodeStops
<1>2. Missing' = Missing \cup {p}
  BY <1>1 DEF Missing, IdsSuffice
<1>3. Cardinality(Missing \cup {p}) <= Cardinality(Missing) + 1
  <2>1. Cardinality(Missing \cup {p})
          = IF p \in Missing THEN Cardinality(Missing) ELSE Cardinality(Missing) + 1
    BY MissingIsFinite, FS_AddElement
  <2> QED
    BY <2>1, MissingIsFinite
<1>4. Cardinality(Missing \cup {p}) \in Nat
  BY MissingIsFinite, FS_AddElement, FS_CardinalityType
<1>5. Cardinality(Missing') <= Cardinality(Missing) + 1 /\ Cardinality(Missing') \in Nat
  BY <1>2, <1>3, <1>4
<1>6. fresh' + Cardinality(Missing') <= MaxPods + 1 + restarts'
  BY <1>1, <1>5, MissingIsFinite, ConstantTypes DEF IdsSuffice, ClusterTypeOK
<1> QED
  BY <1>1, <1>6 DEF IdsSuffice

\* A replacement takes its ID from those set aside for the pods that failed.
LEMMA PodReturnsSuffices ==
  ASSUME NEW p \in Pods, NEW same, ClusterTypeOK, IdsSuffice, PodReturns(p, same)
  PROVE  IdsSuffice' /\ fresh \in Ids
<1> DEFINE x == IF Ephemeral THEN fresh ELSE node[p]
<1>1. /\ node[p] \notin alive
      /\ node' = [node EXCEPT ![p] = x]
      /\ alive' = alive \cup {x}
      /\ restarts' = restarts
      /\ fresh' = IF Ephemeral THEN fresh + 1 ELSE fresh
  <2>1. CASE Ephemeral
    BY <2>1 DEF PodReturns
  <2>2. CASE ~Ephemeral
    BY <2>2 DEF PodReturns
  <2> QED
    BY <2>1, <2>2
<1>2. p \in Missing
  BY <1>1 DEF Missing
<1>3. Cardinality(Missing) > 0
  BY <1>2, MissingIsFinite, FS_EmptySet
<1>4. fresh \in Ids
  <2>1. fresh \in Nat /\ fresh > 0
    BY ConstantTypes DEF IdsSuffice, ClusterTypeOK, Ids
  <2>2. fresh <= MaxPods + MaxRestarts
    BY <1>3, MissingIsFinite, ConstantTypes DEF IdsSuffice, ClusterTypeOK
  <2> QED
    BY <2>1, <2>2, ConstantTypes DEF Ids
<1>5. x \in {fresh, node[p]} /\ \A q \in Pods \ {p} : node[q] # x
  BY <1>4, ConstantTypes DEF IdsSuffice, ClusterTypeOK
<1>6. \A q \in Pods : node'[q] = IF q = p THEN x ELSE node[q]
  BY <1>1 DEF ClusterTypeOK
<1>7. Missing' = Missing \ {p}
  <2> HIDE DEF x
  <2> QED
    BY <1>1, <1>5, <1>6 DEF Missing
<1>8. Cardinality(Missing') = Cardinality(Missing) - 1
  <2>1. Cardinality(Missing \ {p}) = Cardinality(Missing) - 1
    BY <1>2, MissingIsFinite, FS_RemoveElement
  <2> QED
    BY <1>7, <2>1
<1>9. fresh' + Cardinality(Missing') <= MaxPods + 1 + restarts'
  BY <1>1, <1>8, MissingIsFinite, ConstantTypes DEF IdsSuffice, ClusterTypeOK
<1>10. \A q, r \in Pods : node'[q] = node'[r] => q = r
  <2> SUFFICES ASSUME NEW q \in Pods, NEW r \in Pods, node'[q] = node'[r]
               PROVE  q = r
    OBVIOUS
  <2> HIDE DEF x
  <2>1. CASE q = p \/ r = p
    BY <1>5, <1>6, <2>1
  <2>2. CASE q # p /\ r # p
    BY <1>6, <2>2 DEF IdsSuffice
  <2> QED
    BY <2>1, <2>2
<1>11. fresh' \in Nat /\ \A q \in Pods : node'[q] < fresh'
  <2>1. CASE Ephemeral
    <3>1. fresh' = fresh + 1 /\ x = fresh /\ fresh \in Nat
      BY <1>1, <2>1 DEF IdsSuffice
    <3>2. ASSUME NEW q \in Pods PROVE node'[q] < fresh'
      <4> HIDE DEF x
      <4>1. node[q] \in Nat /\ node[q] < fresh
        BY ConstantTypes DEF IdsSuffice, ClusterTypeOK
      <4>2. node'[q] \in {fresh, node[q]}
        BY <1>6, <3>1
      <4> QED
        BY <3>1, <4>1, <4>2
    <3> QED
      BY <3>1, <3>2
  <2>2. CASE ~Ephemeral
    BY <1>1, <1>6, <2>2, ConstantTypes DEF IdsSuffice, ClusterTypeOK
  <2> QED
    BY <2>1, <2>2
<1> QED
  BY <1>4, <1>9, <1>10, <1>11 DEF IdsSuffice

LEMMA HealthStep ==
  ASSUME IInv, [Next]_vars
  PROVE  IInv'
<1>0. Fits /\ ClusterTypeOK /\ IdsSuffice /\ pc \in HealthSteps /\ gone \subseteq Ids
  BY DEF IInv, TypeOK, Fits, StateTypeOK
<1>1. ASSUME Fits', pc' \in HealthSteps, IdsSuffice' PROVE IInv'
  BY <1>1 DEF IInv, TypeOK, Fits
<1>2. CASE Reconcile
  <2>1. Fits' /\ pc' \in HealthSteps
    BY <1>0, <1>2, CheckFits, RemediateFits DEF Reconcile
  <2>2. IdsSuffice'
    BY <1>0, <1>2, ReconcileLeavesPods, SamePodsSuffice DEF Reconcile
  <2> QED
    BY <1>1, <2>1, <2>2
<1>3. CASE Kubernetes
  <2>1. UNCHANGED <<pc, nodes, report, heal, lost>>
    BY <1>3 DEF Kubernetes
  <2>2. CASE \E p \in Pods : /\ PodFails(p)
                             /\ gone' = IF pc = "idle" THEN {} ELSE gone \cup {node[p]}
    <3>1. PICK p \in Pods : /\ PodFails(p)
                            /\ gone' = IF pc = "idle" THEN {} ELSE gone \cup {node[p]}
      BY <2>2
    <3>2. gone' \subseteq Ids
      BY <1>0, <3>1 DEF ClusterTypeOK
    <3> QED
      BY <1>0, <1>1, <2>1, <3>1, <3>2, PodFailsTypes, PodFailsSuffices, OthersFit
  <2>3. CASE (\E p \in Pods : PodReturns(p, FALSE)) /\ UNCHANGED gone
    <3>1. PICK p \in Pods : PodReturns(p, FALSE)
      BY <2>3
    <3>2. IdsSuffice' /\ fresh \in Ids
      BY <1>0, <3>1, PodReturnsSuffices
    <3>3. ClusterTypeOK'
      BY <1>0, <3>1, <3>2, PodReturnsTypes
    <3> QED
      BY <1>0, <1>1, <2>1, <2>3, <3>2, <3>3, OthersFit
  <2> QED
    BY <1>3, <2>2, <2>3 DEF Kubernetes
<1>4. CASE Redis /\ UNCHANGED <<spec, robin>>
  <2>1. PICK x \in Ids :
          \/ Reconnects(x) \/ GossipReaches(x) \/ BanExpires(x) \/ Syncs(x)
          \/ FailsOver(x)
    BY <1>4 DEF Redis, Settles
  <2>2. ClusterTypeOK'
    BY <1>0, <2>1, SettlesTypes, FailsOverTypes
  <2>3. UNCHANGED <<node, alive, fresh, restarts>>
    BY <2>1 DEF Reconnects, GossipReaches, BanExpires, Syncs, FailsOver, pods
  <2>4. UNCHANGED <<pc, nodes, report, heal, lost, gone>>
    BY <1>4 DEF robin
  <2> QED
    BY <1>0, <1>1, <2>2, <2>3, <2>4, OthersFit, SamePodsSuffice
<1>5. CASE UNCHANGED vars
  <2>1. UNCHANGED <<node, listed, alive, moved, restarts, fresh, known, banned, master,
                    owner, open, copy, pc, nodes, gone, report, heal, lost>>
    BY <1>5 DEF vars, redisVars, robin, pods, views, roles
  <2>2. ClusterTypeOK'
    BY <1>0, <2>1 DEF ClusterTypeOK
  <2> QED
    BY <1>0, <1>1, <2>1, <2>2, OthersFit, SamePodsSuffice
<1> QED
  BY <1>2, <1>3, <1>4, <1>5 DEF Next

\* For a cluster of any size, whatever fails and returns while Robin checks and
\* heals it: the inductive invariant of the health check and the remediation.
THEOREM HealthInvariant ==
  ASSUME TopologyFits
  PROVE  Spec => []IInv
<1>1. Init => IInv
  BY HealthInit
<1>2. IInv /\ [Next]_vars => IInv'
  BY HealthStep
<1> QED
  BY <1>1, <1>2, PTL DEF Spec

\* Type correctness of the health check and of every remediation: each command
\* goes to a node and moves slots to nodes, and a pass forgets its pods when it
\* ends, on whichever of its error paths.
THEOREM HealthTypeCorrect ==
  ASSUME TopologyFits
  PROVE  Spec => []TypeOK
<1>1. IInv => TypeOK
  BY DEF IInv
<1> QED
  BY <1>1, HealthInvariant, PTL

-----------------------------------------------------------------------------
(* Scaling: what a pass plans.                                             *)

ScalingSteps ==
  HealthSteps \cup {"resize", "remove", "meet", "replicas", "rebalance", "repair", "move",
                    "retry", "stable", "attach", "verify", "finish", "promote"}

LEMMA StepNames ==
  HealthSteps = {"idle", "wait", "heal", "fix", "membership", "slots", "spread",
                 "check", "balance"}
<1>1. Range(Pipeline) = {"membership", "slots", "spread", "check", "balance"}
  BY DEF Range, Pipeline
<1> QED
  BY <1>1 DEF HealthSteps

\* Some plan, as the handlers make one.
PlanTypeOK(p) ==
  /\ DOMAIN p = PlanFields
  /\ DOMAIN p.replicas \subseteq Nat
  /\ p.attempt \in 0 .. MaxAttempts

LEMMA AttemptsType == MaxAttempts \in Nat /\ MaxAttempts > 0
BY ScalingAssumption

LEMMA NoPlanType == PlanTypeOK(NoPlan) /\ NoPlan.attempt = 0
BY AttemptsType DEF PlanTypeOK, NoPlan, PlanFields

LEMMA ByOrdinalIsASequence ==
  ASSUME NEW N, NEW S \in SUBSET Pods
  PROVE  \E T : ByOrdinal(N, S) \in Seq(T)
<1> DEFINE At(i) == CHOOSE p \in S : Cardinality({q \in S : q < p}) = i - 1
           T == {N[At(i)] : i \in 1 .. Cardinality(S)}
<1>1. Cardinality(S) \in Nat
  <2>1. IsFiniteSet(Pods)
    BY FS_Interval, ConstantTypes DEF Pods
  <2> QED
    BY <2>1, FS_Subset, FS_CardinalityType
<1>2. ByOrdinal(N, S) = [i \in 1 .. Cardinality(S) |-> N[At(i)]]
  BY DEF ByOrdinal
<1>3. ByOrdinal(N, S) \in [1 .. Cardinality(S) -> T]
  <2> HIDE DEF At
  <2> QED
    BY <1>2
<1>4. ByOrdinal(N, S) \in Seq(T)
  <2> HIDE DEF T
  <2>1. PICK n, f : n \in Nat /\ n = Cardinality(S) /\ f = ByOrdinal(N, S)
    BY <1>1
  <2>2. f \in [1 .. n -> T]
    BY <1>3, <2>1
  <2>3. f \in Seq(T)
    BY <2>1, <2>2
  <2> QED
    BY <2>1, <2>3
<1> QED
  BY <1>4

LEMMA ScaleDownPlanType ==
  ASSUME NEW N, DOMAIN N \subseteq Pods
  PROVE  PlanTypeOK(ScaleDownPlan(N)) /\ ScaleDownPlan(N).attempt = 1
<1> DEFINE primaries == {p \in DOMAIN N : IsPrimary(N[p])}
           keep == Lowest(DOMAIN N \ primaries, Primaries * ReplicasPerPrimary)
<1>1. PICK a, b, c, d :
        ScaleDownPlan(N) = [NoPlan EXCEPT !.primaries = a, !.replicas = b,
                                          !.drained = c, !.remove = d, !.attempt = 1]
        /\ b = ByOrdinal(N, keep)
  BY DEF ScaleDownPlan
<1>2. keep \in SUBSET Pods
  BY DEF Lowest
<1>3. DOMAIN b \subseteq Nat
  <2> HIDE DEF keep
  <2>1. PICK T : b \in Seq(T)
    BY <1>1, <1>2, ByOrdinalIsASequence
  <2> QED
    BY <2>1
<1>4. /\ DOMAIN ScaleDownPlan(N) = PlanFields
      /\ ScaleDownPlan(N).replicas = b
      /\ ScaleDownPlan(N).attempt = 1
  BY <1>1 DEF NoPlan, PlanFields
<1> QED
  BY <1>3, <1>4, AttemptsType DEF PlanTypeOK

LEMMA ScaleUpPlanType ==
  ASSUME NEW N, DOMAIN N \subseteq Pods, Primaries \in Nat
  PROVE  PlanTypeOK(ScaleUpPlan(N)) /\ ScaleUpPlan(N).attempt = 1
<1> DEFINE joined == {p \in DOMAIN N : N[p] \in known[N[0]]}
           replicas == {p \in joined : ~IsPrimary(N[p])}
           primaries == {p \in joined \ replicas : SlotsOf(N[p]) # {}}
           empty == joined \ (replicas \cup primaries)
           strangers == DOMAIN N \ joined
           available == ByOrdinal(N, empty) \o ByOrdinal(N, strangers)
           needed == Max({0, Primaries - Cardinality(primaries)})
           first == Min({needed, Len(available)})
           b == ByOrdinal(N, replicas) \o SubSeq(available, first + 1, Len(available))
<1>1. PICK a, c, d :
        ScaleUpPlan(N) = [NoPlan EXCEPT !.primaries = a, !.replicas = b, !.fill = c,
                                        !.unmet = d, !.attempt = 1]
  BY DEF ScaleUpPlan
<1>2. replicas \in SUBSET Pods /\ empty \in SUBSET Pods /\ strangers \in SUBSET Pods
  OBVIOUS
<1>3. PICK T, U, V : /\ ByOrdinal(N, replicas) \in Seq(T)
                     /\ ByOrdinal(N, empty) \in Seq(U)
                     /\ ByOrdinal(N, strangers) \in Seq(V)
  <2> HIDE DEF replicas, empty, strangers
  <2> QED
    BY <1>2, ByOrdinalIsASequence
<1> HIDE DEF joined, replicas, primaries, empty, strangers
<1>4. available \in Seq(U \cup V)
  BY <1>3
<1>5. first \in Nat /\ first <= Len(available)
  <2>1. Cardinality(primaries) \in Nat
    <3>1. IsFiniteSet(Pods)
      BY FS_Interval, ConstantTypes DEF Pods
    <3>2. primaries \in SUBSET Pods
      BY DEF primaries, joined
    <3> QED
      BY <3>1, <3>2, FS_Subset, FS_CardinalityType
  <2>2. PICK i : i \in Int /\ i = Primaries - Cardinality(primaries)
    BY <2>1
  <2>3. Max({0, i}) \in Nat
    BY <2>2 DEF Max
  <2>4. needed \in Nat
    BY <2>2, <2>3
  <2>5. Len(available) \in Nat
    BY <1>4
  <2>6. PICK j, k : j \in Nat /\ k \in Nat /\ j = needed /\ k = Len(available)
    BY <2>4, <2>5
  <2>7. Min({j, k}) \in Nat /\ Min({j, k}) <= k
    <3>1. {j, k} \subseteq Nat /\ {j, k} # {}
      BY <2>6
    <3>2. Min({j, k}) \in {j, k} /\ \A y \in {j, k} : Min({j, k}) <= y
      BY <3>1, MinIsLeast
    <3> QED
      BY <3>1, <3>2
  <2> QED
    BY <2>6, <2>7
<1>6. b \in Seq(T \cup (U \cup V))
  <2>1. PICK s, r, k : /\ s \in Seq(U \cup V) /\ s = available
                       /\ k \in Nat /\ k = first /\ k <= Len(s)
                       /\ r \in Seq(T) /\ r = ByOrdinal(N, replicas)
    BY <1>3, <1>4, <1>5
  <2>2. PICK t, W : t = SubSeq(s, k + 1, Len(s)) /\ W = T \cup (U \cup V)
    OBVIOUS
  <2>3. r \o t \in Seq(W)
    <3>1. Len(s) \in Nat /\ s \in [1 .. Len(s) -> U \cup V]
      BY <2>1, LenProperties
    <3>2. \A i \in k + 1 .. Len(s) : s[i] \in W
      BY <2>1, <2>2, <3>1
    <3>3. k + 1 \in Int /\ Len(s) \in Int
      BY <2>1, <3>1
    <3>4. t \in Seq(W)
      BY <2>2, <3>2, <3>3, SubSeqProperties
    <3>5. r \in Seq(W)
      BY <2>1, <2>2
    <3> QED
      BY <3>4, <3>5, ConcatProperties
  <2>4. b = r \o t
    BY <2>1, <2>2
  <2> QED
    BY <2>2, <2>3, <2>4
<1>7. DOMAIN b \subseteq Nat
  BY <1>6
<1>8. /\ DOMAIN ScaleUpPlan(N) = PlanFields
      /\ ScaleUpPlan(N).replicas = b
      /\ ScaleUpPlan(N).attempt = 1
  <2> HIDE DEF b
  <2> QED
    BY <1>1 DEF NoPlan, PlanFields
<1> QED
  BY <1>7, <1>8, AttemptsType DEF PlanTypeOK

-----------------------------------------------------------------------------
(* Scaling: the steps of a pass.                                           *)

Planned ==
  /\ pc \in ScalingSteps
  /\ PlanTypeOK(plan)
  /\ plan # NoPlan => pc \notin HealthSteps
  /\ pc = "retry" => plan.attempt < MaxAttempts

LEMMA ScalingIInvParts ==
  ScalingIInv <=> /\ Fits
                  /\ Planned
                  /\ size \in 1 .. MaxPods
                  /\ stage \in {"ScalingUp", "ScalingDown", "Ready"}
                  /\ shut \subseteq Pods
                  /\ SpecFits
BY StepNames DEF ScalingIInv, ScalingTypeOK, Fits, Planned, PlanFits, PlanTypeOK,
   ScalingSteps

LEMMA ClusterUnchanged ==
  ASSUME Fits, UNCHANGED <<redisVars, lost>>
  PROVE  ClusterTypeOK' /\ lost' \in 0 .. MaxLost
BY DEF Fits, StateTypeOK, ClusterTypeOK, redisVars, pods, views, roles

LEMMA EndPassFits ==
  ASSUME EndPass, ClusterTypeOK', lost' \in 0 .. MaxLost
  PROVE  Fits' /\ Planned'
<1>1. Fits' /\ pc' = "idle" /\ plan' = NoPlan
  BY ReturnFits DEF EndPass
<1> QED
  BY <1>1, NoPlanType, StepNames DEF Planned, ScalingSteps, PlanTypeOK

LEMMA GoToFits ==
  ASSUME Fits, Planned, pc # "idle", NEW step \in ScalingSteps \ HealthSteps,
         step = "retry" => plan.attempt < MaxAttempts,
         GoTo(step), ClusterTypeOK', lost' \in 0 .. MaxLost
  PROVE  Fits' /\ Planned'
<1>1. pc' = step /\ UNCHANGED <<nodes, gone, report, heal, plan>>
  BY DEF GoTo
<1>2. step # "idle"
  BY StepNames
<1>3. Fits'
  BY <1>1, <1>2, GoesOn
<1> QED
  BY <1>1, <1>3 DEF Planned, PlanTypeOK

\* HealMembership takes over from a pass, without its plan.
LEMMA healTopologyFits ==
  ASSUME Fits, NEW meet, healTopology(meet), UNCHANGED <<redisVars, lost>>
  PROVE  Fits' /\ Planned'
<1>1. ClusterTypeOK' /\ lost' \in 0 .. MaxLost /\ ClusterTypeOK
  BY ClusterUnchanged DEF Fits, StateTypeOK
<1>2. PICK p \in listed :
        /\ heal' \in Answers(Listed, Silent, node[p], meet)
        /\ pc' = "heal" /\ nodes' = Listed /\ gone' = Silent
        /\ report' = NoReport /\ plan' = NoPlan
  BY DEF healTopology
<1>3. heal'.todo \subseteq Ids /\ DOMAIN heal' = HealFields
  <2>1. PICK seed \in Ids : seed = node[p]
    BY <1>1 DEF ClusterTypeOK
  <2>2. heal' \in Answers(Listed, Silent, seed, meet)
    BY <1>2, <2>1
  <2> QED
    BY <1>1, <2>2, AnswersTypes
<1>4. Silent \subseteq Ids /\ nodes' # <<>> /\ DOMAIN nodes' = listed
  BY <1>1, <1>2, ListedFits, NothingRemembered DEF Silent
<1>5. StateTypeOK'
  BY <1>1, <1>2, <1>3, <1>4, NothingRemembered DEF StateTypeOK
<1>6. MemoryFits'
  BY <1>1, <1>2, <1>3, <1>4, ListedFits DEF MemoryFits, ClusterTypeOK
<1>7. Planned'
  BY <1>2, NoPlanType, StepNames DEF Planned, ScalingSteps, PlanTypeOK
<1> QED
  BY <1>5, <1>6, <1>7 DEF Fits

\* A pass begins, with its plan.
LEMMA BeginsFits ==
  ASSUME Fits, pc = "idle", NEW D, D # {}, D \subseteq listed,
         NEW step \in ScalingSteps \ (HealthSteps \cup {"retry"}), pc' = step,
         nodes' = [p \in D |-> node[p]], UNCHANGED <<gone, report, heal>>,
         PlanTypeOK(plan)', ClusterTypeOK', lost' \in 0 .. MaxLost
  PROVE  Fits' /\ Planned'
<1>1. DOMAIN nodes' = D /\ \A p \in D : nodes'[p] \in Ids
  BY DEF Fits, StateTypeOK, ClusterTypeOK
<1>2. nodes' # <<>>
  BY <1>1, NothingRemembered
<1>3. pc' # "idle"
  BY StepNames
<1>4. MemoryFits'
  BY <1>1 DEF Fits, MemoryFits, StateTypeOK, ClusterTypeOK
<1>5. StateTypeOK'
  BY <1>2, <1>3 DEF Fits, StateTypeOK
<1>6. Planned'
  BY DEF Planned
<1> QED
  BY <1>4, <1>5, <1>6 DEF Fits

LEMMA handleScalingDownFits ==
  ASSUME Fits, Planned, handleScalingDown
  PROVE  Fits' /\ Planned'
<1>1. ClusterTypeOK' /\ lost' \in 0 .. MaxLost
  BY ClusterUnchanged DEF handleScalingDown
<1>2. CASE healTopology(TRUE)
  BY <1>2, healTopologyFits DEF handleScalingDown
<1>3. CASE /\ pc' = ScaleDownStep(Listed, ScaleDownPlan(Listed))
           /\ nodes' = Listed
           /\ plan' = ScaleDownPlan(Listed)
           /\ UNCHANGED <<gone, report, heal>>
  <2>1. pc' \in {"resize", "rebalance", "remove"}
    BY <1>3 DEF ScaleDownStep
  <2>2. pc' \in ScalingSteps \ (HealthSteps \cup {"retry"})
    BY <2>1, StepNames DEF ScalingSteps
  <2>3. PICK N : N = Listed /\ DOMAIN N \subseteq Pods
    BY ListedFits DEF Fits, StateTypeOK, ClusterTypeOK
  <2>4. PlanTypeOK(ScaleDownPlan(N))
    BY <2>3, ScaleDownPlanType
  <2>5. PlanTypeOK(plan)'
    BY <1>3, <2>3, <2>4 DEF PlanTypeOK
  <2>6. PICK D, step : D = listed /\ step = pc'
    OBVIOUS
  <2>7. nodes' = [p \in D |-> node[p]] /\ D # {} /\ pc = "idle"
    BY <1>3, <2>6 DEF Listed, handleScalingDown
  <2> QED
    BY <1>1, <1>3, <2>2, <2>5, <2>6, <2>7, BeginsFits
<1> QED
  BY <1>2, <1>3 DEF handleScalingDown

LEMMA handleScalingUpFits ==
  ASSUME Fits, Planned, SpecFits, handleScalingUp
  PROVE  Fits' /\ Planned'
<1>1. ClusterTypeOK' /\ lost' \in 0 .. MaxLost
  BY ClusterUnchanged DEF handleScalingUp
<1>2. PICK D, N : D = 0 .. Target - 1 /\ N = [p \in D |-> node[p]]
  OBVIOUS
<1>3. /\ pc = "idle" /\ pc' = ScaleUpStep(ScaleUpPlan(N)) /\ pc' # "idle"
      /\ nodes' = N /\ plan' = ScaleUpPlan(N)
      /\ D \subseteq listed /\ UNCHANGED <<gone, report, heal>>
  <2>1. [p \in 0 .. Target - 1 |-> node[p]] = N /\ 0 .. Target - 1 = D
    BY <1>2, Zenon
  <2> QED
    BY <2>1, Zenon DEF handleScalingUp
<1>4. pc' \in {"meet", "promote"}
  BY <1>3 DEF ScaleUpStep
<1>5. pc' \in ScalingSteps \ (HealthSteps \cup {"retry"})
  BY <1>4, StepNames DEF ScalingSteps
<1>6. DOMAIN N \subseteq Pods /\ Primaries \in Nat /\ D # {}
  <2>1. DOMAIN N \subseteq Pods
    BY <1>2, <1>3 DEF Fits, StateTypeOK, ClusterTypeOK
  <2>2. Primaries \in Nat /\ Target \in Nat /\ Target >= 1
    BY ConstantTypes DEF SpecFits
  <2>3. 0 \in 0 .. Target - 1
    BY <2>2
  <2> QED
    BY <1>2, <2>1, <2>2, <2>3
<1>7. PlanTypeOK(ScaleUpPlan(N))
  BY <1>6, ScaleUpPlanType
<1>8. PlanTypeOK(plan)'
  BY <1>3, <1>7 DEF PlanTypeOK
<1> QED
  BY <1>1, <1>2, <1>3, <1>5, <1>6, <1>8, BeginsFits

LEMMA handleScalingDownResizesFits ==
  ASSUME Fits, Planned, handleScalingDownResizes
  PROVE  Fits' /\ Planned'
<1>1. ClusterTypeOK' /\ lost' \in 0 .. MaxLost
  BY ClusterUnchanged DEF handleScalingDownResizes
<1>2. pc # "idle" /\ (GoTo("finish") \/ EndPass)
  BY DEF handleScalingDownResizes
<1>3. "finish" \in ScalingSteps \ HealthSteps
  BY StepNames DEF ScalingSteps
<1> QED
  BY <1>1, <1>2, <1>3, GoToFits, EndPassFits

\* A node is forgotten and shut down: the types hold whatever plan.remove names,
\* because only members are forgotten and only nodes of pods are shut down.
LEMMA removeNodesFits ==
  ASSUME Fits, Planned, removeNodes
  PROVE  Fits' /\ Planned' /\ shut' \subseteq shut \cup Pods
<1> DEFINE h == Head(plan.remove)
           stops == {p \in Pods : node[p] = h /\ h \in Reachable}
           obey == Forgetting(h, Keepers \ gone)
<1>1. PICK x, S, O : x = h /\ S = stops /\ O = obey
  OBVIOUS
<1> DEFINE view == [a \in Ids |-> IF a \in O THEN known[a] \ {x} ELSE known[a]]
<1>2. /\ banned' = [a \in Ids |-> IF a \in O THEN banned[a] \cup {x}
                                  ELSE IF a = x /\ S # {} THEN {}
                                  ELSE banned[a]]
      /\ IF S = {} THEN known' = view /\ UNCHANGED <<alive, moved, open, copy>>
         ELSE /\ alive' = alive \ {x}
              /\ moved' = moved \ {x}
              /\ open' = {e \in open : x \notin {owner[e[1]], e[2]}}
              /\ copy' = [copy EXCEPT ![x] = IF Ephemeral THEN {} ELSE @]
              /\ known' = [view EXCEPT ![x] = IF Ephemeral THEN {} ELSE @]
      /\ shut' = shut \cup S
  <2>1. h = x /\ stops = S /\ obey = O
    BY <1>1
  <2> QED
    BY <2>1, Zenon DEF removeNodes
<1>3. /\ O # {} => x \in Ids
      /\ S # {} => x \in Ids
      /\ S \subseteq Pods
  BY <1>1 DEF Forgetting, Fits, StateTypeOK, ClusterTypeOK
<1>4. ClusterTypeOK
  BY DEF Fits, StateTypeOK
<1>5. banned' \in [Ids -> SUBSET Ids]
  BY <1>2, <1>3, <1>4 DEF ClusterTypeOK
<1>6. view \in [Ids -> SUBSET Ids]
  BY <1>4 DEF ClusterTypeOK
<1>7. /\ alive' \subseteq alive /\ moved' \subseteq alive' /\ open' \subseteq open
      /\ copy' \in [Ids -> SUBSET Slots]
      /\ known' \in [Ids -> SUBSET Ids]
  <2> HIDE DEF view
  <2>1. CASE S = {}
    BY <1>2, <1>4, <1>6, <2>1 DEF ClusterTypeOK
  <2>2. CASE S # {}
    <3>1. alive' \subseteq alive /\ moved' \subseteq alive' /\ open' \subseteq open
      BY <1>2, <1>4, <2>2 DEF ClusterTypeOK
    <3>2. copy' \in [Ids -> SUBSET Slots]
      BY <1>2, <1>4, <2>2 DEF ClusterTypeOK
    <3>3. known' \in [Ids -> SUBSET Ids]
      BY <1>2, <1>6, <2>2
    <3> QED
      BY <3>1, <3>2, <3>3
  <2> QED
    BY <2>1, <2>2
<1>8. /\ UNCHANGED <<pc, nodes, gone, report, heal, lost>>
      /\ UNCHANGED <<node, listed, restarts, fresh, master, owner>>
      /\ pc = "remove" /\ plan' = [plan EXCEPT !.remove = Tail(@)]
  BY DEF removeNodes
<1>9. ClusterTypeOK'
  BY <1>4, <1>5, <1>7, <1>8 DEF ClusterTypeOK
<1>10. Fits'
  BY <1>8, <1>9, OthersFit DEF Fits, StateTypeOK
<1>11. Planned'
  <2>1. /\ DOMAIN plan' = PlanFields
        /\ plan'.replicas = plan.replicas /\ plan'.attempt = plan.attempt
    BY <1>8 DEF Planned, PlanTypeOK, PlanFields
  <2> QED
    BY <1>8, <2>1, StepNames DEF Planned, PlanTypeOK
<1> QED
  BY <1>2, <1>3, <1>10, <1>11

LEMMA shrinksStatefulSetFits ==
  ASSUME Fits, Planned, shrinksStatefulSet
  PROVE  Fits' /\ Planned'
<1>1. ClusterTypeOK' /\ lost' \in 0 .. MaxLost
  BY ClusterUnchanged DEF shrinksStatefulSet
<1>2. pc # "idle" /\ (GoTo("attach") \/ GoTo("verify"))
  BY DEF shrinksStatefulSet
<1>3. {"attach", "verify"} \subseteq ScalingSteps \ HealthSteps
  BY StepNames DEF ScalingSteps
<1> QED
  BY <1>1, <1>2, <1>3, GoToFits

\* The nodes of a group meet.
LEMMA meetsTypes ==
  ASSUME Fits, NEW group, NEW A, NEW step, meets(group, A, step),
         UNCHANGED <<node, listed, alive, restarts, fresh, banned, roles, lost>>
  PROVE  ClusterTypeOK' /\ lost' \in 0 .. MaxLost
<1>1. known' \in [Ids -> SUBSET Ids] /\ moved' \subseteq moved
  <2>1. CASE group \subseteq Reachable
    BY <2>1, MetTypes DEF meets, Fits, StateTypeOK, ClusterTypeOK
  <2>2. CASE ~(group \subseteq Reachable)
    BY <2>2 DEF meets, Fits, StateTypeOK, ClusterTypeOK
  <2> QED
    BY <2>1, <2>2
<1> QED
  BY <1>1 DEF Fits, StateTypeOK, ClusterTypeOK, roles

LEMMA meetsPrimariesFits ==
  ASSUME Fits, Planned, meetsPrimaries
  PROVE  Fits' /\ Planned'
<1>1. "rebalance" \in ScalingSteps \ HealthSteps /\ pc # "idle"
  BY StepNames DEF ScalingSteps, meetsPrimaries
<1>2. UNCHANGED <<node, listed, alive, restarts, fresh, banned, roles, lost>>
  BY DEF meetsPrimaries
<1>3. CASE GoTo("rebalance") /\ UNCHANGED <<known, moved>>
  <2>1. ClusterTypeOK' /\ lost' \in 0 .. MaxLost
    BY <1>2, <1>3 DEF Fits, StateTypeOK, ClusterTypeOK, roles
  <2> QED
    BY <1>1, <1>3, <2>1, GoToFits
<1>4. CASE \E group : meets(group, group, "rebalance")
  <2>1. PICK group : meets(group, group, "rebalance")
    BY <1>4
  <2>2. ClusterTypeOK' /\ lost' \in 0 .. MaxLost
    BY <1>2, <2>1, meetsTypes
  <2>3. GoTo("rebalance") \/ EndPass
    BY <2>1 DEF meets
  <2> QED
    BY <1>1, <2>2, <2>3, GoToFits, EndPassFits
<1> QED
  BY <1>3, <1>4 DEF meetsPrimaries

LEMMA meetsReplicasFits ==
  ASSUME Fits, Planned, meetsReplicas
  PROVE  Fits' /\ Planned'
<1>1. {"attach", "verify"} \subseteq ScalingSteps \ HealthSteps /\ pc # "idle"
  BY StepNames DEF ScalingSteps, meetsReplicas
<1>2. UNCHANGED <<node, listed, alive, restarts, fresh, banned, roles, lost>>
  BY DEF meetsReplicas
<1>3. CASE (GoTo("verify") \/ GoTo("attach")) /\ UNCHANGED <<known, moved>>
  <2>1. ClusterTypeOK' /\ lost' \in 0 .. MaxLost
    BY <1>2, <1>3 DEF Fits, StateTypeOK, ClusterTypeOK, roles
  <2> QED
    BY <1>1, <1>3, <2>1, GoToFits
<1>4. CASE \E group, A : meets(group, A, "attach")
  <2>1. PICK group, A : meets(group, A, "attach")
    BY <1>4
  <2>2. ClusterTypeOK' /\ lost' \in 0 .. MaxLost
    BY <1>2, <2>1, meetsTypes
  <2>3. GoTo("attach") \/ EndPass
    BY <2>1 DEF meets
  <2> QED
    BY <1>1, <2>2, <2>3, GoToFits, EndPassFits
<1> QED
  BY <1>3, <1>4 DEF meetsReplicas

LEMMA healsFirstFits ==
  ASSUME Fits, Planned, healsFirst
  PROVE  Fits' /\ Planned'
<1>1. ClusterTypeOK' /\ lost' \in 0 .. MaxLost
  BY ClusterUnchanged DEF healsFirst
<1>2. pc # "idle" /\ "repair" \in ScalingSteps \ HealthSteps
  BY StepNames DEF ScalingSteps, healsFirst
<1>3. CASE \E meet : healTopology(meet)
  BY <1>3, healTopologyFits DEF healsFirst
<1>4. CASE GoTo("repair")
  BY <1>1, <1>2, <1>4, GoToFits
<1>5. CASE EndPass
  BY <1>1, <1>5, EndPassFits
<1> QED
  BY <1>3, <1>4, <1>5 DEF healsFirst

LEMMA runClusterFixTypes ==
  ASSUME Fits, runClusterFix \/ UNCHANGED <<owner, copy, open>>,
         UNCHANGED <<pods, views, master, lost>>
  PROVE  ClusterTypeOK' /\ lost' \in 0 .. MaxLost
<1>1. /\ owner' \in [Slots -> Ids \cup {None}]
      /\ copy' \in [Ids -> SUBSET Slots]
      /\ open' \subseteq Slots \X Ids
  <2>1. CASE UNCHANGED <<owner, copy, open>>
    BY <2>1 DEF Fits, StateTypeOK, ClusterTypeOK
  <2>2. CASE /\ Anchor \in Reachable
             /\ owner' \in Fixed(Anchor) /\ copy' = FixedCopy(Anchor) /\ open' = {}
    <3>1. PICK x \in Ids : x = Anchor
      BY <2>2 DEF Reachable, Fits, StateTypeOK, ClusterTypeOK
    <3>2. owner' \in Fixed(x) /\ copy' = FixedCopy(x) /\ open' = {}
      BY <2>2, <3>1
    <3> QED
      BY <3>2, FixTypes, FixedCopyTypes DEF Fits, StateTypeOK
  <2> QED
    BY <2>1, <2>2 DEF runClusterFix
<1> QED
  BY <1>1 DEF Fits, StateTypeOK, ClusterTypeOK, pods, views

LEMMA recoverOpenSlotsFits ==
  ASSUME Fits, Planned, recoverOpenSlots
  PROVE  Fits' /\ Planned'
<1>1. /\ pc # "idle" /\ UNCHANGED <<pods, views, master, lost>>
      /\ runClusterFix \/ UNCHANGED <<owner, copy, open>>
      /\ GoTo("move") \/ GoTo("replicas") \/ EndPass
  BY Zenon DEF recoverOpenSlots
<1>2. ClusterTypeOK' /\ lost' \in 0 .. MaxLost
  BY <1>1, runClusterFixTypes
<1>3. {"move", "replicas"} \subseteq ScalingSteps \ HealthSteps
  BY StepNames DEF ScalingSteps
<1> QED
  BY <1>1, <1>2, <1>3, GoToFits, EndPassFits

\* A rebalance that failed is retried only if there is an attempt left.
LEMMA runRebalanceOnceFits ==
  ASSUME Fits, Planned, runRebalanceOnce
  PROVE  Fits' /\ Planned'
<1>1. ClusterTypeOK' /\ lost' \in 0 .. MaxLost
  <2>1. UNCHANGED <<pods, views, master>> /\ ClusterTypeOK /\ lost \in 0 .. MaxLost
    BY DEF runRebalanceOnce, Fits, StateTypeOK
  <2>2. /\ owner' \in [Slots -> Ids \cup {None}] /\ copy' \in [Ids -> SUBSET Slots]
        /\ open' \subseteq Slots \X Ids /\ lost' \in 0 .. MaxLost
    <3>1. CASE WeightsValid
      <4>1. PICK x, drained : Rebalance("rebalance", x, drained)
        BY <3>1 DEF runRebalanceOnce
      <4> QED
        BY <2>1, <4>1, RebalanceTypes
    <3>2. CASE ~WeightsValid
      BY <2>1, <3>2 DEF runRebalanceOnce, ClusterTypeOK
    <3> QED
      BY <3>1, <3>2
  <2> QED
    BY <2>1, <2>2 DEF ClusterTypeOK, pods, views
<1>2. {"stable", "retry"} \subseteq ScalingSteps \ HealthSteps /\ pc # "idle"
  BY StepNames DEF ScalingSteps, runRebalanceOnce
<1>3. \/ GoTo("stable")
      \/ EndPass
      \/ ~LastAttempt /\ GoTo("retry")
  BY Zenon DEF runRebalanceOnce
<1>4. ~LastAttempt => plan.attempt < MaxAttempts
  BY AttemptsType DEF LastAttempt, Planned, PlanTypeOK
<1> QED
  BY <1>1, <1>2, <1>3, <1>4, GoToFits, EndPassFits

LEMMA retriesFits ==
  ASSUME Fits, Planned, retries
  PROVE  Fits' /\ Planned'
<1>1. /\ pc = "retry" /\ pc' = "rebalance"
      /\ UNCHANGED <<nodes, gone, report, heal>>
      /\ plan' = [plan EXCEPT !.attempt = @ + 1]
  BY DEF retries
<1>2. ClusterTypeOK' /\ lost' \in 0 .. MaxLost
  BY runClusterFixTypes DEF retries
<1>3. Fits'
  BY <1>1, <1>2, GoesOn
<1>4. /\ DOMAIN plan' = PlanFields
      /\ plan'.replicas = plan.replicas /\ plan'.attempt = plan.attempt + 1
  BY <1>1 DEF Planned, PlanTypeOK, PlanFields
<1>5. plan'.attempt \in 0 .. MaxAttempts
  BY <1>1, <1>4, AttemptsType DEF Planned, PlanTypeOK
<1>6. pc' \in ScalingSteps \ (HealthSteps \cup {"retry"})
  BY <1>1, StepNames DEF ScalingSteps
<1> QED
  BY <1>3, <1>4, <1>5, <1>6 DEF Planned, PlanTypeOK

LEMMA slotsStableFits ==
  ASSUME Fits, Planned, slotsStable
  PROVE  Fits' /\ Planned'
<1>1. ClusterTypeOK' /\ lost' \in 0 .. MaxLost
  BY ClusterUnchanged DEF slotsStable
<1>2. pc # "idle" /\ (GoTo(AfterMove) \/ EndPass)
  BY Zenon DEF slotsStable
<1>3. PICK step : step = AfterMove
  OBVIOUS
<1>4. step \in ScalingSteps \ HealthSteps /\ step # "retry"
  BY <1>3, StepNames DEF ScalingSteps, AfterMove
<1>5. GoTo(AfterMove) => GoTo(step)
  BY <1>3
<1> QED
  BY <1>1, <1>2, <1>4, <1>5, GoToFits, EndPassFits

\* A replica follows a node: the plan's primary was a member that the replica
\* knows, or its master already.
LEMMA setReplicasFits ==
  ASSUME Fits, Planned, setReplicas
  PROVE  Fits' /\ Planned'
<1>0. pc # "idle" /\ UNCHANGED <<pods, views, owner, open, copy, lost>>
  BY DEF setReplicas
<1>1. ASSUME master' \in [Ids -> Ids \cup {None}]
      PROVE  ClusterTypeOK' /\ lost' \in 0 .. MaxLost
  BY <1>0, <1>1 DEF Fits, StateTypeOK, ClusterTypeOK, pods, views
<1>2. CASE plan.primaries = <<>> \/ ~(Keepers \subseteq Reachable)
  <2>1. EndPass /\ UNCHANGED master
    BY <1>2 DEF setReplicas
  <2>2. master' \in [Ids -> Ids \cup {None}]
    BY <2>1 DEF Fits, StateTypeOK, ClusterTypeOK
  <2> QED
    BY <1>1, <2>1, <2>2, EndPassFits
<1>3. CASE plan.primaries # <<>> /\ Keepers \subseteq Reachable
  <2> DEFINE refused == {i \in DOMAIN plan.replicas :
                          \/ plan.replicas[i] \notin Reachable
                          \/ ~Follows(i) /\ ~CanReplicate(plan.replicas[i], PrimaryFor(i))}
             reached == {i \in DOMAIN plan.replicas : \A j \in refused : i < j}
  <2>1. /\ master' = [x \in Ids |->
                        IF \E i \in reached : plan.replicas[i] = x
                        THEN PrimaryFor(CHOOSE i \in reached : plan.replicas[i] = x)
                        ELSE master[x]]
        /\ GoTo("verify") \/ EndPass
    BY <1>3, Zenon DEF setReplicas
  <2>2. ASSUME NEW i \in reached PROVE PrimaryFor(i) \in Ids \cup {None}
    <3>1. i \in Nat
      BY DEF Planned, PlanTypeOK
    <3>2. ~(i < i)
      BY <3>1
    <3>3. i \notin refused
      BY <3>2
    <3>4. PICK r \in Ids : r = plan.replicas[i]
      BY <3>3 DEF Reachable, Fits, StateTypeOK, ClusterTypeOK
    <3>5. CASE Follows(i)
      BY <3>4, <3>5 DEF Follows, Fits, StateTypeOK, ClusterTypeOK
    <3>6. CASE CanReplicate(plan.replicas[i], PrimaryFor(i))
      <4>1. PrimaryFor(i) \in known[r]
        BY <3>4, <3>6 DEF CanReplicate
      <4> QED
        BY <4>1 DEF Fits, StateTypeOK, ClusterTypeOK
    <3> QED
      BY <3>3, <3>5, <3>6
  <2>3. ASSUME NEW x \in Ids PROVE master'[x] \in Ids \cup {None}
    <3> HIDE DEF reached
    <3>1. CASE \E i \in reached : plan.replicas[i] = x
      <4>1. PICK i : i = CHOOSE j \in reached : plan.replicas[j] = x
        OBVIOUS
      <4>2. i \in reached
        BY <3>1, <4>1
      <4>3. master'[x] = PrimaryFor(i)
        BY <2>1, <3>1, <4>1
      <4> QED
        BY <2>2, <4>2, <4>3
    <3>2. CASE ~\E i \in reached : plan.replicas[i] = x
      BY <2>1, <3>2 DEF Fits, StateTypeOK, ClusterTypeOK
    <3> QED
      BY <3>1, <3>2
  <2>4. master' \in [Ids -> Ids \cup {None}]
    <3>1. DOMAIN master' = Ids /\ master' = [x \in Ids |-> master'[x]]
      BY <2>1
    <3> QED
      BY <2>3, <3>1
  <2>5. "verify" \in ScalingSteps \ HealthSteps
    BY StepNames DEF ScalingSteps
  <2> QED
    BY <1>0, <1>1, <2>1, <2>4, <2>5, GoToFits, EndPassFits
<1> QED
  BY <1>2, <1>3

LEMMA verifiesFits ==
  ASSUME Fits, Planned, verifies
  PROVE  Fits' /\ Planned'
<1>1. ClusterTypeOK' /\ lost' \in 0 .. MaxLost
  BY ClusterUnchanged DEF verifies
<1>2. pc # "idle" /\ (GoTo("finish") \/ EndPass)
  BY DEF verifies
<1>3. "finish" \in ScalingSteps \ HealthSteps
  BY StepNames DEF ScalingSteps
<1> QED
  BY <1>1, <1>2, <1>3, GoToFits, EndPassFits

\* The roles are left to the remediation, with a report of their own.
LEMMA ensureReplicaTopologyFits ==
  ASSUME Fits, Planned, ensureReplicaTopology
  PROVE  Fits' /\ Planned'
<1>1. ClusterTypeOK' /\ lost' \in 0 .. MaxLost /\ ClusterTypeOK
  BY ClusterUnchanged DEF ensureReplicaTopology, Fits, StateTypeOK
<1>2. CASE healTopology(TRUE)
  BY <1>2, healTopologyFits DEF ensureReplicaTopology
<1>3. CASE EndPass
  BY <1>1, <1>3, EndPassFits
<1>4. CASE \E seed \in QuietSeeds(TRUE) :
             /\ pc' = "spread"
             /\ nodes' = Listed
             /\ gone' = Silent
             /\ report' = [ids |-> known[seed], master |-> master, owner |-> owner,
                           busy |-> Unreadable(seed), wrong |-> {"spread"}]
             /\ plan' = NoPlan
             /\ UNCHANGED <<heal, stage>>
  <2>1. PICK seed \in QuietSeeds(TRUE) :
             /\ pc' = "spread"
             /\ nodes' = Listed
             /\ gone' = Silent
             /\ report' = [ids |-> known[seed], master |-> master, owner |-> owner,
                           busy |-> Unreadable(seed), wrong |-> {"spread"}]
             /\ plan' = NoPlan
             /\ UNCHANGED <<heal, stage>>
    BY <1>4
  <2>2. seed \in Range(Listed)
    BY <2>1 DEF QuietSeeds
  <2>3. listed # {} /\ seed \in Ids
    BY <1>1, <2>2, ListedFits DEF Range
  <2>4. report'.ids \subseteq Ids
    BY <1>1, <2>1, <2>3 DEF ClusterTypeOK
  <2>5. Silent \subseteq Ids /\ nodes' # <<>> /\ DOMAIN nodes' = listed
    BY <1>1, <2>1, <2>3, ListedFits, NothingRemembered DEF Silent
  <2>6. StateTypeOK'
    BY <1>1, <2>1, <2>4, <2>5 DEF Fits, StateTypeOK
  <2>7. MemoryFits'
    BY <1>1, <2>1, <2>3, <2>5, ListedFits DEF Fits, MemoryFits, ClusterTypeOK
  <2>8. Planned'
    BY <2>1, NoPlanType, StepNames DEF Planned, ScalingSteps, PlanTypeOK
  <2> QED
    BY <2>6, <2>7, <2>8 DEF Fits
<1> QED
  BY <1>2, <1>3, <1>4, Zenon DEF ensureReplicaTopology

LEMMA interruptedFits ==
  ASSUME Fits, interrupted
  PROVE  Fits' /\ Planned'
<1>1. UNCHANGED redisVars /\ lost' = lost + 1 /\ lost < MaxLost /\ EndPass
  BY DEF interrupted, MayLose
<1>2. ClusterTypeOK'
  BY <1>1 DEF Fits, StateTypeOK, ClusterTypeOK, redisVars, pods, views, roles
<1>3. lost' \in 0 .. MaxLost
  BY <1>1, ConstantTypes DEF Fits, StateTypeOK
<1> QED
  BY <1>1, <1>2, <1>3, EndPassFits

\* Only the size of the StatefulSet changes, or nothing Robin remembers.
LEMMA PlannedStays ==
  ASSUME Planned, UNCHANGED <<pc, plan>>
  PROVE  Planned'
BY DEF Planned, PlanTypeOK

LEMMA ResizeOnlyFits ==
  ASSUME Fits, Planned, handleScalingDownWaits \/ growsStatefulSet
  PROVE  Fits' /\ Planned'
<1>1. UNCHANGED <<redisVars, robin, plan>>
  BY DEF handleScalingDownWaits, growsStatefulSet
<1>2. UNCHANGED <<pc, nodes, gone, report, heal, lost>>
  BY <1>1 DEF robin
<1>3. ClusterTypeOK' /\ lost' \in 0 .. MaxLost
  BY <1>1, <1>2, ClusterUnchanged
<1> QED
  BY <1>1, <1>2, <1>3, OthersFit, PlannedStays DEF Fits, StateTypeOK

LEMMA ScaleFits ==
  ASSUME Fits, Planned, SpecFits, Scale
  PROVE  Fits' /\ Planned'
BY handleScalingDownFits, ResizeOnlyFits, handleScalingDownResizesFits, removeNodesFits,
   shrinksStatefulSetFits, handleScalingUpFits, meetsPrimariesFits, meetsReplicasFits,
   healsFirstFits, recoverOpenSlotsFits, runRebalanceOnceFits, retriesFits,
   slotsStableFits, setReplicasFits, verifiesFits, ensureReplicaTopologyFits,
   interruptedFits
   DEF Scale

\* The StatefulSet, the status and the pods shut down.
LEMMA ScaleKeepsRange ==
  ASSUME Fits, Planned, SpecFits, Scale,
         size \in 1 .. MaxPods, stage \in {"ScalingUp", "ScalingDown", "Ready"},
         shut \subseteq Pods
  PROVE  /\ size' \in 1 .. MaxPods
         /\ stage' \in {"ScalingUp", "ScalingDown", "Ready"}
         /\ shut' \subseteq Pods
<1>1. size' = size \/ size' = Target
  BY DEF Scale, handleScalingDown, handleScalingDownWaits, handleScalingDownResizes,
     removeNodes, shrinksStatefulSet, growsStatefulSet, handleScalingUp, meetsPrimaries,
     meetsReplicas, healsFirst, recoverOpenSlots, runRebalanceOnce, retries, slotsStable,
     setReplicas, verifies, ensureReplicaTopology, interrupted, ScaleStatefulSet
<1>2. stage' = stage \/ stage' = "Ready"
  <2>1. CASE ensureReplicaTopology
    BY <2>1, Zenon DEF ensureReplicaTopology
  <2>2. CASE ~ensureReplicaTopology
    BY <2>2 DEF Scale, handleScalingDown, handleScalingDownWaits,
       handleScalingDownResizes, removeNodes, shrinksStatefulSet, growsStatefulSet,
       handleScalingUp, meetsPrimaries, meetsReplicas, healsFirst, recoverOpenSlots,
       runRebalanceOnce, retries, slotsStable, setReplicas, verifies, interrupted
  <2> QED
    BY <2>1, <2>2
<1>3. shut' \subseteq Pods
  <2>1. CASE removeNodes
    BY <2>1, removeNodesFits
  <2>2. CASE ~removeNodes
    <3>1. shut' = shut
      BY <2>2 DEF Scale, handleScalingDown, handleScalingDownWaits,
         handleScalingDownResizes, shrinksStatefulSet, growsStatefulSet,
         handleScalingUp, meetsPrimaries, meetsReplicas, healsFirst, recoverOpenSlots,
         runRebalanceOnce, retries, slotsStable, setReplicas, verifies,
         ensureReplicaTopology, interrupted
    <3> QED
      BY <3>1
  <2> QED
    BY <2>1, <2>2
<1> QED
  BY <1>1, <1>2, <1>3 DEF SpecFits

\* A cluster that is being remediated has no plan to lose.
LEMMA HealsFits ==
  ASSUME Fits, Planned, Heals
  PROVE  Fits' /\ Planned'
<1>1. UNCHANGED plan
  BY DEF Heals, scaling
<1>2. pc \in HealthSteps
  BY StepNames DEF Heals, Check, Remediate, WaitForGossip, HealRead,
     promoteReplicaOfDeadMaster, leaveSlotOwner, forgetFromAllPeers, meetFromAllPeers,
     clusterFix, remediateSlotCoverage, remediateReplicaSpread, remediateClusterCheck,
     remediateBalance
<1>3. plan = NoPlan
  BY <1>2 DEF Planned
<1>4. Fits' /\ pc' \in HealthSteps
  BY CheckFits, RemediateFits DEF Heals
<1>5. pc' \in ScalingSteps /\ pc' # "retry"
  BY <1>4, StepNames DEF ScalingSteps
<1> QED
  BY <1>1, <1>3, <1>4, <1>5 DEF Planned, PlanTypeOK

-----------------------------------------------------------------------------
(* Scaling.                                                                *)

LEMMA ScalingInitFits ==
  ASSUME Storage \subseteq {"persistent"}, ScalingInit
  PROVE  ScalingIInv
<1>1. PICK r \in Resizes, k \in Storage :
        /\ spec = [primaries |-> r[2].primaries, replicas |-> r[2].replicas,
                   storage |-> k]
        /\ AsCreated(r[1])
        /\ size = Total(r[1])
        /\ stage = Direction(r)
  BY DEF ScalingInit
<1>2. \A i \in 1 .. 2 : /\ r[i].primaries \in Nat \ {0} /\ r[i].replicas \in Nat
                        /\ Total(r[i]) <= MaxPods
  BY ScalingAssumption
<1>3. PICK t, u : t = r[1] /\ u = r[2]
  OBVIOUS
<1>4. /\ t.primaries \in Nat \ {0} /\ t.replicas \in Nat /\ Total(t) <= MaxPods
      /\ u.primaries \in Nat \ {0} /\ u.replicas \in Nat /\ Total(u) <= MaxPods
  <2>1. 1 \in 1 .. 2 /\ 2 \in 1 .. 2
    OBVIOUS
  <2> QED
    BY <1>2, <1>3, <2>1
<1>5. ASSUME NEW v, v.primaries \in Nat \ {0}, v.replicas \in Nat, Total(v) <= MaxPods
      PROVE  /\ Total(v) \in 1 .. MaxPods
             /\ v.primaries * (1 + v.replicas) <= MaxPods
  <2>1. PICK P \in Nat \ {0}, R \in Nat : P = v.primaries /\ R = v.replicas
    BY <1>5
  <2>2. Total(v) = P + P * R
    BY <2>1 DEF Total
  <2>3. P * (1 + R) = P + P * R /\ P * R \in Nat
    BY TopologyArithmetic
  <2>4. v.primaries * (1 + v.replicas) = P * (1 + R)
    BY <2>1
  <2>5. PICK q \in Nat : q = P * R
    BY <2>3
  <2>6. P + q <= MaxPods /\ P + q \in 1 .. MaxPods
    BY <1>5, <2>2, <2>5, ConstantTypes
  <2> QED
    BY <2>2, <2>3, <2>4, <2>5, <2>6
<1>6. ClusterTypeOK
  BY <1>1, <1>3, <1>4, <1>5, AsCreatedTypes
<1>7. Fits /\ pc = "idle"
  BY <1>6, RobinInitFits DEF ScalingInit
<1>8. Planned
  BY <1>7, NoPlanType, StepNames DEF ScalingInit, Planned, ScalingSteps
<1>9. size \in 1 .. MaxPods
  BY <1>1, <1>3, <1>4, <1>5
<1>10. stage \in {"ScalingUp", "ScalingDown", "Ready"}
  BY <1>1 DEF Direction
<1>11. shut \subseteq Pods
  BY DEF ScalingInit
<1>12. SpecFits
  <2>1. spec.primaries = u.primaries /\ spec.replicas = u.replicas /\ spec.storage = k
    BY <1>1, <1>3
  <2>2. Target = Total(u)
    BY <2>1 DEF Target, Total
  <2>3. Target \in 1 .. MaxPods
    BY <1>4, <1>5, <2>2
  <2>4. ~Ephemeral
    BY <1>1, <2>1 DEF Ephemeral
  <2> QED
    BY <1>4, <2>1, <2>3, <2>4 DEF SpecFits, Primaries, ReplicasPerPrimary
<1> QED
  BY <1>7, <1>8, <1>9, <1>10, <1>11, <1>12, ScalingIInvParts

LEMMA UnlistTypes ==
  ASSUME Fits, NEW p \in Pods, Unlist(p)
  PROVE  gone' \subseteq Ids
BY DEF Unlist, Fits, StateTypeOK, ClusterTypeOK

LEMMA KubeStopsPodFits ==
  ASSUME Fits, Planned, shut \subseteq Pods, NEW p \in Pods, KubeStopsPod(p)
  PROVE  /\ Fits' /\ Planned' /\ shut' \subseteq Pods
         /\ UNCHANGED <<size, stage>>
<1>1. /\ listed' = listed \ {p} /\ shut' = shut \ {p} /\ Unlist(p)
      /\ UNCHANGED <<restarts, pc, nodes, report, heal, lost, size, stage, plan>>
  BY DEF KubeStopsPod
<1>2. ClusterTypeOK /\ listed' \subseteq Pods /\ restarts' \in 0 .. MaxRestarts
  BY <1>1 DEF Fits, StateTypeOK, ClusterTypeOK
<1>3. ClusterTypeOK'
  <2>1. CASE NodeStops(p)
    BY <1>2, <2>1, NodeStopsTypes
  <2>2. CASE UNCHANGED <<node, alive, moved, fresh, views, roles>>
    BY <1>2, <2>2 DEF ClusterTypeOK, views, roles
  <2> QED
    BY <2>1, <2>2 DEF KubeStopsPod
<1> QED
  BY <1>1, <1>3, UnlistTypes, OthersFit, PlannedStays

LEMMA KubeStartsPodFits ==
  ASSUME Fits, Planned, SpecFits, shut \subseteq Pods, NEW p \in Pods, KubeStartsPod(p)
  PROVE  /\ Fits' /\ Planned' /\ shut' \subseteq Pods
         /\ UNCHANGED <<size, stage>>
<1>1. shut' = shut \ {p} /\ UNCHANGED <<robin, size, stage, plan>>
  BY DEF KubeStartsPod
<1>2. UNCHANGED <<pc, nodes, gone, report, heal, lost>>
  BY <1>1 DEF robin
<1>3. PICK same : PodReturns(p, same)
  BY DEF KubeStartsPod
<1>4. ClusterTypeOK'
  BY <1>3, PodReturnsTypes DEF Fits, StateTypeOK, SpecFits
<1>5. gone' \subseteq Ids
  BY <1>2 DEF Fits, StateTypeOK
<1> QED
  BY <1>1, <1>2, <1>4, <1>5, OthersFit, PlannedStays

LEMMA FailsFits ==
  ASSUME Fits, Planned, NEW p \in Pods, Fails(p)
  PROVE  Fits' /\ Planned' /\ UNCHANGED <<size, stage, shut>>
<1>1. /\ PodFails(p) /\ Unlist(p)
      /\ UNCHANGED <<pc, nodes, report, heal, lost, size, stage, shut, plan>>
  BY DEF Fails, scaling
<1>2. ClusterTypeOK'
  BY <1>1, PodFailsTypes DEF Fits, StateTypeOK
<1> QED
  BY <1>1, <1>2, UnlistTypes, OthersFit, PlannedStays

LEMMA ScalingSettlesTypes ==
  ASSUME Fits, ClusterSettles \/ \E x \in Ids : FailsOver(x)
  PROVE  ClusterTypeOK'
<1>1. ClusterTypeOK
  BY DEF Fits, StateTypeOK
<1>2. CASE \E x \in Ids : Reconnects(x) \/ GossipReaches(x) \/ Syncs(x)
  BY <1>1, <1>2, SettlesTypes
<1>3. CASE BansExpire
  BY <1>1, <1>3 DEF BansExpire, ClusterTypeOK, pods, roles
<1>4. CASE \E x \in Ids : FailsOver(x)
  BY <1>1, <1>4, FailsOverTypes
<1> QED
  BY <1>2, <1>3, <1>4 DEF ClusterSettles

LEMMA SpecStays ==
  ASSUME SpecFits, UNCHANGED spec
  PROVE  SpecFits'
BY DEF SpecFits, Primaries, ReplicasPerPrimary, Target, Ephemeral

LEMMA ScalingStep ==
  ASSUME ScalingIInv, [ScalingNext]_scalingVars
  PROVE  ScalingIInv'
<1> DEFINE Rest == /\ size \in 1 .. MaxPods
                   /\ stage \in {"ScalingUp", "ScalingDown", "Ready"}
                   /\ shut \subseteq Pods
<1>0. Fits /\ Planned /\ Rest /\ SpecFits
  BY ScalingIInvParts
<1>1. ASSUME Fits', Planned', Rest', UNCHANGED spec PROVE ScalingIInv'
  <2>1. SpecFits'
    BY <1>0, <1>1, SpecStays
  <2> QED
    BY <1>1, <2>1 DEF ScalingIInv, ScalingTypeOK, Fits, Planned, PlanFits, PlanTypeOK,
       ScalingSteps, HealthSteps
<1>2. CASE Scale /\ UNCHANGED spec
  BY <1>0, <1>1, <1>2, ScaleFits, ScaleKeepsRange
<1>3. CASE Heals /\ UNCHANGED spec
  BY <1>0, <1>1, <1>3, HealsFits DEF Heals, scaling
<1>4. CASE \E p \in Pods : KubeStopsPod(p) /\ UNCHANGED spec
  BY <1>0, <1>1, <1>4, KubeStopsPodFits
<1>5. CASE \E p \in Pods : KubeStartsPod(p) /\ UNCHANGED spec
  BY <1>0, <1>1, <1>5, KubeStartsPodFits
<1>6. CASE \E p \in Pods : Fails(p) /\ UNCHANGED spec
  BY <1>0, <1>1, <1>6, FailsFits
<1>7. CASE /\ ClusterSettles \/ \E x \in Ids : FailsOver(x)
           /\ UNCHANGED <<spec, robin, scaling>>
  <2>1. UNCHANGED <<pc, nodes, gone, report, heal, lost, size, stage, shut, plan>>
    BY <1>7 DEF robin, scaling
  <2>2. gone' \subseteq Ids
    BY <1>0, <2>1 DEF Fits, StateTypeOK
  <2>3. ClusterTypeOK'
    BY <1>0, <1>7, ScalingSettlesTypes
  <2> QED
    BY <1>0, <1>1, <1>7, <2>1, <2>2, <2>3, OthersFit, PlannedStays
<1>8. CASE UNCHANGED scalingVars
  <2>1. /\ UNCHANGED <<pc, nodes, gone, report, heal, lost, size, stage, shut, plan, spec>>
        /\ UNCHANGED redisVars
    BY <1>8 DEF scalingVars, vars, robin, scaling
  <2>2. gone' \subseteq Ids
    BY <1>0, <2>1 DEF Fits, StateTypeOK
  <2>3. ClusterTypeOK'
    BY <1>0, <2>1, ClusterUnchanged
  <2> QED
    BY <1>0, <1>1, <2>1, <2>2, <2>3, OthersFit, PlannedStays
<1> QED
  BY <1>2, <1>3, <1>4, <1>5, <1>6, <1>7, <1>8 DEF ScalingNext, Robin, Controller

\* For any resize, any number of pods, slots, attempts and failures, with
\* storage that persists: the inductive invariant of the scaling handlers with
\* the remediation they call.
THEOREM ScalingInvariant ==
  ASSUME Storage \subseteq {"persistent"}
  PROVE  ScalingSpec => []ScalingIInv
<1>1. ScalingInit => ScalingIInv
  BY ScalingInitFits
<1>2. ScalingIInv /\ [ScalingNext]_scalingVars => ScalingIInv'
  BY ScalingStep
<1> QED
  BY <1>1, <1>2, PTL DEF ScalingSpec

\* Type correctness of scaling: no plan outlives its pass, however it is cut off
\* or handed over, and rebalanceWithRetry stays within its attempts.
THEOREM ScalingTypeCorrect ==
  ASSUME Storage \subseteq {"persistent"}
  PROVE  ScalingSpec => []ScalingTypeOK
<1>1. ScalingIInv => ScalingTypeOK
  BY DEF ScalingIInv
<1> QED
  BY <1>1, ScalingInvariant, PTL
=============================================================================
