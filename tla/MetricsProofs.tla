--------------------------- MODULE MetricsProofs ---------------------------
(***************************************************************************)
(* Proofs about Metrics for every set of pods, configs, labels, Secrets    *)
(* and passwords, and any number of events.                                *)
(***************************************************************************)
EXTENDS Metrics, TLAPS

(***************************************************************************)
(* What the operators of the model return.                                 *)
(***************************************************************************)

\* A setting that is given takes effect, one that is omitted leaves the old one.
LEMMA GivenIsOneOf ==
  ASSUME NEW S, NEW T, S \subseteq T, NEW old \in T
  PROVE  /\ Given(S, old) \in T
         /\ S # {} => Given(S, old) \in S
         /\ S = {} => Given(S, old) = old
  BY DEF Given

\* labelsForKeys returns labels of exactly the keys it is given.
LEMMA LabelsHaveTheKeys ==
  ASSUME NEW l, NEW keys
  PROVE  DOMAIN labelsForKeys(l, keys) = keys
  BY DEF labelsForKeys

\* A config names a Secret or none, and gives one map of labels or none.
LEMMA ConfigFacts ==
  ASSUME NEW c \in Configs
  PROVE  /\ c.labels \subseteq Labels
         /\ c.infoKeys \subseteq {"none", "some"}
         /\ c.primaries \in Nat
         /\ c.standalone \in BOOLEAN
         /\ c.secret \in Secrets \cup {NoSecret}
<1>1. c \in ConfigType
  BY MetricsAssumption
<1>2. /\ c.labels \in {{}} \cup {{l} : l \in Labels}
      /\ c.infoKeys \in {{}} \cup {{k} : k \in {"none", "some"}}
  BY <1>1 DEF ConfigType
<1> QED
  BY <1>1, <1>2 DEF ConfigType

\* The password that a name leads to is one a Secret may hold, or the one that
\* stands for none.
LEMMA PasswordIsOne ==
  ASSUME secret \in [Secrets -> Passwords], NEW s \in Secrets \cup {NoSecret}
  PROVE  PasswordIn(s) \in Passwords
  BY MetricsAssumption DEF PasswordIn

\* The keys a metric is exported with are keys of some labels, and those the
\* gauge has if it is registered.
LEMMA RegisteredKeysAreKeys ==
  ASSUME TypeOK, HandedOn, NEW kind \in Kinds
  PROVE  /\ RegisteredKeys(kind) \in {DOMAIN l : l \in Labels \cup {<<>>}}
         /\ gauges[kind] # {} => RegisteredKeys(kind) \in gauges[kind]
<1> DEFINE T == {DOMAIN l : l \in Labels \cup {<<>>}}
<1>1. gauges[kind] \subseteq T
  BY DEF TypeOK
<1>2. DOMAIN rc.labels \in T
  BY DEF HandedOn, RuntimeConfigType
<1>3. PICK S, old : S = gauges[kind] /\ old = DOMAIN rc.labels
  OBVIOUS
<1>4. Given(S, old) \in T /\ (S # {} => Given(S, old) \in S)
  BY <1>1, <1>2, <1>3, GivenIsOneOf
<1> QED
  BY <1>3, <1>4 DEF RegisteredKeys

\* UpdateDynamicMetric keeps every series within the keys of its gauge.
LEMMA UpdateKeepsKeys ==
  ASSUME TypeOK, HandedOn, NEW kind \in Kinds, NEW objects,
         UpdateDynamicMetric(kind, objects)
  PROVE  /\ gauges' \in [Kinds -> SUBSET {DOMAIN l : l \in Labels \cup {<<>>}}]
         /\ \A s \in series' : s.kind \in Kinds /\ gauges'[s.kind] = {DOMAIN s.labels}
         /\ \A s \in series' : s \in series \/ (s.kind = kind /\ s.of \in objects)
<1> DEFINE T == {DOMAIN l : l \in Labels \cup {<<>>}}
           keys == RegisteredKeys(kind)
           new == [o \in objects |-> [kind |-> kind, of |-> o,
                                      labels |-> labelsForKeys(rc.labels, keys)]]
<1>1. keys \in T /\ (gauges[kind] # {} => keys \in gauges[kind])
  BY RegisteredKeysAreKeys
<1>2. gauges' = [gauges EXCEPT ![kind] = {keys}] /\ gauges \in [Kinds -> SUBSET T]
  BY DEF UpdateDynamicMetric, TypeOK
<1>3. gauges' \in [Kinds -> SUBSET T] /\ gauges'[kind] = {keys}
  <2> HIDE DEF T, keys
  <2> QED
    BY <1>1, <1>2
<1>4. series' = series \cup {[kind |-> kind, of |-> o,
                              labels |-> labelsForKeys(rc.labels, keys)] : o \in objects}
  BY DEF UpdateDynamicMetric, Series
<1>5. DOMAIN labelsForKeys(rc.labels, keys) = keys
  BY LabelsHaveTheKeys
<1> HIDE DEF T, keys
<1>6. ASSUME NEW s \in series'
      PROVE  \/ s \in series
             \/ s.kind = kind /\ s.of \in objects /\ DOMAIN s.labels = keys
  BY <1>4, <1>5
<1>7. ASSUME NEW s \in series
      PROVE  s.kind \in Kinds /\ gauges'[s.kind] = {DOMAIN s.labels}
  <2>1. s.kind \in Kinds /\ gauges[s.kind] = {DOMAIN s.labels}
    BY DEF TypeOK, HandedOn
  <2>2. CASE s.kind = kind
    BY <1>1, <1>3, <2>1, <2>2
  <2>3. CASE s.kind # kind
    BY <1>2, <2>1, <2>3
  <2> QED
    BY <2>1, <2>2, <2>3
<1> QED
  BY <1>3, <1>6, <1>7 DEF T

(***************************************************************************)
(* The inductive invariant.                                                *)
(***************************************************************************)

\* A collector that has just started has nothing to be wrong about.
LEMMA InitIInv == Init => IInv
<1> SUFFICES ASSUME Init PROVE IInv
  OBVIOUS
<1>1. secret \in [Secrets -> Passwords]
  BY MetricsAssumption DEF Init
<1>2. nodePw \in Passwords
  <2>1. PICK s \in Secrets \cup {NoSecret} : s = First.secret
    BY ConfigFacts, MetricsAssumption
  <2> QED
    BY <1>1, <2>1, PasswordIsOne DEF Init
<1>3. TypeOK
  BY <1>2, MetricsAssumption DEF Init, TypeOK, Kinds
<1>4. HandedOn
  BY <1>1 DEF Init, HandedOn, NewRuntimeConfig, RuntimeConfigType
<1> QED
  BY <1>3, <1>4 DEF Init, IInv, PoolIsOfOnePassword, NodesAreOfTheLastReport

\* The world and the reconciler's pass touch nothing of the collector's, and
\* write only labels, names and passwords that there are.
LEMMA PassKeepsIInv ==
  ASSUME IInv,
         UNCHANGED <<pc, collector, manager>>,
         nodePw' \in Passwords, applied' \in Configs, target' \in Configs,
         rc' \in RuntimeConfigType,
         secret' \in [Secrets -> Passwords]
  PROVE  IInv'
<1> USE DEF IInv, collector, manager
<1>1. TypeOK'
  BY DEF TypeOK
<1>2. PoolIsOfOnePassword' /\ NodesAreOfTheLastReport'
  BY DEF PoolIsOfOnePassword, NodesAreOfTheLastReport
<1>3. HandedOn'
  BY DEF HandedOn
<1> QED
  BY <1>1, <1>2, <1>3

\* Writing the labels: those of the config, or those that were there.
LEMMA SetFromRobinConfigKeepsIInv ==
  ASSUME IInv, SetFromRobinConfig
  PROVE  IInv'
<1>1. /\ UNCHANGED <<pc, collector, manager, nodePw, applied, target, secret>>
      /\ rc' = [rc EXCEPT !.labels = Given(applied.labels, @),
                          !.infoKeys = Given(applied.infoKeys, @)]
  BY DEF SetFromRobinConfig, world
<1>2. rc \in RuntimeConfigType
  BY DEF IInv, HandedOn
<1>3. PICK S, K, l, k : /\ S = applied.labels /\ l = rc.labels
                        /\ K = applied.infoKeys /\ k = rc.infoKeys
  OBVIOUS
<1>4. /\ S \subseteq Labels \cup {<<>>} /\ l \in Labels \cup {<<>>}
      /\ K \subseteq {"none", "some"} /\ k \in {"none", "some"}
  BY <1>2, <1>3, ConfigFacts DEF IInv, TypeOK, RuntimeConfigType
<1>5. Given(S, l) \in Labels \cup {<<>>} /\ Given(K, k) \in {"none", "some"}
  BY <1>4, GivenIsOneOf
<1>6. rc' \in RuntimeConfigType
  BY <1>1, <1>2, <1>3, <1>5 DEF RuntimeConfigType
<1> QED
  BY <1>1, <1>6, PassKeepsIInv DEF IInv, TypeOK, HandedOn

\* The other steps of the world and of the pass.
LEMMA WorldKeepsIInv ==
  ASSUME IInv,
         \/ SetTopology \/ SetAuthSecret \/ applyAuthCredentials \/ PassEnds
         \/ \E c \in Configs : NewConfig(c)
         \/ \E s \in Secrets, p \in Passwords \ {NoPassword} : EditSecret(s, p)
         \/ \E n \in Names : PodRestarts(n)
  PROVE  IInv'
<1> USE DEF IInv, TypeOK, HandedOn, world, reconciler
<1>1. ASSUME SetTopology PROVE IInv'
  <2>1. rc' \in RuntimeConfigType
    <3>1. rc' = [rc EXCEPT !.primaries = applied.primaries,
                           !.standalone = applied.standalone]
      BY <1>1 DEF SetTopology
    <3>2. applied.primaries \in Nat /\ applied.standalone \in BOOLEAN
      BY ConfigFacts
    <3>3. rc \in RuntimeConfigType
      OBVIOUS
    <3> HIDE DEF IInv, TypeOK, HandedOn
    <3> QED
      BY <3>1, <3>2, <3>3, Zenon DEF RuntimeConfigType
  <2> QED
    BY <1>1, <2>1, PassKeepsIInv DEF SetTopology
<1>2. ASSUME SetAuthSecret PROVE IInv'
  <2>1. rc' \in RuntimeConfigType
    BY <1>2, ConfigFacts DEF SetAuthSecret, RuntimeConfigType
  <2> QED
    BY <1>2, <2>1, PassKeepsIInv DEF SetAuthSecret
<1>3. ASSUME applyAuthCredentials PROVE IInv'
  <2>1. PICK s \in Secrets \cup {NoSecret} : s = target.secret
    BY ConfigFacts
  <2>2. nodePw' \in Passwords
    BY <1>3, <2>1, PasswordIsOne DEF applyAuthCredentials
  <2>3. rc' \in RuntimeConfigType
    BY <1>3, <2>1 DEF applyAuthCredentials, RuntimeConfigType
  <2> QED
    BY <1>3, <2>2, <2>3, PassKeepsIInv DEF applyAuthCredentials
<1>4. ASSUME PassEnds PROVE IInv'
  BY <1>4, PassKeepsIInv DEF PassEnds
<1>5. ASSUME NEW c \in Configs, NewConfig(c) PROVE IInv'
  BY <1>5, PassKeepsIInv DEF NewConfig
<1>6. ASSUME NEW s \in Secrets, NEW p \in Passwords \ {NoPassword}, EditSecret(s, p)
      PROVE  IInv'
  <2>1. secret' \in [Secrets -> Passwords]
    BY <1>6 DEF EditSecret
  <2> QED
    BY <1>6, <2>1, PassKeepsIInv DEF EditSecret
<1>7. ASSUME NEW n \in Names, PodRestarts(n) PROVE IInv'
  BY <1>7, PassKeepsIInv DEF PodRestarts
<1> QED
  BY <1>1, <1>2, <1>3, <1>4, <1>5, <1>6, <1>7

\* The registry is emptied as a whole, or its gauges stay and their series go.
LEMMA SchemaKeepsIInv ==
  ASSUME IInv, reconcileMetricsLabelSchema
  PROVE  IInv'
<1> USE DEF IInv, reconcileMetricsLabelSchema, world, reconciler, manager
<1>1. \/ gauges' = [k \in Kinds |-> {}] /\ series' = {}
      \/ gauges' = gauges /\ series' \subseteq series
  OBVIOUS
<1>2. TypeOK'
  BY <1>1 DEF TypeOK
<1>3. PoolIsOfOnePassword' /\ NodesAreOfTheLastReport'
  BY <1>1 DEF PoolIsOfOnePassword, NodesAreOfTheLastReport
<1>4. HandedOn'
  BY <1>1 DEF HandedOn
<1> QED
  BY <1>2, <1>3, <1>4

\* The cycle's password is a cached one or the one in the Secret.
LEMMA PasswordKeepsIInv ==
  ASSUME IInv, getPassword
  PROVE  IInv'
<1>1. PICK S : S = IF rc.secret = loaded.name THEN loaded.password ELSE {}
  OBVIOUS
<1>2. PICK q \in Passwords : q = PasswordIn(rc.secret)
  <2>1. PICK s \in Secrets \cup {NoSecret} : s = rc.secret
    BY DEF IInv, HandedOn, RuntimeConfigType
  <2> QED
    BY <2>1, PasswordIsOne DEF IInv, HandedOn
<1>3. Given(S, q) \in Passwords
  <2>1. S \subseteq Passwords
    BY <1>1 DEF IInv, HandedOn
  <2> QED
    BY <2>1, GivenIsOneOf
<1>4. /\ UNCHANGED <<world, reconciler, rc, schema, clients, poolPw, todo, lastIDs,
                     manager, returned>>
      /\ \/ /\ loaded' = [name |-> rc.secret, password |-> {Given(S, q)}]
            /\ pw' = Given(S, q)
            /\ pc' = "discover"
         \/ /\ loaded' = [name |-> rc.secret, password |-> {}]
            /\ pw' = pw
            /\ pc' = "idle"
  BY <1>1, <1>2 DEF getPassword, CycleEnds
<1> HIDE DEF IInv
<1> USE DEF world, reconciler, manager
<1>5. pw' \in Passwords /\ loaded'.password \subseteq Passwords
      /\ pc' \in {"discover", "idle"}
  BY <1>3, <1>4 DEF IInv, TypeOK
<1>6. TypeOK'
  BY <1>4, <1>5 DEF IInv, TypeOK
<1>7. PoolIsOfOnePassword' /\ NodesAreOfTheLastReport'
  BY <1>4 DEF IInv, PoolIsOfOnePassword, NodesAreOfTheLastReport
<1>8. HandedOn'
  BY <1>4, <1>5 DEF IInv, HandedOn
<1> QED
  BY <1>6, <1>7, <1>8 DEF IInv

\* A connection made with another password than the cycle's does not survive.
LEMMA DiscoverKeepsIInv ==
  ASSUME IInv, discoverNodes
  PROVE  IInv'
<1> USE DEF IInv, discoverNodes, CycleEnds, world, reconciler, manager
<1>1. TypeOK'
  BY DEF TypeOK
<1>2. PoolIsOfOnePassword'
  BY DEF PoolIsOfOnePassword, reconcileClientPool
<1>3. NodesAreOfTheLastReport' /\ HandedOn'
  BY DEF NodesAreOfTheLastReport, HandedOn, reconcileClientPool
<1> QED
  BY <1>1, <1>2, <1>3

\* A node is collected with the connection it has, or one with the password of
\* the cycle, which is that of the pool.
LEMMA CollectNodeKeepsIInv ==
  ASSUME IInv, NEW a \in todo, collectNode(a)
  PROVE  IInv'
<1> DEFINE fresh == [addr |-> a, pw |-> pw]
           c == IF \E d \in clients : d.addr = a THEN CHOOSE d \in clients : d.addr = a
                ELSE fresh
<1>1. /\ pc = "collect" /\ pc' = pc
      /\ UNCHANGED <<world, reconciler, rc, schema, loaded, poolPw, pw, lastIDs>>
      /\ \/ clients' = clients \cup {c} /\ UpdateDynamicMetric("info", {a[1]})
         \/ clients' = {d \in clients : d.addr # a} /\ UNCHANGED manager
  BY DEF collectNode
<1>2. PoolIsOfOnePassword'
  <2>1. CASE clients' = {d \in clients : d.addr # a}
    BY <1>1, <2>1 DEF IInv, PoolIsOfOnePassword
  <2>2. CASE clients' = clients \cup {c}
    <3>1. CASE \E d \in clients : d.addr = a
      <4>1. c \in clients
        BY <3>1
      <4> HIDE DEF c
      <4> QED
        BY <1>1, <2>2, <4>1 DEF IInv, PoolIsOfOnePassword
    <3>2. CASE ~ \E d \in clients : d.addr = a
      <4>1. c.addr = a /\ c.pw = poolPw
        BY <1>1, <3>2 DEF IInv, HandedOn
      <4> HIDE DEF c
      <4> QED
        BY <1>1, <2>2, <3>2, <4>1 DEF IInv, PoolIsOfOnePassword
    <3> QED
      BY <3>1, <3>2
  <2> QED
    BY <1>1, <2>1, <2>2
<1> HIDE DEF c
<1>3. /\ gauges' \in [Kinds -> SUBSET {DOMAIN l : l \in Labels \cup {<<>>}}]
      /\ \A s \in series' : s.kind \in Kinds /\ gauges'[s.kind] = {DOMAIN s.labels}
      /\ \A s \in series' : s \in series \/ s.kind = "info"
  <2>1. CASE UpdateDynamicMetric("info", {a[1]})
    <3>1. "info" \in Kinds
      BY DEF Kinds
    <3> QED
      BY <2>1, <3>1, UpdateKeepsKeys DEF IInv
  <2>2. CASE UNCHANGED manager
    BY <2>2 DEF IInv, TypeOK, HandedOn, manager
  <2> QED
    BY <1>1, <2>1, <2>2
<1>4. TypeOK'
  BY <1>1, <1>3 DEF IInv, TypeOK, world, reconciler
<1>5. NodesAreOfTheLastReport' /\ HandedOn'
  BY <1>1, <1>3 DEF IInv, NodesAreOfTheLastReport, HandedOn, world
<1> QED
  BY <1>2, <1>4, <1>5 DEF IInv

\* A new report of the nodes empties their gauge unless it names the same ones.
LEMMA CollectClusterKeepsIInv ==
  ASSUME IInv, collectClusterMetrics
  PROVE  IInv'
<1> DEFINE T == {DOMAIN l : l \in Labels \cup {<<>>}}
           keys == RegisteredKeys("cluster")
           info == Series("cluster", None)
<1>1. UNCHANGED <<world, reconciler, rc, schema, loaded, clients, poolPw, pw>>
  BY DEF collectClusterMetrics
<1>2. PoolIsOfOnePassword'
  BY <1>1 DEF IInv, PoolIsOfOnePassword
<1>3. CASE UNCHANGED <<todo, lastIDs, manager>> /\ pc' \in {"idle", "health"}
  <2>1. pc' \in {"idle", "health"} /\ UNCHANGED <<todo, lastIDs, manager>>
    BY <1>3
  <2>2. TypeOK'
    BY <1>1, <2>1 DEF IInv, TypeOK, world, reconciler, manager
  <2>3. NodesAreOfTheLastReport' /\ HandedOn'
    BY <1>1, <2>1 DEF IInv, NodesAreOfTheLastReport, HandedOn, world, manager
  <2> QED
    BY <1>2, <2>2, <2>3 DEF IInv
<1>4. CASE /\ lastIDs' = Addresses /\ todo' = Addresses /\ pc' = "nodes"
           /\ gauges' = [gauges EXCEPT !["cluster"] = {keys}]
           /\ series' = (IF NodesChanged THEN {s \in series : s.kind # "nodes"} ELSE series)
                          \cup {info}
  <2>1. keys \in T /\ (gauges["cluster"] # {} => keys \in gauges["cluster"])
    BY RegisteredKeysAreKeys DEF IInv, Kinds
  <2>2. gauges' = [gauges EXCEPT !["cluster"] = {keys}]
    BY <1>4
  <2>3. /\ lastIDs' = Addresses /\ todo' = Addresses /\ pc' = "nodes"
        /\ series' = (IF NodesChanged THEN {s \in series : s.kind # "nodes"} ELSE series)
                       \cup {info}
    BY <1>4
  <2>4. info.kind = "cluster" /\ DOMAIN info.labels = keys
    BY LabelsHaveTheKeys DEF Series
  <2> HIDE DEF keys, info, T
  <2>5. gauges \in [Kinds -> SUBSET T] /\ "cluster" \in Kinds
    BY DEF IInv, TypeOK, T, Kinds
  <2>6. gauges' \in [Kinds -> SUBSET T] /\ gauges'["cluster"] = {keys}
    BY <2>1, <2>2, <2>5
  <2>7. ASSUME NEW s \in series
        PROVE  s.kind \in Kinds /\ gauges'[s.kind] = {DOMAIN s.labels}
    <3>1. s.kind \in Kinds /\ gauges[s.kind] = {DOMAIN s.labels}
      BY DEF IInv, TypeOK, HandedOn
    <3>2. CASE s.kind = "cluster"
      BY <2>1, <2>6, <3>1, <3>2
    <3>3. CASE s.kind # "cluster"
      BY <2>2, <2>5, <3>1, <3>3
    <3> QED
      BY <3>1, <3>2, <3>3
  <2>8. \A s \in series' : s \in series \/ s = info
    BY <2>3
  <2>9. \A s \in series' : s.kind \in Kinds /\ gauges'[s.kind] = {DOMAIN s.labels}
    BY <2>4, <2>5, <2>6, <2>7, <2>8
  <2>10. TypeOK'
    BY <1>1, <2>3, <2>6, <2>9 DEF IInv, TypeOK, T, world, reconciler
  <2>11. NodesAreOfTheLastReport'
    BY <2>3, <2>4 DEF IInv, NodesAreOfTheLastReport, NodesChanged
  <2>12. HandedOn'
    BY <1>1, <2>3, <2>9 DEF IInv, HandedOn, world
  <2> QED
    BY <1>2, <2>10, <2>11, <2>12 DEF IInv
<1> QED
  BY <1>3, <1>4 DEF collectClusterMetrics, CycleEnds

\* A node that is exported is one of the report.
LEMMA ProcessNodeKeepsIInv ==
  ASSUME IInv, NEW a \in todo, processClusterNode(a)
  PROVE  IInv'
<1>1. /\ pc = "nodes" /\ pc' \in {"health", "nodes"} /\ todo' \subseteq todo
      /\ UNCHANGED <<world, reconciler, rc, schema, loaded, clients, poolPw, pw, lastIDs>>
      /\ UpdateDynamicMetric("nodes", {a})
  BY DEF processClusterNode
<1>2. /\ gauges' \in [Kinds -> SUBSET {DOMAIN l : l \in Labels \cup {<<>>}}]
      /\ \A s \in series' : s.kind \in Kinds /\ gauges'[s.kind] = {DOMAIN s.labels}
      /\ \A s \in series' : s \in series \/ s.of \in {a}
  <2>1. "nodes" \in Kinds
    BY DEF Kinds
  <2> QED
    BY <1>1, <2>1, UpdateKeepsKeys DEF IInv
<1>3. TypeOK'
  BY <1>1, <1>2 DEF IInv, TypeOK, world, reconciler
<1>4. PoolIsOfOnePassword' /\ NodesAreOfTheLastReport'
  BY <1>1, <1>2 DEF IInv, PoolIsOfOnePassword, NodesAreOfTheLastReport, HandedOn
<1>5. HandedOn'
  BY <1>1, <1>2 DEF IInv, HandedOn, world
<1> QED
  BY <1>3, <1>4, <1>5 DEF IInv

LEMMA HealthMetricsKeepIInv ==
  ASSUME IInv, processClusterHealthMetrics
  PROVE  IInv'
<1>1. /\ pc' = "idle"
      /\ UNCHANGED <<world, reconciler, rc, schema, loaded, clients, poolPw, todo, pw, lastIDs>>
      /\ UpdateDynamicMetric("health", {None})
  BY DEF processClusterHealthMetrics, CycleEnds
<1>2. /\ gauges' \in [Kinds -> SUBSET {DOMAIN l : l \in Labels \cup {<<>>}}]
      /\ \A s \in series' : s.kind \in Kinds /\ gauges'[s.kind] = {DOMAIN s.labels}
      /\ \A s \in series' : s \in series \/ s.kind = "health"
  <2>1. "health" \in Kinds
    BY DEF Kinds
  <2> QED
    BY <1>1, <2>1, UpdateKeepsKeys DEF IInv
<1>3. TypeOK'
  BY <1>1, <1>2 DEF IInv, TypeOK, world, reconciler
<1>4. PoolIsOfOnePassword' /\ NodesAreOfTheLastReport'
  BY <1>1, <1>2 DEF IInv, PoolIsOfOnePassword, NodesAreOfTheLastReport
<1>5. HandedOn'
  BY <1>1, <1>2 DEF IInv, HandedOn, world
<1> QED
  BY <1>3, <1>4, <1>5 DEF IInv

\* Every step of the two goroutines and of the world keeps the invariant.
LEMMA NextIInv == IInv /\ [Next]_vars => IInv'
<1> SUFFICES ASSUME IInv, [Next]_vars PROVE IInv'
  OBVIOUS
<1>1. ASSUME UNCHANGED vars PROVE IInv'
  BY <1>1, PassKeepsIInv
     DEF vars, world, reconciler, IInv, TypeOK, HandedOn
<1>2. ASSUME Pass PROVE IInv'
  BY <1>2, SetFromRobinConfigKeepsIInv, WorldKeepsIInv DEF Pass
<1>3. ASSUME Cycle PROVE IInv'
  BY <1>3, SchemaKeepsIInv, PasswordKeepsIInv, DiscoverKeepsIInv,
     CollectClusterKeepsIInv, CollectNodeKeepsIInv, ProcessNodeKeepsIInv,
     HealthMetricsKeepIInv DEF Cycle
<1>4. ASSUME \/ \E c \in Configs : NewConfig(c)
             \/ \E s \in Secrets, p \in Passwords \ {NoPassword} : EditSecret(s, p)
             \/ \E n \in Names : PodRestarts(n)
      PROVE  IInv'
  BY <1>4, WorldKeepsIInv
<1> QED
  BY <1>1, <1>2, <1>3, <1>4 DEF Next

(***************************************************************************)
(* The theorems.                                                           *)
(***************************************************************************)

\* The inductive invariant holds of the collector and the runtime
\* configuration, however the reconciler's writes fall into a cycle.
THEOREM InvariantHolds == Spec => []IInv
  BY InitIInv, NextIInv, PTL DEF Spec

\* Everything keeps its type, and every series that UpdateDynamicMetric exports
\* has the label keys its gauge was registered with, although the labels change
\* between any two nodes of a cycle.
THEOREM TypeCorrect == Spec => []TypeOK
<1>1. IInv => TypeOK
  BY DEF IInv
<1> QED
  BY <1>1, InvariantHolds, PTL

\* The connection pool of the collector never holds a connection made with a
\* password of an earlier rotation, nor two to one address.
THEOREM PoolOfOnePassword == Spec => []PoolIsOfOnePassword
<1>1. IInv => PoolIsOfOnePassword
  BY DEF IInv
<1> QED
  BY <1>1, InvariantHolds, PTL

\* processClusterNodes never leaves a series of a node that the last report
\* does not name, whatever pods restart in the middle of a cycle.
THEOREM NodesOfTheLastReport == Spec => []NodesAreOfTheLastReport
<1>1. IInv => NodesAreOfTheLastReport
  BY DEF IInv
<1> QED
  BY <1>1, InvariantHolds, PTL
=============================================================================
