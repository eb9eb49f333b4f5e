------------------------------ MODULE Metrics ------------------------------
(***************************************************************************)
(* The metrics collector (internal/metrics) and the runtime configuration  *)
(* it shares with the reconciler (internal/config/runtime.go).             *)
(*                                                                         *)
(* Two goroutines. The reconciler's pass writes the configuration in       *)
(* several pieces, each under the lock, none together. The collector's     *)
(* cycle reads them one by one over many seconds, the labels again for     *)
(* every node, and keeps a password, a pool of connections and a registry  *)
(* of gauges from one cycle to the next. How passwords get to the nodes is *)
(* the subject of module AuthRotation: here it is one step.                *)
(***************************************************************************)
EXTENDS Naturals, Sequences, FiniteSets

CONSTANTS
  Names,        \* the pods, by name
  Configs,      \* what a config may ask for: see ConfigType
  First,        \* the config of the start
  Labels,       \* the maps of metrics labels
  Secrets,      \* names of Secrets
  NoSecret,     \* the empty name: no authentication
  Passwords,    \* what a Secret may hold
  NoPassword,
  FirstPassword,
  MaxEvents     \* bound: new configs, edits, restarts and failed calls

\* A setting of the RobinConfig may be omitted: a set of at most one value.
ConfigType ==
  [labels : {{}} \cup {{l} : l \in Labels}, infoKeys : {{}} \cup {{k} : k \in {"none", "some"}},
   primaries : Nat, standalone : BOOLEAN, secret : Secrets \cup {NoSecret}]

ASSUME MetricsAssumption ==
  /\ Configs \subseteq ConfigType
  /\ First \in Configs
  /\ NoSecret \notin Secrets
  /\ {NoPassword, FirstPassword} \subseteq Passwords
  /\ MaxEvents \in Nat

VARIABLES
  \* the world
  secret,      \* secret[s]: the password in Secret s
  nodePw,      \* the password of the nodes
  pods,        \* the address of each pod: it changes when the pod restarts
  \* the reconciler
  applied,     \* the config that was applied last
  target,      \* the config that is worked on
  step,        \* the part of the pass that comes next
  \* RuntimeConfig
  rc,
  \* the collector
  pc,          \* the part of the cycle that comes next
  schema,      \* metricsLabels: the labels of the last cycle, as a set of at most one
  loaded,      \* cachedPassword, with the name it is cached for
  clients,     \* nodeClients: their addresses and the password they were made with
  poolPw,      \* nodeClientsPassword
  todo,        \* the nodes of this cycle that are still to be collected
  pw,          \* the password of this cycle
  lastIDs,     \* lastClusterNodeIDs
  \* the MetricsManager
  gauges,      \* the label keys of each registered metric, as a set of at most one
  series,      \* the time series that are exported
  \* history and bounds
  returned,    \* labels went back to those of the last cycle
  events

world == <<secret, nodePw, pods>>
reconciler == <<applied, target, step>>
collector == <<schema, loaded, clients, poolPw, todo, pw, lastIDs>>
manager == <<gauges, series>>
vars == <<world, reconciler, rc, pc, collector, manager, returned, events>>

Kinds == {"info", "cluster", "nodes", "health"}
None == "none"
Empty == ""    \* the value of a label that is not given

PasswordIn(s) == IF s = NoSecret THEN NoPassword ELSE secret[s]

\* NewRuntimeConfig: the default info keys, no labels, no nodes to discover.
NewRuntimeConfig ==
  [labels |-> <<>>, infoKeys |-> "some", primaries |-> 0, standalone |-> FALSE,
   secret |-> NoSecret]

Init ==
  /\ secret = [s \in Secrets |-> FirstPassword]
  /\ nodePw = PasswordIn(First.secret)
  /\ pods = [n \in Names |-> <<n, 0>>]
  /\ applied = First /\ target = First /\ step = "handler"
  /\ rc = NewRuntimeConfig
  /\ pc = "idle"
  /\ schema = {}
  /\ loaded = [name |-> NoSecret, password |-> {}]
  /\ clients = {} /\ poolPw = NoPassword
  /\ todo = {} /\ pw = NoPassword
  /\ lastIDs = {}
  /\ gauges = [k \in Kinds |-> {}]
  /\ series = {}
  /\ returned = FALSE
  /\ events = 0

Event == events < MaxEvents /\ events' = events + 1

-----------------------------------------------------------------------------
(* The world.                                                              *)

\* The Operator creates a config once the last one is applied. A pass begins by
\* choosing its target.
NewConfig(c) ==
  /\ step = "handler" /\ target = applied /\ Event
  /\ target' = c
  /\ UNCHANGED <<world, applied, step, rc, pc, collector, manager, returned>>

EditSecret(s, p) ==
  /\ Event
  /\ secret' = [secret EXCEPT ![s] = p]
  /\ UNCHANGED <<nodePw, pods, reconciler, rc, pc, collector, manager, returned>>

PodRestarts(n) ==
  /\ Event
  /\ pods' = [pods EXCEPT ![n] = <<n, @[2] + 1>>]
  /\ UNCHANGED <<secret, nodePw, reconciler, rc, pc, collector, manager, returned>>

-----------------------------------------------------------------------------
(* The reconciler's pass: a handler runs, and then applyRobinConfig writes  *)
(* what the effective config says, the last applied one. A pass that fails  *)
(* writes nothing: the next one begins with the handler again.              *)

Given(setting, old) == IF setting = {} THEN old ELSE CHOOSE v \in setting : TRUE

\* After a change, the labels or their keys are again those in l.
GoesBackTo(l, old, new) ==
  \/ old # l /\ new = l
  \/ DOMAIN old # DOMAIN l /\ DOMAIN new = DOMAIN l

\* What is omitted stays as it was.
SetFromRobinConfig ==
  /\ step = "robin"
  /\ rc' = [rc EXCEPT !.labels = Given(applied.labels, @),
                      !.infoKeys = Given(applied.infoKeys, @)]
  /\ returned' = (returned \/ \E l \in schema : GoesBackTo(l, rc.labels, rc'.labels))
  /\ step' = "topology"
  /\ UNCHANGED <<world, applied, target, pc, collector, manager, events>>

\* SetTopology and SetStandalone: nothing reads both.
SetTopology ==
  /\ step = "topology"
  /\ rc' = [rc EXCEPT !.primaries = applied.primaries, !.standalone = applied.standalone]
  /\ step' = "auth"
  /\ UNCHANGED <<world, applied, target, pc, collector, manager, returned, events>>

\* Faulty: only a rotation tells the collector the name of the Secret.
SetAuthSecretLater ==
  /\ step = "auth"
  /\ step' = "handler"
  /\ UNCHANGED <<world, applied, target, rc, pc, collector, manager, returned, events>>

SetAuthSecret ==
  /\ step = "auth"
  /\ rc' = [rc EXCEPT !.secret = applied.secret]
  /\ step' = "handler"
  /\ UNCHANGED <<world, applied, target, pc, collector, manager, returned, events>>

\* The nodes get the password of the target's Secret, whether a config names
\* another one or the Secret was edited, and then the runtime its name. The
\* pass may still fail.
applyAuthCredentials ==
  /\ step = "handler"
  /\ nodePw # PasswordIn(target.secret)
  /\ nodePw' = PasswordIn(target.secret)
  /\ rc' = [rc EXCEPT !.secret = target.secret]
  /\ step' \in {"robin", "handler"}
  /\ UNCHANGED <<secret, pods, applied, target, pc, collector, manager, returned, events>>

\* The pass ends: the config is applied, or takes more passes. Nothing that is
\* written changes once the pass has nothing to do.
PassEnds ==
  /\ step = "handler"
  /\ nodePw = PasswordIn(target.secret)
  /\ applied' \in {applied, target}
  /\ step' = "robin"
  /\ UNCHANGED <<world, target, rc, pc, collector, manager, returned, events>>

-----------------------------------------------------------------------------
(* The MetricsManager.                                                     *)

\* Faulty: labels of other keys than the gauge was registered with.
labelsAsTheyAre(l, keys) == l

\* A gauge is registered with the keys of its first use. Later labels are cut
\* down, or filled up with empty values, to these keys.
labelsForKeys(l, keys) == [k \in keys |-> IF k \in DOMAIN l THEN l[k] ELSE Empty]

RegisteredKeys(kind) == Given(gauges[kind], DOMAIN rc.labels)

Series(kind, o) ==
  [kind |-> kind, of |-> o, labels |-> labelsForKeys(rc.labels, RegisteredKeys(kind))]

UpdateDynamicMetric(kind, objects) ==
  /\ gauges' = [gauges EXCEPT ![kind] = {RegisteredKeys(kind)}]
  /\ series' = series \cup {Series(kind, o) : o \in objects}

-----------------------------------------------------------------------------
(* The collector's cycle.                                                  *)

CycleEnds == pc' = "idle"

\* Faulty: only the keys are compared.
reconcileMetricsLabelKeys ==
  /\ pc = "idle"
  /\ IF \E l \in schema : DOMAIN l # DOMAIN rc.labels
     THEN gauges' = [k \in Kinds |-> {}] /\ series' = {}
     ELSE UNCHANGED manager
  /\ schema' = {rc.labels}
  /\ pc' = "password"
  /\ UNCHANGED <<world, reconciler, rc, loaded, clients, poolPw, todo, pw, lastIDs,
                 returned, events>>

\* Other keys: an empty registry. Other values: the gauges without their series.
reconcileMetricsLabelSchema ==
  /\ pc = "idle"
  /\ IF \E l \in schema : DOMAIN l # DOMAIN rc.labels
     THEN gauges' = [k \in Kinds |-> {}] /\ series' = {}
     ELSE IF \E l \in schema : l # rc.labels
     THEN gauges' = gauges /\ series' = {}
     ELSE UNCHANGED manager
  /\ schema' = {rc.labels}
  /\ pc' = "password"
  /\ UNCHANGED <<world, reconciler, rc, loaded, clients, poolPw, todo, pw, lastIDs,
                 returned, events>>

\* The password is read when the name of the Secret is another one than the
\* last time. When that fails the cycle ends, and the next one reads again.
getPassword ==
  /\ pc = "password"
  /\ LET cached == IF rc.secret = loaded.name THEN loaded.password ELSE {}
     IN  \/ /\ loaded' = [name |-> rc.secret,
                          password |-> {Given(cached, PasswordIn(rc.secret))}]
            /\ pw' = Given(cached, PasswordIn(rc.secret))
            /\ pc' = "discover"
            /\ UNCHANGED events
         \/ /\ cached = {} /\ rc.secret # NoSecret
            /\ Event
            /\ loaded' = [name |-> rc.secret, password |-> {}]
            /\ CycleEnds
            /\ UNCHANGED pw
  /\ UNCHANGED <<world, reconciler, rc, schema, clients, poolPw, todo, lastIDs,
                 manager, returned>>

Addresses == {pods[n] : n \in Names}

\* Faulty: only the addresses are compared.
reconcileClientPoolByAddress(nodes) ==
  /\ poolPw' = pw
  /\ clients' = {c \in clients : c.addr \in nodes}

\* Connections made with another password, or to addresses that are gone, are
\* closed.
reconcileClientPool(nodes) ==
  /\ poolPw' = pw
  /\ clients' = IF poolPw # pw THEN {} ELSE {c \in clients : c.addr \in nodes}

\* Without nodes, or when the pods cannot be listed, the cycle ends.
discoverNodes ==
  /\ pc = "discover"
  /\ \/ /\ rc.primaries # 0
        /\ reconcileClientPool(Addresses)
        /\ todo' = IF rc.infoKeys = "none" THEN {} ELSE Addresses
        /\ pc' = "collect"
        /\ UNCHANGED events
     \/ /\ IF rc.primaries = 0 THEN UNCHANGED events ELSE Event
        /\ CycleEnds
        /\ UNCHANGED <<clients, poolPw, todo>>
  /\ UNCHANGED <<world, reconciler, rc, schema, loaded, pw, lastIDs, manager,
                 returned>>

\* A cached connection is used as it is: it authenticated when it was made, and
\* fails on a later password only when it has to be set up again. On an error it
\* is discarded.
collectNode(a) ==
  /\ pc = "collect" /\ a \in todo
  /\ todo' = todo \ {a}
  /\ LET fresh == [addr |-> a, pw |-> pw]
         cached == \E d \in clients : d.addr = a
         c == IF cached THEN CHOOSE d \in clients : d.addr = a ELSE fresh
     IN  \/ /\ a \in Addresses /\ (cached \/ c.pw = nodePw)
            /\ clients' = clients \cup {c}
            /\ UpdateDynamicMetric("info", {a[1]})
            /\ UNCHANGED events
         \/ /\ clients' = {d \in clients : d.addr # a}
            /\ IF a \in Addresses /\ c.pw = nodePw
               THEN Event ELSE UNCHANGED events
            /\ UNCHANGED manager
  /\ UNCHANGED <<world, reconciler, rc, pc, schema, loaded, poolPw, pw, lastIDs,
                 returned>>

\* Faulty: only the number of nodes is compared.
NodeCountChanged == Cardinality(lastIDs) # Cardinality(Addresses)

NodesChanged == lastIDs # Addresses

\* Whether a node answers the health checker, whose connections follow the rules
\* of the pool: one from before a rotation may or may not answer.
MayAnswer == pw = nodePw \/ \E c \in clients : c.addr \in Addresses

\* The health check, unless the deployment is standalone. Without an answer of
\* a node there is no report of the cluster and its nodes, only of the health. A
\* change of the nodes empties their gauge first.
collectClusterMetrics ==
  /\ pc = "collect" /\ todo = {}
  /\ \/ /\ rc.standalone
        /\ CycleEnds
        /\ UNCHANGED <<todo, lastIDs, manager>>
     \/ /\ ~rc.standalone /\ MayAnswer
        /\ lastIDs' = Addresses
        /\ gauges' = [gauges EXCEPT !["cluster"] = {RegisteredKeys("cluster")}]
        /\ series' = (IF NodesChanged THEN {s \in series : s.kind # "nodes"} ELSE series)
                       \cup {Series("cluster", None)}
        /\ todo' = Addresses
        /\ pc' = "nodes"
     \/ /\ ~rc.standalone /\ pw # nodePw
        /\ pc' = "health"
        /\ UNCHANGED <<todo, lastIDs, manager>>
  /\ UNCHANGED <<world, reconciler, rc, schema, loaded, clients, poolPw, pw,
                 returned, events>>

\* processClusterNodes: the labels are read again for every node.
processClusterNode(a) ==
  /\ pc = "nodes" /\ a \in todo
  /\ UpdateDynamicMetric("nodes", {a})
  /\ todo' = todo \ {a}
  /\ pc' = IF todo' = {} THEN "health" ELSE "nodes"
  /\ UNCHANGED <<world, reconciler, rc, schema, loaded, clients, poolPw, pw, lastIDs,
                 returned, events>>

processClusterHealthMetrics ==
  /\ pc = "health"
  /\ UpdateDynamicMetric("health", {None})
  /\ CycleEnds
  /\ UNCHANGED <<world, reconciler, rc, schema, loaded, clients, poolPw, todo, pw,
                 lastIDs, returned, events>>

-----------------------------------------------------------------------------
Pass ==
  \/ SetFromRobinConfig \/ SetTopology \/ SetAuthSecret
  \/ applyAuthCredentials \/ PassEnds

Cycle ==
  \/ reconcileMetricsLabelSchema \/ getPassword \/ discoverNodes
  \/ collectClusterMetrics \/ processClusterHealthMetrics
  \/ \E a \in todo : collectNode(a) \/ processClusterNode(a)

Next ==
  \/ Pass \/ Cycle
  \/ \E c \in Configs : NewConfig(c)
  \/ \E s \in Secrets, p \in Passwords \ {NoPassword} : EditSecret(s, p)
  \/ \E n \in Names : PodRestarts(n)

Spec == Init /\ [][Next]_vars

\* Both loops go on, and a config does not take for ever.
Fairness ==
  /\ WF_vars(Pass) /\ WF_vars(Cycle)
  /\ SF_vars(PassEnds /\ applied' = target)

FairSpec == Spec /\ Fairness

-----------------------------------------------------------------------------
\* The types. The series of a metric all have the label keys its gauge was
\* registered with: Prometheus panics on others.
TypeOK ==
  /\ nodePw \in Passwords /\ pw \in Passwords
  /\ applied \in Configs /\ target \in Configs
  /\ pc \in {"idle", "password", "discover", "collect", "nodes", "health"}
  /\ gauges \in [Kinds -> SUBSET {DOMAIN l : l \in Labels \cup {<<>>}}]
  /\ \A s \in series : gauges[s.kind] = {DOMAIN s.labels}

\* The pool has no connection that was made with another password than that of
\* the last cycle, nor two to one address: a rotation leaves none behind.
PoolIsOfOnePassword ==
  \A c \in clients : c.pw = poolPw /\ \A d \in clients : d.addr = c.addr => d = c

\* The nodes that are exported are those of the last report: a node that has
\* been replaced leaves no series behind.
NodesAreOfTheLastReport ==
  \A s \in series : s.kind = "nodes" => s.of \in lastIDs

RuntimeConfigType ==
  [labels : Labels \cup {<<>>}, infoKeys : {"none", "some"}, primaries : Nat,
   standalone : BOOLEAN, secret : Secrets \cup {NoSecret}]

\* What the two goroutines hand to each other, and to their next step, through
\* the runtime configuration and the collector's fields: labels the registry
\* knows the keys of, the name of a Secret, a password that was in one; the
\* pool is of the cycle's password while nodes are collected, and the nodes
\* still to be exported are in the report.
HandedOn ==
  /\ rc \in RuntimeConfigType
  /\ secret \in [Secrets -> Passwords]
  /\ loaded.password \subseteq Passwords
  /\ pc = "collect" => poolPw = pw
  /\ pc = "nodes" => todo \subseteq lastIDs
  /\ \A s \in series : s.kind \in Kinds

\* The inductive invariant, from which the safety properties follow.
IInv == TypeOK /\ PoolIsOfOnePassword /\ NodesAreOfTheLastReport /\ HandedOn

\* Every series ends up with the labels in force, however their changes fall
\* into a cycle, unless they are changed and changed back between two cycles: a
\* gauge first used in between keeps its keys, and its series.
SeriesFollowLabels ==
  \/ <>returned
  \/ <>[](\A s \in series : s.labels = rc.labels)

\* The cached password is not that of the Secret any more.
StalePassword ==
  loaded.password # {} /\ loaded.password # {PasswordIn(loaded.name)}

\* Robin ends up with a connection to every node, after rotations, restarts and
\* failed calls, unless it keeps a password that was edited in place.
EveryNodeIsCollected ==
  \/ <>[]StalePassword
  \/ <>[](rc.primaries = 0 \/ rc.infoKeys = "none")
  \/ <>[](\A a \in Addresses : [addr |-> a, pw |-> nodePw] \in clients)
=============================================================================
