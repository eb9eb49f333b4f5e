# Redkey Robin in TLA+

Redkey Robin is the companion process of one Redkey (Redis) deployment on
Kubernetes. The Redkey Operator writes down what the deployment should look
like as a sequence of `RedkeyConfig` objects; Robin carries them out: it creates
and changes the Kubernetes objects, forms, scales and upgrades the Redis
cluster, repairs it, and publishes metrics.

This directory holds a TLA+ model of Robin, the TLC configurations that check
it, and TLAPS proofs. `PROJECT.json` lists components, runs, mutants, the map
from definitions to source lines, hazards, findings and theorems.

## 1. The system

One process, three goroutines (`cmd/main.go`): the reconciliation loop, the
metrics collector and the metrics HTTP server. They share a `RuntimeConfig`
behind a mutex. The loop is sequential: one cycle at a time, then a pause. All
of Robin's durable state is in the Kubernetes API; nothing survives in memory
from one cycle to the next. Robin competes with the Operator, which
creates configs at any time, with the StatefulSet controller and the kubelet,
which act late, and with Redis itself.

| Component | State | Operations | What makes it hard |
|---|---|---|---|
| Configuration plan (`config_plan.go`, `config_superseding.go`) | `ConfigPhase` of every config | select, supersede, start, finish a config | list read once per cycle; chains marked write by write; failed writes; restarts |
| Change detection (`config_changes.go`, `status_transitions.go`) | none | compare two specs, choose a status | combinations of changes |
| Cluster state machine (`cluster_reconciler.go`, `reconciler.go`) | `Status` of every config | one handler per status | two writes to finish; the status is copied from the previous config before it is decided |
| Scaling (`scale_reconciler.go`, `scale_zero_reconciler.go`) | StatefulSet size, members and roles | grow, drain, remove, recreate, delete | pods come and go asynchronously; retries repeat everything |
| Upgrade (`upgrade_reconciler.go`) | `Substatus`, `UpgradingPartition`, pod template | N+1 rolling upgrade; fast upgrade | dispatch on a substatus whose writes may be lost; stale revisions |
| Standalone (`standalone_reconciler.go`) | StatefulSet, one pod | create, recycle, delete | lagging `UpdateRevision` and `ReadyReplicas` |
| Health reconciler and checker (`health_reconciler.go`, `health/checker.go`) | gossip, slots, roles, client cache | check; forget, meet, promote, demote, fix, rebalance | different views of different nodes; remediations that undo each other |
| Authentication | Secret, ConfigMap, password of each node | set on all nodes; detect a rotation | node by node, with the old password |
| Kubernetes objects (`kubernetes/`) | StatefulSet, Service, ConfigMap, PDB, PVCs | ensure, scale, update, delete | idempotence |
| Redis client, slot ranges (`redis/`) | none | one command each | parsing, arithmetic |
| Runtime config, metrics (`config/`, `metrics/`) | settings, client pool, label schema | hot reload, collection | concurrent readers |

Correct means, per component:

- *Plan*: configs are resolved in order; a superseded config is covered by a
  later one; nothing decided is taken back; every config is resolved.
- *State machine, scaling, upgrade, standalone*: a config marked `Applied` is
  really deployed; at most one operation is open; an interrupted operation is
  resumed and completed; no pod is destroyed twice.
- *Scaling*: the pods that are taken away own no slots; slots never go to a node
  that is about to become a replica; the wanted topology is reached.
- *Upgrade*: every slot is served throughout by a node that has its data; only
  drained pods are recycled, each of them once.
- *Health*: remediation converges and never hands a slot to a node without its
  data while another node has it.
- *Authentication*: all nodes end with the password of the Secret.
- *Metrics*: connections, labels and exported series end up being those of the
  configuration in force.

## 2. Modules

| Module | Content |
|---|---|
| `ConfigSelection` | `SelectConfig`, `lastApplied(Before)`, `ApplySuperseding` as pure functions |
| `ConfigQueue` | abstract specification: a queue whose head is started, finished or skipped |
| `ConfigPlan` | one cycle of the plan, call by call, with the Operator, failing writes and restarts |
| `ChangeDetection` | `DetectChanges`, `determineScaleDirection`, `DetermineStatusTransition` |
| `ConfigCycle` | the part of a cycle that clusters and standalone deployments share |
| `Lifecycle` | `ConfigCycle` plus one action per cluster handler, the StatefulSet and the Redis cluster as numbers |
| `Standalone` | `ConfigCycle` plus the standalone handlers, the StatefulSet's lagging status and the pod |
| `AuthRotation` | Secrets, ConfigMap and the passwords of every node of a Ready cluster |
| `RedisCluster` | the environment: pods, views, roles, slots and data of a Redis cluster, and what Robin's commands do to it |
| `Health` | `RedisCluster` plus the health check and every remediation of `HealthReconciler.Reconcile` |
| `Scaling` | `Health` plus `handleScalingUp`, `handleScalingDown` and the StatefulSet controller, node by node |
| `RollingUpgrade` | the rolling upgrade, pod by pod and slot by slot |
| `Metrics` | the collector's cycle against the reconciler's writes to `RuntimeConfig` |
| `MC...` | instances for TLC |
| `ConfigSelectionProofs`, `ConfigPlanProofs`, `StandaloneProofs`, `AuthRotationProofs`, `LifecycleProofs`, `RollingUpgradeProofs`, `MetricsProofs` | theorems about the module of that name |
| `ClusterProofs` | theorems about `RedisCluster`, `Health` and `Scaling` |

`ConfigPlan`, `Lifecycle` and `Standalone` all refine `ConfigQueue`
(`QueueSpec`). The same operation occurs at two levels of detail: `Lifecycle`
has scaling, upgrading and remediation as passes over numbers of nodes, to ask
how they combine with phases, statuses and restarts; `Scaling`,
`RollingUpgrade` and `Health` have one operation each with nodes, slots and
data, to ask what it does to the cluster.

### How state and actions correspond to the code

*Configs* are numbered by `Sequence`. `phase[i]` is `Status.ConfigPhase`,
`status[i]` is `Status.Status` (`"None"` is the empty string), `spec[i]` keeps
the fields Robin tells apart. In `ConfigPlan` a spec is reduced to whether it may
be superseded and to what else it asks for.

*A cycle* is the sequence of API calls of `Reconciler.reconcile`; `pc` names the
next call and `tgt` is `targetConfig`. A step computes what the code computes
between two calls and then makes the call. Every `Status().Update` has three
outcomes: stored, refused, or stored with the answer lost. `restart` drops `pc`
and `tgt`: the process was killed between two calls. In `ConfigCycle`,
`MaxFaults` bounds failed writes and restarts together; `ConfigPlan` has no
such bound.

*Lifecycle*: `sts` is the StatefulSet's size and pod template, `pods` how many
pods are ready, `outdated` how many of them run an older template, `formed` how
many primaries and replicas the Redis cluster has. `substatus` and `partition`
belong to the config that is being upgraded; `updateSubstatus` may lose its
write, which the code ignores as "purely observational" (`cluster_reconciler.go:698`)
although upgrades are dispatched on it. A handler that is too long for one step,
because it returns to wait, has an action for each way to return that changes
something (`handleScalingUpGrows`, `handleScalingUp`); returning with nothing
changed is `handlerReturns`. Resharding and recycling one partition of a rolling
upgrade is one step. Remediation of a Ready cluster acts on the same numbers
(`forgetSurplusMembers`, `meetMissingMembers`, `demoteExcessPrimaries`,
`promoteSurplusReplicas`).

*Standalone*: `sts`, `observed`, `revision`, `ready` are the StatefulSet's
template, whether its generation was observed, `UpdateRevision` (as the template
it was computed from) and `ReadyReplicas`. `pod` and `podTemplate` are the pod
and its `controller-revision-hash`. The controller reports and creates pods at
its own pace; a pod that is being deleted still exists and may still answer.

*AuthRotation*: `conf` is what `GetConfigMapPassword` reads from the ConfigMap,
`req[x]` and `master[x]` are `requirepass` and `masterauth` of node `x`, which
a starting pod takes from the ConfigMap. `applyAuthCredentials` is two steps per
node, in any order of nodes (`range` over a map), then the write of the
ConfigMap. `left` is what remains of `podAddrs`; `listed` leaves out the
pods that were restarted since, whose address may or may not still be valid. A
Secret that cannot be read is the empty password, as in the code. `Trim` is
what becomes of a password that is written to `redis.conf` and parsed again. A
pod that starts sees the ConfigMap of the moment; the kubelet's delay in
updating mounted files is left out, and so is a `requirepass` in the user's own
`redisConfig`.

*RedisCluster*: `node[p]` is the node that pod `p` runs; an ephemeral pod that
restarts runs a new one, a persistent pod the same one at another address
(`moved`). `known[x]` is `CLUSTER NODES` of node `x`, `banned[x]` the minute in
which a forgotten node is not met again. `master`, `owner`, `open` and `copy` are
roles, slots, interrupted migrations and who has the data of which slot. Gossip,
replication, failover and the end of a ban are actions of their own, at any
moment. The second half of the module is what Robin's commands do: FORGET, MEET,
REPLICATE, and `redis-cli --cluster fix` and `rebalance`, whose choices the model
leaves open as far as Robin does not determine them. Members agree on the owner
of a slot.

*Health*: `Check` lists the pods and asks the first that answers, which becomes
`report`; `pc` is then the next step of `Reconcile`, in the order of
`Pipeline`. `nodes` is the list of pods the pass works with, `gone` the nodes that
have left their address since. `HealMembership` is command by command: `heal` is
the answer it works on with what is `todo`, and `promoteReplicaOfDeadMaster`,
`leaveSlotOwner`, `forgetFromAllPeers`, `meetFromAllPeers` and `clusterFix` are
its parts. The other remediations are one step per command round. `Losable` are
the commands that may fail or time out, in the middle of a slot if they move one.

*Scaling*: `size` is the StatefulSet's, `stage` the status, and `plan` what a
pass has decided: primaries and replicas in the order of their ordinals or of
their turn, which of them are to be filled, drained, removed or met, and the
attempt of `rebalanceWithRetry`. One action per phase of the handlers, each
ending in the next phase or in the end of the pass (`EndPass`). `healTopology`
asks any listed pod, because the code takes the first of a Go map. A node that
`removeNodes` has shut down restarts in place until the StatefulSet shrinks
(`shut`). The panic on `nodes[:targetTotal]` is the end of a pass: Robin is
restarted. A Ready cluster goes on to be checked and remediated by `Health`.
A cycle of that kind starts after the pods above the size are gone, and the bans
of all nodes end together: two simplifications of time.

*RollingUpgrade*: `part` and `sub` are `UpgradingPartition` and the substatus,
`pc` the step within the handler. Pods are addressed by ordinal, as in the code;
a node is a pod with a generation, which changes with `CLUSTER RESET` and with
a lost volume. `ClusterReshard` moves some or all slots and may stop within one. Members
share one view, except that nodes that were forgotten still see the others.
`ensurePivotReplica` attaches all the pivot's replicas or none, which is the
code's loop for one replica per primary. A node that is given another primary
drops the links of its own replicas: replicas of replicas are not served. A MEET may get through although the
REPLICATE after it is refused. The minute in which a forgotten node is not met
again appears as a MEET that fails.

*Metrics*: `rc` is the `RuntimeConfig`, written by the reconciler's steps one by
one, the last of which only a pass without an error reaches; the collector's variables are the fields of `MetricsCollector` and the
registered gauges and series of `MetricsManager`. The labels are read again for
every node, as `UpdateDynamicMetric` does. A cycle exports the cluster's series, then those of the nodes, then the health of
the cluster. A pooled connection is used as it is, whatever its password was.
`returned` remembers that labels were changed and changed back between two cycles.

External to the repository, and modelled from how Robin uses them: the Operator
(`OperatorCreates`, `NewConfig`), the API server's writes (`StatusUpdate`,
`Write`), the StatefulSet controller and the kubelet (`Kube...`, `Pod...`), and
Redis itself.

## 3. Runs

Passing:

| Run | Bounds | Shows |
|---|---|---|
| `config_plan` | 3 configs, unbounded failures and restarts | order, coverage of what is superseded, no step backwards, the inductive invariant, refinement of `ConfigQueue`; every config is resolved |
| `lifecycle` | 3 configs, 1 fault, one kind of change per config, up to 4 nodes, persistent and fast-scaling | `Applied` means deployed, one operation at a time, the inductive invariant, refinement of `ConfigQueue`; every config is applied unless it is stuck for a named reason |
| `standalone` | 3 configs, 1 fault, 1 lost pod | `Applied` means deployed in spite of stale reports; the pod is recycled once; the inductive invariant; every config is applied unless its completion was half written |
| `auth_rotation` | 2 nodes, 2 Secrets, 4 passwords, 2 edits or configs, 1 fault, 1 restarted pod | the ConfigMap never runs ahead of the nodes; the password reaches them unless a cycle was cut off in the middle; the inductive invariant |
| `health` | 4 pods, 4 slots, both storages; as created with 1 failing pod and 1 lost command, or with any roles and slots | remediation converges to a healthy cluster that serves what data is left; data is kept |
| `scaling` | 7 resizes between 1 and 3 primaries and up to 4 pods, 4 slots, persistent; 2 restarts of Robin or interrupted rebalances; 1 failing pod in clusters of two | slots are served throughout, pods that go are empty, slots go to primaries, `Ready` is written when scaling is done, and it gets done |
| `upgrade` | 2 primaries with a replica each, 3 slots, both storages, 1 fault, 1 failing replica or pivot | slots are served and covered throughout; pods are drained before and recycled once; the inductive invariant; the upgrade ends |
| `metrics` | 2 nodes, 1 Secret, 6 configs, 2 events | no connection outlives its password, no series its node or labels; the inductive invariant; every node is collected |

Why these bounds are enough to be interesting: three configs are the least with
a config before and one after the one in progress. One fault cuts any pass at
any call, and the passes repeat everything, so a second one meets a state that
the first has made already; `config_plan`, where chains of writes could make a
difference, has no bound. Topologies in `lifecycle` include zero, one and two
primaries with and without replicas, so both signs of either delta, scaling to
zero, and both the fast and the slow strategies occur. Four pods are two
primaries with a replica each, the least with a surplus or a lack of either role
next to a pair that is in order; four slots leave two to a primary, so that one
can move while the other stays, and a rebalance can be cut off with one moved;
in `upgrade` three make the shares uneven.
The resizes of `scaling` have each kind of plan in them: only replicas go, only
primaries go, primaries become replicas, replicas have to be promoted, new
primaries are filled, with more pods or as many. A rebalance that is cut off
leaves an open slot for the next attempt, and only a restart on top of it leaves
one for the next pass: hence two such events. The slots are a multiple of the
primaries wanted, because the 2 % of slack that `balanced` grants are nothing
here. A failing pod multiplies its states, which is why only
clusters of two have one. The safety properties were checked apart, with two
slots and one event, for one primary with up to two replicas in both directions,
three primaries to one, two primaries with a replica each to two without, and,
without failing pods, to one with one; that last resize is too large for a run.
In it the replica that is kept by its role sits on a pod that the StatefulSet
removes: `ReadyMeansScaled` therefore speaks of the owners of slots only, and the
health cycles attach another replica later. One Secret and two events
in `metrics` are an edit and a restart, or a change of the configuration in the
middle of the cycle that reacts to another.

What the instances leave out: in `lifecycle`, changes to fewer primaries with
more replicas each (`ModelledResize`), which `scaling` has; in `standalone`, an
upgrade of a deployment with zero nodes, which finds no StatefulSet to update and
never ends; in `scaling`, ephemeral clusters (those without replicas use fast
scaling, which is in `lifecycle`).

Violations, each of a statement made by the code's comments:

| Run | Statement | What happens |
|---|---|---|
| `grow_and_upgrade` | remaining changes are detected after scaling | `finishScaling` marks the config `Applied`; the new image is never rolled out |
| `lost_scaling` | "topology is already applied at this point" | killed after the copied `Ready`, before `ScalingUp`: marked `Applied` at the old size |
| `auth_restart` | a rotation "survives Robin restarts" | killed between two nodes: the nodes already changed refuse the old password in every later cycle |
| `upgrade_failover` | an upgrade "recycles ONLY the drained primary and its replica(s)" | a primary fails before its turn and its replica takes its slots; the replica is then flushed, reset and deleted with them |

### What the properties leave room for

Several properties hold up to a state that the code has no way out of, or of a
case that it does not handle. Each is named in the property:

- `AppliedMeansDeployed` (`Lifecycle`): after a fault, the scaling of a config
  may have been lost (`lost_scaling`); then its template is deployed at the size
  of an earlier one. `AppliedUnlessStuck`: `NothingLeft`, when scaling to zero has
  deleted the objects that `handleReady`, `handleScalingUp` or
  `handleUpgradeStart` need, and `ScalingLost`.
- `AppliedUnlessHalfWritten` (`Standalone`): `Ready` and `Applied` are two writes;
  killed in between, the config stays `InProgress`, because
  `handleStandaloneReady` never writes a phase.
- `PasswordReachesTheNodes` presupposes that the nodes agree with the ConfigMap
  between cycles. A pod that starts while the password is being set reads the old
  ConfigMap and keeps the old password; a password with blanks at its ends never
  compares equal.
- `Converges` (`Health`): `Stranded`, a first pod with an old `nodes.conf` whose
  members have forgotten it, so that its own answer shows nothing to heal, and
  `DrainBlocked`, a drain that timed out within a slot: no rebalance runs with an
  open slot, and the fix comes after the step that fails.
- `DataIsKept` (`Health`) is checked for commands other than a takeover being lost. When
  a takeover fails, `HealMembership` goes on to forget an ephemeral slot owner although
  its replica has the data, and the fix gives the slots to any primary. Nor do pods
  fail in the clusters that start with any roles and slots: a TAKEOVER asks nobody, so a
  replica that has not loaded a slot that was just moved takes it from a primary
  that has come back at another address since the pods were listed.
- `ServedThroughout`, `ReadyMeansScaled`, `OnlyEmptyPodsGo` and
  `SlotsGoToPrimaries` (`Scaling`) speak of clusters in which no pod fails. A
  replica that takes over while `removeNodes` works is shut down with its slots
  (`scale_reconciler.go:488`). With fewer pods listed than wanted the StatefulSet is shrunk
  before anything is drained (`scale_reconciler.go:370`); after a failover the primaries
  that are kept may be those with the highest ordinals, which the StatefulSet
  removes (`:389`); and a first pod with an old view makes filled primaries look
  new, so that slots move to replicas-to-be (`:84`). `ScalingCompletes` names the
  outcome: `SlotsCutOff`, or `Stranded`.
- `AlwaysServed`, `DrainedFirst` and `UpgradeCompletes` (`RollingUpgrade`)
  presuppose that the pods which are primaries by their ordinal keep running
  (`PrimariesKeepRunning`): without that, `upgrade_failover`, an upgrade that
  waits for ever for a pivot's replica that has taken over from it, and slots
  that a fix gives back to a drained primary. `RecycledOnce` excepts a pod that
  failed: it is deleted by name, and may be another one than the pod that was
  checked.
- `EveryNodeIsCollected` (`Metrics`): `StalePassword`, a password cached by the
  name of its Secret, which was edited in place. A comment at the end of
  `applyAuthCredentials` has metrics "pick up the change immediately"
  (`cluster_reconciler.go:1017`); that is so only when the Secret's name changes.
  The run is the evidence: without the exception the property fails.
  `SeriesFollowLabels`: labels that
  were changed and changed back between two cycles (`returned`).

Of the same kind, without a property: INFO series of pods and keys that are gone
are never removed; a config without `RobinConfig` leaves the profiling switch as
it was; `remediateClusterCheck` says it "returns nil so the pipeline can continue"
(`health_reconciler.go:1221`) and returns an error when nothing could be fixed,
which ends the pass.

### Fairness

`Start` loops until the process ends and every call returns or times out, so the
loop is weakly fair, and so is each step of the controller and the kubelet. Faults
and failing pods are bounded, hence finite in number. No fairness is assumed of
the Operator or of a failover of Redis.

- `Lifecycle`, `Standalone`: a pass that can be completed may be abandoned, by
  `handlerReturns`, because a Redis call failed; the code retries it in every
  cycle, so the handlers are strongly fair.
- `Health`: pods return, gossip, reconnection, replication and bans settle, and
  `Reconcile` goes on.
- `RollingUpgrade`, `Scaling`: strong fairness of `healTopology`, and of the passes
  that go on without it, because its seed is the first pod of a Go map: any pod
  comes first again and again. Gossip is fair for each node, each pod of the
  StatefulSet for itself.
- `Metrics`: both goroutines go on, and a config is applied some time: that is
  what the other modules are about.

## 4. Proofs

Where an inductive invariant (`IInv`) says something of the code, the run of its
component checks it, and with it the type invariant it contains; `TypeCorrect`
and its like state the latter on its own. In `Health` and `Scaling` (`IInv`,
`ScalingIInv`) the strengthening is bookkeeping of the model: no run spends a
property on it, and it is there for the type theorems.

`ConfigPlanProofs`, for any number of configs and any set of specs:

- `InvariantHolds`: `Spec => []IInv`. `InOrder` and `SupersededIsCovered` are
  not inductive: a running cycle acts on a list and on decisions it made some
  calls ago. `IInv` adds what those memories have to do with what is stored: the
  list is a prefix, only Robin has changed phases since it was read, the chain
  still to be marked is one that `ApplySuperseding` would compute again.
- `TypeCorrect`, `OrderKept`, `NothingLost` follow from it; `ForwardOnly` is an
  action property proved from it.
- `LoopImplementsQueue`: the initial states map to initial states of
  `ConfigQueue`, every step to a step or a stutter.

`StandaloneProofs`, for any number of configs, specs, faults and lost pods:

- `InvariantHolds`: `AppliedMeansDeployed` is not inductive, because the
  handlers rely on what the statuses say of the objects. `IInv` spells it out for every
  phase and status (`InOrder`, `StatusFits`, `TargetFits`, `ReportsFit`,
  `ObjectsFit`): for instance that a config in `Initializing` has a StatefulSet
  of its own template, or that reports are old but never made up.
- `TypeCorrect`, `AppliedIsDeployed`, `OneOperation` follow; `UpToDatePodKept`
  is an action property proved from the step and the invariant.

`AuthRotationProofs`, for any nodes, Secrets and passwords, and any number of
edits, faults and restarted pods:

- `Invariance`: `Spec => []IInv`, where `Visited` says that a node which ran
  throughout and is no longer `left` has the new password in both directions,
  and the one in between at least accepts it.
- `WrittenLast`: `Spec => ConfigMapComesLast`, an action property: only
  `UpdateConfigMap` changes the ConfigMap, and then nothing is left to visit.

`LifecycleProofs`, for any specs, changes, numbers of configs and faults:

- `OneOperation` and `LifecycleImplementsQueue` rest on `CycleInv` alone: what
  phases, statuses and the target of the running cycle have to do with each
  other. It holds whatever the cluster does, so the proof goes through the
  handlers only by the status they leave. `StandaloneImplementsQueue` (in
  `StandaloneProofs`) is the same argument.
- `InvariantHolds`: `IInv` adds `ObjectsFit`, what each status says of the
  StatefulSet, its pods and the cluster. A config that changes the size and the
  template at once breaks part of that (`grow_and_upgrade`), so this part of the
  invariant is conditional on `OneKindOfChange`, and `AppliedIsDeployed` has it
  as its hypothesis; `TypeCorrect` and the invariant itself need none.

`RollingUpgradeProofs`, for any number of primaries, replicas, slots, failures
and faults. `InvariantHolds` has three layers, each of them used by the next:

- whatever fails: types, what the step within a pass says of the substatus
  (`StepFits`), the StatefulSet, and which pods have the new template. From this
  alone, `TypeCorrect` and the action property `OnlyOutdatedAreRecycled`;
- while no primary fails by itself: slots are with primaries that stay, and a
  reshard that was cut off has left at most one slot in between. From this,
  `SlotsAlwaysServed` and the action property `DrainedBeforeRecycled`;
- while no pod fails: every partition but the one being recycled keeps its
  replicas. From this, `SlotsAlwaysCovered`, for at least one replica per primary.

The lemmas below it are the arithmetic of ordinals (which partition a replica
belongs to) and one per group of steps of the handler: those that wait, arrange
replicas, move slots, recycle, heal, and those of the environment.

`MetricsProofs`, for any pods, configs, labels, Secrets, passwords and events:
`InvariantHolds`, and from it `TypeCorrect`, `PoolOfOnePassword` and
`NodesOfTheLastReport`. What is missing in these properties to be inductive is
what the goroutines hand to each other (`HandedOn`): that the password a cycle
was started with is the pool's while nodes are collected, and that the nodes
still to be exported are in the report.

`ClusterProofs`, for any number of pods, slots, failures and lost commands. The
steps of Robin's commands and of the remediation are shown to keep the types
once, for both specifications (`Fits`):

- `HealthTypeCorrect`, for a cluster whose pods are those of its
  spec (`TopologyFits`). `MemoryFits` says that a pass works on nodes that exist and
  has a first one, on which several commands are sent without a check;
  `IdsSuffice` that no two pods run the same node and that a new node is drawn
  only for a pod that failed: as many IDs are left as pods are missing.
- `ScalingTypeCorrect`, for every resize with persistent
  storage. `PlanFits` says that there is no plan while the remediation runs, which
  ends a pass without touching it, and that a retry is never the last attempt.

`ConfigSelectionProofs` holds the lemmas on selection that the first two use: what
`SelectConfig` returns is the head of the queue, what `lastAppliedBefore`
returns, and what `ApplySuperseding` marks is a chain.

Assumptions: the named ones of the modules (bounds are naturals, there is at
least one spec, primary, pod and slot, sizes are naturals and fit the bounds, the
empty password is one, a trimmed password is one, a standalone deployment has
zero or one primary and no replicas). TLC evaluates them in every run. The
hypotheses named above (`OneKindOfChange`, `ReplicasPerPrimary > 0`,
`TopologyFits`, persistent storage) are satisfied by the instances of the runs.

Only model-checked:

- all liveness (`EveryConfigIsResolved`, `AppliedUnlessStuck`,
  `AppliedUnlessHalfWritten`, `PasswordReachesTheNodes`, `Converges`,
  `ScalingCompletes`, `UpgradeCompletes`, `SeriesFollowLabels`,
  `EveryNodeIsCollected`): like `ENABLED`, it is out of the prover's reach;
- `DataIsKept`. It is not true for every value of the constants: when takeovers may
  fail (`"takeover"` in `Losable`) the slots of an ephemeral primary go to any node,
  and with more failing pods a replica may take over before it has synchronised;
- `ServedThroughout`, `ReadyMeansScaled`, `OnlyEmptyPodsGo` and
  `SlotsGoToPrimaries`. They need what a plan has to do with
  ordinals, from pass to pass: that the primaries of a cluster in which no pod
  fails are those with the lowest ordinals, and what `Lowest` and `ByOrdinal` return,
  which is a matter of cardinalities and of induction.

## 5. Not modelled

- Redis: members that disagree about the owner of a slot, and with them
  `resolveConfigDisagreement`; `noaddr` entries of `CLUSTER NODES`; in
  `RollingUpgrade`, views that differ from node to node. The model has one owner
  per slot, so there is nothing these could act on.
- The watchdog of `runClusterFix`, which cancels a fix when a master fails: a fix
  is one step. The health checker's cache of clients; the same mechanism is
  modelled in the collector's pool.
- Pod by pod scaling of ephemeral clusters with replicas, and passwords that
  change during scaling and upgrades.
- Health conditions, node status, events and the Maintenance status: written and
  never read by Robin, or a status without operations.
- Manifests and overrides, parsing of `INFO` and of `redis-cli` output, slot
  ranges as text, intervals and timeouts, the HTTP server, profiling, `main.go`:
  data transformation and I/O without state of their own.

`Lifecycle` takes the StatefulSet controller's reports as current; `Standalone`
does not. Conflicting writes do not occur: Robin is the only writer of a config's
status.

## 6. Plan

The model covers the components with state, and every invariant a run checks but
`ServedThroughout` is proved. What is left to prove:

1. `ServedThroughout` and `OnlyEmptyPodsGo`: first that roles and ordinals agree in a cluster in which no
   pod fails, as an invariant of `Scaling`; then that the pods above the size
   were in `plan.drained` or `plan.remove` when the StatefulSet was shrunk.
2. `SlotsGoToPrimaries` and `ReadyMeansScaled`, from the same invariant.
3. `DataIsKept` for the steps other than a takeover.
