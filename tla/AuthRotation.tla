---------------------------- MODULE AuthRotation ----------------------------
(***************************************************************************)
(* How a password reaches the nodes of a Ready cluster                     *)
(* (internal/reconciler/cluster_reconciler.go): applyAuthToAllNodes when a *)
(* new config names another Secret, reconcileAuthRotation in every health  *)
(* check when the Secret was edited in place, and applyAuthCredentials,    *)
(* which both of them call.                                                *)
(*                                                                         *)
(* The password is in three places that no transaction spans: the Secret,  *)
(* the ConfigMap with redis.conf, and every running node. Robin sets it    *)
(* node by node, with two commands each, and writes the ConfigMap last. In *)
(* between it may be killed, a call may fail, the Secret may be edited     *)
(* again, and a pod may be restarted with the redis.conf of the moment.    *)
(*                                                                         *)
(* Other changes of a config are modules Lifecycle's and Standalone's.     *)
(***************************************************************************)
EXTENDS Naturals

CONSTANTS
  Nodes,        \* the nodes of the cluster
  Secrets,      \* names of Secrets
  Passwords,    \* what a Secret may hold
  NoPassword,   \* the empty password: authentication is off
  Trim,         \* Trim[p]: password p as it is read back from redis.conf
  MaxEdits,     \* bound on edits of Secrets and new configs
  MaxFaults,    \* bound on failed calls and restarts of Robin
  MaxLosses     \* bound on pods that stop

ASSUME AuthAssumption ==
  /\ NoPassword \in Passwords
  /\ Trim \in [Passwords -> Passwords]
  /\ MaxEdits \in Nat /\ MaxFaults \in Nat /\ MaxLosses \in Nat

VARIABLES
  \* what users and the Operator write
  secret,     \* secret[s]: the password in Secret s
  named,      \* Spec.Auth.SecretName of the current config
  previous,   \* Spec.Auth.SecretName of the config before it
  phase,      \* ConfigPhase of the current config
  \* the cluster
  conf,       \* requirepass and masterauth in the ConfigMap's redis.conf
  req,        \* req[x]: requirepass of node x
  master,     \* master[x]: masterauth of node x
  up,         \* the nodes that run
  \* the running cycle
  pc,         \* the next call
  old, new,   \* oldPassword and newPassword
  listed,     \* the nodes that have been running since they were listed
  left,       \* the nodes of podAddrs still to be visited
  half,       \* the node whose requirepass is set and masterauth is not
  caller,     \* which handler runs: of a config change, or of Ready
  edits, faults, losses

config == <<secret, named, previous, phase>>
cluster == <<conf, req, master, up>>
pass == <<old, new, listed, left, half, caller>>
counters == <<edits, faults, losses>>
vars == <<config, cluster, pc, pass, counters>>

Init ==
  \E s \in Secrets, p \in Passwords :
    /\ Trim[p] = p   \* what the nodes were started with
    /\ secret = [t \in Secrets |-> p]
    /\ named = s /\ previous = s /\ phase = "Applied"
    /\ conf = p
    /\ req = [x \in Nodes |-> p]
    /\ master = [x \in Nodes |-> p]
    /\ up = Nodes
    /\ pc = "idle"
    /\ old = NoPassword /\ new = NoPassword
    /\ listed = {} /\ left = {} /\ half = {} /\ caller = "ready"
    /\ edits = 0 /\ faults = 0 /\ losses = 0

-----------------------------------------------------------------------------
(* The surroundings.                                                       *)

\* A Secret is edited in place.
EditSecret(s, p) ==
  /\ edits < MaxEdits
  /\ secret' = [secret EXCEPT ![s] = p]
  /\ edits' = edits + 1
  /\ UNCHANGED <<named, previous, phase, cluster, pc, pass, faults, losses>>

\* The next config names another Secret. Robin starts it when the one before is
\* Applied, at the beginning of a cycle.
NewConfig(s) ==
  /\ edits < MaxEdits
  /\ pc = "idle" /\ phase = "Applied"
  /\ s # named
  /\ named' = s
  /\ previous' = named
  /\ phase' = "Pending"
  /\ edits' = edits + 1
  /\ UNCHANGED <<secret, cluster, pc, pass, faults, losses>>

PodStops(x) ==
  /\ losses < MaxLosses
  /\ x \in up
  /\ up' = up \ {x}
  /\ listed' = listed \ {x}
  /\ losses' = losses + 1
  /\ UNCHANGED <<config, conf, req, master, pc, old, new, left, half, caller,
                 edits, faults>>

\* redis-server reads the redis.conf of the moment.
PodStarts(x) ==
  /\ x \in Nodes \ up
  /\ up' = up \cup {x}
  /\ req' = [req EXCEPT ![x] = conf]
  /\ master' = [master EXCEPT ![x] = conf]
  /\ UNCHANGED <<config, conf, pc, pass, counters>>

-----------------------------------------------------------------------------
(* A cycle.                                                                *)

\* The cycle ends and with it what was held in memory.
Return ==
  /\ pc' = "idle"
  /\ old' = NoPassword /\ new' = NoPassword
  /\ listed' = {} /\ left' = {} /\ half' = {} /\ caller' = "ready"

\* getPassword: an error is logged and the empty password used instead.
getPassword(s, ok, p) ==
  IF ok THEN p = secret[s] /\ faults' = faults
  ELSE p = NoPassword /\ faults < MaxFaults /\ faults' = faults + 1

\* The first call of applyAuthToAllNodes, for a config that is being started.
\* Its status was copied from the config before, so that whatever happens now
\* the next cycle finds it Ready.
applyAuthToAllNodesReads(ok) ==
  /\ pc = "idle" /\ phase = "Pending"
  /\ phase' = "InProgress"
  /\ new' \in Passwords
  /\ getPassword(named, ok, new')
  /\ pc' = "changing" /\ caller' = "change"
  /\ UNCHANGED <<secret, named, previous, cluster, old, listed, left, half,
                 edits, losses>>

\* GetPodAddresses lists the pods that have an address.
GetPodAddresses ==
  /\ left' = up
  /\ listed' = up
  /\ pc' = "setting"

\* oldPassword is what the Secret of the previous config holds by now.
applyAuthToAllNodes(ok) ==
  /\ pc = "changing"
  /\ old' \in Passwords
  /\ getPassword(previous, ok, old')
  /\ GetPodAddresses
  /\ UNCHANGED <<config, cluster, new, half, caller, edits, losses>>

\* handleReady reads the Secret, and goes on without a password if it cannot.
handleReady(ok) ==
  /\ pc = "idle" /\ phase # "Pending"
  /\ new' \in Passwords
  /\ getPassword(named, ok, new')
  /\ pc' = "comparing"
  /\ UNCHANGED <<config, cluster, old, listed, left, half, caller, edits,
                 losses>>

\* Faulty variant: the nodes are addressed with the password of the Secret.
reconcileAuthRotationWithNew ==
  /\ pc = "comparing"
  /\ IF conf = new
     THEN pc' = "checking" /\ UNCHANGED pass
     ELSE old' = new /\ GetPodAddresses /\ UNCHANGED <<new, half, caller>>
  /\ UNCHANGED <<config, cluster, counters>>

\* The Secret differs from the ConfigMap: the nodes are addressed with the
\* password of the ConfigMap.
reconcileAuthRotation ==
  /\ pc = "comparing"
  /\ IF conf = new
     THEN pc' = "checking" /\ UNCHANGED pass
     ELSE old' = conf /\ GetPodAddresses /\ UNCHANGED <<new, half, caller>>
  /\ UNCHANGED <<config, cluster, counters>>

\* Can Robin send a command to node x? On a connection it has already used, with
\* the old password, or with any when the node asks for none.
Accepts(x) ==
  x \in up /\ (req[x] \in {old, NoPassword} \/ (x \in half /\ x \in listed))

\* Faulty variant: masterauth is forgotten.
setRequirePassOnly(x) ==
  /\ pc = "setting"
  /\ half = {} /\ x \in left
  /\ Accepts(x)
  /\ req' = [req EXCEPT ![x] = new]
  /\ left' = left \ {x}
  /\ UNCHANGED <<config, conf, master, up, pc, old, new, listed, half, caller,
                 counters>>

\* CONFIG SET requirepass on one of the nodes left, in any order.
setRequirePass(x) ==
  /\ pc = "setting"
  /\ half = {} /\ x \in left
  /\ Accepts(x)
  /\ req' = [req EXCEPT ![x] = new]
  /\ half' = {x}
  /\ UNCHANGED <<config, conf, master, up, pc, old, new, listed, left, caller,
                 counters>>

\* CONFIG SET masterauth on the same node.
setMasterAuth(x) ==
  /\ pc = "setting"
  /\ x \in half
  /\ Accepts(x)
  /\ master' = [master EXCEPT ![x] = new]
  /\ left' = left \ {x}
  /\ half' = {}
  /\ UNCHANGED <<config, conf, req, up, pc, old, new, listed, caller, counters>>

\* Faulty variant: a node that fails is skipped.
configSetFailsSkips(x) ==
  /\ pc = "setting"
  /\ x \in left /\ (half = {} \/ x \in half)
  /\ ~Accepts(x) \/ x \notin listed
  /\ left' = left \ {x}
  /\ half' = {}
  /\ UNCHANGED <<config, cluster, pc, old, new, listed, caller, counters>>

\* A node that refuses the password, or is gone, ends the cycle: the rest of
\* the nodes and the ConfigMap are left as they are. The address of a pod that
\* was restarted is no longer valid, unless only its container was.
configSetFails(x) ==
  /\ pc = "setting"
  /\ x \in left /\ (half = {} \/ x \in half)
  /\ ~Accepts(x) \/ x \notin listed
  /\ Return
  /\ UNCHANGED <<config, cluster, counters>>

\* What GetConfigMapPassword reads back after password p was written.
inRedisConf(p) == Trim[p]

\* Every node has been visited. After a config change the config is marked
\* Applied next; a rotation goes on with the health check.
UpdateConfigMap ==
  /\ pc = "setting" /\ left = {}
  /\ conf' = inRedisConf(new)
  /\ pc' = IF caller = "change" THEN "applying" ELSE "checking"
  /\ UNCHANGED <<config, req, master, up, pass, counters>>

\* The health check of handleReady. It fails when a node is missing and may
\* fail when one refuses the password, unless it still has a connection to it.
Healthy ==
  /\ pc = "checking" /\ up = Nodes
  /\ pc' = "applying"
  /\ UNCHANGED <<config, cluster, pass, counters>>

Unhealthy ==
  /\ pc = "checking"
  /\ up # Nodes \/ \E x \in Nodes : req[x] \notin {new, NoPassword}
  /\ Return
  /\ UNCHANGED <<config, cluster, counters>>

setConfigPhaseApplied ==
  /\ pc = "applying"
  /\ phase' = "Applied"
  /\ Return
  /\ UNCHANGED <<secret, named, previous, cluster, counters>>

\* A call fails, or Robin is killed and started again.
restart ==
  /\ pc # "idle"
  /\ faults < MaxFaults
  /\ faults' = faults + 1
  /\ Return
  /\ UNCHANGED <<config, cluster, edits, losses>>

-----------------------------------------------------------------------------
(* The specification.                                                      *)

robin ==
  \/ \E ok \in BOOLEAN :
       applyAuthToAllNodesReads(ok) \/ applyAuthToAllNodes(ok) \/ handleReady(ok)
  \/ reconcileAuthRotation
  \/ \E x \in Nodes : setRequirePass(x) \/ setMasterAuth(x) \/ configSetFails(x)
  \/ UpdateConfigMap
  \/ Healthy \/ Unhealthy \/ setConfigPhaseApplied

Next ==
  \/ \E s \in Secrets, p \in Passwords : EditSecret(s, p)
  \/ \E s \in Secrets : NewConfig(s)
  \/ \E x \in Nodes : PodStops(x) \/ PodStarts(x)
  \/ robin
  \/ restart

Spec == Init /\ [][Next]_vars

\* The loop goes on and pods are started.
FairSpec ==
  Spec /\ WF_vars(robin) /\ \A x \in Nodes : WF_vars(PodStarts(x))

-----------------------------------------------------------------------------
(* Properties.                                                             *)

\* The types of the stored passwords and of what a cycle holds in memory.
TypeOK ==
  /\ secret \in [Secrets -> Passwords]
  /\ named \in Secrets /\ previous \in Secrets
  /\ phase \in {"Pending", "InProgress", "Applied"}
  /\ conf \in Passwords
  /\ req \in [Nodes -> Passwords] /\ master \in [Nodes -> Passwords]
  /\ up \in SUBSET Nodes
  /\ pc \in {"idle", "changing", "comparing", "setting", "checking", "applying"}
  /\ old \in Passwords /\ new \in Passwords
  /\ listed \in SUBSET up /\ left \in SUBSET Nodes
  /\ half \in SUBSET left
  /\ caller \in {"ready", "change"}
  /\ edits \in 0..MaxEdits /\ faults \in 0..MaxFaults /\ losses \in 0..MaxLosses

\* While applyAuthCredentials goes from node to node, the ones it has left
\* behind use the new password in both directions.
Visited ==
  pc = "setting" =>
    \A x \in listed :
      /\ x \in half => req[x] = new
      /\ x \notin left => req[x] = new /\ master[x] = new

\* A cycle that has not listed the pods yet has none left to visit.
NoneListed ==
  pc \in {"idle", "changing", "comparing"} => left = {} /\ half = {}

\* The inductive invariant: however applyAuthCredentials is interleaved with
\* edits of Secrets and restarts of pods, what it has done so far is complete.
IInv == TypeOK /\ NoneListed /\ Visited

\* applyAuthCredentials writes the ConfigMap, which says what later cycles will
\* address the nodes with, only when every node that ran throughout accepts the
\* password and uses it towards its primary.
ConfigMapComesLast ==
  [][conf' # conf => \A x \in listed :
                        conf' = inRedisConf(req[x]) /\ req[x] = master[x]]_vars

\* Every node runs and uses the password of the ConfigMap.
NodesAgree ==
  up = Nodes /\ \A x \in Nodes : req[x] = conf /\ master[x] = conf

\* The Secret, the ConfigMap and the nodes hold the same password.
InSync == NodesAgree /\ conf = secret[named] /\ phase = "Applied"

\* As long as no cycle leaves the nodes with different passwords, every edit of
\* a Secret and every new config reaches all of them, whatever else fails and
\* whenever the Secret is edited again.
PasswordReachesTheNodes ==
  <>[](pc = "idle" => NodesAgree) => <>[]InSync

\* reconcileAuthRotation compares the ConfigMap with the Secret "without any
\* in-memory state, so it survives Robin restarts": a rotation that was
\* interrupted is completed.
RotationSurvivesRestarts == <>[]InSync
=============================================================================
