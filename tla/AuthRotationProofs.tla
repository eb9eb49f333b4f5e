------------------------- MODULE AuthRotationProofs -------------------------
(***************************************************************************)
(* Proofs about AuthRotation for any nodes, Secrets and passwords, and any *)
(* number of edits, faults and lost pods.                                  *)
(***************************************************************************)
EXTENDS AuthRotation, TLAPS

LEMMA InitIInv == Init => IInv
<1> SUFFICES ASSUME Init PROVE IInv
  OBVIOUS
<1>1. PICK s \in Secrets, p \in Passwords :
        /\ secret = [t \in Secrets |-> p]
        /\ named = s /\ previous = s /\ phase = "Applied"
        /\ conf = p
        /\ req = [x \in Nodes |-> p]
        /\ master = [x \in Nodes |-> p]
        /\ up = Nodes
        /\ pc = "idle"
        /\ old = NoPassword /\ new = NoPassword
        /\ listed = {} /\ left = {} /\ half = {} /\ caller = "ready"
        /\ edits = 0 /\ faults = 0 /\ losses = 0
  BY DEF Init
<1> QED
  BY <1>1, AuthAssumption DEF IInv, TypeOK, NoneListed, Visited

\* A step outside applyAuthCredentials, or one that ends it, leaves nothing to
\* be shown about the nodes.
LEMMA NotSetting == ASSUME pc' # "setting" PROVE Visited'
  BY DEF Visited

\* What happens around Robin, and its own steps, keep the types.
LEMMA TypeStep ==
  ASSUME IInv, Next
  PROVE  (TypeOK /\ NoneListed)'
<1> USE AuthAssumption DEF IInv, TypeOK, NoneListed
<1>1. ASSUME NEW s \in Secrets, NEW p \in Passwords, EditSecret(s, p)
      PROVE  (TypeOK /\ NoneListed)'
  BY <1>1 DEF EditSecret, cluster, pass
<1>2. ASSUME NEW s \in Secrets, NewConfig(s) PROVE (TypeOK /\ NoneListed)'
  BY <1>2 DEF NewConfig, cluster, pass
<1>3. ASSUME NEW x \in Nodes, PodStops(x) PROVE (TypeOK /\ NoneListed)'
  BY <1>3 DEF PodStops, config
<1>4. ASSUME NEW x \in Nodes, PodStarts(x) PROVE (TypeOK /\ NoneListed)'
  BY <1>4 DEF PodStarts, config, pass, counters
<1>5. ASSUME NEW ok \in BOOLEAN, applyAuthToAllNodesReads(ok) PROVE (TypeOK /\ NoneListed)'
  BY <1>5 DEF applyAuthToAllNodesReads, getPassword, cluster
<1>6. ASSUME NEW ok \in BOOLEAN, applyAuthToAllNodes(ok) PROVE (TypeOK /\ NoneListed)'
  BY <1>6 DEF applyAuthToAllNodes, getPassword, GetPodAddresses, config, cluster
<1>7. ASSUME NEW ok \in BOOLEAN, handleReady(ok) PROVE (TypeOK /\ NoneListed)'
  BY <1>7 DEF handleReady, getPassword, config, cluster
<1>8. ASSUME reconcileAuthRotation PROVE (TypeOK /\ NoneListed)'
  BY <1>8 DEF reconcileAuthRotation, GetPodAddresses, config, cluster, pass, counters
<1>9. ASSUME NEW x \in Nodes, setRequirePass(x) PROVE (TypeOK /\ NoneListed)'
  BY <1>9 DEF setRequirePass, config, counters
<1>10. ASSUME NEW x \in Nodes, setMasterAuth(x) PROVE (TypeOK /\ NoneListed)'
  BY <1>10 DEF setMasterAuth, config, counters
<1>11. ASSUME NEW x \in Nodes, configSetFails(x) PROVE (TypeOK /\ NoneListed)'
  BY <1>11 DEF configSetFails, Return, config, cluster, counters
<1>12. ASSUME UpdateConfigMap PROVE (TypeOK /\ NoneListed)'
  BY <1>12 DEF UpdateConfigMap, inRedisConf, config, pass, counters
<1>13. ASSUME Healthy PROVE (TypeOK /\ NoneListed)'
  BY <1>13 DEF Healthy, config, cluster, pass, counters
<1>14. ASSUME Unhealthy PROVE (TypeOK /\ NoneListed)'
  BY <1>14 DEF Unhealthy, Return, config, cluster, counters
<1>15. ASSUME setConfigPhaseApplied PROVE (TypeOK /\ NoneListed)'
  BY <1>15 DEF setConfigPhaseApplied, Return, cluster, counters
<1>16. ASSUME restart PROVE (TypeOK /\ NoneListed)'
  BY <1>16 DEF restart, Return, config, cluster
<1> QED
  BY <1>1, <1>2, <1>3, <1>4, <1>5, <1>6, <1>7, <1>8, <1>9, <1>10, <1>11, <1>12,
     <1>13, <1>14, <1>15, <1>16 DEF Next, robin

\* The nodes left behind keep the new password: a pod that restarts is no
\* longer one of those that were listed.
LEMMA VisitedStep ==
  ASSUME IInv, Next
  PROVE  Visited'
<1> USE DEF IInv, TypeOK, NoneListed, Visited
<1>1. ASSUME NEW s \in Secrets, NEW p \in Passwords, EditSecret(s, p)
      PROVE  Visited'
  BY <1>1 DEF EditSecret, cluster, pass
<1>2. ASSUME NEW s \in Secrets, NewConfig(s) PROVE Visited'
  BY <1>2 DEF NewConfig, cluster, pass
<1>3. ASSUME NEW x \in Nodes, PodStops(x) PROVE Visited'
  BY <1>3 DEF PodStops
<1>4. ASSUME NEW x \in Nodes, PodStarts(x) PROVE Visited'
  BY <1>4 DEF PodStarts, pass
<1>5. ASSUME NEW ok \in BOOLEAN,
             applyAuthToAllNodesReads(ok) \/ handleReady(ok)
      PROVE  Visited'
  BY <1>5, NotSetting DEF applyAuthToAllNodesReads, handleReady
<1>6. ASSUME NEW ok \in BOOLEAN, applyAuthToAllNodes(ok) PROVE Visited'
  BY <1>6 DEF applyAuthToAllNodes, GetPodAddresses, cluster
<1>8. ASSUME reconcileAuthRotation PROVE Visited'
  BY <1>8 DEF reconcileAuthRotation, GetPodAddresses, cluster
<1>9. ASSUME NEW x \in Nodes, setRequirePass(x) PROVE Visited'
  BY <1>9 DEF setRequirePass
<1>10. ASSUME NEW x \in Nodes, setMasterAuth(x) PROVE Visited'
  BY <1>10 DEF setMasterAuth
<1>11. ASSUME NEW x \in Nodes, configSetFails(x) PROVE Visited'
  BY <1>11, NotSetting DEF configSetFails, Return
<1>12. ASSUME UpdateConfigMap PROVE Visited'
  BY <1>12, NotSetting DEF UpdateConfigMap
<1>13. ASSUME Healthy PROVE Visited'
  BY <1>13, NotSetting DEF Healthy
<1>14. ASSUME Unhealthy \/ setConfigPhaseApplied \/ restart PROVE Visited'
  BY <1>14, NotSetting DEF Unhealthy, setConfigPhaseApplied, restart, Return
<1> QED
  BY <1>1, <1>2, <1>3, <1>4, <1>5, <1>6, <1>8, <1>9, <1>10, <1>11, <1>12, <1>13,
     <1>14 DEF Next, robin

\* The inductive invariant of AuthRotation holds in every reachable state: what
\* applyAuthCredentials has left behind is complete, however often pods restart
\* and Secrets are edited meanwhile.
THEOREM Invariance == Spec => []IInv
<1>1. IInv /\ [Next]_vars => IInv'
  <2> SUFFICES ASSUME IInv, [Next]_vars PROVE IInv'
    OBVIOUS
  <2>1. CASE Next
    BY <2>1, TypeStep, VisitedStep DEF IInv
  <2>2. CASE UNCHANGED vars
    BY <2>2 DEF vars, config, cluster, pass, counters, IInv, TypeOK, NoneListed,
                Visited
  <2> QED
    BY <2>1, <2>2
<1> QED
  BY InitIInv, <1>1, PTL DEF Spec

\* The ConfigMap is written only by UpdateConfigMap.
LEMMA OnlyUpdateConfigMap ==
  ASSUME Next, conf' # conf
  PROVE  UpdateConfigMap
  BY DEF Next, robin, EditSecret, NewConfig, PodStops, PodStarts,
         applyAuthToAllNodesReads, applyAuthToAllNodes, handleReady,
         reconcileAuthRotation, setRequirePass, setMasterAuth, configSetFails,
         Healthy, Unhealthy, setConfigPhaseApplied, restart, cluster

\* applyAuthCredentials writes the ConfigMap only when every node that ran
\* throughout has the new password in both directions.
THEOREM WrittenLast == Spec => ConfigMapComesLast
<1>1. ASSUME IInv, [Next]_vars
      PROVE  [conf' # conf => \A x \in listed :
                                 conf' = inRedisConf(req[x]) /\ req[x] = master[x]]_vars
  <2> SUFFICES ASSUME Next, conf' # conf, NEW x \in listed
               PROVE  conf' = inRedisConf(req[x]) /\ req[x] = master[x]
    BY <1>1
  <2>1. UpdateConfigMap
    BY OnlyUpdateConfigMap
  <2>2. req[x] = new /\ master[x] = new
    BY <1>1, <2>1 DEF UpdateConfigMap, IInv, Visited
  <2> QED
    BY <2>1, <2>2 DEF UpdateConfigMap
<1> QED
  BY <1>1, Invariance, PTL DEF Spec, ConfigMapComesLast
=============================================================================
