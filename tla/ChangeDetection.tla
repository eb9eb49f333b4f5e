-------------------------- MODULE ChangeDetection --------------------------
(***************************************************************************)
(* What distinguishes two configs, and which cluster status a change leads *)
(* to: the pure functions of internal/reconciler/config_changes.go and     *)
(* status_transitions.go.                                                  *)
(*                                                                         *)
(* A spec is a record of the fields Robin tells apart:                     *)
(*   primaries, replicas : Primaries and ReplicasPerPrimary (naturals)     *)
(*   ephemeral, purge    : Ephemeral and PurgeKeysOnRebalance (Booleans)   *)
(*   kube   : the other fields detectKubernetesChanges compares            *)
(*   redis  : RedisConfig and Version                                      *)
(*   robin  : RobinConfig                                                  *)
(*   auth   : Auth                                                         *)
(* The nil-safe comparison helpers are equality on those values.           *)
(***************************************************************************)
EXTENDS Naturals

Total(s) == s.primaries + s.primaries * s.replicas

\* "None" is the empty status.
Statuses == {"None", "Initializing", "Configuring", "Ready", "ScalingUp",
             "ScalingDown", "ScalingToZero", "Upgrading"}

detectKubernetesChanges(previous, target) ==
  \/ previous.ephemeral # target.ephemeral
  \/ previous.kube # target.kube

detectRedisConfigChanges(previous, target) == previous.redis # target.redis

\* Faulty variant: replicas are not looked at.
determineScaleDirectionOfPrimaries(previous, target) ==
  IF target.primaries = 0 THEN "ScaleToZero"
  ELSE IF target.primaries > previous.primaries THEN "ScaleUp"
  ELSE IF target.primaries < previous.primaries THEN "ScaleDown"
  ELSE "NoScale"

\* The sign of the primaries' delta decides; the replicas' delta counts only
\* when the number of primaries stays the same.
determineScaleDirection(previous, target) ==
  IF target.primaries = 0 THEN "ScaleToZero"
  ELSE IF \/ target.primaries > previous.primaries
          \/ /\ target.primaries = previous.primaries
             /\ target.replicas > previous.replicas
  THEN "ScaleUp"
  ELSE IF \/ target.primaries < previous.primaries
          \/ target.replicas < previous.replicas
  THEN "ScaleDown"
  ELSE "NoScale"

\* The ChangeReport.
DetectChanges(previous, target) ==
  [topology  |-> \/ previous.primaries # target.primaries
                 \/ previous.replicas # target.replicas,
   direction |-> determineScaleDirection(previous, target),
   kube      |-> detectKubernetesChanges(previous, target),
   redis     |-> detectRedisConfigChanges(previous, target),
   robin     |-> previous.robin # target.robin,
   auth      |-> previous.auth # target.auth,
   purge     |-> previous.purge # target.purge]

RequiresClusterOperation(report) ==
  report.topology \/ report.kube \/ report.redis

OnlyRobinChanges(report) ==
  report.robin /\ ~RequiresClusterOperation(report) /\ ~report.purge

HasAnyChange(report) ==
  \/ RequiresClusterOperation(report)
  \/ report.robin \/ report.auth \/ report.purge

DetermineStatusTransition(report) ==
  IF \/ ~HasAnyChange(report)
     \/ OnlyRobinChanges(report)
     \/ report.purge /\ ~RequiresClusterOperation(report) /\ ~report.robin
  THEN "None"
  ELSE IF report.topology /\ report.direction # "NoScale"
  THEN CASE report.direction = "ScaleToZero" -> "ScalingToZero"
         [] report.direction = "ScaleUp"     -> "ScalingUp"
         [] report.direction = "ScaleDown"   -> "ScalingDown"
  ELSE IF report.kube \/ report.redis THEN "Upgrading"
  ELSE "None"

\* fastScalingEligible and fastUpgradeEligible are the same condition.
fastScalingEligible(s) == s.ephemeral /\ s.replicas = 0 /\ s.purge

\* What the StatefulSet's pod template and the ConfigMap are built from.
Template(s) == <<s.kube, s.ephemeral, s.redis>>
=============================================================================
