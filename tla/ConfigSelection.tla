-------------------------- MODULE ConfigSelection --------------------------
(***************************************************************************)
(* Which RedkeyConfig Robin works on: the pure functions of                *)
(* internal/reconciler/config_plan.go and config_superseding.go.           *)
(*                                                                         *)
(* The RedkeyConfig resources of a cluster, sorted by Spec.Sequence, are   *)
(* the numbers 1..n. ph[i] is the ConfigPhase of config i and spec[i] its  *)
(* (immutable) Spec, a record with at least                                *)
(*   skip     : SkipIfSuperseded                                           *)
(*   topology : Primaries and ReplicasPerPrimary                           *)
(*   other    : every other field of the Spec.                             *)
(* 0 stands for a nil *RedkeyConfig.                                       *)
(***************************************************************************)
EXTENDS Naturals, FiniteSetsExt

\* "Unset" stands for the empty ConfigPhase of a status not yet written.
Phases == {"Unset", "Pending", "InProgress", "Applied", "Superseded"}

\* The phases SelectConfig steps over: nothing is left to do for the config.
Terminal == {"Applied", "Superseded"}

None == 0

lastAppliedBefore(ph, i) ==
  LET applied == {j \in 1..(i - 1) : ph[j] = "Applied"}
  IN  IF applied = {} THEN None ELSE Max(applied)

lastApplied(ph, n) == lastAppliedBefore(ph, n + 1)

\* Faulty variants of SelectConfig: the newest unresolved config first; and a
\* config that was started before a restart is not resumed.
SelectConfigNewestFirst(ph, n) ==
  LET open == {i \in 1..n : ph[i] \notin Terminal}
  IN  IF open # {} THEN Max(open)
      ELSE IF lastApplied(ph, n) # None THEN lastApplied(ph, n)
      ELSE n

SelectConfigNotResuming(ph, n) ==
  LET open == {i \in 1..n : ph[i] \in {"Unset", "Pending"}}
  IN  IF open # {} THEN Min(open)
      ELSE IF lastApplied(ph, n) # None THEN lastApplied(ph, n)
      ELSE n

\* The target of SelectConfig; previousConfig is lastAppliedBefore of it.
SelectConfig(ph, n) ==
  LET open == {i \in 1..n : ph[i] \notin Terminal}
  IN  IF open # {} THEN Min(open)
      ELSE IF lastApplied(ph, n) # None THEN lastApplied(ph, n)
      ELSE n

\* findBaseline walks the sequence numbers below the selected one.
findBaseline(ph, selected) == lastAppliedBefore(ph, selected)

\* Sequence, SkipIfSuperseded, Primaries and ReplicasPerPrimary are
\* normalised away before the two specs are compared.
onlyTopologyChange(a, b) == a.other = b.other

\* Faulty variants of mayBeSuperseded: no comparison with the config that is
\* running; and a config already being carried out is skipped too.
mayBeSupersededWithoutBaseline(spec, ph, selected) ==
  /\ ph[selected] \notin {"InProgress", "Applied"}
  /\ spec[selected].skip

mayBeSupersededInProgress(spec, ph, selected) ==
  LET baseline == findBaseline(ph, selected)
  IN  /\ spec[selected].skip
      /\ baseline # None => onlyTopologyChange(spec[baseline], spec[selected])

\* The pre-conditions under which ApplySuperseding looks beyond `selected'.
mayBeSuperseded(spec, ph, selected) ==
  LET baseline == findBaseline(ph, selected)
  IN  /\ ph[selected] \notin {"InProgress", "Applied"}
      /\ spec[selected].skip
      /\ baseline # None => onlyTopologyChange(spec[baseline], spec[selected])

\* One round of the walk: the chain goes on from config k to config k + 1.
chainContinues(spec, baseline, k) ==
  /\ spec[k].skip
  /\ onlyTopologyChange(spec[IF baseline = None THEN k ELSE baseline],
                        spec[k + 1])

\* SupersedingResult.Selected; SupersedingResult.Superseded is the interval
\* from `selected' up to the config before it.
ApplySuperseding(spec, ph, n, selected) ==
  IF mayBeSuperseded(spec, ph, selected)
  THEN Max({t \in selected..n :
              \A k \in selected..(t - 1) :
                 chainContinues(spec, findBaseline(ph, selected), k)})
  ELSE selected

\* validConfigPhase(phase, TRUE), as reconcile calls it.
validConfigPhase(p) == p \in {"Pending", "InProgress", "Applied"}
=============================================================================
