--------------------------- MODULE MCConfigPlan ---------------------------
(* Instances of ConfigPlan for TLC. *)
EXTENDS ConfigPlan

\* SkipIfSuperseded or not, and two values of the fields other than topology.
MCSpecs == [skip : BOOLEAN, other : {"a", "b"}]
=============================================================================
