------------------------------- MODULE MCHealth -------------------------------
(* An instance of Health for TLC. *)
EXTENDS Health

\* Two primaries with a replica each.
MCTopology == [primaries |-> 2, replicas |-> 1]
=============================================================================
