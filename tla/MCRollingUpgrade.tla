--------------------------- MODULE MCRollingUpgrade ---------------------------
(* Instances of RollingUpgrade for TLC. *)
EXTENDS RollingUpgrade
=============================================================================
