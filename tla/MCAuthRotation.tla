--------------------------- MODULE MCAuthRotation ---------------------------
(* Instances of AuthRotation for TLC. *)
EXTENDS AuthRotation

\* A password with a trailing blank, which redis.conf does not keep.
PaddedTrim == [p \in Passwords |-> IF p = "b " THEN "b" ELSE p]

SameTrim == [p \in Passwords |-> p]
=============================================================================
