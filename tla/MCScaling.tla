------------------------------ MODULE MCScaling ------------------------------
(* Instances of Scaling for TLC. *)
EXTENDS Scaling

T(p, r) == [primaries |-> p, replicas |-> r]

MCTopology == T(1, 0)

MCResizes == {<<T(1, 1), T(1, 0)>>, <<T(2, 0), T(1, 0)>>, <<T(3, 0), T(2, 0)>>,
              <<T(2, 0), T(1, 1)>>, <<T(2, 0), T(1, 2)>>, <<T(1, 1), T(2, 0)>>,
              <<T(1, 1), T(2, 1)>>}
=============================================================================
