------------------------ MODULE MCContentLifecycle ------------------------
(* The fairness of the cleanup needs each value on its own: no symmetry.    *)
EXTENDS ContentLifecycle

CONSTANTS c1, u1, u2, k1, e1, e2, r1
=============================================================================
