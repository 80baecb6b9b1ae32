----------------------- MODULE MCMessagePublication -----------------------
EXTENDS MessagePublication, TLC

CONSTANTS s1, r1, b1, b2, k1, k2

Symmetry == Permutations(Calls) \cup Permutations(Bodies)
=============================================================================
