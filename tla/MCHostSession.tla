--------------------------- MODULE MCHostSession ---------------------------
(* One key opened twice over, two connections.                              *)
EXTENDS HostSession, TLC

CONSTANTS k1, c1, c2

MCKeys == {k1}
MCCallers == {c1, c2}
=============================================================================
