------------------------- MODULE MCReceptionServer -------------------------
(* Two computers, two run ids, one submission, one position.          *)
EXTENDS ReceptionServer, TLC

CONSTANTS d1, d2, r1, r2, s1

MCDevices == {d1, d2}
MCRuns == {r1, r2}
MCEvents == {0}
MCSubmissions == {s1}

(* A revocation is explored with the first save, later saves without one.  *)
RevokedEarly ==
  revoked # {} =>
    /\ record.revision < MaxRevision
    /\ \A r \in requests : r.command = "Save" => r.revision < MaxRevision

Symmetry == Permutations(MCDevices) \cup Permutations(MCRuns)
=============================================================================
