------------------------- MODULE MCAutomationGrant -------------------------
(* Two computers of two principals who share an agent.                      *)
EXTENDS AutomationGrant, TLC

CONSTANTS g1, g2, i1, i2, s1, s2, k1, k2, p1, p2, a

MCPrincipal == [i \in Instances |-> IF i = i1 THEN p1 ELSE p2]

Symmetry == Permutations(Grants) \cup Permutations(Submissions) \cup Permutations(Requests)

(* The second principal makes one grant at the start, for one computer; the *)
(* first makes any, the last ones when the first have expired.  Requests    *)
(* overlap only without a receiver, which sends one at a time, and before   *)
(* anybody has left.                                                        *)
Scoped ==
  /\ \A g \in Grants :
       /\ grant[g].instance # None <=> grant[g].grantor = p2
       /\ grant[g].starts \in IF grant[g].grantor = p2 THEN {0} ELSE {0, Lifetime}
  /\ Cardinality({g \in Grants : grant[g].grantor = p2}) =< 1
  /\ executor.mode # "none" \/ gone # {} =>
       Cardinality({k \in Requests : request[k].at = "consume"}) =< 1

(* No step depends on when a grant was revoked, nor on the last answer.     *)
Ledger ==
  <<now, [g \in Grants |-> [grant[g] EXCEPT !.revoked = 0]], used, executor, gone,
    [k \in Requests |-> IF request[k].at = "consume" THEN request[k] ELSE Quiet]>>
=============================================================================
