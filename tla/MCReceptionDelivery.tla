------------------------ MODULE MCReceptionDelivery ------------------------
EXTENDS ReceptionDelivery, TLC

CONSTANTS d1, d2

OneDevice == {d1}
TwoDevices == {d1, d2}
MCEvents == 0..MaxMessages
MCRuns == 1..MaxRuns
MCSubmissions == 1..MaxSubmissions

(* The state without its history, for properties that do not look at it.    *)
Protocol ==
  <<record, revoked, cutoff, file, mem, pc, calls, replies, arrived, seen, lastRun, lastSub>>

(* Behaviours in which the computers take turns and nobody asks for a       *)
(* transfer.                                                                *)
TakingTurns ==
  /\ \A d, e \in Devices : pc[d] # "Off" /\ pc[e] # "Off" => d = e
  /\ record.next = None /\ record.mode # "Draining"

(* The owner's revocation, where it happens, comes during the first         *)
(* delivery (its pending and its outcome are revisions 1 and 2).            *)
RevokedEarly == revoked # {} => record.revision <= 2

Symmetry == Permutations(TwoDevices)
=============================================================================
