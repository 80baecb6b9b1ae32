--------------------------- MODULE ContentObject ---------------------------
(***************************************************************************)
(* A content object (the body of a message or an attachment) and its       *)
(* access policy, as the control plane stores them, and the transitions    *)
(* the domain allows.  Each transition is given as the condition under     *)
(* which it succeeds and the record it leaves.                             *)
(*                                                                         *)
(*   state   lifecycle_state; "none" before the upload is claimed          *)
(*   scan    scan_state; Suspicious and Rejected are told apart nowhere    *)
(*   event   the policy's matrix_event_id, None while unbound              *)
(*   old     updated_at lies before the orphan grace                       *)
(*   due     the effective expiry has been reached                         *)
(***************************************************************************)
CONSTANTS Events, None

ASSUME NoEvent == None \notin Events

States == {"uploading", "active", "orphaned", "redacted", "expired", "deleted"}
Scans == {"pending", "clean", "rejected", "not_applicable"}

Object ==
  [state : States \cup {"none"}, scan : Scans, event : Events \cup {None},
   old : BOOLEAN, due : BOOLEAN]

Absent ==
  [state |-> "none", scan |-> "pending", event |-> None, old |-> FALSE, due |-> FALSE]

(* begin_upload: what claim_upload inserts.                                *)
Begun(scan) == [Absent EXCEPT !.state = "uploading", !.scan = scan]

AllowsRead(scan) == scan \in {"clean", "not_applicable"}

(***************************************************************************)
(* save_content writes the new states and updated_at.                      *)
(***************************************************************************)
Saved(o, state) == [o EXCEPT !.state = state, !.old = FALSE]

(* Mutant: an orphan is taken up again.                                    *)
CanActivateOrphan(o) == AllowsRead(o.scan) /\ o.state \in {"uploading", "active", "orphaned"}

CanActivate(o) == AllowsRead(o.scan) /\ o.state \in {"uploading", "active"}

(* Mutant: a later verdict replaces an earlier one.                        *)
CanRescan(o) == o.state # "deleted"

CanRecordScan(o) == o.scan = "pending" /\ o.state # "deleted"

CanTransition(o, target) ==
  \/ target = "orphaned" /\ o.state \in {"uploading", "active", "orphaned"}
  \/ target = "redacted" /\ o.state \in {"uploading", "active", "orphaned", "redacted"}
  \/ target = "expired" /\ o.due /\ o.state \in {"uploading", "active", "orphaned", "expired"}

CanMarkDeleted(o) == o.state \in {"orphaned", "redacted", "expired", "deleted"}

(* mark_deleted leaves an object that is deleted already as it is, but it  *)
(* is saved again.                                                         *)
MarkedDeleted(o) == Saved(o, "deleted")

(***************************************************************************)
(* is_readable_at, and what a read ticket asks of the policy.              *)
(***************************************************************************)
Readable(o) ==
  /\ o.state = "active"
  /\ AllowsRead(o.scan)
  /\ ~o.due
  /\ o.event # None

(***************************************************************************)
(* bind_event: a policy takes the first event it is bound to and accepts   *)
(* only that one afterwards.                                               *)
(***************************************************************************)
CanBind(o, event) == o.state = "active" /\ o.event \in {None, event}

(* Mutant: expired objects are not listed again after a failed delete.     *)
ReclaimableOnce(o) ==
  \/ o.state \in {"orphaned", "redacted"}
  \/ o.state = "uploading" /\ o.old
  \/ o.state = "active" /\ o.due
  \/ o.state = "active" /\ o.event = None /\ o.old

(***************************************************************************)
(* list_reclaimable.                                                       *)
(***************************************************************************)
Reclaimable(o) ==
  \/ o.state \in {"orphaned", "redacted", "expired"}
  \/ o.state = "uploading" /\ o.old
  \/ o.state = "active" /\ o.due
  \/ o.state = "active" /\ o.event = None /\ o.old
=============================================================================
