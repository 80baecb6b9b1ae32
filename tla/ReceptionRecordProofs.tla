----------------------- MODULE ReceptionRecordProofs -----------------------
(***************************************************************************)
(* What the transitions of the execution record preserve and change, for   *)
(* the proofs of the specifications built on it.                           *)
(***************************************************************************)
EXTENDS ReceptionRecord, TLAPS

(* No executor is the absent one.                                           *)
LEMMA OwnerNotNone ==
  \A o \in Owner : o # None
BY NoneAssumption DEF Owner

(* A claim makes the claimer the active executor and keeps a record's       *)
(* progress and revision.                                                   *)
LEMMA ClaimFields ==
  ASSUME NEW r \in Record, NEW o \in Owner, NEW p \in Progress
  PROVE  /\ Claim(r, o, p) \in Record
         /\ Claim(r, o, p).owner = o
         /\ Claim(r, o, p).mode = "Active"
         /\ Claim(r, o, p).revision = r.revision
         /\ Claim(r, o, p).progress = IF r.owner = None THEN p ELSE r.progress
<1>1. CASE r.owner = None
  BY <1>1 DEF Claim, Record, Mode
<1>2. CASE r.owner # None
  BY <1>2 DEF Claim, Record, Mode
<1> QED
  BY <1>1, <1>2

(* A save changes the progress, and with it the revision, and nothing else. *)
LEMMA SaveFields ==
  ASSUME NEW r \in Record, NEW p \in Progress
  PROVE  /\ Save(r, p) \in Record
         /\ Save(r, p).owner = r.owner
         /\ Save(r, p).mode = r.mode
         /\ Save(r, p).progress = p
         /\ Save(r, p).revision \in {r.revision, r.revision + 1}
<1>0. r.revision + 1 \in Nat
  BY DEF Record
<1>1. CASE p = r.progress
  BY <1>1 DEF Save
<1>2. CASE p # r.progress
  BY <1>0, <1>2 DEF Save, Record
<1> QED
  BY <1>1, <1>2

(* A release keeps everything but the mode, the last executor included.     *)
LEMMA ReleaseFields ==
  ASSUME NEW r \in Record
  PROVE  /\ Release(r) \in Record
         /\ Release(r).owner = r.owner
         /\ Release(r).progress = r.progress
BY DEF Release, Record, Mode

(* A drain keeps the executor unless it is cut off.                         *)
LEMMA DrainFields ==
  ASSUME NEW r \in Record, NEW next \in Devices \cup {None}, NEW S
  PROVE  /\ Drain(r, next, S) \in Record
         /\ Drain(r, next, S).owner = r.owner
         /\ Drain(r, next, S).progress = r.progress
         /\ Drain(r, next, S).mode = "Idle" => r.mode = "Idle" \/ r.owner.device \in S
BY DEF Drain, Record, Mode
=============================================================================
