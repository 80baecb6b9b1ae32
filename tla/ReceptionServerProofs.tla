----------------------- MODULE ReceptionServerProofs -----------------------
(***************************************************************************)
(* Theorems about the execution record, for any sets of computers, runs,   *)
(* positions and submissions and any number of requests under way.         *)
(***************************************************************************)
EXTENDS ReceptionServer, ReceptionRecordProofs

(***************************************************************************)
(* What the safety theorems need besides the types: a Release that is      *)
(* under way was sent by the executor it names, and a record nobody has    *)
(* claimed is idle.                                                        *)
(***************************************************************************)
ReleasesAsked == \A r \in requests : r.command = "Release" => r.owner \in asked

UnclaimedIdle == record.owner = None => record.mode = "Idle"

IInv == TypeOK /\ ReleasesAsked /\ UnclaimedIdle /\ NoTakeoverUnasked

-----------------------------------------------------------------------------
(* What each kind of request carries.                                       *)
LEMMA RequestFields ==
  ASSUME NEW r \in Request
  PROVE  /\ r.owner \in Owner
         /\ r.command = "Claim" => r.progress \in Progress
         /\ r.command = "Save" => r.progress \in Progress /\ r.revision \in Nat
BY BoundsAssumption DEF Request

-----------------------------------------------------------------------------
(* The record starts absent, with the types it keeps.                       *)
LEMMA InitTypeOK == Init => TypeOK
<1> SUFFICES ASSUME Init PROVE TypeOK
  OBVIOUS
<1>1. [after |-> Origin, pending |-> None, retry |-> None] \in Progress
  BY BoundsAssumption DEF Progress
<1>2. Absent(Origin) \in Record
  BY <1>1 DEF Absent, Record, Mode
<1> QED
  BY <1>2 DEF Init, TypeOK

(* Every request carried out, sent or lost, every drain and revocation      *)
(* keeps the types.                                                         *)
LEMMA NextTypeOK == TypeOK /\ [Next]_vars => TypeOK'
<1> SUFFICES ASSUME TypeOK, [Next]_vars PROVE TypeOK'
  OBVIOUS
<1>1. ASSUME NEW r \in Request, Send(r) PROVE TypeOK'
  BY <1>1, RequestFields DEF TypeOK, Send
<1>2. ASSUME NEW r \in requests, Lose(r) PROVE TypeOK'
  BY <1>2 DEF TypeOK, Lose
<1>3. ASSUME NEW r \in requests, ExecuteClaim(r) PROVE TypeOK'
  <2>1. r \in Request /\ record \in Record
    BY DEF TypeOK
  <2>2. Claim(record, r.owner, r.progress) \in Record
    BY <1>3, <2>1, RequestFields, ClaimFields DEF ExecuteClaim
  <2> QED
    BY <1>3, <2>2 DEF TypeOK, ExecuteClaim, Consume
<1>4. ASSUME NEW r \in requests, ExecuteSave(r) PROVE TypeOK'
  <2>1. r \in Request /\ record \in Record
    BY DEF TypeOK
  <2>2. Save(record, r.progress) \in Record
    BY <1>4, <2>1, RequestFields, SaveFields DEF ExecuteSave
  <2> QED
    BY <1>4, <2>2 DEF TypeOK, ExecuteSave, Consume
<1>5. ASSUME NEW r \in requests, ExecuteRelease(r) PROVE TypeOK'
  <2>1. Release(record) \in Record
    BY ReleaseFields DEF TypeOK
  <2> QED
    BY <1>5, <2>1 DEF TypeOK, ExecuteRelease, Consume
<1>6. ASSUME NEW next \in Devices \cup {None}, OwnerDrains(next) PROVE TypeOK'
  BY <1>6, DrainFields DEF TypeOK, OwnerDrains
<1>7. ASSUME NEW d \in Devices, Revoke(d) \/ CutOff(d) PROVE TypeOK'
  BY <1>7 DEF TypeOK, Revoke, CutOff
<1>8. CASE UNCHANGED vars
  BY <1>8 DEF TypeOK, vars
<1> QED
  BY <1>1, <1>2, <1>3, <1>4, <1>5, <1>6, <1>7, <1>8 DEF Next

(***************************************************************************)
(* The record, the requests under way and the history keep their types     *)
(* whatever computers send and in whatever order the server carries it     *)
(* out.                                                                    *)
(***************************************************************************)
THEOREM TypeCorrect == Spec => []TypeOK
BY InitTypeOK, NextTypeOK, PTL DEF Spec

-----------------------------------------------------------------------------
(* The inductive invariant.                                                 *)

(* The inductive invariant holds before anything was claimed.               *)
LEMMA InitIInv == Init => IInv
<1> SUFFICES ASSUME Init PROVE IInv
  OBVIOUS
<1>1. TypeOK
  BY InitTypeOK
<1>2. record.owner = None /\ record.mode = "Idle" /\ requests = {}
  BY DEF Init, Absent
<1> QED
  BY <1>1, <1>2 DEF IInv, ReleasesAsked, UnclaimedIdle, NoTakeoverUnasked

(* Each request, drain and revocation preserves the inductive invariant.    *)
LEMMA NextIInv == IInv /\ [Next]_vars => IInv'
<1> SUFFICES ASSUME IInv, [Next]_vars PROVE IInv'
  OBVIOUS
<1>t. TypeOK /\ TypeOK'
  BY NextTypeOK DEF IInv
<1> USE <1>t
<1>1. ASSUME NEW r \in Request, Send(r) PROVE IInv'
  <2>1. ReleasesAsked'
    BY <1>1 DEF Send, IInv, ReleasesAsked
  <2>2. UnclaimedIdle' /\ NoTakeoverUnasked'
    BY <1>1 DEF Send, IInv, UnclaimedIdle, NoTakeoverUnasked, Consented
  <2> QED
    BY <2>1, <2>2 DEF IInv
<1>2. ASSUME NEW r \in requests, Lose(r) PROVE IInv'
  BY <1>2 DEF Lose, IInv, ReleasesAsked, UnclaimedIdle, NoTakeoverUnasked, Consented
<1>3. ASSUME NEW r \in requests, ExecuteClaim(r) PROVE IInv'
  <2>1. record'.mode = "Active" /\ record'.owner = r.owner
    BY <1>3 DEF ExecuteClaim, Claim, TypeOK, Record
  <2>2. record'.owner # None
    BY <2>1, RequestFields, OwnerNotNone DEF TypeOK
  <2>3. ReleasesAsked'
    BY <1>3 DEF ExecuteClaim, Consume, IInv, ReleasesAsked
  <2> QED
    BY <2>1, <2>2, <2>3 DEF IInv, UnclaimedIdle, NoTakeoverUnasked
<1>4. ASSUME NEW r \in requests, ExecuteSave(r) PROVE IInv'
  <2>1. record'.mode = record.mode /\ record'.owner = record.owner
    BY <1>4 DEF ExecuteSave, Save, TypeOK, Record
  <2>2. ReleasesAsked'
    BY <1>4 DEF ExecuteSave, Consume, IInv, ReleasesAsked
  <2> QED
    BY <1>4, <2>1, <2>2 DEF ExecuteSave, IInv, UnclaimedIdle, NoTakeoverUnasked, Consented
<1>5. ASSUME NEW r \in requests, ExecuteRelease(r) PROVE IInv'
  <2>1. record'.mode = "Idle" /\ record'.owner = record.owner
    BY <1>5 DEF ExecuteRelease, Release, TypeOK, Record
  <2>2. record.owner \in asked
    BY <1>5 DEF ExecuteRelease, CanRelease, IInv, ReleasesAsked
  <2>3. ReleasesAsked'
    BY <1>5 DEF ExecuteRelease, Consume, IInv, ReleasesAsked
  <2> QED
    BY <1>5, <2>1, <2>2, <2>3
    DEF ExecuteRelease, IInv, UnclaimedIdle, NoTakeoverUnasked, Consented
<1>6. ASSUME NEW next \in Devices \cup {None}, OwnerDrains(next) PROVE IInv'
  <2>1. record'.owner = record.owner /\ record.owner # None
    BY <1>6 DEF OwnerDrains, Drain, TypeOK, Record
  <2>2. record'.mode = "Idle" => record.mode = "Idle" \/ record.owner.device \in cutoff
    BY <1>6 DEF OwnerDrains, Drain, TypeOK, Record
  <2>3. record.owner \in Owner
    BY <2>1 DEF TypeOK, Record
  <2>4. NoTakeoverUnasked'
    BY <1>6, <2>1, <2>2, <2>3 DEF OwnerDrains, IInv, NoTakeoverUnasked, Consented
  <2> QED
    BY <1>6, <2>1, <2>4 DEF OwnerDrains, IInv, ReleasesAsked, UnclaimedIdle
<1>7. ASSUME NEW d \in Devices, Revoke(d) \/ CutOff(d) PROVE IInv'
  BY <1>7 DEF Revoke, CutOff, IInv, ReleasesAsked, UnclaimedIdle, NoTakeoverUnasked, Consented
<1>8. CASE UNCHANGED vars
  BY <1>8 DEF vars, IInv, ReleasesAsked, UnclaimedIdle, NoTakeoverUnasked, Consented
<1> QED
  BY <1>1, <1>2, <1>3, <1>4, <1>5, <1>6, <1>7, <1>8 DEF Next

(* The inductive invariant holds in every behaviour of the server.          *)
LEMMA Inductive == Spec => []IInv
BY InitIInv, NextIInv, PTL DEF Spec

(***************************************************************************)
(* For any number of computers and requests: no drain, delayed or repeated *)
(* request frees the record of an executor that did not itself ask to be   *)
(* released and can still send.                                            *)
(***************************************************************************)
THEOREM ConsentBeforeTakeover == Spec => []NoTakeoverUnasked
<1>1. IInv => NoTakeoverUnasked
  BY DEF IInv
<1> QED
  BY <1>1, Inductive, PTL

-----------------------------------------------------------------------------
(* Steps.                                                                   *)

(* A record changes hands in a claim only.                                  *)
LEMMA NewExecutorClaims ==
  ASSUME TypeOK, Next, record.mode = "Idle", record'.mode = "Active"
  PROVE  \E r \in requests : ExecuteClaim(r)
<1>1. ASSUME NEW r \in requests, ExecuteSave(r) PROVE FALSE
  BY <1>1 DEF ExecuteSave, Save, TypeOK, Record
<1>2. ASSUME NEW r \in requests, ExecuteRelease(r) PROVE FALSE
  BY <1>2 DEF ExecuteRelease, Release, TypeOK, Record
<1>3. ASSUME NEW next \in Devices \cup {None}, OwnerDrains(next) PROVE FALSE
  BY <1>3 DEF OwnerDrains, Drain, TypeOK, Record
<1> QED
  BY <1>1, <1>2, <1>3 DEF Next, Send, Lose, Revoke, CutOff

(***************************************************************************)
(* A Claim of a run that was released before it arrived never makes that   *)
(* run the executor again.                                                 *)
(***************************************************************************)
THEOREM StaleClaimRefused == Spec => ReleasedRunStaysReleased
<1> DEFINE A == record.owner # None /\ record.mode = "Idle" /\ record'.mode = "Active"
                  => record'.owner.run # record.owner.run
<1>1. TypeOK /\ [Next]_vars => [A]_vars
  <2> SUFFICES ASSUME TypeOK, Next, record.owner # None,
                      record.mode = "Idle", record'.mode = "Active"
               PROVE  record'.owner.run # record.owner.run
    BY DEF vars
  <2>1. PICK r \in requests : ExecuteClaim(r)
    BY NewExecutorClaims
  <2>2. record'.owner = r.owner
    BY <2>1 DEF ExecuteClaim, Claim, TypeOK, Record
  <2>3. r.owner.run # record.owner.run
    BY <2>1 DEF ExecuteClaim, CanClaim, Permits
  <2> QED
    BY <2>2, <2>3
<1> QED
  BY <1>1, TypeCorrect, PTL DEF Spec, ReleasedRunStaysReleased

(***************************************************************************)
(* No update is lost: whatever arrives late or twice, the progress is      *)
(* replaced only by a save of the executor in office that names the        *)
(* revision it replaces.                                                   *)
(***************************************************************************)
THEOREM RevisionsAreNames == Spec => RevisionNamesProgress
<1> DEFINE Kept == record'.revision = record.revision /\ record'.progress = record.progress
           Replaced == /\ record'.revision = record.revision + 1
                       /\ record.mode # "Idle"
                       /\ \E r \in requests :
                            /\ r.command = "Save"
                            /\ r.owner = record.owner
                            /\ r.revision = record.revision
                            /\ r.progress = record'.progress
           A == record.owner # None => Kept \/ Replaced
<1>1. TypeOK /\ [Next]_vars => [A]_vars
  <2> SUFFICES ASSUME TypeOK, Next, record.owner # None
               PROVE  Kept \/ Replaced
    BY DEF vars
  <2>1. ASSUME NEW r \in requests, ExecuteClaim(r) PROVE Kept
    BY <2>1 DEF ExecuteClaim, Claim, TypeOK, Record
  <2>2. ASSUME NEW r \in requests, ExecuteSave(r) PROVE Kept \/ Replaced
    <3>1. CASE r.progress = record.progress
      BY <2>2, <3>1 DEF ExecuteSave, Save
    <3>2. CASE r.progress # record.progress
      <4>1. record'.revision = record.revision + 1 /\ record'.progress = r.progress
        BY <2>2, <3>2 DEF ExecuteSave, Save, TypeOK, Record
      <4>2. /\ r.command = "Save" /\ r.owner = record.owner /\ r.revision = record.revision
            /\ record.mode # "Idle"
        BY <2>2, <3>2 DEF ExecuteSave, CanSave
      <4> QED
        BY <4>1, <4>2
    <3> QED
      BY <3>1, <3>2
  <2>3. ASSUME NEW r \in requests, ExecuteRelease(r) PROVE Kept
    BY <2>3 DEF ExecuteRelease, Release, TypeOK, Record
  <2>4. ASSUME NEW next \in Devices \cup {None}, OwnerDrains(next) PROVE Kept
    BY <2>4 DEF OwnerDrains, Drain, TypeOK, Record
  <2>5. CASE UNCHANGED record
    BY <2>5
  <2> HIDE DEF Kept, Replaced
  <2> QED
    BY <2>1, <2>2, <2>3, <2>4, <2>5 DEF Next, Send, Lose, Revoke, CutOff
<1> QED
  BY <1>1, TypeCorrect, PTL DEF Spec, RevisionNamesProgress

-----------------------------------------------------------------------------
(* The refinement of ExecutionLock.                                         *)

Holder == IF record.mode = "Idle" THEN None ELSE record.owner

KeptProgress == IF record.owner = None THEN None ELSE record.progress

(* Each step of the record is a step of the lock or changes nothing it      *)
(* shows.                                                                   *)
LEMMA LockStep == IInv /\ [Next]_vars => [Lock!Next]_(Lock!vars)
<1> SUFFICES ASSUME IInv, [Next]_vars PROVE [Lock!Next]_(Lock!vars)
  OBVIOUS
<1>t. TypeOK
  BY DEF IInv
<1> USE <1>t
<1>stutter. ASSUME Holder' = Holder, KeptProgress' = KeptProgress, Consented' = Consented
            PROVE  UNCHANGED Lock!vars
  BY <1>stutter DEF Lock!vars, Holder, KeptProgress
<1>1. ASSUME NEW r \in Request, Send(r) PROVE [Lock!Next]_(Lock!vars)
  <2>1. r.owner \in Owner
    BY RequestFields
  <2>2. \E S \in SUBSET Owner : Consented' = Consented \cup S
    <3>1. CASE r.command = "Release"
      <4>1. Consented' = Consented \cup {r.owner}
        BY <1>1, <3>1 DEF Send, Consented
      <4> QED
        BY <2>1, <4>1
    <3>2. CASE r.command # "Release"
      <4>1. Consented' = Consented \cup {}
        BY <1>1, <3>2 DEF Send, Consented
      <4> QED
        BY <4>1
    <3> QED
      BY <3>1, <3>2
  <2>3. record' = record
    BY <1>1 DEF Send
  <2>4. Lock!Consent
    BY <2>2, <2>3 DEF Lock!Consent
  <2> QED
    BY <2>4 DEF Lock!Next
<1>2. ASSUME NEW r \in requests, Lose(r) PROVE [Lock!Next]_(Lock!vars)
  BY <1>2, <1>stutter DEF Lose, Holder, KeptProgress, Consented
<1>3. ASSUME NEW r \in requests, ExecuteClaim(r) PROVE [Lock!Next]_(Lock!vars)
  <2>1. r.owner \in Owner /\ r.owner # None /\ r.progress \in Progress
    BY <1>3, RequestFields, OwnerNotNone DEF TypeOK, ExecuteClaim
  <2>2. record'.owner = r.owner /\ record'.mode = "Active"
    BY <1>3 DEF ExecuteClaim, Claim, TypeOK, Record
  <2>3. Consented' = Consented
    BY <1>3 DEF ExecuteClaim, Consented
  <2>4. record.owner = None => record'.progress = r.progress
    BY <1>3 DEF ExecuteClaim, Claim, TypeOK, Record
  <2>5. record.owner # None => record'.progress = record.progress
    BY <1>3 DEF ExecuteClaim, Claim, TypeOK, Record
  <2>6. record.progress \in Progress
    BY DEF TypeOK, Record
  <2>7. CASE Permits(record, r.owner)
    BY <2>1, <2>2, <2>3, <2>5, <2>7, <1>stutter DEF Permits, Holder, KeptProgress
  <2>8. CASE ~Permits(record, r.owner)
    <3>1. record.mode = "Idle"
      BY <1>3, <2>8 DEF ExecuteClaim, CanClaim
    <3>2. Lock!Acquire(r.owner)
      BY <2>1, <2>2, <2>3, <2>4, <2>5, <2>6, <3>1 DEF Lock!Acquire
    <3> QED
      BY <2>1, <3>2 DEF Lock!Next
  <2> QED
    BY <2>7, <2>8
<1>4. ASSUME NEW r \in requests, ExecuteSave(r) PROVE [Lock!Next]_(Lock!vars)
  <2>1. r.owner # None /\ r.progress \in Progress
    BY <1>4, RequestFields, OwnerNotNone DEF TypeOK, ExecuteSave
  <2>2. record.owner = r.owner /\ record.mode # "Idle"
    BY <1>4 DEF ExecuteSave, CanSave
  <2>3. record'.owner = record.owner /\ record'.mode = record.mode /\ record'.progress = r.progress
    BY <1>4 DEF ExecuteSave, Save, TypeOK, Record
  <2>4. Consented' = Consented
    BY <1>4 DEF ExecuteSave, Consented
  <2>5. Lock!Write
    BY <2>1, <2>2, <2>3, <2>4 DEF Lock!Write
  <2> QED
    BY <2>5 DEF Lock!Next
<1>5. ASSUME NEW r \in requests, ExecuteRelease(r) PROVE [Lock!Next]_(Lock!vars)
  <2>1. record'.mode = "Idle" /\ record'.owner = record.owner /\ record'.progress = record.progress
    BY <1>5 DEF ExecuteRelease, Release, TypeOK, Record
  <2>2. record.owner \in Consented
    BY <1>5 DEF ExecuteRelease, CanRelease, IInv, ReleasesAsked, Consented
  <2>3. Consented' = Consented
    BY <1>5 DEF ExecuteRelease, Consented
  <2>4. CASE record.mode = "Idle"
    BY <2>1, <2>3, <2>4, <1>stutter DEF Holder, KeptProgress
  <2>5. CASE record.mode # "Idle"
    <3>1. Lock!Yield
      BY <2>1, <2>2, <2>3, <2>5 DEF Lock!Yield
    <3> QED
      BY <3>1 DEF Lock!Next
  <2> QED
    BY <2>4, <2>5
<1>6. ASSUME NEW next \in Devices \cup {None}, OwnerDrains(next) PROVE [Lock!Next]_(Lock!vars)
  <2>1. record'.owner = record.owner /\ record.owner # None /\ record'.progress = record.progress
    BY <1>6 DEF OwnerDrains, Drain, TypeOK, Record
  <2>2. record'.mode = IF record.mode = "Idle" \/ record.owner.device \in cutoff
                       THEN "Idle" ELSE "Draining"
    BY <1>6 DEF OwnerDrains, Drain, TypeOK, Record
  <2>3. Consented' = Consented
    BY <1>6 DEF OwnerDrains, Consented
  <2>4. CASE record'.mode = "Idle" /\ record.mode # "Idle"
    <3>1. record.owner \in Consented
      BY <2>1, <2>2, <2>4 DEF Consented, TypeOK, Record
    <3>2. Lock!Yield
      BY <2>1, <2>3, <2>4, <3>1 DEF Lock!Yield
    <3> QED
      BY <3>2 DEF Lock!Next
  <2>5. CASE record'.mode = "Idle" <=> record.mode = "Idle"
    BY <2>1, <2>3, <2>5, <1>stutter DEF Holder, KeptProgress
  <2> QED
    BY <2>2, <2>4, <2>5
<1>7. ASSUME NEW d \in Devices, Revoke(d) PROVE [Lock!Next]_(Lock!vars)
  BY <1>7, <1>stutter DEF Revoke, Holder, KeptProgress, Consented
<1>9. ASSUME NEW d \in Devices, CutOff(d) PROVE [Lock!Next]_(Lock!vars)
  <2>1. Consented' = Consented \cup {o \in Owner : o.device = d}
    BY <1>9 DEF CutOff, Consented
  <2>2. Lock!Consent
    BY <1>9, <2>1 DEF CutOff, Lock!Consent
  <2> QED
    BY <2>2 DEF Lock!Next
<1>8. CASE UNCHANGED vars
  BY <1>8, <1>stutter DEF vars, Holder, KeptProgress, Consented
<1> QED
  BY <1>1, <1>2, <1>3, <1>4, <1>5, <1>6, <1>7, <1>8, <1>9 DEF Next

(***************************************************************************)
(* The record, with requests lost, delayed and repeated, implements the    *)
(* consenting lock of ExecutionLock.                                       *)
(***************************************************************************)
THEOREM RecordImplementsLock == Spec => ImplementsLock
<1>1. Init => Lock!Init
  BY DEF Init, Absent, Lock!Init, Consented
<1> QED
  BY <1>1, LockStep, Inductive, PTL DEF Spec, ImplementsLock, Lock!Spec
=============================================================================
