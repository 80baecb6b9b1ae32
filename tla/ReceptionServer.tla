-------------------------- MODULE ReceptionServer --------------------------
(***************************************************************************)
(* The execution record under every order in which the requests of several *)
(* computers can reach it: a request may be lost, delayed past later ones  *)
(* or delivered twice, and nothing is assumed of the computers that send   *)
(* them.  The delivery protocol of one computer is in ReceptionDelivery.   *)
(***************************************************************************)
EXTENDS ReceptionRecord, FiniteSets

CONSTANTS
  Origin,        \* the cursor a record is created with
  MaxInFlight,   \* bound: requests under way at once
  MaxRevision,   \* bound: progress writes
  MaxRevoked     \* bound: devices the owner revokes

ASSUME BoundsAssumption ==
  /\ Origin \in Events
  /\ MaxInFlight \in Nat /\ MaxRevision \in Nat /\ MaxRevoked \in Nat

VARIABLES
  record,    \* the row of agent_room.reception_execution
  revoked,   \* devices whose instance is revoked: their requests are refused
  cutoff,    \* those of them whose Matrix device is logged out as well
  requests,  \* requests under way
  asked      \* history: executors that sent a Release

vars == <<record, revoked, cutoff, requests, asked>>

Request ==
  [command : {"Claim"}, owner : Owner, progress : Progress]
    \cup [command : {"Save"}, owner : Owner, revision : 0..MaxRevision,
          progress : Progress]
    \cup [command : {"Release"}, owner : Owner]

Init ==
  /\ record = Absent(Origin)
  /\ revoked = {} /\ cutoff = {}
  /\ requests = {}
  /\ asked = {}

(***************************************************************************)
(* A computer sends a request.                                             *)
(***************************************************************************)
Send(r) ==
  /\ Cardinality(requests) < MaxInFlight
  /\ requests' = requests \cup {r}
  /\ asked' = IF r.command = "Release" THEN asked \cup {r.owner} ELSE asked
  /\ UNCHANGED <<record, revoked, cutoff>>

(* A request that was carried out may still arrive again.                   *)
Consume(r) == requests' = requests \/ requests' = requests \ {r}

Lose(r) ==
  /\ requests' = requests \ {r}
  /\ UNCHANGED <<record, revoked, cutoff, asked>>

ExecuteClaim(r) ==
  /\ r.command = "Claim"
  /\ r.owner.device \notin revoked
  /\ CanClaim(record, r.owner)
  /\ record' = Claim(record, r.owner, r.progress)
  /\ Consume(r)
  /\ UNCHANGED <<revoked, cutoff, asked>>

ExecuteSave(r) ==
  /\ r.command = "Save"
  /\ r.progress # record.progress => record.revision < MaxRevision
  /\ r.owner.device \notin revoked
  /\ CanSave(record, r.owner, r.revision, r.progress)
  /\ record' = Save(record, r.progress)
  /\ Consume(r)
  /\ UNCHANGED <<revoked, cutoff, asked>>

ExecuteRelease(r) ==
  /\ r.command = "Release"
  /\ r.owner.device \notin revoked
  /\ CanRelease(record, r.owner)
  /\ record' = Release(record)
  /\ Consume(r)
  /\ UNCHANGED <<revoked, cutoff, asked>>

(* The owner of the agent asks for a transfer, or to stop (next = None).    *)
OwnerDrains(next) ==
  /\ record.owner # None
  /\ next \notin revoked
  /\ record' = Drain(record, next, cutoff)
  /\ UNCHANGED <<revoked, cutoff, requests, asked>>

Revoke(d) ==
  /\ Cardinality(revoked) < MaxRevoked
  /\ revoked' = revoked \cup {d}
  /\ UNCHANGED <<record, cutoff, requests, asked>>

(* The homeserver logs the revoked device out, at once or by the retry job. *)
CutOff(d) ==
  /\ d \in revoked
  /\ cutoff' = cutoff \cup {d}
  /\ UNCHANGED <<record, revoked, requests, asked>>

Next ==
  \/ \E r \in Request : Send(r)
  \/ \E r \in requests :
       Lose(r) \/ ExecuteClaim(r) \/ ExecuteSave(r) \/ ExecuteRelease(r)
  \/ \E next \in Devices \cup {None} : OwnerDrains(next)
  \/ \E d \in Devices : Revoke(d) \/ CutOff(d)

Spec == Init /\ [][Next]_vars

-----------------------------------------------------------------------------
TypeOK ==
  /\ record \in Record
  /\ revoked \subseteq Devices
  /\ cutoff \subseteq revoked
  /\ requests \subseteq Request
  /\ asked \subseteq Owner

Consented == asked \cup {o \in Owner : o.device \in cutoff}

(***************************************************************************)
(* domain/reception.rs: "exclusive until the previous executor             *)
(* acknowledges".  The record is only ever free for another computer when  *)
(* its last executor itself asked to be released, or can no longer send:   *)
(* no drain, no revocation and no request of a third computer frees it.    *)
(***************************************************************************)
NoTakeoverUnasked ==
  record.mode = "Idle" /\ record.owner # None => record.owner \in Consented

(***************************************************************************)
(* A Claim that was delayed past the Release of its own run does not bring *)
(* that run back (ReceptionConflict::StaleExecution): whoever becomes      *)
(* active after an idle period is a different run.                         *)
(***************************************************************************)
ReleasedRunStaysReleased ==
  [][record.owner # None /\ record.mode = "Idle" /\ record'.mode = "Active"
       => record'.owner.run # record.owner.run]_vars

(***************************************************************************)
(* No update is lost.  Once the record exists its progress is replaced     *)
(* only by a save of the executor in office that names the revision it     *)
(* replaces, and the result gets the next revision.  A save that is        *)
(* repeated, or that a later one has overtaken, leaves the progress alone, *)
(* and so does every claim, drain and release: a computer that resumes     *)
(* reads what was last saved.                                              *)
(***************************************************************************)
RevisionNamesProgress ==
  [][record.owner # None =>
       \/ record'.revision = record.revision /\ record'.progress = record.progress
       \/ /\ record'.revision = record.revision + 1
          /\ record.mode # "Idle"
          /\ \E r \in requests :
               /\ r.command = "Save"
               /\ r.owner = record.owner
               /\ r.revision = record.revision
               /\ r.progress = record'.progress]_vars

Lock == INSTANCE ExecutionLock WITH
  holder <- IF record.mode = "Idle" THEN None ELSE record.owner,
  progress <- IF record.owner = None THEN None ELSE record.progress,
  consented <- Consented

(* The record implements the consenting lock.                               *)
ImplementsLock == Lock!Spec
=============================================================================
