-------------------------- MODULE ReceptionRecord --------------------------
(***************************************************************************)
(* The control plane's execution record of one agent in one room: which    *)
(* computer runs the agent's background replies, and how far it has got.   *)
(* This module holds the record's shape and the transitions the server     *)
(* applies to it under the agent's row lock; it has no variables of its    *)
(* own.  A record whose owner is None has not been created yet.            *)
(***************************************************************************)
EXTENDS Naturals

CONSTANTS
  Devices,      \* computers (one agent instance and one Matrix device each)
  Runs,         \* run ids; each start of an execution takes a fresh one
  Events,       \* room positions a cursor can name, the initial one included
  Submissions,  \* submission ids of replies
  None          \* absence of an owner, a device or a delivery

ASSUME NoneAssumption ==
  /\ None \notin Devices
  /\ None \notin [device : Devices, run : Runs]
  /\ None \notin [event : Events, sub : Submissions]

Owner == [device : Devices, run : Runs]

Delivery == [event : Events, sub : Submissions]

Mode == {"Idle", "Active", "Draining"}

(***************************************************************************)
(* ReceptionProgress: the confirmed cursor and the one delivery that is    *)
(* either uncertain (pending) or cleared for another attempt (retry); the  *)
(* server refuses a progress that names both.                              *)
(***************************************************************************)
Progress ==
  {p \in [after : Events, pending : Delivery \cup {None}, retry : Delivery \cup {None}] :
     p.pending = None \/ p.retry = None}

Record ==
  [mode : Mode, owner : Owner \cup {None}, next : Devices \cup {None},
   revision : Nat, progress : Progress]

Absent(origin) ==
  [mode |-> "Idle", owner |-> None, next |-> None, revision |-> 0,
   progress |-> [after |-> origin, pending |-> None, retry |-> None]]

Permits(r, o) == r.mode = "Active" /\ r.owner = o

-----------------------------------------------------------------------------
(* ReceptionExecution::apply and the commands of execute_locked.            *)

(* Mutant: any new run may claim, whoever executes.                         *)
CanClaimAnyMode(r, o) ==
  \/ Permits(r, o)
  \/ /\ r.next \in {None, o.device}
     /\ r.owner # None => r.owner.run # o.run

(* Mutant: the check for a stale run is missing.                            *)
CanClaimStale(r, o) ==
  Permits(r, o) \/ (r.mode = "Idle" /\ r.next \in {None, o.device})

CanClaim(r, o) ==
  \/ Permits(r, o)
  \/ /\ r.mode = "Idle"
     /\ r.next \in {None, o.device}
     /\ r.owner # None => r.owner.run # o.run

(* A first claim creates the record with the claimer's own progress; every  *)
(* later one keeps the stored progress and revision.                        *)
Claim(r, o, initial) ==
  IF r.owner = None
  THEN [r EXCEPT !.owner = o, !.mode = "Active", !.progress = initial]
  ELSE [r EXCEPT !.owner = o, !.mode = "Active",
                 !.next = IF Permits(r, o) THEN r.next ELSE None]

CanRelease(r, o) == r.owner = o

Release(r) == [r EXCEPT !.mode = "Idle"]

(* Mutant: a released executor may still write.                             *)
CanSaveReleased(r, o, revision, progress) ==
  r.owner = o /\ (progress # r.progress => revision = r.revision)

(* Mutant: the revision the sender knew is not compared.                    *)
CanSaveStale(r, o, revision, progress) == r.owner = o /\ r.mode # "Idle"

CanSave(r, o, revision, progress) ==
  /\ r.owner = o
  /\ r.mode # "Idle"
  /\ progress # r.progress => revision = r.revision

Save(r, progress) ==
  IF progress = r.progress
  THEN r
  ELSE [r EXCEPT !.progress = progress, !.revision = @ + 1]

(* Mutant: a drain frees the record at once.                                *)
DrainAtOnce(r, next, cutoff) == [r EXCEPT !.next = next, !.mode = "Idle"]

(* Mutant: the executor is stored where the next computer belongs.          *)
DrainToExecutor(r, next, cutoff) ==
  [r EXCEPT !.next = r.owner, !.mode = IF @ = "Idle" THEN "Idle" ELSE "Draining"]

(* The owner's drain names the next computer.  Only an executor that is cut *)
(* off from the homeserver is forced out; an unreachable one, or one whose  *)
(* instance is revoked but not logged out yet, stays the owner.             *)
Drain(r, next, cutoff) ==
  [r EXCEPT !.next = next,
            !.mode = IF @ = "Idle" \/ r.owner.device \in cutoff
                     THEN "Idle" ELSE "Draining"]

(* The fence of automation_grant.consume: an autonomous reply is authorised *)
(* for the active executor, and only under the submission its progress      *)
(* names.                                                                   *)
Authorizes(r, o, sub) ==
  /\ Permits(r, o)
  /\ \E p \in {r.progress.pending, r.progress.retry} : p # None /\ p.sub = sub
=============================================================================
