------------------------- MODULE ReceptionDelivery -------------------------
(***************************************************************************)
(* Background reception of one agent in one room by several computers.     *)
(*                                                                         *)
(* Each computer runs at most one receiver process (the store's OS lock),  *)
(* keeps its ReceiverState in a durable file, talks to its local Bridge,   *)
(* and through it to the execution record of ReceptionRecord and to the    *)
(* room.  Receivers crash, lose requests and responses, reconnect, are     *)
(* paused, moved to another computer and revoked; the Bridge is a separate *)
(* process, so a reply it has begun to send outlives the receiver.         *)
(*                                                                         *)
(* Room positions are message numbers: cursor n is the position after the  *)
(* n-th message that wakes the agent.  A reply is remembered with the      *)
(* number of messages before it and the messages its host was shown.       *)
(***************************************************************************)
EXTENDS ReceptionRecord, FiniteSets

CONSTANTS
  MaxMessages,     \* bound: messages that wake the agent
  MaxRuns,         \* bound: executions started
  MaxSubmissions,  \* bound: fresh submission ids
  MaxRevision,     \* bound: writes of the server's progress
  MaxRevoked       \* bound: devices the owner revokes

ASSUME DomainsAssumption ==
  /\ MaxMessages \in Nat /\ MaxRuns \in Nat /\ MaxSubmissions \in Nat /\ MaxRevision \in Nat
  /\ MaxRevoked \in Nat
  /\ Events = 0..MaxMessages
  /\ Runs = 1..MaxRuns
  /\ Submissions = 1..MaxSubmissions

VARIABLES
  record,    \* the server's execution record
  revoked,   \* devices whose instance is revoked: the server refuses them
  cutoff,    \* those of them whose Matrix device is logged out as well
  file,      \* file[d]: the durable ReceiverState
  mem,       \* mem[d]: the receiver's in-memory copy while it runs
  pc,        \* pc[d]: where the receiver's run is
  calls,     \* sends the Bridges are carrying out
  replies,   \* replies in the room
  arrived,   \* messages in the room
  seen,      \* seen[d]: messages synchronised to d's Bridge
  lastRun, lastSub,   \* ids handed out so far
  licensed,  \* history: submissions a host turn may be run for
  shown,     \* history: messages shown to a host
  skipped    \* history: messages the owner chose to skip

server == <<record, revoked, cutoff>>
bridge == <<calls, replies, arrived, seen>>
history == <<licensed, shown, skipped>>
vars == <<record, revoked, cutoff, file, mem, pc, calls, replies, arrived, seen,
          lastRun, lastSub, licensed, shown, skipped>>

(***************************************************************************)
(* DeliveryStage, as far as the code tells stages apart: Running,          *)
(* Verifying and NeedsReview are "Uncertain" (a host may have acted on the *)
(* delivery), and a Replied or NoReply one is as good as none; the rest of *)
(* the distinction is for the display.                                     *)
(***************************************************************************)
Stage == {"NoDelivery", "Received", "Uncertain", "Skipped"}

(***************************************************************************)
(* ReceiverState.  pending is the checkpoint's variant; event and sub are  *)
(* last_delivery's, meaningless in stage NoDelivery; run = 0 is            *)
(* execution = None.                                                       *)
(***************************************************************************)
ReceiverState ==
  [pending : BOOLEAN, after : Events, event : Events, sub : Submissions \cup {0},
   stage : Stage, run : Runs \cup {0}, revision : Nat, releasing : BOOLEAN]

Configured ==
  [pending |-> FALSE, after |-> 0, event |-> 0, sub |-> 0, stage |-> "NoDelivery",
   run |-> 0, revision |-> 0, releasing |-> FALSE]

Send ==
  [device : Devices, sub : Submissions, run : Runs, covers : SUBSET Events,
   authorized : BOOLEAN]

Reply == [sub : Submissions, after : Events, covers : SUBSET Events]

Step ==
  {"Off", "FirstRelease", "Open", "Claim", "SaveResolution", "Poll", "SavePending",
   "Host", "Verify", "Acknowledge", "SaveOutcome", "Reclose", "Close", "Release"}

(* Steps with a session handle, at any of which an error or a stop request  *)
(* ends or restarts the connection.                                         *)
Connected ==
  {"Claim", "SaveResolution", "Poll", "SavePending", "Host", "Verify", "Acknowledge",
   "SaveOutcome"}

Init ==
  /\ record = Absent(0)
  /\ revoked = {} /\ cutoff = {}
  /\ file = [d \in Devices |-> Configured]
  /\ mem = [d \in Devices |-> Configured]
  /\ pc = [d \in Devices |-> "Off"]
  /\ calls = {} /\ replies = {} /\ arrived = 0 /\ seen = [d \in Devices |-> 0]
  /\ lastRun = 0 /\ lastSub = 0
  /\ licensed = {} /\ shown = {} /\ skipped = {}

-----------------------------------------------------------------------------
(* execution.rs: what a receiver tells the server and takes back from it.   *)

Execution(d) == [device |-> d, run |-> mem[d].run]

DeliveryOf(s) == [event |-> s.event, sub |-> s.sub]

(* Mutant: an uncertain delivery is also reported as cleared for a retry.   *)
ProgressOfBoth(s) ==
  [after |-> s.after,
   pending |-> IF s.pending THEN DeliveryOf(s) ELSE None,
   retry |-> IF s.stage = "Received" THEN DeliveryOf(s) ELSE None]

ProgressOf(s) ==
  [after |-> s.after,
   pending |-> IF s.pending THEN DeliveryOf(s) ELSE None,
   retry |-> IF ~s.pending /\ s.stage = "Received" THEN DeliveryOf(s) ELSE None]

(* The server's pending delivery was already resolved here by the owner.    *)
ExplicitResolution(s, progress) ==
  /\ progress.pending # None
  /\ s.event = progress.pending.event
  /\ s.stage \in {"Received", "Skipped"}
  /\ ~s.pending

WithDelivery(s, delivery, stage) ==
  [s EXCEPT !.event = delivery.event, !.sub = delivery.sub, !.stage = stage]

Finished(s) == [s EXCEPT !.event = 0, !.sub = 0, !.stage = "NoDelivery"]

(* Mutant: an uncertain delivery is taken back as one to try again.         *)
RestoreAsRetry(s, progress) ==
  LET at == [s EXCEPT !.after = progress.after, !.pending = FALSE]
  IN  IF progress.pending # None THEN WithDelivery(at, progress.pending, "Received")
      ELSE IF progress.retry # None THEN WithDelivery(at, progress.retry, "Received")
      ELSE Finished(at)

Restore(s, progress) ==
  LET at == [s EXCEPT !.after = progress.after, !.pending = progress.pending # None]
  IN  IF progress.pending # None THEN WithDelivery(at, progress.pending, "Uncertain")
      ELSE IF progress.retry # None THEN WithDelivery(at, progress.retry, "Received")
      ELSE IF s.stage = "Skipped" THEN at
      ELSE Finished(at)

(* Changing the state in memory, and changing it and writing the file.      *)
Remember(d, s) == mem' = [mem EXCEPT ![d] = s] /\ UNCHANGED file

Store(d, s) == mem' = [mem EXCEPT ![d] = s] /\ file' = [file EXCEPT ![d] = s]

Goto(d, step) == pc' = [pc EXCEPT ![d] = step]

(* The process ends; what it had only in memory is gone.                    *)
Exit(d) == Goto(d, "Off") /\ mem' = [mem EXCEPT ![d] = Configured]

(* An error is retryable (reconnect) or not (the run ends).                 *)
GotoFailure(d) == \E step \in {"Reclose", "Close"} : Goto(d, step)

-----------------------------------------------------------------------------
(* Starting and connecting.                                                 *)

Start(d) ==
  /\ pc[d] = "Off"
  /\ mem' = [mem EXCEPT ![d] = file[d]]
  /\ Goto(d, IF file[d].run # 0 /\ file[d].releasing THEN "FirstRelease" ELSE "Open")
  /\ UNCHANGED <<server, file, bridge, lastRun, lastSub, history>>

OpenSession(d) ==
  /\ pc[d] = "Open"
  /\ Goto(d, "Claim")
  /\ UNCHANGED <<server, file, mem, bridge, lastRun, lastSub, history>>

(* Once the session is ready, a claim takes a fresh run id unless the last  *)
(* execution is still remembered; the id is on disk before the request      *)
(* leaves.                                                                  *)
Claimant(d) ==
  IF mem[d].run # 0 THEN mem[d]
  ELSE [mem[d] EXCEPT !.run = lastRun + 1, !.revision = 0, !.releasing = FALSE]

TakeRun(d) ==
  IF mem[d].run # 0 THEN UNCHANGED lastRun
  ELSE lastRun < MaxRuns /\ lastRun' = lastRun + 1

MayClaim(d) ==
  d \notin revoked /\ CanClaim(record, [device |-> d, run |-> Claimant(d).run])

Claimed(d) ==
  Claim(record, [device |-> d, run |-> Claimant(d).run], ProgressOf(Claimant(d)))

ClaimExecution(d) ==
  /\ pc[d] = "Claim"
  /\ TakeRun(d)
  /\ MayClaim(d)
  /\ record' = Claimed(d)
  /\ LET granted == [Claimant(d) EXCEPT !.revision = record'.revision]
         explicit == ExplicitResolution(granted, record'.progress)
         resumed == IF explicit THEN granted ELSE Restore(granted, record'.progress)
     IN  /\ Store(d, resumed)
         /\ Goto(d, IF explicit THEN "SaveResolution"
                    ELSE IF resumed.pending THEN "Verify" ELSE "Poll")
  /\ UNCHANGED <<revoked, cutoff, bridge, lastSub, history>>

(* 409 or 403: the receiver forgets its run and gives up.  The server also  *)
(* refuses a computer that may not speak in the room at the moment,         *)
(* whatever the record says.  Nobody else has seen a fresh id that was      *)
(* refused, so the model hands it out again.                                *)
ClaimRefused(d) ==
  /\ pc[d] = "Claim"
  /\ Store(d, [mem[d] EXCEPT !.run = 0, !.revision = 0, !.releasing = FALSE])
  /\ Goto(d, "Close")
  /\ UNCHANGED <<server, bridge, lastRun, lastSub, history>>

(* The request or its answer is lost.                                       *)
ClaimUnanswered(d) ==
  /\ pc[d] = "Claim"
  /\ TakeRun(d)
  /\ \/ UNCHANGED record
     \/ MayClaim(d) /\ record' = Claimed(d)
  /\ Store(d, Claimant(d))
  /\ GotoFailure(d)
  /\ UNCHANGED <<revoked, cutoff, bridge, lastSub, history>>

-----------------------------------------------------------------------------
(* Saving progress to the server, at three places of the run.               *)

Saving(d) == pc[d] \in {"SaveResolution", "SavePending", "SaveOutcome"}

MaySave(d) ==
  /\ d \notin revoked
  /\ CanSave(record, Execution(d), mem[d].revision, ProgressOf(mem[d]))

Saved(d) ==
  /\ ProgressOf(mem[d]) # record.progress => record.revision < MaxRevision
  /\ record' = Save(record, ProgressOf(mem[d]))

SaveProgress(d) ==
  /\ pc[d] \in {"SaveResolution", "SaveOutcome"}
  /\ MaySave(d)
  /\ Saved(d)
  /\ Store(d, [mem[d] EXCEPT !.revision = record'.revision])
  /\ Goto(d, "Poll")
  /\ UNCHANGED <<revoked, cutoff, bridge, lastRun, lastSub, history>>

Batch(s) == (s.after + 1)..s.event

(* Mutant: the host starts before the server knows of the delivery.         *)
StartHostUnsaved(d) ==
  /\ pc[d] = "SavePending"
  /\ Store(d, [mem[d] EXCEPT !.stage = "Uncertain"])
  /\ Goto(d, "Host")
  /\ licensed' = licensed \ {mem[d].sub}
  /\ shown' = shown \cup Batch(mem[d])
  /\ UNCHANGED <<record, revoked, cutoff, bridge, lastRun, lastSub, skipped>>

(* The delivery is pending on the server before a model can run.  From here *)
(* on the host may have read the batch.                                     *)
StartHost(d) ==
  /\ pc[d] = "SavePending"
  /\ MaySave(d)
  /\ Saved(d)
  /\ Store(d, [mem[d] EXCEPT !.revision = record'.revision, !.stage = "Uncertain"])
  /\ Goto(d, "Host")
  /\ licensed' = licensed \ {mem[d].sub}
  /\ shown' = shown \cup Batch(mem[d])
  /\ UNCHANGED <<revoked, cutoff, bridge, lastRun, lastSub, skipped>>

SaveUnanswered(d) ==
  /\ Saving(d)
  /\ MaySave(d)
  /\ Saved(d)
  /\ GotoFailure(d)
  /\ UNCHANGED <<revoked, cutoff, file, mem, bridge, lastRun, lastSub, history>>

SaveRefused(d) ==
  /\ Saving(d)
  /\ ~MaySave(d)
  /\ Goto(d, "Close")
  /\ UNCHANGED <<server, file, mem, bridge, lastRun, lastSub, history>>

-----------------------------------------------------------------------------
(* Delivering a batch: the messages after the cursor up to an anchor.       *)

(* A reply of the delivery's submission, after the delivery's anchor.  A    *)
(* Bridge that does not have the anchor yet fails the search.               *)
Searchable(d) == mem[d].event <= seen[d]

Confirmable(d) ==
  /\ Searchable(d)
  /\ \E r \in replies : r.sub = mem[d].sub /\ r.after >= mem[d].event

(* recover_previous: the earlier attempt's reply turns up after all.        *)
RecoverPrevious(d) ==
  /\ pc[d] = "Poll"
  /\ mem[d].after < seen[d]
  /\ mem[d].stage = "Received"
  /\ Confirmable(d)
  /\ Remember(d, [mem[d] EXCEPT !.pending = TRUE])
  /\ Goto(d, "Verify")
  /\ UNCHANGED <<server, bridge, lastRun, lastSub, history>>

(* Mutant: every batch takes a fresh submission id, a retried one too.      *)
BeginBatchAnew(d) ==
  /\ pc[d] = "Poll"
  /\ mem[d].after < seen[d]
  /\ lastSub < MaxSubmissions
  /\ lastSub' = lastSub + 1
  /\ licensed' = licensed \cup {lastSub'}
  /\ Store(d, [mem[d] EXCEPT !.pending = TRUE, !.event = seen[d],
                             !.sub = lastSub', !.stage = "Received"])
  /\ Goto(d, "SavePending")
  /\ UNCHANGED <<server, bridge, lastRun, shown, skipped>>

(* begin_batch: all that has come since the cursor.  A retried delivery     *)
(* keeps its submission id even when the batch is not the one it was.       *)
BeginBatch(d) ==
  /\ pc[d] = "Poll"
  /\ mem[d].after < seen[d]
  /\ IF mem[d].stage = "Received"
     THEN /\ Searchable(d)
          /\ Store(d, [mem[d] EXCEPT !.pending = TRUE, !.event = seen[d]])
          /\ UNCHANGED <<lastSub, licensed>>
     ELSE /\ lastSub < MaxSubmissions
          /\ lastSub' = lastSub + 1
          /\ licensed' = licensed \cup {lastSub'}
          /\ Store(d, [mem[d] EXCEPT !.pending = TRUE, !.event = seen[d],
                                     !.sub = lastSub', !.stage = "Received"])
  /\ Goto(d, "SavePending")
  /\ UNCHANGED <<server, bridge, lastRun, shown, skipped>>

(* The checkpoint is completed in memory before the file follows.           *)
Completed(s) == [s EXCEPT !.pending = FALSE, !.after = s.event]

HostSilent(d) ==
  /\ pc[d] = "Host"
  /\ Remember(d, Completed(mem[d]))
  /\ Goto(d, "Acknowledge")
  /\ UNCHANGED <<server, bridge, lastRun, lastSub, history>>

(* The host replied or failed.  A reply is handed to the Bridge; the        *)
(* receiver goes on to verify whatever the call returned.                   *)
HostDone(d) ==
  /\ pc[d] = "Host"
  /\ \/ calls' = calls \cup {[device |-> d, sub |-> mem[d].sub, run |-> mem[d].run,
                              covers |-> Batch(mem[d]), authorized |-> FALSE]}
     \/ UNCHANGED calls
  /\ Store(d, mem[d])
  /\ Goto(d, "Verify")
  /\ UNCHANGED <<server, replies, arrived, seen, lastRun, lastSub, history>>

(* reconcile: the reply is found in the projection ...                      *)
Confirm(d) ==
  /\ pc[d] = "Verify"
  /\ Confirmable(d)
  /\ Remember(d, Completed(mem[d]))
  /\ Goto(d, "Acknowledge")
  /\ UNCHANGED <<server, bridge, lastRun, lastSub, history>>

(* ... or not in time, because it is not there or not synchronised yet.     *)
Unconfirmed(d) ==
  /\ pc[d] = "Verify"
  /\ Store(d, [mem[d] EXCEPT !.stage = "Uncertain"])
  /\ GotoFailure(d)
  /\ UNCHANGED <<server, bridge, lastRun, lastSub, history>>

AcknowledgeInBridge(d) ==
  /\ pc[d] = "Acknowledge"
  /\ Store(d, Finished(mem[d]))
  /\ Goto(d, "SaveOutcome")
  /\ UNCHANGED <<server, bridge, lastRun, lastSub, history>>

-----------------------------------------------------------------------------
(* Ending a connection and a run.                                           *)

(* A failed call, or the owner's pause.  Without a session handle nothing   *)
(* is closed.                                                               *)
Interrupt(d) ==
  /\ \/ pc[d] \in Connected /\ GotoFailure(d)
     \/ pc[d] = "Open" /\ Goto(d, "Release")
  /\ UNCHANGED <<server, file, mem, bridge, lastRun, lastSub, history>>

(* The heartbeat finds the record draining; the receiver disables itself.   *)
HandoffRequested(d) ==
  /\ pc[d] \in Connected \ {"Claim", "SaveResolution"}
  /\ record.owner = Execution(d) /\ record.mode = "Draining"
  /\ d \notin revoked
  /\ Store(d, mem[d])
  /\ Goto(d, "Close")
  /\ UNCHANGED <<server, bridge, lastRun, lastSub, history>>

(* Closing waits for the session's calls; the Bridge may be unreachable.    *)
Drained(d) == \A c \in calls : c.device # d

CloseSession(d) ==
  /\ Drained(d)
  /\ \/ pc[d] = "Reclose" /\ Goto(d, "Open")
     \/ pc[d] = "Close" /\ Goto(d, "Release")
  /\ UNCHANGED <<server, file, mem, bridge, lastRun, lastSub, history>>

CloseFailed(d) ==
  /\ \/ pc[d] = "Reclose" /\ Goto(d, "Close") /\ UNCHANGED mem
     \/ pc[d] = "Close" /\ Exit(d)
  /\ UNCHANGED <<server, file, bridge, lastRun, lastSub, history>>

Releasing(d) == pc[d] \in {"FirstRelease", "Release"} /\ mem[d].run # 0

NothingToRelease(d) ==
  /\ pc[d] = "Release" /\ mem[d].run = 0
  /\ Exit(d)
  /\ UNCHANGED <<server, file, bridge, lastRun, lastSub, history>>

MayRelease(d) == d \notin revoked /\ CanRelease(record, Execution(d))

ReleaseExecution(d) ==
  /\ Releasing(d)
  /\ MayRelease(d)
  /\ record' = Release(record)
  /\ LET stopped == [mem[d] EXCEPT !.run = 0, !.revision = 0, !.releasing = FALSE]
     IN  /\ file' = [file EXCEPT ![d] = stopped]
         /\ \/ pc[d] = "FirstRelease" /\ Goto(d, "Open") /\ mem' = [mem EXCEPT ![d] = stopped]
            \/ pc[d] = "Release" /\ Exit(d)
  /\ UNCHANGED <<revoked, cutoff, bridge, lastRun, lastSub, history>>

(* The intent to release is on disk before the request leaves; the run      *)
(* ends whether the request was lost, refused, or only its answer was lost. *)
ReleaseFailed(d) ==
  /\ Releasing(d)
  /\ \/ UNCHANGED record
     \/ MayRelease(d) /\ record' = Release(record)
  /\ file' = [file EXCEPT ![d] = [mem[d] EXCEPT !.releasing = TRUE]]
  /\ Exit(d)
  /\ UNCHANGED <<revoked, cutoff, bridge, lastRun, lastSub, history>>

Crash(d) ==
  /\ pc[d] # "Off"
  /\ Exit(d)
  /\ UNCHANGED <<server, file, bridge, lastRun, lastSub, history>>

-----------------------------------------------------------------------------
(* The Bridge carries out a send: the server authorises it, the homeserver  *)
(* accepts it.  The submission id is the message id, and every projection   *)
(* keeps the first message of an id.                                        *)

Authorize(c) ==
  /\ ~c.authorized
  /\ c.device \notin revoked
  /\ Authorizes(record, [device |-> c.device, run |-> c.run], c.sub)
  /\ calls' = (calls \ {c}) \cup {[c EXCEPT !.authorized = TRUE]}
  /\ UNCHANGED <<server, file, mem, pc, replies, arrived, seen, lastRun, lastSub, history>>

Publish(c) ==
  /\ c.authorized
  /\ c.device \notin cutoff
  /\ calls' = calls \ {c}
  /\ replies' = IF \E r \in replies : r.sub = c.sub
                THEN replies
                ELSE replies \cup {[sub |-> c.sub, after |-> arrived, covers |-> c.covers]}
  /\ UNCHANGED <<server, file, mem, pc, arrived, seen, lastRun, lastSub, history>>

(* Refused, failed, or the Bridge stopped.                                  *)
SendFailed(c) ==
  /\ calls' = calls \ {c}
  /\ UNCHANGED <<server, file, mem, pc, replies, arrived, seen, lastRun, lastSub, history>>

-----------------------------------------------------------------------------
(* The room and the owner.                                                  *)

MessageArrives ==
  /\ arrived < MaxMessages
  /\ arrived' = arrived + 1
  /\ UNCHANGED <<server, file, mem, pc, calls, replies, seen, lastRun, lastSub, history>>

(* A Bridge synchronises on its own, receiver or not.                       *)
MessageSynced(d) ==
  /\ seen[d] < arrived
  /\ seen' = [seen EXCEPT ![d] = @ + 1]
  /\ UNCHANGED <<server, file, mem, pc, calls, replies, arrived, lastRun, lastSub, history>>

(* Mutant: a retry starts over from the beginning of the room.              *)
ResolveRetryRewinds(d) ==
  /\ pc[d] = "Off"
  /\ file[d].pending
  /\ file' = [file EXCEPT ![d].pending = FALSE, ![d].after = 0, ![d].stage = "Received"]
  /\ licensed' = licensed \cup {file[d].sub}
  /\ UNCHANGED <<server, mem, pc, bridge, lastRun, lastSub, shown, skipped>>

(* ReceiverStore::resolve, with the receiver stopped.                       *)
ResolveRetry(d) ==
  /\ pc[d] = "Off"
  /\ file[d].pending
  /\ file' = [file EXCEPT ![d].pending = FALSE, ![d].stage = "Received"]
  /\ licensed' = licensed \cup {file[d].sub}
  /\ UNCHANGED <<server, mem, pc, bridge, lastRun, lastSub, shown, skipped>>

ResolveSkip(d) ==
  /\ pc[d] = "Off"
  /\ file[d].pending
  /\ file' = [file EXCEPT ![d].pending = FALSE, ![d].after = file[d].event,
                          ![d].stage = "Skipped"]
  /\ skipped' = skipped \cup Batch(file[d])
  /\ UNCHANGED <<server, mem, pc, bridge, lastRun, lastSub, licensed, shown>>

OwnerDrains(next) ==
  /\ record.owner # None
  /\ next \notin revoked
  /\ record' = Drain(record, next, cutoff)
  /\ UNCHANGED <<revoked, cutoff, file, mem, pc, bridge, lastRun, lastSub, history>>

OwnerRevokes(d) ==
  /\ Cardinality(revoked) < MaxRevoked
  /\ revoked' = revoked \cup {d}
  /\ UNCHANGED <<record, cutoff, file, mem, pc, bridge, lastRun, lastSub, history>>

(* The homeserver logs the revoked device out, at once or by the retry job. *)
CutOff(d) ==
  /\ d \in revoked
  /\ cutoff' = cutoff \cup {d}
  /\ UNCHANGED <<record, revoked, file, mem, pc, bridge, lastRun, lastSub, history>>

-----------------------------------------------------------------------------
Receiver(d) ==
  \/ Start(d) \/ OpenSession(d)
  \/ ClaimExecution(d) \/ ClaimRefused(d) \/ ClaimUnanswered(d)
  \/ SaveProgress(d) \/ StartHost(d) \/ SaveUnanswered(d) \/ SaveRefused(d)
  \/ RecoverPrevious(d) \/ BeginBatch(d)
  \/ HostSilent(d) \/ HostDone(d)
  \/ Confirm(d) \/ Unconfirmed(d) \/ AcknowledgeInBridge(d)
  \/ Interrupt(d) \/ HandoffRequested(d) \/ CloseSession(d) \/ CloseFailed(d)
  \/ NothingToRelease(d) \/ ReleaseExecution(d) \/ ReleaseFailed(d)
  \/ Crash(d)

Next ==
  \/ \E d \in Devices :
       \/ Receiver(d) \/ MessageSynced(d)
       \/ ResolveRetry(d) \/ ResolveSkip(d) \/ OwnerRevokes(d) \/ CutOff(d)
  \/ \E c \in calls : Authorize(c) \/ Publish(c) \/ SendFailed(c)
  \/ \E next \in Devices \cup {None} : OwnerDrains(next)
  \/ MessageArrives

Spec == Init /\ [][Next]_vars

-----------------------------------------------------------------------------
TypeOK ==
  /\ record \in Record
  /\ revoked \subseteq Devices
  /\ cutoff \subseteq revoked
  /\ file \in [Devices -> ReceiverState]
  /\ mem \in [Devices -> ReceiverState]
  /\ pc \in [Devices -> Step]
  /\ calls \subseteq Send
  /\ replies \subseteq Reply
  /\ arrived \in Events
  /\ seen \in [Devices -> 0..arrived]
  /\ lastRun \in 0..MaxRuns
  /\ lastSub \in 0..MaxSubmissions
  /\ licensed \subseteq Submissions
  /\ shown \subseteq Events
  /\ skipped \subseteq Events

(***************************************************************************)
(* The point of the record: however receivers crash, reconnect and move,   *)
(* two computers that can still send never run a host turn for the agent   *)
(* at the same time.                                                       *)
(***************************************************************************)
HostTurnExclusive ==
  \A d, e \in Devices \ cutoff : pc[d] = "Host" /\ pc[e] = "Host" => d = e

(***************************************************************************)
(* runtime.rs: "Persist the original submission on the server before a     *)
(* model can run."  While a host works, the server holds exactly the       *)
(* delivery it works on, whatever other computers and the owner did since, *)
(* so a computer that takes over finds it.                                 *)
(***************************************************************************)
PendingBeforeHost ==
  \A d \in Devices \ cutoff :
    pc[d] = "Host" =>
      /\ record.owner = Execution(d)
      /\ record.progress = ProgressOf(mem[d])
      /\ mem[d].pending

(***************************************************************************)
(* The confirmed cursor of the agent never goes back, over crashes, lost   *)
(* answers, retries and skips of one computer.                             *)
(***************************************************************************)
CursorNeverBack ==
  [][record.owner # None => record.progress.after <= record'.progress.after]_vars

(***************************************************************************)
(* No message is answered twice: two replies in the room are never written *)
(* for the same message, although a delivery may be tried many times.      *)
(* begin_batch relies on the reused submission id for it; it holds for one *)
(* computer and fails when a second one delivers in between.               *)
(***************************************************************************)
AnsweredOnce ==
  \A r, q \in replies : r # q => r.covers \cap q.covers = {}

(***************************************************************************)
(* A host is never run again for a submission it may already have acted on *)
(* unless the owner chose to retry since its last turn (one computer).     *)
(***************************************************************************)
NeverRerunUnasked ==
  [][\A d \in Devices : StartHost(d) => mem[d].sub \in licensed]_vars

(***************************************************************************)
(* The confirmed cursor only passes messages that some host was shown or   *)
(* that the owner skipped.                                                 *)
(***************************************************************************)
NoMessagePassedOver == 1..record.progress.after \subseteq shown \cup skipped

(***************************************************************************)
(* execution.rs, release: "Must only be called after the old host session  *)
(* and its in-flight calls drain."  Once the record is free, its last      *)
(* computer, if it can still send, has nothing left to send.               *)
(***************************************************************************)
ReleaseAfterDrain ==
  \A c \in calls :
    record.mode = "Idle" /\ record.owner # None /\ c.device \notin cutoff
      => c.device # record.owner.device

(***************************************************************************)
(* A message the owner skipped is not given to a host afterwards.          *)
(***************************************************************************)
SkipHonoured == [][(shown' \ shown) \cap skipped = {}]_vars

(***************************************************************************)
(* As long as the record has an executor, that computer remembers the run  *)
(* and can release it: nobody else may.                                    *)
(***************************************************************************)
NeverAbandoned ==
  record.mode # "Idle" /\ record.owner.device \notin revoked
    => file[record.owner.device].run = record.owner.run

(***************************************************************************)
(* The owner, the desktop application or a service manager starts a        *)
(* stopped receiver again; a receiver that resumes a release gets an       *)
(* answer, and is not unlucky for ever if the server would accept it.      *)
(***************************************************************************)
Fairness ==
  \A d \in Devices :
    /\ WF_vars(Start(d))
    /\ WF_vars(ReleaseExecution(d) \/ ReleaseFailed(d))
    /\ SF_vars(ReleaseExecution(d))

FairSpec == Spec /\ Fairness

(***************************************************************************)
(* A release that was begun is finished some day, so that the computer can *)
(* take the agent over again.                                              *)
(***************************************************************************)
ReleaseCompletes ==
  \A d \in Devices : file[d].releasing ~> ~file[d].releasing
=============================================================================
