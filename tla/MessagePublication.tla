------------------------ MODULE MessagePublication ------------------------
(***************************************************************************)
(* How the Bridge publishes a message, an edit or a redaction.  A call     *)
(* claims the submission's durable row, stores (or withdraws) the content  *)
(* with the control plane, publishes the event to the room under the       *)
(* submission's transaction id and binds the content to the event.  Calls  *)
(* of one submission run concurrently, fail or lose their answers at every *)
(* await, and are repeated; the sync loop observes events on its own.      *)
(*                                                                         *)
(* The homeserver accepts one event per transaction id, so the event of a  *)
(* submission is named by the submission.                                  *)
(***************************************************************************)
CONSTANTS
  Sends,       \* submission ids of messages and edits, which carry a body
  Redactions,  \* submission ids of redactions
  Bodies,      \* what a send's fingerprint tells apart: text, room, relation
  Calls,       \* calls under way in the Bridge
  None

ASSUME SubmissionsAssumption ==
  None \notin Sends \cup Redactions \cup Bodies /\ Sends \cap Redactions = {}

INSTANCE ContentObject WITH Events <- Sends

Submissions == Sends \cup Redactions

(* The fingerprint of a request; that of a redaction names its target.     *)
Intents(s) == IF s \in Sends THEN Bodies ELSE Sends
AnyIntent == Bodies \cup Sends

VARIABLES
  row,      \* row[s]: the durable record of submission s
  call,     \* call[k]: a request being carried out
  flying,   \* events sent whose fate the Bridge does not know
  room,     \* room[s]: the intent of the event accepted for s, or None
  content   \* content[s]: the content object of a send

vars == <<row, call, flying, room, content>>

RowStates == {"claimed", "submit_unknown", "accepted", "bound"}

NoRow == [state |-> "none", intent |-> None]

(* A call: its submission and intent, the row's state when it was claimed, *)
(* and its next step or its outcome.                                       *)
Quiet == [at |-> "idle", sub |-> None, intent |-> None, seen |-> "none"]
Steps == {"claim", "upload", "complete", "redact", "publish", "mark_accepted", "mark_unknown",
          "bind", "mark_bound"}
Outcomes == {"published", "pending", "binding_pending", "failed"}

TypeOK ==
  /\ row \in [Submissions -> [state : RowStates \cup {"none"}, intent : AnyIntent \cup {None}]]
  /\ call \in [Calls -> {Quiet} \cup
       [at : Steps \cup Outcomes, sub : Submissions, intent : AnyIntent,
        seen : (RowStates \cup {"none"}) \ {"bound"}]]
  /\ flying \subseteq [sub : Submissions, intent : AnyIntent]
  /\ room \in [Submissions -> AnyIntent \cup {None}]
  /\ content \in [Sends -> Object]
  /\ \A s \in Submissions : row[s].state = "none" <=> row[s].intent = None

Init ==
  /\ row = [s \in Submissions |-> NoRow]
  /\ call = [k \in Calls |-> Quiet]
  /\ flying = {}
  /\ room = [s \in Submissions |-> None]
  /\ content = [s \in Sends |-> Absent]

-----------------------------------------------------------------------------
Goto(k, step) == call' = [call EXCEPT ![k].at = step]

(***************************************************************************)
(* send, edit and redact begin.  What is redacted is a message of the      *)
(* room.  send first asks for automation authority; a refusal is a call    *)
(* that never begins.                                                      *)
(***************************************************************************)
Request(k, s, intent) ==
  /\ call[k].at \in Outcomes \cup {"idle"}
  /\ s \in Redactions => room[intent] # None
  /\ call' = [call EXCEPT ![k] = [at |-> "claim", sub |-> s, intent |-> intent, seen |-> "none"]]
  /\ UNCHANGED <<row, flying, room, content>>

(* claim_record inserts the row or finds one; ensure_same_intent.          *)
Work(s) == IF s \in Sends THEN "upload" ELSE "redact"

(* Mutant: an existing row is taken for the caller's own.                  *)
ClaimAnyIntent(k) ==
  LET s == call[k].sub
      claimed == IF row[s].state = "none"
                   THEN [state |-> "claimed", intent |-> call[k].intent] ELSE row[s]
  IN
  /\ call[k].at = "claim"
  /\ row' = [row EXCEPT ![s] = claimed]
  /\ IF claimed.state = "bound" THEN Goto(k, "published")
     ELSE call' = [call EXCEPT ![k].at = Work(s), ![k].seen = claimed.state]
  /\ UNCHANGED <<flying, room, content>>

(* Mutant: the intent is not written down with the claim.                  *)
ClaimUnrecorded(k) ==
  LET s == call[k].sub IN
  /\ call[k].at = "claim"
  /\ row' = IF row[s].state = "none" THEN [row EXCEPT ![s].state = "claimed"] ELSE row
  /\ IF row[s].state = "bound" THEN Goto(k, "published")
     ELSE call' = [call EXCEPT ![k].at = Work(s), ![k].seen = "claimed"]
  /\ UNCHANGED <<flying, room, content>>

Claim(k) ==
  LET s == call[k].sub
      claimed == IF row[s].state = "none"
                   THEN [state |-> "claimed", intent |-> call[k].intent] ELSE row[s]
  IN
  /\ call[k].at = "claim"
  /\ row' = [row EXCEPT ![s] = claimed]
  /\ IF claimed.intent # call[k].intent THEN Goto(k, "failed")
     ELSE IF claimed.state = "bound" THEN Goto(k, "published")
     ELSE call' = [call EXCEPT ![k].at = Work(s), ![k].seen = claimed.state]
  /\ UNCHANGED <<flying, room, content>>

(* After the content: a row that was accepted only needs its end.          *)
Continue(k) ==
  Goto(k, IF call[k].seen # "accepted" THEN "publish"
          ELSE IF call[k].sub \in Sends THEN "bind" ELSE "mark_bound")

(***************************************************************************)
(* begin_upload and complete_upload of a body the server can scan, two     *)
(* requests, keyed by the submission id.  The first answer must show an    *)
(* object that still waits for its bytes or is active, the second one that *)
(* is active.  A completion that fails may leave the object at any stage:  *)
(* with a verdict, and activated or given up on account of it.             *)
(***************************************************************************)
IsUploadable(o) ==
  \/ o.state = "uploading" /\ o.scan = "pending"
  \/ o.state = "active"

Declared(o) == IF o.state = "none" THEN Begun("pending") ELSE o

Judged(o) ==
  IF o.scan = "pending"
  THEN {Saved([o EXCEPT !.scan = v], "uploading") : v \in {"clean", "rejected"}}
  ELSE {o}
Ended(o) == Saved(o, IF AllowsRead(o.scan) THEN "active" ELSE "orphaned")
Stages(o) ==
  IF o.state = "uploading"
  THEN {o} \cup Judged(o) \cup {Ended(p) : p \in Judged(o)}
  ELSE {o}

BeginUpload(k) ==
  LET s == call[k].sub IN
  /\ call[k].at = "upload"
  /\ IsUploadable(Declared(content[s]))
  /\ content' = [content EXCEPT ![s] = Declared(@)]
  /\ Goto(k, "complete")
  /\ UNCHANGED <<row, flying, room>>

(* Mutant: the event is published although the completion failed.          *)
CompleteOptional(k) ==
  LET s == call[k].sub IN
  /\ call[k].at = "complete"
  /\ \E o \in Stages(content[s]) : content' = [content EXCEPT ![s] = o]
  /\ Continue(k)
  /\ UNCHANGED <<row, flying, room>>

CompleteUpload(k) ==
  LET s == call[k].sub IN
  /\ call[k].at = "complete"
  /\ \E o \in Stages(content[s]) :
       o.state = "active" /\ content' = [content EXCEPT ![s] = o]
  /\ Continue(k)
  /\ UNCHANGED <<row, flying, room>>

UploadFails(k) ==
  LET s == call[k].sub IN
  /\ call[k].at \in {"upload", "complete"}
  /\ \E o \in IF call[k].at = "upload" THEN {content[s], Declared(content[s])}
                                        ELSE Stages(content[s]) :
       content' = [content EXCEPT ![s] = o]
  /\ Goto(k, "failed")
  /\ UNCHANGED <<row, flying, room>>

(***************************************************************************)
(* RedactContentService::redact of the target, answered or not.            *)
(***************************************************************************)
Redacted(o) == IF o.state = "active" THEN Saved(o, "redacted") ELSE o

(* Mutant: the redaction goes on without the control plane's answer.       *)
WithdrawLeniently(k) ==
  /\ call[k].at = "redact"
  /\ \E o \in {content[call[k].intent], Redacted(content[call[k].intent])} :
       content' = [content EXCEPT ![call[k].intent] = o]
  /\ Continue(k)
  /\ UNCHANGED <<row, flying, room>>

Withdraw(k) ==
  LET c == call[k].intent IN
  /\ call[k].at = "redact"
  /\ content[c].state \in {"active", "redacted"}
  /\ content' = [content EXCEPT ![c] = Redacted(@)]
  /\ Continue(k)
  /\ UNCHANGED <<row, flying, room>>

WithdrawFails(k) ==
  LET c == call[k].intent IN
  /\ call[k].at = "redact"
  /\ \E o \in {content[c], Redacted(content[c])} : content' = [content EXCEPT ![c] = o]
  /\ Goto(k, "failed")
  /\ UNCHANGED <<row, flying, room>>

(***************************************************************************)
(* publisher.publish: the event is accepted, refused, or nobody knows.     *)
(***************************************************************************)
Event(k) == [sub |-> call[k].sub, intent |-> call[k].intent]
Accept(m) == room' = [room EXCEPT ![m.sub] = IF @ = None THEN m.intent ELSE @]

Publish(k) ==
  /\ call[k].at = "publish"
  /\ Accept(Event(k)) /\ Goto(k, "mark_accepted")
  /\ UNCHANGED <<row, flying, content>>

PublishRefused(k) ==
  /\ call[k].at = "publish"
  /\ Goto(k, "failed")
  /\ UNCHANGED <<row, flying, room, content>>

PublishUnknown(k) ==
  /\ call[k].at = "publish"
  /\ flying' = flying \cup {Event(k)}
  /\ Goto(k, "mark_unknown")
  /\ UNCHANGED <<row, room, content>>

(* The homeserver takes an event whose sender has given up waiting.        *)
Arrive(m) ==
  /\ Accept(m)
  /\ flying' = flying \ {m}
  /\ UNCHANGED <<row, call, content>>

(***************************************************************************)
(* The three ways a row moves on; a row that is bound stays bound.         *)
(***************************************************************************)
AcceptedRow(r) == IF r.state = "bound" THEN r ELSE [r EXCEPT !.state = "accepted"]

MarkAccepted(k) ==
  /\ call[k].at = "mark_accepted"
  /\ row' = [row EXCEPT ![call[k].sub] = AcceptedRow(@)]
  /\ Goto(k, IF call[k].sub \in Sends THEN "bind" ELSE "mark_bound")
  /\ UNCHANGED <<flying, room, content>>

(* Mutant: whoever lost an answer marks the row, whatever it is by now.    *)
MarkUnknownAlways(k) ==
  /\ call[k].at = "mark_unknown"
  /\ row' = [row EXCEPT ![call[k].sub].state = "submit_unknown"]
  /\ Goto(k, "pending")
  /\ UNCHANGED <<flying, room, content>>

MarkUnknown(k) ==
  LET s == call[k].sub IN
  /\ call[k].at = "mark_unknown"
  /\ row' = IF row[s].state = "claimed"
              THEN [row EXCEPT ![s].state = "submit_unknown"] ELSE row
  /\ Goto(k, "pending")
  /\ UNCHANGED <<flying, room, content>>

(* reconcile_submissions: the sync loop sees the event in the room.        *)
Observe(s) ==
  /\ room[s] # None /\ row[s].state # "none"
  /\ row' = [row EXCEPT ![s] = AcceptedRow(@)]
  /\ UNCHANGED <<call, flying, room, content>>

(***************************************************************************)
(* bind and mark_bound.                                                    *)
(***************************************************************************)
(* Mutant: a binding whose answer was lost is taken for done.              *)
BindUnanswered(k) ==
  LET s == call[k].sub IN
  /\ call[k].at = "bind"
  /\ CanBind(content[s], s)
  /\ content' \in {content, [content EXCEPT ![s].event = s]}
  /\ Goto(k, "mark_bound")
  /\ UNCHANGED <<row, flying, room>>

Bind(k) ==
  LET s == call[k].sub IN
  /\ call[k].at = "bind"
  /\ CanBind(content[s], s)
  /\ content' = [content EXCEPT ![s].event = s]
  /\ Goto(k, "mark_bound")
  /\ UNCHANGED <<row, flying, room>>

BindUnknown(k) ==
  LET s == call[k].sub IN
  /\ call[k].at = "bind"
  /\ \/ CanBind(content[s], s) /\ content' = [content EXCEPT ![s].event = s]
     \/ UNCHANGED content
  /\ Goto(k, "binding_pending")
  /\ UNCHANGED <<row, flying, room>>

(* The content can no longer be bound, or the caller is turned away.       *)
BindRefused(k) ==
  /\ call[k].at = "bind"
  /\ Goto(k, "failed")
  /\ UNCHANGED <<row, flying, room, content>>

MarkBound(k) ==
  LET s == call[k].sub IN
  /\ call[k].at = "mark_bound"
  /\ IF row[s].state \in {"accepted", "bound"}
       THEN row' = [row EXCEPT ![s].state = "bound"] /\ Goto(k, "published")
       ELSE UNCHANGED row /\ Goto(k, "failed")
  /\ UNCHANGED <<flying, room, content>>

(* The local database refuses a write.                                     *)
StoreFails(k) ==
  /\ call[k].at \in {"claim", "mark_accepted", "mark_unknown", "mark_bound"}
  /\ Goto(k, "failed")
  /\ UNCHANGED <<row, flying, room, content>>

(* The Bridge dies: its calls are gone, the rows and the world stay.       *)
Crash ==
  /\ call' = [k \in Calls |-> Quiet]
  /\ UNCHANGED <<row, flying, room, content>>

-----------------------------------------------------------------------------
(***************************************************************************)
(* The control plane's cleanup, seen from here: see ContentLifecycle.      *)
(***************************************************************************)
GrowOld(s) ==
  /\ content[s].state # "none" /\ ~content[s].old
  /\ content' = [content EXCEPT ![s].old = TRUE]
  /\ UNCHANGED <<row, call, flying, room>>

Retire(s) ==
  /\ Reclaimable(content[s]) /\ content[s].state \in {"uploading", "active"}
  /\ content' = [content EXCEPT ![s] = Saved(@, "orphaned")]
  /\ UNCHANGED <<row, call, flying, room>>

Reclaim(s) ==
  /\ content[s].state \in {"orphaned", "redacted", "expired"}
  /\ content' = [content EXCEPT ![s] = MarkedDeleted(@)]
  /\ UNCHANGED <<row, call, flying, room>>

Advance(k) ==
  \/ Claim(k) \/ BeginUpload(k) \/ CompleteUpload(k) \/ Withdraw(k) \/ Publish(k)
  \/ MarkAccepted(k) \/ MarkUnknown(k) \/ Bind(k) \/ MarkBound(k)

Fail(k) ==
  \/ UploadFails(k) \/ WithdrawFails(k) \/ PublishRefused(k) \/ PublishUnknown(k) \/ BindUnknown(k)
  \/ BindRefused(k) \/ StoreFails(k)

Next ==
  \/ \E k \in Calls, s \in Submissions : \E i \in Intents(s) : Request(k, s, i)
  \/ \E k \in Calls : Advance(k) \/ Fail(k)
  \/ \E m \in flying : Arrive(m)
  \/ \E s \in Submissions : Observe(s)
  \/ \E s \in Sends : GrowOld(s) \/ Retire(s) \/ Reclaim(s)
  \/ Crash

Spec == Init /\ [][Next]_vars

(***************************************************************************)
(* The control plane on its own, by its promise and no more: a completion  *)
(* that outlives the call it was made by, an expiry, the deletion of the   *)
(* account, another client's binding.                                      *)
(***************************************************************************)
Promise == INSTANCE ContentPromise WITH Events <- Sends, Contents <- Sends, object <- content

ControlPlane == Promise!Next /\ UNCHANGED <<row, call, flying, room>>

OpenSpec == Init /\ [][Next \/ ControlPlane]_vars

(***************************************************************************)
(* For the retry of redactions: whoever asked for one asks again until it  *)
(* is done, each step that can succeed time and again does, and the        *)
(* cleanup goes on.                                                        *)
(***************************************************************************)
Retry(k, r) ==
  /\ row[r].state \notin {"none", "bound"}
  /\ Request(k, r, row[r].intent)

Fairness ==
  /\ \A k \in Calls :
       /\ \A r \in Redactions : SF_vars(Retry(k, r))
       /\ SF_vars(Claim(k)) /\ SF_vars(Withdraw(k)) /\ SF_vars(Publish(k))
       /\ SF_vars(MarkAccepted(k)) /\ SF_vars(MarkBound(k)) /\ WF_vars(Advance(k) \/ Fail(k))
  /\ \A s \in Sends : WF_vars(Reclaim(s))

FairSpec == Spec /\ Fairness

-----------------------------------------------------------------------------
(***************************************************************************)
(* Who is told "published" had that very request published, whoever else   *)
(* uses the submission id: a retry that carries another text is never told *)
(* that its text is out.                                                   *)
(***************************************************************************)
PublishedIsOwn ==
  \A k \in Calls : call[k].at = "published" => room[call[k].sub] = call[k].intent

(***************************************************************************)
(* A row says no more than is true: accepted when the room has the event   *)
(* of its request, bound when also the body is bound to that event.        *)
(***************************************************************************)
RowTellsTruth ==
  \A s \in Submissions :
    /\ row[s].state \in {"accepted", "bound"} => room[s] = row[s].intent
    /\ row[s].state = "bound" /\ s \in Sends => content[s].event = s

(***************************************************************************)
(* No event refers to a body that was never stored.                        *)
(***************************************************************************)
EventHasContent ==
  \A s \in Sends : room[s] # None => content[s].state \notin {"none", "uploading"}

(***************************************************************************)
(* The redaction's event appears only after the body cannot be read any    *)
(* more, also when the first attempts failed half-way.                     *)
(***************************************************************************)
WithdrawnBeforeTold ==
  \A r \in Redactions : room[r] # None => content[room[r]].state \in {"redacted", "deleted"}

(***************************************************************************)
(* mark_bound never meets a row without an event, which it would report as *)
(* a corrupt store: neither a call that lost its answer nor the sync loop  *)
(* sets the row back under a call that is about to finish.                 *)
(***************************************************************************)
NeverCorrupt ==
  \A k \in Calls : call[k].at = "mark_bound" => row[call[k].sub].state \in {"accepted", "bound"}

(***************************************************************************)
(* "After submit_unknown only the sync reconciles by transaction id; never *)
(* a blind resend": no call sends the event of a row in submit_unknown.    *)
(***************************************************************************)
NeverResendUnknown ==
  [][\A k \in Calls :
       call[k].at = "publish" /\ call'[k].at \in {"mark_accepted", "mark_unknown"} =>
         row[call[k].sub].state # "submit_unknown"]_vars

(***************************************************************************)
(* A redaction that was begun and is repeated is published in the end.     *)
(***************************************************************************)
RedactionCompletes ==
  \A r \in Redactions : row[r].state # "none" ~> row[r].state = "bound"
=============================================================================
