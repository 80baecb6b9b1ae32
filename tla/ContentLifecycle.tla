------------------------- MODULE ContentLifecycle -------------------------
(***************************************************************************)
(* The control plane's content service over its two stores: the rows in    *)
(* PostgreSQL, changed one locked transaction at a time, and the bytes in  *)
(* the bucket.  Completing an upload and reclaiming objects each touch     *)
(* both, step by step, so every await between them is a step here.         *)
(***************************************************************************)
EXTENDS ContentObject, Naturals, FiniteSets

CONSTANTS
  Contents,  \* content ids
  Uploads,   \* requests that complete an upload
  Cleaners,  \* control-plane replicas, each with one cleanup worker
  Readers    \* members of the room who read contents

VARIABLES
  object,   \* object[c]: the row of c and its policy
  revoked,  \* the owner's account is deleted: every policy is revoked
  stored,   \* contents whose bytes are in the bucket
  upload,   \* upload[u]: a completion request under way
  cleaner,  \* cleaner[k]: a cleanup batch under way
  reader    \* reader[r]: the read ticket r holds, and the open it is used for

vars == <<object, revoked, stored, upload, cleaner, reader>>

(* A completion: the content, the scan_state it has loaded, its next step. *)
Idle == [at |-> "idle", content |-> None, scan |-> "pending"]
UploadSteps == {"put", "scan", "record_clean", "record_rejected", "activate",
                "compensate", "delete"}

(* A batch: the candidates as they were listed, and the one being handled. *)
Listed == [id : Contents, state : States, due : BOOLEAN]
Resting == [at |-> "idle", todo |-> {}, id |-> None]

(* A reader: the ticket's content, the next step of the open under way,    *)
(* and whether the content was due at the time that open goes by.  History *)
(* in live: the content could be read when the open began.                 *)
NoTicket == [at |-> "idle", content |-> None, due |-> FALSE, live |-> TRUE]
Ticket(c) == [at |-> "held", content |-> c, due |-> FALSE, live |-> TRUE]
OpenSteps == {"row", "policy", "bytes", "open"}
Reader ==
  {NoTicket} \cup
  [at : OpenSteps \cup {"held"}, content : Contents, due : BOOLEAN, live : BOOLEAN]

TypeOK ==
  /\ object \in [Contents -> Object]
  /\ revoked \in BOOLEAN
  /\ stored \subseteq Contents
  /\ upload \in [Uploads ->
       {Idle} \cup [at : UploadSteps, content : Contents, scan : Scans]]
  /\ cleaner \in [Cleaners ->
       {Resting} \cup
       [at : {"prepare"}, todo : (SUBSET Listed) \ {{}}, id : {None}] \cup
       [at : {"delete", "mark"}, todo : SUBSET Listed, id : Contents]]
  /\ reader \in [Readers -> Reader]

Init ==
  /\ object = [c \in Contents |-> Absent]
  /\ revoked = FALSE
  /\ stored = {}
  /\ upload = [u \in Uploads |-> Idle]
  /\ cleaner = [k \in Cleaners |-> Resting]
  /\ reader = [r \in Readers |-> NoTicket]

-----------------------------------------------------------------------------
(***************************************************************************)
(* Time: an object's last change falls behind the grace, its expiry comes. *)
(***************************************************************************)
GrowOld(c) ==
  /\ object[c].state # "none" /\ ~object[c].old
  /\ object' = [object EXCEPT ![c].old = TRUE]
  /\ UNCHANGED <<revoked, stored, upload, cleaner, reader>>

FallDue(c) ==
  /\ object[c].state # "none" /\ ~object[c].due
  /\ object' = [object EXCEPT ![c].due = TRUE]
  /\ UNCHANGED <<revoked, stored, upload, cleaner, reader>>

(***************************************************************************)
(* BeginContentUploadService::begin.  A repeated request finds the row.    *)
(***************************************************************************)
Begin(c) ==
  /\ ~revoked /\ object[c].state = "none"
  /\ \E scan \in {"pending", "not_applicable"} :
       object' = [object EXCEPT ![c] = Begun(scan)]
  /\ UNCHANGED <<revoked, stored, upload, cleaner, reader>>

(***************************************************************************)
(* CompleteContentUploadService::complete, from its first look at the row. *)
(* An active object is the answer already, any other state is refused.     *)
(***************************************************************************)
Goto(u, step) == upload' = [upload EXCEPT ![u].at = step]
Finish(u) == upload' = [upload EXCEPT ![u] = Idle]

Load(u, c) ==
  /\ upload[u] = Idle
  /\ object[c].state = "uploading"
  /\ upload' = [upload EXCEPT ![u] = [at |-> "put", content |-> c, scan |-> object[c].scan]]
  /\ UNCHANGED <<object, revoked, stored, cleaner, reader>>

(* The bytes are written unless they are there; what follows depends on    *)
(* the scan state that was loaded.  The store refuses bytes that are not   *)
(* the declared ones, so its receipt never disagrees with the object.      *)
Put(u) ==
  /\ upload[u].at = "put"
  /\ stored' = stored \cup {upload[u].content}
  /\ Goto(u, IF upload[u].scan = "pending" THEN "scan"
             ELSE IF AllowsRead(upload[u].scan) THEN "activate" ELSE "compensate")
  /\ UNCHANGED <<object, revoked, cleaner, reader>>

Scan(u) ==
  /\ upload[u].at = "scan"
  /\ IF upload[u].content \in stored
       THEN \E step \in {"record_clean", "record_rejected"} : Goto(u, step)
       ELSE Finish(u)
  /\ UNCHANGED <<object, revoked, stored, cleaner, reader>>

RecordScan(u) ==
  LET c == upload[u].content IN
  /\ upload[u].at \in {"record_clean", "record_rejected"}
  /\ IF CanRecordScan(object[c])
       THEN LET clean == upload[u].at = "record_clean" IN
            /\ object' = [object EXCEPT ![c] = Saved([@ EXCEPT !.scan =
                            IF clean THEN "clean" ELSE "rejected"], @.state)]
            /\ Goto(u, IF clean THEN "activate" ELSE "compensate")
       ELSE Finish(u) /\ UNCHANGED object
  /\ UNCHANGED <<revoked, stored, cleaner, reader>>

Activate(u) ==
  LET c == upload[u].content IN
  /\ upload[u].at = "activate"
  /\ object' = IF CanActivate(object[c])
                 THEN [object EXCEPT ![c] = Saved(@, "active")] ELSE object
  /\ Finish(u)
  /\ UNCHANGED <<revoked, stored, cleaner, reader>>

(* compensate: the row is marked unless it is no longer uploading or the   *)
(* database fails; the bytes go in any case.                               *)
Compensate(u) ==
  LET c == upload[u].content IN
  /\ upload[u].at = "compensate"
  /\ \/ /\ object[c].state = "uploading"
        /\ object' = [object EXCEPT ![c] = Saved(@, "orphaned")]
     \/ UNCHANGED object
  /\ Goto(u, "delete")
  /\ UNCHANGED <<revoked, stored, cleaner, reader>>

DeleteRejected(u) ==
  /\ upload[u].at = "delete"
  /\ stored' = stored \ {upload[u].content}
  /\ Finish(u)
  /\ UNCHANGED <<object, revoked, cleaner, reader>>

(* A store, the scanner or the connection fails, or the process dies.      *)
AbortUpload(u) ==
  /\ upload[u] # Idle
  /\ Finish(u)
  /\ UNCHANGED <<object, revoked, stored, cleaner, reader>>

Complete(u) ==
  Put(u) \/ Scan(u) \/ RecordScan(u) \/ Activate(u) \/ Compensate(u) \/ DeleteRejected(u)

-----------------------------------------------------------------------------
(***************************************************************************)
(* BindContentEventService::bind; the UPDATE checks everything again.      *)
(***************************************************************************)
Bind(c, event) ==
  /\ ~revoked /\ CanBind(object[c], event)
  /\ object' = [object EXCEPT ![c].event = event]
  /\ UNCHANGED <<revoked, stored, upload, cleaner, reader>>

Redact(c) ==
  /\ object[c].state = "active"
  /\ object' = [object EXCEPT ![c] = Saved(@, "redacted")]
  /\ UNCHANGED <<revoked, stored, upload, cleaner, reader>>

(***************************************************************************)
(* redact_local_content, a part of deleting the owner's account.           *)
(***************************************************************************)
DeleteAccount ==
  /\ ~revoked /\ revoked' = TRUE
  /\ object' = [c \in Contents |->
       CASE object[c].state = "uploading" -> Saved(object[c], "orphaned")
         [] object[c].state = "active" -> Saved(object[c], "redacted")
         [] OTHER -> object[c]]
  /\ UNCHANGED <<stored, upload, cleaner, reader>>

-----------------------------------------------------------------------------
(***************************************************************************)
(* IssueContentReadTicketService::issue.  The ticket names the content and *)
(* its event, which never changes once set; membership is left out.  What  *)
(* happens between the look at the row and the answer is as if it happened *)
(* while the ticket is held.                                               *)
(***************************************************************************)
Issue(r, c) ==
  /\ reader[r] = NoTicket
  /\ Readable(object[c]) /\ ~revoked
  /\ reader' = [reader EXCEPT ![r] = Ticket(c)]
  /\ UNCHANGED <<object, revoked, stored, upload, cleaner>>

(***************************************************************************)
(* OpenContentService::open, await by await: the clock and the ticket, the *)
(* row, the policy, and after membership and download limits the bytes.    *)
(* A ticket can be used until it lapses, whatever became of an open.       *)
(***************************************************************************)
Proceed(r, step) == reader' = [reader EXCEPT ![r].at = step]
Refuse(r) == reader' = [reader EXCEPT ![r] = Ticket(@.content)]

Open(r) ==
  LET o == object[reader[r].content] IN
  /\ reader[r].at = "held"
  /\ reader' = [reader EXCEPT ![r] =
       [at |-> "row", content |-> @.content, due |-> o.due, live |-> Readable(o) /\ ~revoked]]
  /\ UNCHANGED <<object, revoked, stored, upload, cleaner>>

(* Mutant: the ticket is taken for the verdict on the row.                 *)
SkipRow(r) ==
  /\ reader[r].at = "row"
  /\ Proceed(r, "policy")
  /\ UNCHANGED <<object, revoked, stored, upload, cleaner>>

(* find_content and ensure_readable, at the time the open began.           *)
ReadRow(r) ==
  LET o == [object[reader[r].content] EXCEPT !.due = reader[r].due] IN
  /\ reader[r].at = "row"
  /\ IF Readable(o) THEN Proceed(r, "policy") ELSE Refuse(r)
  /\ UNCHANGED <<object, revoked, stored, upload, cleaner>>

ReadPolicy(r) ==
  /\ reader[r].at = "policy"
  /\ IF ~revoked THEN Proceed(r, "bytes") ELSE Refuse(r)
  /\ UNCHANGED <<object, revoked, stored, upload, cleaner>>

OpenBytes(r) ==
  /\ reader[r].at = "bytes"
  /\ IF reader[r].content \in stored THEN Proceed(r, "open") ELSE Refuse(r)
  /\ UNCHANGED <<object, revoked, stored, upload, cleaner>>

(* The bytes are sent, a member or a limit is refused, something fails.    *)
EndRead(r) ==
  /\ reader[r].at \in OpenSteps
  /\ Refuse(r)
  /\ UNCHANGED <<object, revoked, stored, upload, cleaner>>

Lapse(r) ==
  /\ reader[r].at = "held"
  /\ reader' = [reader EXCEPT ![r] = NoTicket]
  /\ UNCHANGED <<object, revoked, stored, upload, cleaner>>

Read(r) ==
  Open(r) \/ ReadRow(r) \/ ReadPolicy(r) \/ OpenBytes(r) \/ EndRead(r) \/ Lapse(r)

-----------------------------------------------------------------------------
(***************************************************************************)
(* CleanupContentService::run: list the candidates once, then take them    *)
(* one by one through prepare_terminal, delete and mark_deleted.  What     *)
(* fails is left to a later batch.                                         *)
(***************************************************************************)
List(k) ==
  /\ cleaner[k].at = "idle"
  /\ \E c \in Contents : Reclaimable(object[c])
  /\ cleaner' = [cleaner EXCEPT ![k] =
       [at |-> "prepare", id |-> None,
        todo |-> {[id |-> c, state |-> object[c].state, due |-> object[c].due] :
                    c \in {x \in Contents : Reclaimable(object[x])}}]]
  /\ UNCHANGED <<object, revoked, stored, upload, reader>>

(* Mutant: the end of the batch is overlooked.                             *)
ContinueForever(k, todo) ==
  cleaner' = [cleaner EXCEPT ![k] = [at |-> "prepare", id |-> None, todo |-> todo]]

(* The next candidate, or the end of the batch.                            *)
Continue(k, todo) ==
  cleaner' = [cleaner EXCEPT ![k] =
    IF todo = {} THEN Resting ELSE [at |-> "prepare", id |-> None, todo |-> todo]]

(* prepare_terminal: the target follows from the candidate as listed, and  *)
(* only the lifecycle state is compared with the row.                      *)
Target(l) ==
  CASE l.state = "active" /\ l.due -> "expired"
    [] l.state \in {"uploading", "active"} -> "orphaned"
    [] OTHER -> l.state

(* Mutant: a candidate that changed since it was listed is deleted all the *)
(* same.                                                                   *)
PrepareAnyway(k) ==
  /\ cleaner[k].at = "prepare"
  /\ \E l \in cleaner[k].todo :
       /\ object' = IF object[l.id].state = l.state /\ CanTransition(object[l.id], Target(l))
                      THEN [object EXCEPT ![l.id] = Saved(@, Target(l))] ELSE object
       /\ cleaner' = [cleaner EXCEPT ![k] =
                         [at |-> "delete", id |-> l.id, todo |-> cleaner[k].todo \ {l}]]
  /\ UNCHANGED <<revoked, stored, upload, reader>>

Prepare(k) ==
  /\ cleaner[k].at = "prepare"
  /\ \E l \in cleaner[k].todo :
       LET todo == cleaner[k].todo \ {l}
           target == Target(l)
       IN IF target = l.state
            THEN /\ cleaner' = [cleaner EXCEPT ![k] =
                                  [at |-> "delete", id |-> l.id, todo |-> todo]]
                 /\ UNCHANGED object
            ELSE IF object[l.id].state = l.state /\ CanTransition(object[l.id], target)
            THEN /\ object' = [object EXCEPT ![l.id] = Saved(@, target)]
                 /\ cleaner' = [cleaner EXCEPT ![k] =
                                  [at |-> "delete", id |-> l.id, todo |-> todo]]
            ELSE Continue(k, todo) /\ UNCHANGED object
  /\ UNCHANGED <<revoked, stored, upload, reader>>

DeleteBytes(k) ==
  /\ cleaner[k].at = "delete"
  /\ stored' = stored \ {cleaner[k].id}
  /\ cleaner' = [cleaner EXCEPT ![k].at = "mark"]
  /\ UNCHANGED <<object, revoked, upload, reader>>

MarkDeleted(k) ==
  LET c == cleaner[k].id IN
  /\ cleaner[k].at = "mark"
  /\ object' = IF CanMarkDeleted(object[c])
                 THEN [object EXCEPT ![c] = MarkedDeleted(@)] ELSE object
  /\ Continue(k, cleaner[k].todo)
  /\ UNCHANGED <<revoked, stored, upload, reader>>

(* The bucket refuses a delete, or the database a transition.              *)
FailItem(k) ==
  /\ cleaner[k].at \in {"delete", "mark"}
  /\ Continue(k, cleaner[k].todo)
  /\ UNCHANGED <<object, revoked, stored, upload, reader>>

(* The control plane stops in the middle of a batch.                       *)
AbortBatch(k) ==
  /\ cleaner[k].at # "idle"
  /\ cleaner' = [cleaner EXCEPT ![k] = Resting]
  /\ UNCHANGED <<object, revoked, stored, upload, reader>>

Clean(k) == List(k) \/ Prepare(k) \/ DeleteBytes(k) \/ MarkDeleted(k)

Next ==
  \/ \E c \in Contents : GrowOld(c) \/ FallDue(c) \/ Begin(c) \/ Redact(c)
  \/ \E c \in Contents, e \in Events : Bind(c, e)
  \/ \E u \in Uploads, c \in Contents : Load(u, c)
  \/ \E u \in Uploads : Complete(u) \/ AbortUpload(u)
  \/ DeleteAccount
  \/ \E r \in Readers : (\E c \in Contents : Issue(r, c)) \/ Read(r)
  \/ \E k \in Cleaners : Clean(k) \/ FailItem(k) \/ AbortBatch(k)

Spec == Init /\ [][Next]_vars

(***************************************************************************)
(* The workers' timers go on ticking; a control plane that is started time *)
(* and again gets past each step of a batch in the end, and a bucket or    *)
(* database that works time and again takes its delete.                    *)
(***************************************************************************)
Fairness ==
  \A k \in Cleaners :
    WF_vars(List(k)) /\ SF_vars(Prepare(k)) /\ SF_vars(DeleteBytes(k)) /\ SF_vars(MarkDeleted(k))

FairSpec == Spec /\ Fairness

-----------------------------------------------------------------------------
(***************************************************************************)
(* Whoever is given a read ticket finds the bytes: no upload that failed   *)
(* late, no repeated completion and no cleanup takes them from an object   *)
(* that is still readable.                                                 *)
(***************************************************************************)
ReadableHasBytes == \A c \in Contents : Readable(object[c]) => c \in stored

(***************************************************************************)
(* An object that left "active" or was given up never becomes readable     *)
(* again, whatever completion, binding or cleanup was under way: redaction *)
(* and expiry are final.                                                   *)
(***************************************************************************)
Final == {"orphaned", "redacted", "expired", "deleted"}
NeverRevived ==
  [][\A c \in Contents : object[c].state \in Final => object'[c].state \in Final]_vars

(***************************************************************************)
(* Bytes that were rejected by the scanner, or not scanned at all, are     *)
(* never readable, even when two requests complete the same upload.        *)
(***************************************************************************)
RejectedNeverActive ==
  [][\A c \in Contents :
       object[c].scan = "rejected" => object'[c].scan = "rejected" /\ object'[c].state # "active"]_vars

(***************************************************************************)
(* A read whose awaits are overtaken by redaction, expiry, deletion of the *)
(* account or the cleanup: nothing is served to an open that began after   *)
(* the content ended, however old its ticket is, nor bytes whose verdict   *)
(* turns out to forbid it; and an open that passed its checks misses the   *)
(* bytes only if the content ended meanwhile.                              *)
(***************************************************************************)
TicketsHonoured ==
  \A r \in Readers :
    LET o == object[reader[r].content] IN
    /\ reader[r].at = "open" => reader[r].live /\ AllowsRead(o.scan)
    /\ reader[r].at = "bytes" => reader[r].content \in stored \/ o.state \in Final

Promise == INSTANCE ContentPromise

(***************************************************************************)
(* Completions that overlap or are repeated, late verdicts, bindings,      *)
(* cleanup batches that act on what they once listed and the deletion of   *)
(* the account all keep the promise of ContentPromise.                     *)
(***************************************************************************)
KeepsPromise == Promise!Spec

(***************************************************************************)
(* Whatever is redacted, expired or given up is deleted in the end, though *)
(* deletes fail, batches are cut off and other replicas clean at the same  *)
(* time.                                                                   *)
(***************************************************************************)
EventuallyDeleted ==
  \A c \in Contents : object[c].state \in Final ~> object[c].state = "deleted"

(***************************************************************************)
(* "Unbound active objects become orphans after the grace and are          *)
(* deleted": the cleanup gives up an object only while it is unbound.      *)
(***************************************************************************)
OnlyUnboundOrphaned ==
  [][\A c \in Contents :
       object[c].state = "active" /\ object'[c].state = "orphaned" => object[c].event = None]_vars

(***************************************************************************)
(* "Deleted" is entered once the bytes have been removed.                  *)
(***************************************************************************)
DeletedHasNoBytes == \A c \in Contents : object[c].state = "deleted" => c \notin stored
=============================================================================
