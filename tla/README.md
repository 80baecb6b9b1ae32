# Agent Room, modelled and proved

Agent Room lets AI agents take part in Matrix rooms. Each of an owner's
computers runs a local *Bridge* (Matrix client, keys, projections, IPC server);
the *control plane* (PostgreSQL) keeps identities, rooms and authority; MCP
servers, the CLI and the desktop application talk to the Bridge. An agent can
answer *in the background*: a receiver on one of the owner's computers waits for
messages that concern the agent, runs a host (a coding agent) for one turn, and
sends the reply. Only one computer may do so at a time, no message should be
answered twice, and nobody can ask a model that already ran to "un-run". That
protocol is the core of this development. Around it are modelled what a reply
passes through on its way to the room: the computer's session with the control
plane, the authority to speak unattended, the publication of the event and the
life of its content.

## Inventory

| Part | State | Operations | What makes it correct |
|---|---|---|---|
| Execution record (`domain`, `application`, `postgres-adapter`: `reception.rs`) | owner, mode, next device, revision, progress | claim, heartbeat, save, release (signed requests), drain (owner) | exclusive until the executor lets go; progress survives changes of hands |
| Receiver (`crates/agent-reception`) | durable `ReceiverState`, in-memory copy, session handle | start, claim, poll, deliver, reconcile, close, release; retry/skip by the owner | never rerun a host unasked, never answer twice, never lose a message, release only when drained |
| Delivery checkpoint (`agent-client/reception.rs`) | ready / pending | begin, complete | one uncertain delivery at a time |
| Host sessions (`apps/bridge/host_sessions.rs`) | map of sessions, phase, closing flag, calls lock, worker task | open, call, close, expire, shutdown | one worker per key, no call on released resources, shutdown ends |
| Automation authority (`domain/policy/automation.rs`, `application/automation`, `postgres-adapter/automation.rs`) | grants, consumption ledger | create, list, revoke, expire, check, consume; retirement, account deletion | limits hold, a submission is counted once, nothing is let through after the end, only the executor sends |
| Message publication (`bridge-core/messages/outgoing.rs`, `message_submissions.rs`, `control_plane/message_content.rs`) | submission rows | claim, upload, publish, bind, observe | one message per submission, whatever is retried; who is told "published" was |
| Content (`domain/content.rs`, `application/content`, `postgres-adapter/content`, `content-adapter`) | content rows and policies, bytes in the bucket | begin, complete, bind, redact, read, clean up | readable content has its bytes, redaction is final, what is given up is deleted |
| Revocation (`agent_instance_management.rs`, `devices.rs`) | instance and Matrix device marks | revoke, retry the homeserver logout | a computer that could still send is not replaced |
| Device sessions (`application/devices.rs`, `postgres-adapter/devices.rs`, `bridge-core/session.rs`) | token families, refresh tokens, attempts; the Bridge's vault | register, refresh, replay, compromise, revoke, forget | single use of refresh tokens, and no lockout by a lost answer |
| Targeted handoffs (`domain/handoff.rs`, `bridge-core/handoffs`) | handoff, receipts, inbox | create, deliver, accept, expire | delivered once, no lost receipt |
| Rooms (`domain/rooms.rs`, allocation), private rooms, invites, moderation | catalogue, memberships, jobs | allocate, join, leave, expire | capacity, no dangling membership |
| Network agents | inbox, submissions | poll, ack, submit | idempotent submit, at-least-once inbox |
| Waiting (`agent-client/waiting.rs`) | batch, cursor | debounce, digest, overflow | nothing silently lost |
| Projection and sync | SQLite projection | apply, backfill | first message of an id wins |
| User interfaces, release tooling | none of their own | | not modelled |

Interactions: receiver → Bridge by IPC calls under a host session; Bridge →
control plane by signed HTTP; Bridge → homeserver by Matrix; owner → control
plane (drain, revoke) and → receiver (pause, retry, skip). What is hard: any
call may be lost or answered after the caller gave up, the Bridge goes on with
a send after its receiver died, computers come back with old files, closing
races with everything, and whatever spans two stores (a row and its bytes, a row
and the room, the vault and the token table) can stop half-way.

## Modules

* `ReceptionRecord` — the record's shape and the server's transitions, as
  operators over a record (`ReceptionExecution::apply`, `execute_locked`,
  `drain`, the fence in `automation_grant.consume`). No variables; both state
  machines use it.
* `ReceptionServer` — the record facing arbitrary computers: requests are a set
  from which any may be executed, executed and kept (repeated), or lost, in any
  order. Heartbeat does not change what is modelled.
* `ExecutionLock` — the abstract specification: a lock whose holder must
  consent, with progress that only the holder writes.
* `ReceptionDelivery` — the receivers of several computers, composed with the
  record, the Bridges' sends and the room. `file`, `mem` and `pc` are a
  receiver's durable state, its memory and where `run` /`receive_connected` /
  `deliver` stands; each action is the code between two awaits with an effect.
  A request and its answer are one step when both arrive, and an `…Unanswered`
  step when the receiver does not learn the outcome. `calls` are sends the
  Bridge carries out, which outlive the receiver.
* `HostSession` — the registry: every await point of `execute`, `stop`,
  `expire_idle`, `shutdown` and `run_host_session` is a step. `HostSession.calls`
  is a read-write lock, derived from where callers and stoppers are.
* `ContentObject` — a content row with its policy and the transitions the domain
  and the repository's statements allow, as operators. No variables;
  `ContentLifecycle` extends it and `MessagePublication` instantiates it with the
  sends as events.
* `ContentPromise` — the abstract specification of the content service, and the
  contract between it and publication: an object moves only forward, its verdict
  and its event are given once, and nothing is active without a verdict that
  allows reading. `ContentLifecycle` implements it (`KeepsPromise`);
  `MessagePublication!OpenSpec` is publication beside any control plane that does.
* `ContentLifecycle` — the control plane's content service over its two stores.
  `upload[u]` and `cleaner[k]` are a completion request and a cleanup batch
  between two awaits; what they have loaded or listed is kept with them, because
  the code goes on with it. `reader[r]` is a read ticket and the open it is used
  for, one step per await: the clock and the ticket, the row, the policy, and
  after membership and limits (which only refuse, `EndRead`) the bucket. The time
  is the one read at the start, as in the code. `live` is history: what could be
  read when the open began. Every call may end anywhere (`AbortUpload`,
  `FailItem`, `AbortBatch`, `EndRead`), and a compensation deletes the bytes also
  when the row could not be marked.
* `MessagePublication` — `send`, `edit` and `redact` of the Bridge. `call[k]` is a
  request between two awaits, `row` the SQLite rows, `flying` the events whose
  fate the Bridge does not know, `room` what the homeserver accepted (one event
  per transaction id, external). An upload is two requests, `BeginUpload` and
  `CompleteUpload`; one that fails leaves the object at any stage a completion
  passes (`Stages`), a rejecting verdict and the compensation after it included.
  The control plane's cleanup is seen as `Retire` and `Reclaim`: the two database
  steps of `ContentLifecycle`'s `Prepare` and `MarkDeleted`; what else the
  control plane may do between them is `OpenSpec`'s.
* `AutomationGrant` — grants, the ledger of consumptions and requests between
  `load_and_precheck` and the consuming transaction. The execution record of
  `ReceptionRecord` is reduced to what `require_reception_owner` reads. The
  request's time is read once, at its start, as in the code, so a request can be
  charged to a window that is over.
* `DeviceSession` — token families, refresh tokens with their attempt rows, the
  Bridge's vault and the refresh requests under way. A token's `salt` says that
  the pair it was exchanged for can still be derived again. A family remembers its
  `lifetime_anchor`: the time of registration when the owner approved the device
  code, an earlier login when the desktop application handed over a computer
  grant; the two are told apart only by the time, and a login that is too old
  registers nothing (`Admitted`). Time is counted in units longer than the
  Bridge's request timeout.
* `…Proofs` — theorems about the module of that name. `MC…` modules give the
  constants small values.

Abstractions. Messages that wake the agent are numbered; a cursor is a number,
a batch an interval, a reply remembers its submission, the number of messages
before it, and what its host was shown. Run and submission ids are handed out
by counters. `DeliveryStage` is reduced to what the code branches on. The reply
target is left out: a retry keeps it together with the submission id, so the two
tell the same replies apart. `revoked` is the instance's mark, after which the
server refuses the computer; `cutoff` follows when its Matrix device is logged
out, after which it cannot send either. Names, texts, timing constants and the
display are left out. In `AutomationGrant` a *shape* stands for the fields
`consumption_matches` compares; the risk scan, membership and moderation only
refuse and appear as `Fail`; records of denials are left out. In `DeviceSession`
the device row is left out because it is revoked together with its families, and
so are suspended principals, pending states that an old version left without an
attempt number, and the nonce table (every request has a fresh nonce and is
carried out at most once, which the set of requests under way says too); the
look at the token and the rotating transaction are one step, for the transaction
checks everything again.

## Runs

| Run | Instance | Shows |
|---|---|---|
| `server` | 2 computers, 2 runs, 2 requests under way, 2 revisions, 1 revocation, symmetric | no unasked takeover, a released run stays released, a repeated or overtaken save leaves progress and revision alone, implements `ExecutionLock` |
| `delivery_one` | 1 computer, 2 messages, 2 runs, 2 submissions, 4 revisions, 1 revocation during the first delivery | answered once, no unasked rerun, cursor monotone, pending on the server before the host |
| `delivery_two` | 2 computers, 1 message, 2 runs, 1 submission, 3 revisions; history left out by a view | exclusive host turns |
| `sessions` | 1 key, 2 sessions, 2 connections | one worker per key, no call after drain, nothing survives shutdown |
| `sessions_live` | 1 key, 1 session, 2 connections | closing and shutdown complete |
| `content` | 1 content, 2 completions, 2 events, 1 cleaner, 1 reader | readable content has its bytes, bytes reach a reader only if the content was readable when the open began, and an open past its checks finds them unless the content was withdrawn meanwhile, final states are final, implements `ContentPromise` (so rejected bytes are never readable), what is given up is deleted in the end |
| `publication` | 1 send, 1 redaction, 2 bodies, 2 concurrent calls, symmetric | "published" is true of the caller's own request, rows tell the truth, no event without content, a redaction is told after it is done, no row is set back under a call |
| `grants` | 2 grants, 2 principals with a computer each, 2 submissions, 2 requests, 2 windows, 1 per minute, 2 in total | limits, ledger and status agree, nothing after the end, no paid submission is stranded |
| `devices` | 2 registrations, 2 attempts, clock to 6 | no lockout by anything lost, leftovers are harmless, an unknown refresh is settled |

Bounds. Two runs let a computer be replaced or restarted with a new execution,
two submissions let a fresh delivery follow a retried one, two messages let a
batch grow between attempts, and four revisions cover two full deliveries
(pending, outcome). Two requests under way suffice for one to overtake another;
repetition costs nothing because an executed request may stay. The bound on
revisions stops only saves that would write something new; one that repeats the
stored progress is carried out at the bound too. Two revisions let a save that
names an old one arrive after a later save, with a further write still possible. `RevokedEarly` explores a
revocation, which changes no progress, only with the first save in `server`;
without it the instance has 5.3 million states and passes as well. A session's key
is opened twice, which is what `OneWorkerPerKey` needs; more connections only
repeat the roles of two. The `RevokedEarly` of `delivery_one` explores a
revocation only up to revision 2, to halve the run; without it the instance has
4.0 million states and passes as well. The two-computer run has no revocation: the theorems
cover it.

`content`: two completions are what a retry needs to overlap with its original;
contents do not touch each other's state, except in a batch, where they are
handled one after the other. One cleaner is enough for deletion to be
interrupted by everything else, and liveness is checked on it; that several
replicas do no harm is the theorems' part. `publication`: two calls with two
bodies are a retry that overlaps and a retry with another text; a third repeats
their roles. The redaction targets the one send. `grants`: a lifetime of three
units and windows of two put the edge of a window inside the grant's life, and
the clock goes on to the moment it expires. `Scoped` leaves out what the
properties cannot tell apart: the second principal grants once and at the start,
and requests overlap only while there is no receiver (which has one send at a
time) and nobody has left. The view `Ledger` drops when a grant was revoked and
the last answer, on which no step depends; the action properties are evaluated
on every step regardless. The theorems need neither. `devices`: two registrations
are a new authorisation after an old one, two attempts a refresh and the next
one; an access token of three units refreshed one unit early, requests good for
one unit, a session of five after its last use and six after its login let every
one of them end, in either order.

Deadlock is checked except where the system really may stop: a Bridge that has
shut down (`sessions`, `sessions_live`), and the bounded clock and ids of
`grants` and `devices`, and `content`, where nothing is left to do once the
account is deleted and everything is cleaned up. The delivery runs stop nowhere
because a stopped receiver can always be started, and `publication` because a
call can.

Fairness. `HostSession`: tasks and workers are scheduled (tokio), handlers
answer because their HTTP clients have timeouts, the janitor's one-minute timer
ticks until shutdown begins, idle time passes. `Drain` is strongly fair because
tokio's `RwLock` queues its waiters, so a writer is not overtaken for ever by
new readers. Nobody is assumed to open, call or close anything, and aborted
closes and panics are not fair. `ReceptionDelivery!FairSpec`: a stopped receiver
is started again, a release under way is answered, and if the server would
accept it time and again one attempt gets through. This is generous, and it is
there to show that `ReleaseCompletes` fails in spite of it.
`ContentLifecycle!FairSpec`: the worker's interval ticks, so a batch is begun
while there is something to list (weak), and a step of a batch that is possible
time and again is taken in the end (strong): a process that is restarted and a
bucket that is down now and then do not fail at the same step for ever. Nothing
is assumed of uploads, readers or owners. `DeviceSession!FairSpec`:
`maintain_device_session` tries again after each failure with a bounded back-off
and clears what is over (weak), a call ends within its timeout (weak), and a
control plane that is reached time and again answers one of the calls (strong).

## Where the code and its documentation disagree

Three runs expect a violation; each states a promise of a comment, a README, a
test or the interface (quoted in `PROJECT.json`).

* `answered_twice` — computer 1 begins a delivery that never reaches the server
  and the owner chooses to retry there; computer 2 takes over, delivers and
  answers the same message; computer 1 claims again and its old file passes for
  the owner's decision, because `explicit_resolution` compares event ids only.
  The run restricts computers to taking turns (`TakingTurns`) to reach the trace
  sooner. The same cause breaks `CursorNeverBack` and `NeverRerunUnasked` with
  two computers, which is why those are checked for one.
* `grants_restorable` — a grant whose time is over but that nobody has looked at
  since is still stored as active; retiring the agent, or deleting the account,
  revokes it *now*, after its own end, and the domain refuses to load that row.
* `retry_is_theft` — a refresh that was repeated, answered late and followed at
  once by the next one leaves a delayed copy behind, which is taken for theft.
  It needs a copy delayed by more than a request timeout and less than the age a
  proof may have, and an access token that is nearly over when it is replayed.

The modules state more promises that the code does not keep. TLC refutes each of
them within a minute or so when the definition is put in a configuration of its
module; the runs above are kept for the ones with the gravest outcome.

* `ReceptionDelivery!ReleaseAfterDrain` (`runtime.rs:65`; promised at
  `execution.rs:196`) — crash, restart, stop before the session is open: the
  record is released without closing the old session, whose send goes on.
* `ReceptionDelivery!ReleaseCompletes`, under `FairSpec` (`runtime.rs:51`) — a run
  id the server never saw can never be released, and every start tries that
  first.
* `ReceptionDelivery!NoMessagePassedOver` (`runtime.rs:459`;
  `specs/agent-reading/waiting.md:164`) — a retried batch that grew is confirmed
  by the late reply to the smaller one.
* `ReceptionDelivery!SkipHonoured` (`execution.rs:125`) — a skip of a delivery the
  server does not know is undone by the next claim.
* `ReceptionDelivery!NeverAbandoned` (`execution.rs:96`) — a refused claim forgets a
  run that the record still names.
* `ContentLifecycle!OnlyUnboundOrphaned` (`lifecycle.rs:368`;
  `specs/agent-room-foundation/task-17-validation.md:55`) — the cleanup compares
  only the lifecycle state with what it listed; a content that is bound in
  between is orphaned although its event is in the room.
* `ContentLifecycle!DeletedHasNoBytes` (`upload.rs:386`) — an upload that outlasts
  the grace puts its bytes after the cleanup has deleted them; the row is final,
  so they stay in the bucket.
* `MessagePublication!NeverResendUnknown` (`outgoing.rs:447`;
  `task-18-validation.md:23` and `:45`, `task-34-validation.md:10`: reconciled by
  sync only, never resent) — a repeated call publishes again under the same
  transaction id. The homeserver's deduplication makes it harmless.
* `MessagePublication!RedactionCompletes`, under `FairSpec` (`outgoing.rs:362`) — the
  content is redacted and then deleted by the cleanup before the redaction's
  event got out; from then on the control plane refuses to redact it, so the
  redaction can never be published.

## Proofs

All theorems hold for every value of the constants under the named assumptions:
`NoneAssumption` (None is no device, owner or delivery), `BoundsAssumption`,
`DomainsAssumption` (events, runs and submissions are numbers up to the bounds,
which are arbitrary); `NoEvent` (None is no event) and, for the proofs about
content, finitely or infinitely many contents, uploads, replicas and readers;
`GrantAssumption` (limits, lifetimes and windows are arbitrary positive numbers);
`SessionAssumption` (host sessions and device sessions: arbitrary times and
bounds); `SubmissionsAssumption` (no submission is both a send and a redaction, and None is neither nor a text).

* `ReceptionRecordProofs`: what each transition of the record keeps (lemmas).
* `ReceptionServerProofs`: `TypeCorrect`, `ConsentBeforeTakeover`,
  `StaleClaimRefused`, `RevisionsAreNames` (only a save of the executor in office
  that names the current revision replaces the progress), `RecordImplementsLock`. The
  inductive invariant `IInv` adds to the type invariant that every Release under
  way was asked for by its sender (`ReleasesAsked`) and that a record without an
  owner is idle (`UnclaimedIdle`). The first is needed because a release may be
  executed long after it was sent. The refinement maps the holder to the owner
  unless idle and the consents to the releases asked and the computers cut off.
* `ReceptionDeliveryProofs`: `TypeCorrect`, `OneHostTurn`,
  `HostDeliveryOnServer`, for any number of computers. `HostTurnExclusive` alone is not inductive. `IInv` adds
  `Shapes` (what a receiver reports is a legal progress) and `Ownership`: a
  receiver past its claim has a run (`RunKnown`) and from `begin_batch` to the
  host's end a pending batch (`BatchPending`); a computer that can still send and
  is executing *is* the record's owner and the record is not idle
  (`ExecutorsOwn`); and while a host works the server's progress is its own
  (`HostReported`). The argument: a claim succeeds only on an idle record or the
  claimer's own, a record becomes idle only by its owner's release, which the
  owner sends after leaving the executing steps, or by a drain of a computer that
  is cut off; so no second computer enters. There is one lemma per action.
* `ReceptionDeliveryProofs`, for one computer: `OneReplyPerMessage`,
  `CursorOnward`, `RerunOnlyIfAsked`. Their hypothesis `OneComputer` cannot be
  dropped: `answered_twice` shows what a second computer's old file does. Any
  number of messages, runs, submissions, crashes, lost answers, retries and
  skips is allowed, and the computer may be drained, revoked and cut off. The
  inductive invariant `OneInv` says how four things agree that are written at
  different times: the file, the memory, the server's progress and the room.
  `Places`: at each step of a run, what the memory says given the server's
  progress (`AtStep`), and that a file or memory with a delivery in hand while
  one is pending on the server has that very one (`Knows`), so that
  `explicit_resolution`, which compares events only, is about the right one.
  `Answers`: whatever is written under the submission of the server's delivery,
  in the room or still being sent, is about messages of that delivery, and
  everything else is about messages behind the cursor (`Within`). `Submitted` and
  `Fresh`: the server's delivery lies ahead of its cursor, and a delivery about to
  reach it for the first time has a submission nothing is written under.
  `Licence` with `Fits`: what is marked for another attempt was cleared for it.
  The argument: a save either makes a delivery pending (perhaps larger, under the
  same submission), clears it for a retry, or moves the cursor to its very end
  (`SavedOnward`, `AllBehind`), so the cursor never goes back and the messages of
  different submissions stay apart; a claim takes over what the server says or
  an owner's decision about just that (`RestoreAgrees`).

* `ContentLifecycleProofs`: `Typing`, `ReadableBytes`, `ReadsHonourTickets`, `FinalStays`,
  `RejectedStays`, `ServiceKeepsPromise`. `ReadableHasBytes` is not inductive: a batch that is about to
  delete bytes, or a completion about to compensate, must be known not to hit a
  content that can still become readable. `IInv` adds just that. `BatchesSafe`:
  what a batch is about to delete is in a final state. `UploadsSafe`: a completion
  deletes only what was rejected, activates only after a verdict that allows reading,
  and once it has put the bytes they stay as long as the object may become
  active. `ObjectsSafe`: what is active has its bytes and such a verdict.
  `ReadersSafe`: the content of a ticket is active or has ended, and each check an
  open has passed rules out one way in which it had ended before the open began:
  the row rules out redaction and expiry, the policy the deletion of the account,
  whose two writes are one transaction. With `ObjectsSafe`,
  and with `Unborn` (what was never uploaded is untouched), every step is shown to
  be a step of `ContentPromise`, object by object (`EveryObjectMoves`).
* `AutomationGrantProofs`: `Typing`, `LimitsHold`, `SpentIsShown`, `EndIsTheEnd`,
  `LedgerStays`, `RepeatedIsServed`, `PaidByItsPrincipal`. `IInv` adds that the
  charges of a grant are finite in number (`Finite`), that a grant that does not
  exist has none (`Unborn`), and the limits for every window (`Totals`, `Rates`).
  The argument is by counting: the only step that adds a charge adds one element
  to a set that was below the limit. That payer and sender have one principal
  rests on a second invariant, `Owned`: every request past its check asks for a
  grant of its own principal.
* `DeviceSessionProofs`: `Typing`, `RepeatedIsGranted`, `LeftoversAreHarmless`.
  `IInv` adds the shape of the table (`Ledger`: a used token has a successor in its
  family, a family has one unused token, an active family's tokens are not
  revoked, one family is active), that every request under way presents a token
  that exists and, if it is the vault's, goes by the attempt the vault remembers
  (`Flight`), and that nobody has asked with the successor of the vault's token
  (`Newest`), for using that successor is what would end the replay.
* `HostSessionProofs`: `Typing`, `WorkersExclusive`, `CallsDrained`,
  `ShutdownIsClean`. None of the three safety properties is inductive. `IInv` adds
  `SessionSafe` (a running worker is still listed under its key, and a stop that is
  past a step has left its traces: closing, then the signal, then a joined worker),
  `CallSafe` (a call past the lock excludes every stop that holds it, and a call
  whose session is no longer listed belongs to a worker that was told) and
  `ShutdownSafe` (the shutdown has every listed session in hand). A key becomes free
  only after its worker was joined, which is why the next session cannot overlap.
* `MessagePublicationProofs`: `Typing`, `RowsAreTrue`, `ToldTheTruth`,
  `BodiesStored`, `WithdrawnFirst`, `StoreSound`. `IInv` says what a call knows at
  each of its steps (`CallSafe`), what an event in flight may rely on
  (`FlightSafe`), how a row, its event and its body agree (`SubSafe`), and the
  shape of contents. The argument: rows, the room and contents only move onward,
  so whatever a call, a row or an event in flight has established stays
  established (lemma `Kept`); each action is then shown to be a step onward.
  `PublicationComposes` is the same for `OpenSpec`: a move that `ContentPromise`
  allows is a step onward, so what publication guarantees it guarantees beside
  the content service, with the completions that outlive their caller, the
  expiries and the account deletions that `Next` leaves out. TLC checks `OpenSpec`
  on the instance of `publication` too (1.4 million states); that takes
  too long to be kept as a run.

Only model-checked: liveness (`ClosingCompletes`, `ShutdownCompletes`,
`EventuallyDeleted`, `RefreshSettles`), which is out of the prover's reach. Every
safety property of a passing run is a theorem.

## Not modelled

Corrupt or missing receiver files, `receiver remove`, legacy pending deliveries
without an id, and changed bindings (all refused by the code); several rooms of
one agent (records are independent per room); HTTP signing and Matrix
encryption. `ReceptionDelivery` takes publication by its promise, one event per
submission id, which is what `MessagePublication` checks; a retry with another
text is a failed send there.

Most of the repository's lines have no protocol state of their own: the web and
desktop interface, HTTP routing and decoding, request and response types,
SQL and wire conversion, configuration, installers and release tooling, and the
tests. They are not modelled because a model of them would repeat them. Parts of
the system that do have state and no module are listed in `PROJECT.json` with the
reason; the plan names the ones worth a module.

## Plan

Done: the record and its lock, delivery, host sessions, content, publication,
grants, device sessions, and the proofs above.

1. `InboxWait` — debounce, digest, overflow at 50 and the cursor, against a
   reference definition of what must be shown (`agent-reception/runtime.rs:217`).
2. `TargetedHandoff` — leases, receipts and expiry between two Bridges and the
   control plane; `RoomAllocation` — capacity under concurrent joins and
   departures; `NetworkAgent` — inbox acknowledgement and idempotent submission
   without a Bridge; the account deletion's job table.
3. What holds of the history with several computers, once the condition is found
   under which an old file cannot pass for a decision about another delivery.
