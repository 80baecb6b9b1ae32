---------------------------- MODULE HostSession ----------------------------
(***************************************************************************)
(* The Bridge's registry of host sessions: MCP clients, the CLI and the    *)
(* background receivers each open a session for a binding (session_key),   *)
(* make calls under it and close it.  A session owns a worker task that    *)
(* prepares and runs the agent's identity, Matrix store and background     *)
(* work, so two workers of one key must never overlap, and no call may     *)
(* still be using what a closed session gave up.                           *)
(*                                                                         *)
(* Every await point of the code between two effects is a step of its own. *)
(* The registry's map is behind one mutex; HostSession.calls is a          *)
(* read-write lock that calls hold shared and stop holds exclusively.      *)
(***************************************************************************)
EXTENDS Naturals, FiniteSets

CONSTANTS
  Keys,         \* session keys
  Callers,      \* IPC connections, one call at a time each
  MaxOpened,    \* bound: sessions opened altogether
  MaxSessions,  \* MAX_HOST_SESSIONS
  NoSession

Ids == 1..MaxOpened

ASSUME SessionAssumption ==
  MaxOpened \in Nat /\ MaxSessions \in Nat \ {0} /\ NoSession \notin Ids

VARIABLES
  registry,   \* registry[k]: the session of a key
  opened,     \* sessions opened so far
  key,        \* key[s]: the key session s is opened for, fixed from the start
  closing,    \* closing[s]
  phase,      \* phase[s]
  stale,      \* stale[s]: no activity for IDLE_LIFETIME
  signal,     \* signal[s]: the worker was told to shut down
  worker,     \* worker[s]: where run_host_session is
  call,       \* call[c]: where a connection's call is, and its session
  stopper,    \* stopper[p][s]: where p's stop of session s is
  shutdown    \* the registry's own shutdown

vars == <<registry, opened, key, closing, phase, stale, signal, worker, call,
          stopper, shutdown>>

Phase == {"Starting", "Running", "Failed", "Closed"}

WorkerStep ==
  {"none", "starting", "preparing", "failing", "backoff", "refused", "prepared",
   "running", "ended", "marking", "done", "panicked", "joined"}

CallStep == {"idle", "waiting", "locked", "touched", "admitted", "dispatch"}

(* A client's CloseHostSession, the idle janitor, and the registry's        *)
(* shutdown, which stops all sessions in parallel.                          *)
Stoppers == {"client", "janitor", "shutdown"}

StopStep == {"idle", "drain", "drained", "join", "stopped"}

Init ==
  /\ registry = [k \in Keys |-> NoSession]
  /\ opened = 0
  /\ key \in [Ids -> Keys]
  /\ closing = [s \in Ids |-> FALSE]
  /\ phase = [s \in Ids |-> "Starting"]
  /\ stale = [s \in Ids |-> FALSE]
  /\ signal = [s \in Ids |-> FALSE]
  /\ worker = [s \in Ids |-> "none"]
  /\ call = [c \in Callers |-> [step |-> "idle", session |-> NoSession]]
  /\ stopper = [p \in Stoppers |-> [s \in Ids |-> "idle"]]
  /\ shutdown = "no"

Listed == {s \in Ids : \E k \in Keys : registry[k] = s}

Readers(s) ==
  {c \in Callers : call[c].session = s /\ call[c].step \notin {"idle", "waiting"}}

(* Some stop of s holds the calls lock exclusively.                         *)
Exclusive(s) == \E p \in Stoppers : stopper[p][s] \in {"drained", "join"}

-----------------------------------------------------------------------------
(* Mutant: opening does not look at the shutdown flag.                      *)
OpenDuringShutdown(k) ==
  /\ registry[k] = NoSession
  /\ Cardinality(Listed) < MaxSessions
  /\ opened < MaxOpened
  /\ opened' = opened + 1
  /\ key[opened'] = k
  /\ registry' = [registry EXCEPT ![k] = opened']
  /\ worker' = [worker EXCEPT ![opened'] = "starting"]
  /\ UNCHANGED <<key, closing, phase, stale, signal, call, stopper, shutdown>>

(* HostSessionRegistry::open of a key without a session.  A key that has    *)
(* one answers with it, or with a conflict while it is closing.             *)
Open(k) ==
  /\ shutdown = "no"
  /\ registry[k] = NoSession
  /\ Cardinality(Listed) < MaxSessions
  /\ opened < MaxOpened
  /\ opened' = opened + 1
  /\ key[opened'] = k
  /\ registry' = [registry EXCEPT ![k] = opened']
  /\ worker' = [worker EXCEPT ![opened'] = "starting"]
  /\ UNCHANGED <<key, closing, phase, stale, signal, call, stopper, shutdown>>

-----------------------------------------------------------------------------
(* A call under a session (HostSession::execute), or a repeated open of its *)
(* key, which takes the same way up to the third check.                     *)

AtCall(c, step) == call' = [call EXCEPT ![c].step = step]

(* Mutant: a call that ended keeps its place, without a session.            *)
HangupInPlace(c) == call' = [call EXCEPT ![c].step = "ended"]

Hangup(c) == call' = [call EXCEPT ![c] = [step |-> "idle", session |-> NoSession]]

session == <<registry, opened, key, closing, phase, signal, worker, stopper, shutdown>>

Call(c, s) ==
  /\ call[c].step = "idle"
  /\ s \in Listed
  /\ ~closing[s]
  /\ call' = [call EXCEPT ![c] = [step |-> "waiting", session |-> s]]
  /\ UNCHANGED <<session, stale>>

LockCalls(c) ==
  /\ call[c].step = "waiting"
  /\ ~Exclusive(call[c].session)
  /\ AtCall(c, "locked")
  /\ UNCHANGED <<session, stale>>

Touch(c) ==
  /\ call[c].step = "locked"
  /\ IF closing[call[c].session]
     THEN Hangup(c) /\ UNCHANGED stale
     ELSE AtCall(c, "touched") /\ stale' = [stale EXCEPT ![call[c].session] = FALSE]
  /\ UNCHANGED session

Admit(c) ==
  /\ call[c].step = "touched"
  /\ IF closing[call[c].session] THEN Hangup(c) ELSE AtCall(c, "admitted")
  /\ UNCHANGED <<session, stale>>

Dispatch(c) ==
  /\ call[c].step = "admitted"
  /\ IF phase[call[c].session] = "Running" THEN AtCall(c, "dispatch") ELSE Hangup(c)
  /\ UNCHANGED <<session, stale>>

(* The handler answers or fails; its network requests carry timeouts.       *)
Answer(c) ==
  /\ call[c].step = "dispatch"
  /\ Hangup(c)
  /\ UNCHANGED <<session, stale>>

(* The IPC server aborts its connections; a call is dropped where it is.    *)
Disconnect(c) ==
  /\ call[c].step # "idle"
  /\ Hangup(c)
  /\ UNCHANGED <<session, stale>>

IdleTimePasses(s) ==
  /\ s \in Listed
  /\ stale' = [stale EXCEPT ![s] = TRUE]
  /\ UNCHANGED <<session, call>>

-----------------------------------------------------------------------------
(* The worker task, run_host_session.                                       *)

AtWorker(s, step) == worker' = [worker EXCEPT ![s] = step]

task == <<registry, opened, key, closing, stale, signal, call, stopper, shutdown>>

WorkerStarts(s) ==
  /\ worker[s] = "starting"
  /\ AtWorker(s, IF signal[s] THEN "done" ELSE "preparing")
  /\ UNCHANGED <<task, phase>>

(* Preparation is never cancelled half-way.                                 *)
Prepare(s) ==
  /\ worker[s] = "preparing"
  /\ \/ AtWorker(s, "prepared")
     \/ AtWorker(s, "refused")
     \/ ~closing[s] /\ AtWorker(s, "failing")
  /\ UNCHANGED <<task, phase>>

WorkerFails(s) ==
  /\ worker[s] = "failing"
  /\ phase' = [phase EXCEPT ![s] = "Failed"]
  /\ AtWorker(s, "backoff")
  /\ UNCHANGED task

WorkerBacksOff(s) ==
  /\ worker[s] = "backoff"
  /\ \/ signal[s] /\ AtWorker(s, "done")
     \/ AtWorker(s, "starting")
  /\ UNCHANGED <<task, phase>>

WorkerRefused(s) ==
  /\ worker[s] = "refused"
  /\ phase' = [phase EXCEPT ![s] = IF closing[s] THEN @ ELSE "Failed"]
  /\ AtWorker(s, "done")
  /\ UNCHANGED task

(* The closing flag is read under the phase lock.                           *)
WorkerRuns(s) ==
  /\ worker[s] = "prepared"
  /\ phase' = [phase EXCEPT ![s] = IF closing[s] THEN @ ELSE "Running"]
  /\ AtWorker(s, "running")
  /\ UNCHANGED task

(* The runtime returns when told to shut down; it may stop on its own.      *)
RuntimeStops(s) ==
  /\ worker[s] = "running"
  /\ signal[s]
  /\ AtWorker(s, "ended")
  /\ UNCHANGED <<task, phase>>

RuntimeFails(s) ==
  /\ worker[s] = "running"
  /\ AtWorker(s, "ended")
  /\ UNCHANGED <<task, phase>>

WorkerEnds(s) ==
  /\ worker[s] = "ended"
  /\ AtWorker(s, IF closing[s] THEN "done" ELSE "marking")
  /\ UNCHANGED <<task, phase>>

WorkerMarksFailure(s) ==
  /\ worker[s] = "marking"
  /\ phase' = [phase EXCEPT ![s] = "Failed"]
  /\ AtWorker(s, "done")
  /\ UNCHANGED task

WorkerPanics(s) ==
  /\ worker[s] \in {"preparing", "running"}
  /\ AtWorker(s, "panicked")
  /\ UNCHANGED <<task, phase>>

Worker(s) ==
  \/ WorkerStarts(s) \/ Prepare(s) \/ WorkerFails(s) \/ WorkerBacksOff(s)
  \/ WorkerRefused(s) \/ WorkerRuns(s) \/ RuntimeStops(s) \/ WorkerEnds(s)
  \/ WorkerMarksFailure(s)

-----------------------------------------------------------------------------
(* Closing.                                                                 *)

AtStop(p, s, step) == stopper' = [stopper EXCEPT ![p][s] = step]

life == <<opened, key, stale, call>>

Close(s) ==
  /\ stopper["client"][s] = "idle"
  /\ s \in Listed
  /\ closing' = [closing EXCEPT ![s] = TRUE]
  /\ AtStop("client", s, "drain")
  /\ UNCHANGED <<life, registry, phase, signal, worker, shutdown>>

(* Mutant: the janitor leaves sessions alone that are closing already.      *)
ExpireOpenOnly(s) ==
  /\ \A t \in Ids : stopper["janitor"][t] = "idle"
  /\ s \in Listed /\ stale[s] /\ ~closing[s]
  /\ closing' = [closing EXCEPT ![s] = TRUE]
  /\ AtStop("janitor", s, "drain")
  /\ UNCHANGED <<life, registry, phase, signal, worker, shutdown>>

(* The janitor decides and marks under the activity lock, one session after *)
(* the other.                                                               *)
Expire(s) ==
  /\ \A t \in Ids : stopper["janitor"][t] = "idle"
  /\ s \in Listed
  /\ stale[s]
  /\ closing' = [closing EXCEPT ![s] = TRUE]
  /\ AtStop("janitor", s, "drain")
  /\ UNCHANGED <<life, registry, phase, signal, worker, shutdown>>

(* Mutant: a stop does not wait for the calls under way.                    *)
DrainNothing(p, s) ==
  /\ stopper[p][s] = "drain"
  /\ AtStop(p, s, "drained")
  /\ UNCHANGED <<life, registry, closing, phase, signal, worker, shutdown>>

(* HostSession::stop waits for every call under way ...                     *)
Drain(p, s) ==
  /\ stopper[p][s] = "drain"
  /\ Readers(s) = {} /\ ~Exclusive(s)
  /\ AtStop(p, s, "drained")
  /\ UNCHANGED <<life, registry, closing, phase, signal, worker, shutdown>>

(* Mutant: a stop does not wait for the worker.                             *)
DismissOnly(p, s) ==
  /\ stopper[p][s] = "drained"
  /\ phase' = [phase EXCEPT ![s] = "Closed"]
  /\ signal' = [signal EXCEPT ![s] = TRUE]
  /\ AtStop(p, s, "stopped")
  /\ UNCHANGED <<life, registry, closing, worker, shutdown>>

(* Mutant: the worker is never told.                                        *)
DismissSilently(p, s) ==
  /\ stopper[p][s] = "drained"
  /\ phase' = [phase EXCEPT ![s] = "Closed"]
  /\ AtStop(p, s, "join")
  /\ UNCHANGED <<life, registry, closing, signal, worker, shutdown>>

(* ... takes the handler away and tells the worker ...                      *)
Dismiss(p, s) ==
  /\ stopper[p][s] = "drained"
  /\ phase' = [phase EXCEPT ![s] = "Closed"]
  /\ signal' = [signal EXCEPT ![s] = TRUE]
  /\ AtStop(p, s, "join")
  /\ UNCHANGED <<life, registry, closing, worker, shutdown>>

(* ... and waits for it to end.                                             *)
Join(p, s) ==
  /\ stopper[p][s] = "join"
  /\ worker[s] \in {"done", "joined"}
  /\ worker' = [worker EXCEPT ![s] = "joined"]
  /\ AtStop(p, s, "stopped")
  /\ UNCHANGED <<life, registry, closing, phase, signal, shutdown>>

(* A worker that panicked fails the stop that joins it, once; the registry's *)
(* shutdown carries on regardless.                                          *)
JoinPanicked(p, s) ==
  /\ stopper[p][s] = "join"
  /\ worker[s] = "panicked"
  /\ worker' = [worker EXCEPT ![s] = "joined"]
  /\ AtStop(p, s, IF p = "shutdown" THEN "stopped" ELSE "idle")
  /\ UNCHANGED <<life, registry, closing, phase, signal, shutdown>>

Unlisted(S) == [k \in Keys |-> IF registry[k] \in S THEN NoSession ELSE registry[k]]

Remove(p, s) ==
  /\ p # "shutdown"
  /\ stopper[p][s] = "stopped"
  /\ registry' = Unlisted({s})
  /\ AtStop(p, s, "idle")
  /\ UNCHANGED <<life, closing, phase, signal, worker, shutdown>>

(* The connection of a close is aborted; the session stays closing and      *)
(* keeps its worker's handle.                                               *)
CloseCancelled(s) ==
  /\ stopper["client"][s] # "idle"
  /\ AtStop("client", s, "idle")
  /\ UNCHANGED <<life, registry, closing, phase, signal, worker, shutdown>>

(* HostSessionRegistry::shutdown: refuse new sessions, then stop all that   *)
(* are listed, then forget them.                                            *)
ShutdownBegins ==
  /\ shutdown = "no"
  /\ shutdown' = "refusing"
  /\ UNCHANGED <<life, registry, closing, phase, signal, worker, stopper>>

ShutdownStops ==
  /\ shutdown = "refusing"
  /\ shutdown' = "stopping"
  /\ closing' = [s \in Ids |-> closing[s] \/ s \in Listed]
  /\ stopper' = [stopper EXCEPT !["shutdown"] =
                   [s \in Ids |-> IF s \in Listed THEN "drain" ELSE "idle"]]
  /\ UNCHANGED <<life, registry, phase, signal, worker>>

ShutdownEnds ==
  /\ shutdown = "stopping"
  /\ \A s \in Ids : stopper["shutdown"][s] \in {"idle", "stopped"}
  /\ registry' = Unlisted({s \in Ids : stopper["shutdown"][s] = "stopped"})
  /\ shutdown' = "done"
  /\ UNCHANGED <<life, closing, phase, signal, worker, stopper>>

Stop(p, s) == Drain(p, s) \/ Dismiss(p, s) \/ Join(p, s) \/ JoinPanicked(p, s) \/ Remove(p, s)

-----------------------------------------------------------------------------
Next ==
  \/ \E k \in Keys : Open(k)
  \/ \E c \in Callers :
       \/ \E s \in Ids : Call(c, s)
       \/ LockCalls(c) \/ Touch(c) \/ Admit(c) \/ Dispatch(c) \/ Answer(c)
       \/ Disconnect(c)
  \/ \E s \in Ids :
       \/ IdleTimePasses(s) \/ Worker(s) \/ RuntimeFails(s) \/ WorkerPanics(s)
       \/ Close(s) \/ Expire(s) \/ CloseCancelled(s)
       \/ \E p \in Stoppers : Stop(p, s)
  \/ ShutdownBegins \/ ShutdownStops \/ ShutdownEnds

Spec == Init /\ [][Next]_vars

(***************************************************************************)
(* Tasks are scheduled, handlers answer (their requests time out), the     *)
(* janitor's timer ticks, and time passes; the calls lock is fair (tokio's *)
(* RwLock serves its waiters in order).  Nobody has to open, call or close *)
(* anything.                                                               *)
(***************************************************************************)
Fairness ==
  /\ \A c \in Callers :
       WF_vars(LockCalls(c) \/ Touch(c) \/ Admit(c) \/ Dispatch(c) \/ Answer(c))
  /\ \A s \in Ids :
       /\ WF_vars(Worker(s)) /\ WF_vars(IdleTimePasses(s)) /\ WF_vars(shutdown = "no" /\ Expire(s))
       /\ \A p \in Stoppers : WF_vars(Stop(p, s)) /\ SF_vars(Drain(p, s))
  /\ WF_vars(ShutdownStops) /\ WF_vars(ShutdownEnds)

FairSpec == Spec /\ Fairness

-----------------------------------------------------------------------------
TypeOK ==
  /\ registry \in [Keys -> Ids \cup {NoSession}]
  /\ opened \in 0..MaxOpened
  /\ key \in [Ids -> Keys]
  /\ closing \in [Ids -> BOOLEAN]
  /\ phase \in [Ids -> Phase]
  /\ stale \in [Ids -> BOOLEAN]
  /\ signal \in [Ids -> BOOLEAN]
  /\ worker \in [Ids -> WorkerStep]
  /\ call \in [Callers -> [step : CallStep, session : Ids \cup {NoSession}]]
  /\ stopper \in [Stoppers -> [Ids -> StopStep]]
  /\ shutdown \in {"no", "refusing", "stopping", "done"}

Alive(s) == worker[s] \notin {"none", "done", "panicked", "joined"}

(***************************************************************************)
(* An agent's identity and stores are never used by two workers: however   *)
(* closes, expiry, aborts and panics interleave , a key's next session    *)
(* starts only after the worker of its last one has ended.                 *)
(***************************************************************************)
OneWorkerPerKey ==
  \A s, t \in Ids : Alive(s) /\ Alive(t) /\ key[s] = key[t] => s = t

(***************************************************************************)
(* calls: "the read lock covers the whole business call; only with the     *)
(* write lock may closing release identity and storage".  Once a session's *)
(* worker has been told to shut down no call of the session is being       *)
(* carried out, and none will be.                                          *)
(***************************************************************************)
NoCallAfterDrain ==
  \A c \in Callers : call[c].step = "dispatch" => ~signal[call[c].session]

(***************************************************************************)
(* When the registry's shutdown returns, no session, worker or call is     *)
(* left, not even of an open that raced it.                                *)
(***************************************************************************)
NothingSurvivesShutdown ==
  shutdown = "done" =>
    /\ Listed = {}
    /\ \A s \in Ids : ~Alive(s)
    /\ \A c \in Callers : call[c].step # "dispatch"

(***************************************************************************)
(* A session that began to close is removed in the end, even if the client *)
(* that closed it was cut off and its worker panicked, so its key can be   *)
(* opened again.                                                           *)
(***************************************************************************)
ClosingCompletes == \A s \in Ids : closing[s] ~> s \notin Listed

(***************************************************************************)
(* The Bridge can always exit: closes under way, calls, the janitor and    *)
(* workers in any state do not keep its shutdown waiting for ever.         *)
(***************************************************************************)
ShutdownCompletes == shutdown = "refusing" ~> shutdown = "done"
=============================================================================
