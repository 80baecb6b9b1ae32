------------------------- MODULE HostSessionProofs -------------------------
(***************************************************************************)
(* Safety of the registry of host sessions for any number of keys,         *)
(* connections and sessions.                                               *)
(*                                                                         *)
(* None of the properties is inductive.  They hold because of what a       *)
(* session's place in the registry, its flags and the steps of its stops   *)
(* say of each other: a running worker is still listed under its key, a    *)
(* stop that is past a step has left the traces of it, a call past the     *)
(* lock excludes every stop that holds it, and a call whose session is no  *)
(* longer listed belongs to a worker that was told to shut down.           *)
(***************************************************************************)
EXTENDS HostSession, TLAPS

(* What a session's registry entry, worker, flags and stops say of each     *)
(* other.                                                                   *)
SessionSafe(s) ==
  /\ s > opened => worker[s] = "none"
  /\ Alive(s) => registry[key[s]] = s
  /\ signal[s] => closing[s] /\ phase[s] # "Running"
  /\ \A p \in Stoppers :
       /\ stopper[p][s] # "idle" => closing[s]
       /\ stopper[p][s] \in {"join", "stopped"} => signal[s]
       /\ stopper[p][s] = "stopped" => worker[s] = "joined"

(* What a call under way may rely on.                                       *)
CallSafe(c) ==
  call[c].step # "idle" =>
    /\ call[c].session \in Ids
    /\ call[c].session \in Listed \/ signal[call[c].session]
    /\ call[c].step # "waiting" => ~Exclusive(call[c].session)
    /\ call[c].step = "dispatch" => ~signal[call[c].session]

(* The shutdown has every listed session in hand.                           *)
ShutdownSafe ==
  /\ shutdown = "stopping" => \A s \in Listed : stopper["shutdown"][s] # "idle"
  /\ shutdown = "done" => Listed = {}

IInv ==
  /\ TypeOK
  /\ \A s \in Ids : SessionSafe(s)
  /\ \A c \in Callers : CallSafe(c)
  /\ ShutdownSafe

-----------------------------------------------------------------------------
(* Taking sessions out whose workers have ended leaves every running worker *)
(* listed, and every session that was listed is still listed or was told.   *)
LEMMA ListedKept ==
  ASSUME IInv, NEW S \in SUBSET Ids, registry' = Unlisted(S),
         \A s \in S : signal[s] /\ ~Alive(s)
  PROVE  /\ registry' \in [Keys -> Ids \cup {NoSession}]
         /\ \A s \in Listed : s \in Listed' \/ signal[s]
         /\ \A s \in Listed' : s \in Listed /\ s \notin S
         /\ \A s \in Ids : Alive(s) => registry'[key[s]] = s
<1>1. \A s \in Ids : Alive(s) => registry[key[s]] = s
  BY DEF IInv, SessionSafe
<1>2. registry \in [Keys -> Ids \cup {NoSession}] /\ key \in [Ids -> Keys]
  BY DEF IInv, TypeOK
<1> QED
  BY <1>1, <1>2, SessionAssumption DEF Unlisted, Listed

LEMMA InitIInv == Init => IInv
<1> SUFFICES ASSUME Init PROVE IInv
  OBVIOUS
<1>1. TypeOK
  BY SessionAssumption DEF Init, TypeOK, Phase, WorkerStep, CallStep, StopStep, Stoppers
<1>2. ASSUME NEW s \in Ids PROVE SessionSafe(s)
  BY DEF Init, SessionSafe, Alive
<1>3. ASSUME NEW c \in Callers PROVE CallSafe(c)
  BY DEF Init, CallSafe
<1>4. ShutdownSafe
  BY DEF Init, ShutdownSafe
<1> QED
  BY <1>1, <1>2, <1>3, <1>4 DEF IInv

(* A new session takes a number and a key nobody uses.                      *)
LEMMA OpenStep ==
  ASSUME IInv, NEW k \in Keys, Open(k)
  PROVE  IInv'
<1> DEFINE n == opened + 1
<1>1. n \in Ids /\ opened' = n /\ worker[n] = "none"
  BY SessionAssumption DEF IInv, TypeOK, SessionSafe, Open, Ids
<1>2. TypeOK'
  BY <1>1 DEF IInv, TypeOK, Open, WorkerStep, Ids
<1>3. Listed \subseteq Listed'
  BY SessionAssumption DEF IInv, TypeOK, Open, Listed
<1>4. ASSUME NEW s \in Ids PROVE SessionSafe(s)'
  <2>1. SessionSafe(s)
    BY DEF IInv
  <2>2. s > opened' => worker'[s] = "none"
    BY <1>1, <2>1 DEF IInv, TypeOK, SessionSafe, Open, Ids
  <2>3. Alive(s)' => registry'[key[s]] = s
    BY <1>1, <2>1, SessionAssumption DEF IInv, TypeOK, SessionSafe, Open, Alive
  <2>4. worker[s] = "joined" => worker'[s] = "joined"
    BY <1>1 DEF IInv, TypeOK, Open
  <2> QED
    BY <2>1, <2>2, <2>3, <2>4 DEF SessionSafe, Open
<1>5. ASSUME NEW c \in Callers PROVE CallSafe(c)'
  BY <1>3 DEF IInv, CallSafe, Exclusive, Open
<1>6. ShutdownSafe'
  BY DEF ShutdownSafe, Open
<1> QED
  BY <1>2, <1>4, <1>5, <1>6 DEF IInv

(* A call's steps and the passing of time touch no session.                 *)
LEMMA CallStepSafe ==
  ASSUME IInv, NEW c \in Callers,
         \/ \E s \in Ids : Call(c, s)
         \/ LockCalls(c) \/ Touch(c) \/ Admit(c) \/ Dispatch(c) \/ Answer(c) \/ Disconnect(c)
  PROVE  IInv'
<1>1. UNCHANGED session
  BY DEF Call, LockCalls, Touch, Admit, Dispatch, Answer, Disconnect, session
<1>2. /\ \A s \in Ids : SessionSafe(s)'
      /\ ShutdownSafe'
  BY <1>1 DEF IInv, SessionSafe, Alive, ShutdownSafe, Listed, session
<1>3. stale' \in [Ids -> BOOLEAN]
  BY DEF IInv, TypeOK, Call, LockCalls, Touch, Admit, Dispatch, Answer, Disconnect
<1>4. ASSUME NEW x \in [step : CallStep, session : Ids \cup {NoSession}],
             call' = [call EXCEPT ![c] = x],
             x.step # "idle" =>
               /\ x.session \in Ids
               /\ x.session \in Listed \/ signal[x.session]
               /\ x.step # "waiting" => ~Exclusive(x.session)
               /\ x.step = "dispatch" => ~signal[x.session]
      PROVE  IInv'
  <2>1. TypeOK'
    BY <1>1, <1>3, <1>4 DEF IInv, TypeOK, session
  <2>2. ASSUME NEW d \in Callers PROVE CallSafe(d)'
    <3>1. CallSafe(d)
      BY DEF IInv
    <3>2. call'[d] = IF d = c THEN x ELSE call[d]
      BY <1>4 DEF IInv, TypeOK
    <3> QED
      BY <1>1, <1>4, <3>1, <3>2 DEF CallSafe, Listed, Exclusive, session
  <2> QED
    BY <1>2, <2>1, <2>2 DEF IInv
<1>5. CallSafe(c) /\ call[c] \in [step : CallStep, session : Ids \cup {NoSession}]
  BY DEF IInv, TypeOK
<1>6. Hangup(c) => IInv'
  BY <1>4 DEF Hangup, CallStep
<1>7. ASSUME NEW st \in CallStep, AtCall(c, st), call[c].step # "idle",
             st # "waiting" => ~Exclusive(call[c].session),
             st = "dispatch" => ~signal[call[c].session]
      PROVE  IInv'
  <2>1. call' = [call EXCEPT ![c] = [step |-> st, session |-> call[c].session]]
    <3>1. [call[c] EXCEPT !.step = st] = [step |-> st, session |-> call[c].session]
      BY <1>5
    <3>2. call' = [call EXCEPT ![c] = [call[c] EXCEPT !.step = st]]
      BY <1>7 DEF AtCall
    <3> QED
      BY <3>1, <3>2
  <2> QED
    BY <1>4, <1>5, <1>7, <2>1 DEF CallSafe
<1>8. ASSUME NEW s \in Ids, Call(c, s) PROVE IInv'
  BY <1>4, <1>8 DEF Call, CallStep
<1>9. CASE LockCalls(c)
  BY <1>7, <1>9 DEF LockCalls, CallStep
<1>10. CASE Touch(c)
  BY <1>5, <1>6, <1>7, <1>10 DEF Touch, CallStep, CallSafe
<1>11. CASE Admit(c)
  BY <1>5, <1>6, <1>7, <1>11 DEF Admit, CallStep, CallSafe
<1>12. CASE Dispatch(c)
  <2>1. phase[call[c].session] = "Running" => ~signal[call[c].session]
    BY <1>5, <1>12 DEF IInv, SessionSafe, CallSafe, Dispatch
  <2> QED
    BY <1>5, <1>6, <1>7, <1>12, <2>1 DEF Dispatch, CallStep, CallSafe
<1>13. CASE Answer(c) \/ Disconnect(c)
  BY <1>6, <1>13 DEF Answer, Disconnect
<1> QED
  BY <1>8, <1>9, <1>10, <1>11, <1>12, <1>13

LEMMA IdleStep ==
  ASSUME IInv, NEW s \in Ids, IdleTimePasses(s)
  PROVE  IInv'
<1>1. TypeOK'
  BY DEF IInv, TypeOK, IdleTimePasses, session
<1>2. /\ \A t \in Ids : SessionSafe(t)'
      /\ \A c \in Callers : CallSafe(c)'
      /\ ShutdownSafe'
  BY DEF IInv, SessionSafe, Alive, CallSafe, Exclusive, ShutdownSafe, Listed, IdleTimePasses, session
<1> QED
  BY <1>1, <1>2 DEF IInv

(* A worker moves only itself and its phase, and Running is not said of a   *)
(* session that is closing.                                                 *)
LEMMA WorkerStepSafe ==
  ASSUME IInv, NEW s \in Ids, Worker(s) \/ RuntimeFails(s) \/ WorkerPanics(s)
  PROVE  IInv'
<1>1. UNCHANGED task
  BY DEF Worker, WorkerStarts, Prepare, WorkerFails, WorkerBacksOff, WorkerRefused, WorkerRuns,
         RuntimeStops, RuntimeFails, WorkerEnds, WorkerMarksFailure, WorkerPanics
<1>2. /\ \E w \in WorkerStep : worker' = [worker EXCEPT ![s] = w]
      /\ Alive(s)
      /\ \E f \in Phase : /\ phase' = [phase EXCEPT ![s] = f]
                          /\ closing[s] /\ phase[s] # "Running" => f # "Running"
  <2>1. phase[s] \in Phase /\ phase = [phase EXCEPT ![s] = phase[s]]
    BY DEF IInv, TypeOK
  <2>2. /\ \E w \in WorkerStep : worker' = [worker EXCEPT ![s] = w]
        /\ Alive(s)
    BY DEF Worker, WorkerStarts, Prepare, WorkerFails, WorkerBacksOff, WorkerRefused, WorkerRuns,
           RuntimeStops, RuntimeFails, WorkerEnds, WorkerMarksFailure, WorkerPanics, AtWorker,
           WorkerStep, Alive
  <2>3. \/ phase' = phase
        \/ phase' = [phase EXCEPT ![s] = "Failed"]
        \/ phase' = [phase EXCEPT ![s] = IF closing[s] THEN @ ELSE "Failed"]
        \/ phase' = [phase EXCEPT ![s] = IF closing[s] THEN @ ELSE "Running"]
    BY DEF Worker, WorkerStarts, Prepare, WorkerFails, WorkerBacksOff, WorkerRefused, WorkerRuns,
           RuntimeStops, RuntimeFails, WorkerEnds, WorkerMarksFailure, WorkerPanics
  <2> QED
    BY <2>1, <2>2, <2>3 DEF Phase
<1>3. TypeOK'
  BY <1>1, <1>2 DEF IInv, TypeOK, task
<1>4. ASSUME NEW t \in Ids PROVE SessionSafe(t)'
  <2>1. SessionSafe(t)
    BY DEF IInv
  <2>2. t # s => worker'[t] = worker[t] /\ phase'[t] = phase[t]
    BY <1>2 DEF IInv, TypeOK
  <2>3. /\ closing[s] /\ phase[s] # "Running" => phase'[s] # "Running"
        /\ worker[s] # "none" /\ worker[s] # "joined"
    BY <1>2 DEF IInv, TypeOK, Alive
  <2> QED
    BY <1>1, <1>2, <2>1, <2>2, <2>3 DEF SessionSafe, Alive, task
<1>5. \A c \in Callers : CallSafe(c)'
  BY <1>1 DEF IInv, CallSafe, Exclusive, Listed, task
<1>6. ShutdownSafe'
  BY <1>1 DEF IInv, ShutdownSafe, Listed, task
<1> QED
  BY <1>3, <1>4, <1>5, <1>6 DEF IInv

(* A stop begins, or its connection is cut off.                             *)
LEMMA BeginStep ==
  ASSUME IInv, NEW s \in Ids, Close(s) \/ Expire(s) \/ CloseCancelled(s)
  PROVE  IInv'
<1>1. PICK p \in {"client", "janitor"}, st \in {"drain", "idle"} :
        /\ stopper' = [stopper EXCEPT ![p][s] = st]
        /\ st = "drain" => closing' = [closing EXCEPT ![s] = TRUE]
        /\ st = "idle" => closing' = closing
        /\ UNCHANGED <<life, registry, phase, signal, worker, shutdown>>
  BY DEF Close, Expire, CloseCancelled, AtStop
<1>2. \A q \in Stoppers, t \in Ids :
        stopper'[q][t] = IF q = p /\ t = s THEN st ELSE stopper[q][t]
  BY <1>1 DEF IInv, TypeOK, Stoppers
<1>3. \A t \in Ids : closing[t] => closing'[t]
  BY <1>1 DEF IInv, TypeOK
<1>4. st = "drain" => closing'[s]
  BY <1>1 DEF IInv, TypeOK
<1>5. TypeOK'
  BY <1>1 DEF IInv, TypeOK, StopStep, Stoppers, life
<1>6. ASSUME NEW t \in Ids PROVE SessionSafe(t)'
  <2>1. SessionSafe(t)
    BY DEF IInv
  <2> QED
    BY <1>1, <1>2, <1>3, <1>4, <2>1 DEF SessionSafe, Alive, life
<1>7. ASSUME NEW c \in Callers PROVE CallSafe(c)'
  BY <1>1, <1>2 DEF IInv, CallSafe, Exclusive, Listed, life
<1>8. ShutdownSafe'
  BY <1>1, <1>2 DEF IInv, ShutdownSafe, Listed, Stoppers
<1> QED
  BY <1>5, <1>6, <1>7, <1>8 DEF IInv

(* A stop holds the lock only when no call does.                            *)
LEMMA DrainStep ==
  ASSUME IInv, NEW p \in Stoppers, NEW s \in Ids, Drain(p, s)
  PROVE  IInv'
<1>1. \A q \in Stoppers, t \in Ids :
        stopper'[q][t] = IF q = p /\ t = s THEN "drained" ELSE stopper[q][t]
  BY DEF IInv, TypeOK, Drain, AtStop
<1>2. TypeOK'
  BY DEF IInv, TypeOK, Drain, AtStop, StopStep, life
<1>3. ASSUME NEW t \in Ids PROVE SessionSafe(t)'
  <2>1. SessionSafe(t)
    BY DEF IInv
  <2> QED
    BY <1>1, <2>1 DEF SessionSafe, Alive, Drain, life
<1>4. ASSUME NEW c \in Callers PROVE CallSafe(c)'
  <2>1. CallSafe(c)
    BY DEF IInv
  <2>2. call[c].session = s => call[c].step \in {"idle", "waiting"}
    BY DEF Drain, Readers
  <2> QED
    BY <1>1, <2>1, <2>2 DEF CallSafe, Exclusive, Listed, Drain, life
<1>5. ShutdownSafe'
  BY <1>1 DEF IInv, ShutdownSafe, Listed, Drain, Stoppers
<1> QED
  BY <1>2, <1>3, <1>4, <1>5 DEF IInv

(* The worker is told under the lock, so no call is being carried out.      *)
LEMMA DismissStep ==
  ASSUME IInv, NEW p \in Stoppers, NEW s \in Ids, Dismiss(p, s)
  PROVE  IInv'
<1>1. \A q \in Stoppers, t \in Ids :
        stopper'[q][t] = IF q = p /\ t = s THEN "join" ELSE stopper[q][t]
  BY DEF IInv, TypeOK, Dismiss, AtStop
<1>2. \A t \in Ids : /\ signal'[t] <=> signal[t] \/ t = s
                     /\ phase'[t] = IF t = s THEN "Closed" ELSE phase[t]
  BY DEF IInv, TypeOK, Dismiss
<1>3. TypeOK'
  BY DEF IInv, TypeOK, Dismiss, AtStop, StopStep, Phase, life
<1>4. ASSUME NEW t \in Ids PROVE SessionSafe(t)'
  <2>1. SessionSafe(t)
    BY DEF IInv
  <2>2. stopper[p][s] = "drained" /\ (t = s => closing[t])
    BY <2>1 DEF Dismiss, SessionSafe
  <2>3. ASSUME NEW q \in Stoppers
        PROVE  /\ stopper'[q][t] # "idle" => closing'[t]
               /\ stopper'[q][t] \in {"join", "stopped"} => signal'[t]
               /\ stopper'[q][t] = "stopped" => worker'[t] = "joined"
    BY <1>1, <1>2, <2>1, <2>2 DEF SessionSafe, Dismiss
  <2> QED
    BY <1>2, <2>1, <2>2, <2>3 DEF SessionSafe, Alive, Dismiss, life
<1>5. ASSUME NEW c \in Callers PROVE CallSafe(c)'
  <2>1. CallSafe(c)
    BY DEF IInv
  <2>2. Exclusive(s)
    BY DEF Dismiss, Exclusive
  <2>3. \A t \in Ids : Exclusive(t)' => Exclusive(t)
    BY <1>1, <2>2 DEF Exclusive
  <2> QED
    BY <1>2, <2>1, <2>2, <2>3 DEF CallSafe, Listed, Dismiss, life
<1>6. ShutdownSafe'
  BY <1>1 DEF IInv, ShutdownSafe, Listed, Dismiss, Stoppers
<1> QED
  BY <1>3, <1>4, <1>5, <1>6 DEF IInv

(* A stop is done with a worker only when it has ended.                     *)
LEMMA JoinStep ==
  ASSUME IInv, NEW p \in Stoppers, NEW s \in Ids, Join(p, s) \/ JoinPanicked(p, s)
  PROVE  IInv'
<1>1. PICK st \in {"stopped", "idle"} :
        /\ stopper' = [stopper EXCEPT ![p][s] = st]
        /\ p = "shutdown" => st = "stopped"
  BY DEF Join, JoinPanicked, AtStop
<1>2. /\ stopper[p][s] = "join"
      /\ worker[s] \in {"done", "joined", "panicked"}
      /\ worker' = [worker EXCEPT ![s] = "joined"]
      /\ UNCHANGED <<life, registry, closing, phase, signal, shutdown>>
  BY DEF Join, JoinPanicked
<1>3. \A q \in Stoppers, t \in Ids :
        stopper'[q][t] = IF q = p /\ t = s THEN st ELSE stopper[q][t]
  BY <1>1 DEF IInv, TypeOK
<1>4. \A t \in Ids : worker'[t] = IF t = s THEN "joined" ELSE worker[t]
  BY <1>2 DEF IInv, TypeOK
<1>5. TypeOK'
  BY <1>1, <1>2 DEF IInv, TypeOK, StopStep, WorkerStep, life
<1>6. ASSUME NEW t \in Ids PROVE SessionSafe(t)'
  <2>1. SessionSafe(t)
    BY DEF IInv
  <2> QED
    BY <1>2, <1>3, <1>4, <2>1 DEF SessionSafe, Alive, life
<1>7. ASSUME NEW c \in Callers PROVE CallSafe(c)'
  BY <1>2, <1>3 DEF IInv, CallSafe, Exclusive, Listed, life
<1>8. ShutdownSafe'
  BY <1>1, <1>2, <1>3 DEF IInv, ShutdownSafe, Listed, Stoppers
<1> QED
  BY <1>5, <1>6, <1>7, <1>8 DEF IInv

LEMMA RemoveStep ==
  ASSUME IInv, NEW p \in Stoppers, NEW s \in Ids, Remove(p, s)
  PROVE  IInv'
<1>1. \A q \in Stoppers, t \in Ids :
        stopper'[q][t] = IF q = p /\ t = s THEN "idle" ELSE stopper[q][t]
  BY DEF IInv, TypeOK, Remove, AtStop
<1>2. signal[s] /\ ~Alive(s)
  BY DEF IInv, SessionSafe, Alive, Remove
<1>3. /\ registry' \in [Keys -> Ids \cup {NoSession}]
      /\ \A t \in Listed : t \in Listed' \/ signal[t]
      /\ \A t \in Listed' : t \in Listed
      /\ \A t \in Ids : Alive(t) => registry'[key[t]] = t
  BY <1>2, ListedKept DEF Remove
<1>4. TypeOK'
  BY <1>3 DEF IInv, TypeOK, Remove, AtStop, StopStep, life
<1>5. ASSUME NEW t \in Ids PROVE SessionSafe(t)'
  <2>1. SessionSafe(t)
    BY DEF IInv
  <2>2. ASSUME NEW q \in Stoppers
        PROVE  /\ stopper'[q][t] # "idle" => closing'[t]
               /\ stopper'[q][t] \in {"join", "stopped"} => signal'[t]
               /\ stopper'[q][t] = "stopped" => worker'[t] = "joined"
    BY <1>1, <2>1 DEF SessionSafe, Remove
  <2> QED
    BY <1>3, <2>1, <2>2 DEF SessionSafe, Alive, Remove, life
<1>6. ASSUME NEW c \in Callers PROVE CallSafe(c)'
  <2>1. CallSafe(c)
    BY DEF IInv
  <2>2. \A t \in Ids : Exclusive(t)' => Exclusive(t)
    BY <1>1 DEF Exclusive
  <2> QED
    BY <1>3, <2>1, <2>2 DEF CallSafe, Remove, life
<1>7. ShutdownSafe'
  BY <1>1, <1>3 DEF IInv, ShutdownSafe, Remove, Stoppers, Listed
<1> QED
  BY <1>4, <1>5, <1>6, <1>7 DEF IInv

LEMMA ShutdownStopsStep ==
  ASSUME IInv, ShutdownStops
  PROVE  IInv'
<1>1. \A q \in Stoppers, t \in Ids :
        stopper'[q][t] = IF q # "shutdown" THEN stopper[q][t]
                         ELSE IF t \in Listed THEN "drain" ELSE "idle"
  BY DEF IInv, TypeOK, ShutdownStops, Stoppers
<1>2. \A t \in Ids : closing'[t] <=> closing[t] \/ t \in Listed
  BY DEF ShutdownStops
<1>3. Listed' = Listed /\ Listed \subseteq Ids
  BY DEF ShutdownStops, Listed
<1>4. TypeOK'
  BY <1>3 DEF IInv, TypeOK, ShutdownStops, StopStep, Stoppers, life
<1>5. ASSUME NEW t \in Ids PROVE SessionSafe(t)'
  <2>1. SessionSafe(t)
    BY DEF IInv
  <2>2. ASSUME NEW q \in Stoppers
        PROVE  /\ stopper'[q][t] # "idle" => closing'[t]
               /\ stopper'[q][t] \in {"join", "stopped"} => signal'[t]
               /\ stopper'[q][t] = "stopped" => worker'[t] = "joined"
    BY <1>1, <1>2, <2>1 DEF SessionSafe, ShutdownStops
  <2> QED
    BY <1>2, <2>1, <2>2 DEF SessionSafe, Alive, ShutdownStops, life
<1>6. ASSUME NEW c \in Callers PROVE CallSafe(c)'
  <2>1. CallSafe(c)
    BY DEF IInv
  <2>2. \A t \in Ids : Exclusive(t)' => Exclusive(t)
    BY <1>1 DEF Exclusive
  <2> QED
    BY <1>3, <2>1, <2>2 DEF CallSafe, ShutdownStops, life
<1>7. ShutdownSafe'
  BY <1>1, <1>3 DEF ShutdownSafe, ShutdownStops, Stoppers
<1> QED
  BY <1>4, <1>5, <1>6, <1>7 DEF IInv

(* Every listed session is in the shutdown's hands, so when all its stops   *)
(* are done none stays listed.                                              *)
LEMMA ShutdownEndsStep ==
  ASSUME IInv, ShutdownEnds
  PROVE  IInv'
<1> DEFINE S == {s \in Ids : stopper["shutdown"][s] = "stopped"}
<1>1. \A s \in S : signal[s] /\ ~Alive(s)
  BY DEF IInv, SessionSafe, Alive, Stoppers
<1>2. registry' = Unlisted(S)
  BY DEF ShutdownEnds
<1>3. S \in SUBSET Ids
  OBVIOUS
<1> HIDE DEF S
<1>4. /\ registry' \in [Keys -> Ids \cup {NoSession}]
      /\ \A t \in Listed : t \in Listed' \/ signal[t]
      /\ \A t \in Listed' : t \in Listed /\ t \notin S
      /\ \A t \in Ids : Alive(t) => registry'[key[t]] = t
  BY <1>1, <1>2, <1>3, ListedKept
<1>5. Listed \subseteq S
  BY DEF IInv, ShutdownSafe, ShutdownEnds, S, Listed
<1>6. TypeOK'
  BY <1>4 DEF IInv, TypeOK, ShutdownEnds, life
<1>7. ASSUME NEW t \in Ids PROVE SessionSafe(t)'
  BY <1>4 DEF IInv, SessionSafe, Alive, ShutdownEnds, life
<1>8. ASSUME NEW c \in Callers PROVE CallSafe(c)'
  BY <1>4 DEF IInv, CallSafe, Exclusive, ShutdownEnds, life
<1>9. ShutdownSafe'
  BY <1>4, <1>5 DEF ShutdownSafe, ShutdownEnds
<1> QED
  BY <1>6, <1>7, <1>8, <1>9 DEF IInv

LEMMA ShutdownBeginsStep ==
  ASSUME IInv, ShutdownBegins
  PROVE  IInv'
<1>1. TypeOK'
  BY DEF IInv, TypeOK, ShutdownBegins, life
<1>2. /\ \A t \in Ids : SessionSafe(t)'
      /\ \A c \in Callers : CallSafe(c)'
      /\ ShutdownSafe'
  BY DEF IInv, SessionSafe, Alive, CallSafe, Exclusive, ShutdownSafe, Listed, ShutdownBegins, life
<1> QED
  BY <1>1, <1>2 DEF IInv

LEMMA StutterStep ==
  ASSUME IInv, UNCHANGED vars
  PROVE  IInv'
<1>1. TypeOK'
  BY DEF IInv, TypeOK, vars
<1>2. /\ \A t \in Ids : SessionSafe(t)'
      /\ \A c \in Callers : CallSafe(c)'
      /\ ShutdownSafe'
  BY DEF IInv, SessionSafe, Alive, CallSafe, Exclusive, ShutdownSafe, Listed, vars
<1> QED
  BY <1>1, <1>2 DEF IInv

-----------------------------------------------------------------------------
(* The inductive invariant of the registry.                                 *)
THEOREM AlwaysIInv == Spec => []IInv
<1>1. IInv /\ [Next]_vars => IInv'
  <2> SUFFICES ASSUME IInv, [Next]_vars PROVE IInv'
    OBVIOUS
  <2>1. ASSUME NEW k \in Keys, Open(k) PROVE IInv'
    BY <2>1, OpenStep
  <2>2. ASSUME NEW c \in Callers,
               \/ \E s \in Ids : Call(c, s)
               \/ LockCalls(c) \/ Touch(c) \/ Admit(c) \/ Dispatch(c) \/ Answer(c) \/ Disconnect(c)
        PROVE  IInv'
    BY <2>2, CallStepSafe
  <2>3. ASSUME NEW s \in Ids, IdleTimePasses(s) PROVE IInv'
    BY <2>3, IdleStep
  <2>4. ASSUME NEW s \in Ids, Worker(s) \/ RuntimeFails(s) \/ WorkerPanics(s) PROVE IInv'
    BY <2>4, WorkerStepSafe
  <2>5. ASSUME NEW s \in Ids, Close(s) \/ Expire(s) \/ CloseCancelled(s) PROVE IInv'
    BY <2>5, BeginStep
  <2>6. ASSUME NEW s \in Ids, NEW p \in Stoppers, Stop(p, s) PROVE IInv'
    BY <2>6, DrainStep, DismissStep, JoinStep, RemoveStep DEF Stop
  <2>7. CASE ShutdownBegins \/ ShutdownStops \/ ShutdownEnds
    BY <2>7, ShutdownBeginsStep, ShutdownStopsStep, ShutdownEndsStep
  <2>8. CASE UNCHANGED vars
    BY <2>8, StutterStep
  <2> QED
    BY <2>1, <2>2, <2>3, <2>4, <2>5, <2>6, <2>7, <2>8 DEF Next
<1> QED
  BY InitIInv, <1>1, PTL DEF Spec

(* The registry, workers, calls and stops keep their types.                 *)
THEOREM Typing == Spec => []TypeOK
<1>1. IInv => TypeOK
  BY DEF IInv
<1> QED
  BY AlwaysIInv, <1>1, PTL

(* open inserts into the map under its mutex and only where no session is,  *)
(* and only a stop that has joined the worker takes a session out: however  *)
(* closes, expiry, aborts and panics interleave, no two workers of one key  *)
(* overlap.                                                                 *)
THEOREM WorkersExclusive == Spec => []OneWorkerPerKey
<1>1. IInv => OneWorkerPerKey
  BY DEF IInv, SessionSafe, OneWorkerPerKey
<1> QED
  BY AlwaysIInv, <1>1, PTL

(* stop tells the worker only with the calls lock held exclusively and the  *)
(* phase taken away: from then on no call of the session is carried out.    *)
THEOREM CallsDrained == Spec => []NoCallAfterDrain
<1>1. IInv => NoCallAfterDrain
  BY DEF IInv, CallSafe, NoCallAfterDrain
<1> QED
  BY AlwaysIInv, <1>1, PTL

(* shutdown stops every session that is listed once opens are refused: when *)
(* it returns, no session, worker or call is left.                          *)
THEOREM ShutdownIsClean == Spec => []NothingSurvivesShutdown
<1>1. IInv => NothingSurvivesShutdown
  <2> SUFFICES ASSUME IInv, shutdown = "done"
               PROVE  /\ Listed = {}
                      /\ \A s \in Ids : ~Alive(s)
                      /\ \A c \in Callers : call[c].step # "dispatch"
    BY DEF NothingSurvivesShutdown
  <2>1. Listed = {}
    BY DEF IInv, ShutdownSafe
  <2>2. ASSUME NEW s \in Ids, Alive(s) PROVE FALSE
    BY <2>1, <2>2 DEF IInv, SessionSafe, TypeOK, Listed
  <2>3. ASSUME NEW c \in Callers, call[c].step = "dispatch" PROVE FALSE
    BY <2>1, <2>3 DEF IInv, CallSafe
  <2> QED
    BY <2>1, <2>2, <2>3
<1> QED
  BY AlwaysIInv, <1>1, PTL
=============================================================================
