---------------------- MODULE ReceptionDeliveryProofs ----------------------
(***************************************************************************)
(* Theorems about background reception, for any number of messages, runs,  *)
(* submissions and revocations: those of the first half for any number of  *)
(* computers, those about the history of the room for one computer.        *)
(***************************************************************************)
EXTENDS ReceptionDelivery, ReceptionRecordProofs

(* Receiver states that can be reported to the server: a delivery that is   *)
(* pending or to be retried has a submission id.                            *)
Reportable ==
  {s \in ReceiverState : s.pending \/ s.stage = "Received" => s.sub # 0}

Shapes == file \in [Devices -> Reportable] /\ mem \in [Devices -> Reportable]

(* The steps between a granted claim and the close of the session.          *)
Executing ==
  {"SaveResolution", "Poll", "SavePending", "Host", "Verify", "Acknowledge", "SaveOutcome"}

RunKnown == \A d \in Devices : pc[d] \in Executing => mem[d].run # 0

BatchPending ==
  \A d \in Devices :
    /\ pc[d] \in {"SavePending", "Host"} => mem[d].pending
    /\ pc[d] = "Acknowledge" => ~mem[d].pending

(* A computer between claim and close is the record's executor, and the     *)
(* record is not free.                                                      *)
ExecutorsOwn ==
  \A d \in Devices \ cutoff :
    pc[d] \in Executing => record.owner = Execution(d) /\ record.mode # "Idle"

HostReported ==
  \A d \in Devices \ cutoff : pc[d] = "Host" => record.progress = ProgressOf(mem[d])

Ownership == RunKnown /\ BatchPending /\ ExecutorsOwn /\ HostReported

IInv == TypeOK /\ Shapes /\ Ownership

-----------------------------------------------------------------------------
(* What the operators on receiver states return.                            *)

(* Positions, runs and submissions are numbers; zero is a position and no   *)
(* id.                                                                      *)
LEMMA Domains ==
  /\ Events = 0..MaxMessages /\ Runs = 1..MaxRuns /\ Submissions = 1..MaxSubmissions
  /\ MaxMessages \in Nat /\ MaxRuns \in Nat /\ MaxSubmissions \in Nat
  /\ 0 \in Events /\ 0 \notin Runs /\ 0 \notin Submissions
BY DomainsAssumption

(* A freshly configured receiver has nothing to report.                     *)
LEMMA ConfiguredReportable == Configured \in Reportable
BY Domains DEF Configured, Reportable, ReceiverState, Stage

(* What a reportable state tells the server is a well-formed progress.      *)
LEMMA ProgressReported ==
  ASSUME NEW s \in Reportable
  PROVE  ProgressOf(s) \in Progress
<1>1. s.pending \/ s.stage = "Received" => DeliveryOf(s) \in Delivery
  BY DEF Reportable, ReceiverState, DeliveryOf, Delivery
<1>2. s.after \in Events
  BY DEF Reportable, ReceiverState
<1> QED
  BY <1>1, <1>2 DEF ProgressOf, Progress

(* Forgetting a delivery that is not pending leaves a reportable state.     *)
LEMMA FinishedReportable ==
  ASSUME NEW s \in ReceiverState, ~s.pending
  PROVE  Finished(s) \in Reportable /\ Finished(s).run = s.run /\ ~Finished(s).pending
<1> DEFINE f == Finished(s)
<1>1. f \in ReceiverState /\ f.stage = "NoDelivery"
  BY Domains DEF Finished, ReceiverState, Stage
<1>2. f.run = s.run /\ f.pending = s.pending
  BY DEF Finished, ReceiverState
<1> QED
  BY <1>1, <1>2 DEF Reportable

(* Completing the checkpoint ends the pending delivery and keeps the run.   *)
LEMMA CompletedReportable ==
  ASSUME NEW s \in Reportable
  PROVE  Completed(s) \in Reportable /\ Completed(s).run = s.run /\ ~Completed(s).pending
<1> DEFINE c == Completed(s)
<1>1. /\ c \in ReceiverState /\ c.stage = s.stage /\ c.sub = s.sub
      /\ c.pending = FALSE /\ c.run = s.run
  BY DEF Completed, Reportable, ReceiverState
<1>2. s.stage = "Received" => s.sub # 0
  BY DEF Reportable
<1> QED
  BY <1>1, <1>2 DEF Reportable

(* A state that takes over a delivery of the server has its submission id.  *)
LEMMA WithDeliveryReportable ==
  ASSUME NEW s \in ReceiverState, NEW d, d.event \in Events, d.sub \in Submissions,
         NEW stage \in Stage
  PROVE  /\ WithDelivery(s, d, stage) \in Reportable
         /\ WithDelivery(s, d, stage).run = s.run
         /\ WithDelivery(s, d, stage).pending = s.pending
<1> DEFINE w == WithDelivery(s, d, stage)
<1>1. w \in ReceiverState /\ w.sub = d.sub
  BY DEF WithDelivery, ReceiverState
<1>2. w.run = s.run /\ w.pending = s.pending
  BY DEF WithDelivery, ReceiverState
<1>3. w.sub # 0
  BY <1>1, Domains
<1> QED
  BY <1>1, <1>2, <1>3 DEF Reportable

(* restore keeps the run and is pending exactly if the server is.           *)
LEMMA RestoreReportable ==
  ASSUME NEW s \in Reportable, NEW p \in Progress
  PROVE  /\ Restore(s, p) \in Reportable
         /\ Restore(s, p).run = s.run
         /\ Restore(s, p).pending <=> p.pending # None
<1> DEFINE at == [s EXCEPT !.after = p.after, !.pending = p.pending # None]
<1>1. /\ at \in ReceiverState /\ at.run = s.run /\ at.stage = s.stage /\ at.sub = s.sub
      /\ at.pending = (p.pending # None)
  BY DEF Reportable, ReceiverState, Progress
<1> HIDE DEF at
<1>2. CASE p.pending # None
  <2>1. p.pending \in Delivery
    BY <1>2 DEF Progress
  <2>2. p.pending.event \in Events /\ p.pending.sub \in Submissions
    BY <2>1 DEF Delivery
  <2>3. Restore(s, p) = WithDelivery(at, p.pending, "Uncertain")
    BY <1>2 DEF Restore, at
  <2>4. Restore(s, p) \in Reportable
    BY <1>1, <2>2, <2>3, WithDeliveryReportable DEF Stage
  <2>5. Restore(s, p).run = at.run /\ Restore(s, p).pending = at.pending
    BY <1>1, <2>2, <2>3, WithDeliveryReportable DEF Stage
  <2> QED
    BY <1>1, <1>2, <2>4, <2>5
<1>3. CASE p.pending = None /\ p.retry # None
  <2>1. p.retry \in Delivery
    BY <1>3 DEF Progress
  <2>2. p.retry.event \in Events /\ p.retry.sub \in Submissions
    BY <2>1 DEF Delivery
  <2>3. Restore(s, p) = WithDelivery(at, p.retry, "Received")
    BY <1>3 DEF Restore, at
  <2>4. Restore(s, p) \in Reportable
    BY <1>1, <2>2, <2>3, WithDeliveryReportable DEF Stage
  <2>5. Restore(s, p).run = at.run /\ Restore(s, p).pending = at.pending
    BY <1>1, <2>2, <2>3, WithDeliveryReportable DEF Stage
  <2> QED
    BY <1>1, <1>3, <2>4, <2>5
<1>4. CASE p.pending = None /\ p.retry = None /\ s.stage = "Skipped"
  <2>1. Restore(s, p) = at
    BY <1>4 DEF Restore, at
  <2> QED
    BY <1>1, <1>4, <2>1 DEF Reportable
<1>5. CASE p.pending = None /\ p.retry = None /\ s.stage # "Skipped"
  <2>1. Restore(s, p) = Finished(at)
    BY <1>5 DEF Restore, at
  <2> QED
    BY <1>1, <1>5, <2>1, FinishedReportable
<1> QED
  BY <1>2, <1>3, <1>4, <1>5

-----------------------------------------------------------------------------
(* Steps that leave the record alone.                                       *)

(* What a step of d that neither asks the server for anything nor starts a  *)
(* host does to the control state.                                          *)
Local(d) ==
  /\ UNCHANGED <<record, revoked, cutoff>>
  /\ \A e \in Devices \ {d} : pc'[e] = pc[e] /\ mem'[e] = mem[e]
  /\ pc'[d] \in Executing => pc[d] \in Executing /\ mem'[d].run = mem[d].run
  /\ pc'[d] # "Host"
  /\ pc'[d] = "SavePending" => mem'[d].pending
  /\ pc'[d] = "Acknowledge" => ~mem'[d].pending

(* A local step does not disturb who executes.                              *)
LEMMA LocalKeepsOwnership ==
  ASSUME NEW d \in Devices, Ownership, Local(d)
  PROVE  Ownership'
<1>1. RunKnown'
  BY DEF Ownership, RunKnown, Local
<1>2. BatchPending'
  BY DEF Ownership, BatchPending, Local
<1>3. ExecutorsOwn'
  BY DEF Ownership, ExecutorsOwn, Local, Execution
<1>4. HostReported'
  <2> SUFFICES ASSUME NEW e \in Devices \ cutoff', pc'[e] = "Host"
               PROVE  record'.progress = ProgressOf(mem'[e])
    BY DEF HostReported
  <2> QED
    BY DEF Ownership, HostReported, Local
<1> QED
  BY <1>1, <1>2, <1>3, <1>4 DEF Ownership

(* A step of the room or the Bridge does not disturb who executes.          *)
LEMMA UnchangedKeepsOwnership ==
  ASSUME Ownership, UNCHANGED <<record, revoked, cutoff, mem, pc>>
  PROVE  Ownership'
BY DEF Ownership, RunKnown, BatchPending, ExecutorsOwn, HostReported, Execution

(* Storing a reportable state keeps the shapes.                             *)
LEMMA StoreShapes ==
  ASSUME NEW d \in Devices, NEW s \in Reportable, Shapes,
         Store(d, s) \/ Remember(d, s)
  PROVE  /\ Shapes'
         /\ file' \in [Devices -> ReceiverState] /\ mem' \in [Devices -> ReceiverState]
         /\ mem'[d] = s
         /\ \A e \in Devices \ {d} : mem'[e] = mem[e]
BY DEF Store, Remember, Shapes, Reportable

(* Moving one receiver on leaves the others' places alone.                  *)
LEMMA GotoSteps ==
  ASSUME NEW d \in Devices, NEW step \in Step, pc \in [Devices -> Step], Goto(d, step)
  PROVE  /\ pc' \in [Devices -> Step]
         /\ pc'[d] = step
         /\ \A e \in Devices \ {d} : pc'[e] = pc[e]
BY DEF Goto

(* A process that ends loses its memory and nothing else.                   *)
LEMMA ExitSteps ==
  ASSUME NEW d \in Devices, Exit(d), TypeOK, Shapes
  PROVE  /\ pc' \in [Devices -> Step]
         /\ mem' \in [Devices -> Reportable] /\ mem' \in [Devices -> ReceiverState]
         /\ pc'[d] = "Off"
         /\ \A e \in Devices \ {d} : pc'[e] = pc[e] /\ mem'[e] = mem[e]
BY ConfiguredReportable DEF Exit, Goto, TypeOK, Shapes, Step, Reportable

(* A local step that only moves the receiver and its state on.              *)
LEMMA LocalStep ==
  ASSUME NEW d \in Devices, IInv, Local(d), Shapes', pc' \in [Devices -> Step],
         UNCHANGED <<bridge, lastRun, lastSub, history>>
  PROVE  IInv'
<1>1. TypeOK'
  BY DEF IInv, TypeOK, Shapes, Reportable, Local, bridge, history
<1>2. Ownership'
  BY LocalKeepsOwnership DEF IInv
<1> QED
  BY <1>1, <1>2 DEF IInv

(* The parts of the invariant that give a variable its type.                *)
LEMMA Typed ==
  ASSUME IInv
  PROVE  /\ record \in Record /\ pc \in [Devices -> Step] /\ Shapes
         /\ \A d \in Devices : mem[d] \in Reportable /\ file[d] \in Reportable
         /\ \A d \in Devices : mem[d] \in ReceiverState /\ file[d] \in ReceiverState
         /\ file \in [Devices -> ReceiverState] /\ mem \in [Devices -> ReceiverState]
BY DEF IInv, TypeOK, Shapes

(* Starting, connecting, being refused, closing, crashing.                  *)
LEMMA ControlSteps ==
  ASSUME IInv, NEW d \in Devices,
         \/ OpenSession(d) \/ SaveRefused(d) \/ Interrupt(d) \/ CloseSession(d)
  PROVE  IInv'
<1>1. Shapes'
  BY Typed DEF Shapes, OpenSession, SaveRefused, Interrupt, CloseSession
<1>2. \E step \in {"Claim", "Open", "Reclose", "Close", "Release"} : Goto(d, step)
  BY DEF OpenSession, SaveRefused, Interrupt, CloseSession, GotoFailure
<1>3. PICK step \in {"Claim", "Open", "Reclose", "Close", "Release"} : Goto(d, step)
  BY <1>2
<1>4. step \in Step
  BY <1>3 DEF Step
<1>5. pc' \in [Devices -> Step] /\ pc'[d] = step /\ \A e \in Devices \ {d} : pc'[e] = pc[e]
  BY <1>3, <1>4, GotoSteps, Typed
<1>6. mem' = mem /\ UNCHANGED <<record, revoked, cutoff, bridge, lastRun, lastSub, history>>
  BY DEF OpenSession, SaveRefused, Interrupt, CloseSession, server
<1>7. Local(d)
  BY <1>3, <1>5, <1>6 DEF Local, Executing
<1> QED
  BY <1>1, <1>5, <1>6, <1>7, LocalStep

(* Starting a receiver reads its file.                                      *)
LEMMA StartStep ==
  ASSUME IInv, NEW d \in Devices, Start(d)
  PROVE  IInv'
<1>1. Shapes'
  BY Typed DEF Start, Shapes
<1>2. /\ pc' \in [Devices -> Step] /\ pc'[d] \in {"FirstRelease", "Open"}
      /\ \A e \in Devices \ {d} : pc'[e] = pc[e] /\ mem'[e] = mem[e]
  BY Typed DEF Start, Goto, Step
<1>3. UNCHANGED <<record, revoked, cutoff, bridge, lastRun, lastSub, history>>
  BY DEF Start, server
<1>4. Local(d)
  BY <1>2, <1>3 DEF Local, Executing
<1> QED
  BY <1>1, <1>2, <1>3, <1>4, LocalStep

(* A crash, or a close or release that ends the run.                        *)
LEMMA ExitStep ==
  ASSUME IInv, NEW d \in Devices, Crash(d) \/ NothingToRelease(d) \/ CloseFailed(d)
  PROVE  IInv'
<1>1. UNCHANGED <<record, revoked, cutoff, file, bridge, lastRun, lastSub, history>>
  BY DEF Crash, NothingToRelease, CloseFailed, server
<1>2. CASE Exit(d)
  <2>1. /\ pc' \in [Devices -> Step] /\ mem' \in [Devices -> Reportable] /\ pc'[d] = "Off"
        /\ \A e \in Devices \ {d} : pc'[e] = pc[e] /\ mem'[e] = mem[e]
    BY <1>2, ExitSteps DEF IInv
  <2>2. Local(d) /\ Shapes'
    BY <1>1, <2>1, Typed DEF Local, Executing, Shapes
  <2> QED
    BY <1>1, <2>1, <2>2, LocalStep
<1>3. CASE Goto(d, "Close") /\ mem' = mem
  <2>1. /\ pc' \in [Devices -> Step] /\ pc'[d] = "Close"
        /\ \A e \in Devices \ {d} : pc'[e] = pc[e]
    BY <1>3, Typed, GotoSteps DEF Step
  <2>2. Local(d) /\ Shapes'
    BY <1>1, <1>3, <2>1, Typed DEF Local, Executing, Shapes
  <2> QED
    BY <1>1, <2>1, <2>2, LocalStep
<1> QED
  BY <1>2, <1>3 DEF Crash, NothingToRelease, CloseFailed

(* A refused claim forgets the run.                                         *)
LEMMA ClaimRefusedStep ==
  ASSUME IInv, NEW d \in Devices, ClaimRefused(d)
  PROVE  IInv'
<1> DEFINE s == [mem[d] EXCEPT !.run = 0, !.revision = 0, !.releasing = FALSE]
<1>1. s \in ReceiverState /\ s.pending = mem[d].pending /\ s.stage = mem[d].stage /\ s.sub = mem[d].sub
  BY Typed, Domains DEF ReceiverState
<1>2. s \in Reportable
  BY <1>1, Typed DEF Reportable
<1>3. Store(d, s) /\ Goto(d, "Close")
  BY DEF ClaimRefused
<1> HIDE DEF s
<1>4. Shapes' /\ \A e \in Devices \ {d} : mem'[e] = mem[e]
  BY <1>2, <1>3, Typed, StoreShapes
<1>5. pc' \in [Devices -> Step] /\ pc'[d] = "Close" /\ \A e \in Devices \ {d} : pc'[e] = pc[e]
  BY <1>3, Typed, GotoSteps DEF Step
<1>6. UNCHANGED <<record, revoked, cutoff, bridge, lastRun, lastSub, history>>
  BY DEF ClaimRefused, server
<1>7. Local(d)
  BY <1>4, <1>5, <1>6 DEF Local, Executing
<1> QED
  BY <1>4, <1>5, <1>6, <1>7, LocalStep

(* The heartbeat finds the record draining.                                 *)
LEMMA HandoffStep ==
  ASSUME IInv, NEW d \in Devices, HandoffRequested(d)
  PROVE  IInv'
<1>1. Store(d, mem[d]) /\ Goto(d, "Close")
  BY DEF HandoffRequested
<1>2. Shapes' /\ \A e \in Devices \ {d} : mem'[e] = mem[e]
  BY <1>1, Typed, StoreShapes
<1>3. pc' \in [Devices -> Step] /\ pc'[d] = "Close" /\ \A e \in Devices \ {d} : pc'[e] = pc[e]
  BY <1>1, Typed, GotoSteps DEF Step
<1>4. UNCHANGED <<record, revoked, cutoff, bridge, lastRun, lastSub, history>>
  BY DEF HandoffRequested, server
<1>5. Local(d)
  BY <1>2, <1>3, <1>4 DEF Local, Executing
<1> QED
  BY <1>2, <1>3, <1>4, <1>5, LocalStep

-----------------------------------------------------------------------------
(* Delivering a batch.                                                      *)

(* A receiver that goes on executing with a changed state of the same run.  *)
LEMMA DeliveryStep ==
  ASSUME IInv, NEW d \in Devices, NEW s \in Reportable,
         NEW step \in {"Verify", "Acknowledge", "SaveOutcome", "Reclose", "Close"},
         Store(d, s) \/ Remember(d, s), Goto(d, step),
         step \in Executing => pc[d] \in Executing /\ s.run = mem[d].run,
         step = "Acknowledge" => ~s.pending,
         UNCHANGED <<record, revoked, cutoff, bridge, lastRun, lastSub, history>>
  PROVE  IInv'
<1>1. Shapes' /\ mem'[d] = s /\ \A e \in Devices \ {d} : mem'[e] = mem[e]
  BY Typed, StoreShapes
<1>2. pc' \in [Devices -> Step] /\ pc'[d] = step /\ \A e \in Devices \ {d} : pc'[e] = pc[e]
  BY Typed, GotoSteps DEF Step
<1>3. Local(d)
  BY <1>1, <1>2 DEF Local
<1> QED
  BY <1>1, <1>2, <1>3, LocalStep

(* The host stays silent, or the reply is found in the room.                *)
LEMMA CompletingSteps ==
  ASSUME IInv, NEW d \in Devices, HostSilent(d) \/ Confirm(d)
  PROVE  IInv'
<1>1. /\ Completed(mem[d]) \in Reportable /\ Completed(mem[d]).run = mem[d].run
      /\ ~Completed(mem[d]).pending
  BY Typed, CompletedReportable
<1>2. /\ Remember(d, Completed(mem[d])) /\ Goto(d, "Acknowledge") /\ pc[d] \in Executing
      /\ UNCHANGED <<record, revoked, cutoff, bridge, lastRun, lastSub, history>>
  BY DEF HostSilent, Confirm, Executing, server
<1> QED
  BY <1>1, <1>2, DeliveryStep

(* recover_previous finds the earlier attempt's reply.                      *)
LEMMA RecoverStep ==
  ASSUME IInv, NEW d \in Devices, RecoverPrevious(d)
  PROVE  IInv'
<1> DEFINE s == [mem[d] EXCEPT !.pending = TRUE]
<1>1. s \in ReceiverState /\ s.sub = mem[d].sub /\ s.run = mem[d].run
  BY Typed DEF ReceiverState
<1>2. mem[d].sub # 0
  BY Typed DEF RecoverPrevious, Reportable
<1>3. s \in Reportable
  BY <1>1, <1>2 DEF Reportable
<1>4. /\ Remember(d, s) /\ Goto(d, "Verify") /\ pc[d] \in Executing
      /\ UNCHANGED <<record, revoked, cutoff, bridge, lastRun, lastSub, history>>
  BY DEF RecoverPrevious, Executing, server
<1> HIDE DEF s
<1> QED
  BY <1>1, <1>3, <1>4, DeliveryStep

(* The reply is not found in time.                                          *)
LEMMA UnconfirmedStep ==
  ASSUME IInv, NEW d \in Devices, Unconfirmed(d)
  PROVE  IInv'
<1> DEFINE s == [mem[d] EXCEPT !.stage = "Uncertain"]
<1>1. /\ s \in ReceiverState /\ s.sub = mem[d].sub /\ s.pending = mem[d].pending
      /\ s.stage = "Uncertain"
  BY Typed DEF ReceiverState, Stage
<1>2. mem[d].pending => mem[d].sub # 0
  BY Typed DEF Reportable
<1>3. s \in Reportable
  BY <1>1, <1>2 DEF Reportable
<1>4. PICK step \in {"Reclose", "Close"} : Goto(d, step)
  BY DEF Unconfirmed, GotoFailure
<1>5. Store(d, s) /\ UNCHANGED <<record, revoked, cutoff, bridge, lastRun, lastSub, history>>
  BY DEF Unconfirmed, server
<1>6. step \notin Executing
  BY <1>4 DEF Executing
<1> HIDE DEF s
<1> QED
  BY <1>3, <1>4, <1>5, <1>6, DeliveryStep

(* The completed delivery is written down.                                  *)
LEMMA AcknowledgeStep ==
  ASSUME IInv, NEW d \in Devices, AcknowledgeInBridge(d)
  PROVE  IInv'
<1>1. ~mem[d].pending
  BY DEF AcknowledgeInBridge, IInv, Ownership, BatchPending
<1>2. Finished(mem[d]) \in Reportable /\ Finished(mem[d]).run = mem[d].run
  BY <1>1, Typed, FinishedReportable
<1>3. /\ Store(d, Finished(mem[d])) /\ Goto(d, "SaveOutcome") /\ pc[d] \in Executing
      /\ UNCHANGED <<record, revoked, cutoff, bridge, lastRun, lastSub, history>>
  BY DEF AcknowledgeInBridge, Executing, server
<1> QED
  BY <1>2, <1>3, DeliveryStep

(* The host replied or failed.                                              *)
LEMMA HostDoneStep ==
  ASSUME IInv, NEW d \in Devices, HostDone(d)
  PROVE  IInv'
<1>1. /\ Store(d, mem[d]) /\ Goto(d, "Verify") /\ pc[d] = "Host"
      /\ UNCHANGED <<record, revoked, cutoff, replies, arrived, seen, lastRun, lastSub, history>>
  BY DEF HostDone, server
<1>2. /\ Shapes' /\ mem'[d] = mem[d] /\ \A e \in Devices \ {d} : mem'[e] = mem[e]
      /\ file' \in [Devices -> ReceiverState] /\ mem' \in [Devices -> ReceiverState]
  BY <1>1, Typed, StoreShapes
<1>3. pc' \in [Devices -> Step] /\ pc'[d] = "Verify" /\ \A e \in Devices \ {d} : pc'[e] = pc[e]
  BY <1>1, Typed, GotoSteps DEF Step
<1>4. Ownership'
  BY <1>1, <1>2, <1>3, LocalKeepsOwnership DEF Local, Executing, IInv
<1>5. mem[d].run # 0 /\ mem[d].pending
  BY <1>1 DEF IInv, Ownership, RunKnown, BatchPending, Executing
<1>6. mem[d].run \in Runs /\ mem[d].sub \in Submissions
  BY <1>5, Typed DEF Reportable, ReceiverState
<1>7. Batch(mem[d]) \subseteq Events
  <2>1. mem[d].after \in 0..MaxMessages /\ mem[d].event \in 0..MaxMessages
    BY Typed, Domains DEF ReceiverState
  <2> QED
    BY <2>1, Domains DEF Batch
<1>8. [device |-> d, sub |-> mem[d].sub, run |-> mem[d].run, covers |-> Batch(mem[d]),
       authorized |-> FALSE] \in Send
  BY <1>6, <1>7 DEF Send
<1>9. calls' \subseteq Send
  BY <1>8 DEF HostDone, IInv, TypeOK
<1>10. TypeOK'
  BY <1>1, <1>2, <1>3, <1>9 DEF IInv, TypeOK, history
<1> QED
  BY <1>2, <1>4, <1>10 DEF IInv

(* begin_batch makes the batch pending, with a submission id.               *)
LEMMA BeginBatchStep ==
  ASSUME IInv, NEW d \in Devices, BeginBatch(d)
  PROVE  IInv'
<1>1. /\ Goto(d, "SavePending") /\ pc[d] = "Poll"
      /\ UNCHANGED <<record, revoked, cutoff, bridge, lastRun, shown, skipped>>
  BY DEF BeginBatch, server
<1>2. pc' \in [Devices -> Step] /\ pc'[d] = "SavePending" /\ \A e \in Devices \ {d} : pc'[e] = pc[e]
  BY <1>1, Typed, GotoSteps DEF Step
<1>3. seen[d] \in Events
  <2>1. seen[d] \in 0..arrived /\ arrived \in 0..MaxMessages
    BY Domains DEF IInv, TypeOK
  <2> QED
    BY <2>1, Domains
<1>4. \E s \in Reportable :
        /\ Store(d, s) /\ s.run = mem[d].run /\ s.pending
        /\ lastSub' \in 0..MaxSubmissions /\ licensed' \subseteq Submissions
  <2>1. CASE mem[d].stage = "Received"
    <3> DEFINE s == [mem[d] EXCEPT !.pending = TRUE, !.event = seen[d]]
    <3>1. s \in ReceiverState /\ s.sub = mem[d].sub /\ s.run = mem[d].run /\ s.pending
      BY <1>3, Typed DEF ReceiverState
    <3>2. mem[d].sub # 0
      BY <2>1, Typed DEF Reportable
    <3>3. s \in Reportable
      BY <3>1, <3>2 DEF Reportable
    <3>4. Store(d, s) /\ UNCHANGED <<lastSub, licensed>>
      BY <2>1 DEF BeginBatch
    <3> QED
      BY <3>1, <3>3, <3>4 DEF IInv, TypeOK
  <2>2. CASE mem[d].stage # "Received"
    <3> DEFINE s == [mem[d] EXCEPT !.pending = TRUE, !.event = seen[d],
                                   !.sub = lastSub', !.stage = "Received"]
    <3>1. lastSub' \in Submissions /\ lastSub' \in 0..MaxSubmissions /\ lastSub' # 0
      BY <2>2, Domains DEF BeginBatch, IInv, TypeOK
    <3>2. s \in ReceiverState /\ s.sub = lastSub' /\ s.run = mem[d].run /\ s.pending
      BY <1>3, <3>1, Typed DEF ReceiverState, Stage
    <3>3. s \in Reportable
      BY <3>1, <3>2 DEF Reportable
    <3>4. Store(d, s) /\ licensed' = licensed \cup {lastSub'}
      BY <2>2 DEF BeginBatch
    <3> QED
      BY <3>1, <3>2, <3>3, <3>4 DEF IInv, TypeOK
  <2> QED
    BY <2>1, <2>2
<1>5. PICK s \in Reportable :
        /\ Store(d, s) /\ s.run = mem[d].run /\ s.pending
        /\ lastSub' \in 0..MaxSubmissions /\ licensed' \subseteq Submissions
  BY <1>4
<1>6. /\ Shapes' /\ mem'[d] = s /\ \A e \in Devices \ {d} : mem'[e] = mem[e]
      /\ file' \in [Devices -> ReceiverState] /\ mem' \in [Devices -> ReceiverState]
  BY <1>5, Typed, StoreShapes
<1>7. Ownership'
  BY <1>1, <1>2, <1>5, <1>6, LocalKeepsOwnership DEF Local, Executing, IInv
<1>8. TypeOK'
  BY <1>1, <1>2, <1>5, <1>6 DEF IInv, TypeOK, bridge
<1> QED
  BY <1>6, <1>7, <1>8 DEF IInv

-----------------------------------------------------------------------------
(* Requests to the server.                                                  *)

(* While the record names d, no other computer that can still send is       *)
(* between claim and close.                                                 *)
LEMMA OwnerExecutesAlone ==
  ASSUME IInv, NEW d \in Devices, NEW run, record.owner = [device |-> d, run |-> run],
         NEW e \in (Devices \ cutoff) \ {d}
  PROVE  pc[e] \notin Executing
<1> SUFFICES ASSUME pc[e] \in Executing PROVE FALSE
  OBVIOUS
<1>1. record.owner = Execution(e)
  BY DEF IInv, Ownership, ExecutorsOwn
<1>2. Execution(e).device = e
  BY DEF Execution
<1> QED
  BY <1>1, <1>2

(* A granted claim leaves no other computer between claim and close: such a *)
(* one would still be the executor of a record that is not free.            *)
LEMMA ClaimExcludes ==
  ASSUME IInv, NEW d \in Devices, NEW run \in Runs,
         CanClaim(record, [device |-> d, run |-> run]),
         NEW e \in (Devices \ cutoff) \ {d}
  PROVE  pc[e] \notin Executing
<1> SUFFICES ASSUME pc[e] \in Executing PROVE FALSE
  OBVIOUS
<1>1. record.owner = Execution(e) /\ record.mode # "Idle"
  BY DEF IInv, Ownership, ExecutorsOwn
<1>2. record.owner = [device |-> d, run |-> run]
  BY <1>1 DEF CanClaim, Permits
<1> QED
  BY <1>1, <1>2 DEF Execution

(* A claim is made with a reportable state and a run id.                    *)
LEMMA ClaimantReportable ==
  ASSUME IInv, NEW d \in Devices, TakeRun(d)
  PROVE  /\ Claimant(d) \in Reportable
         /\ Claimant(d).run \in Runs
         /\ lastRun' \in 0..MaxRuns
<1>1. CASE mem[d].run # 0
  <2>1. Claimant(d) = mem[d] /\ lastRun' = lastRun
    BY <1>1 DEF Claimant, TakeRun
  <2> QED
    BY <1>1, <2>1, Typed DEF ReceiverState, IInv, TypeOK
<1>2. CASE mem[d].run = 0
  <2> DEFINE s == [mem[d] EXCEPT !.run = lastRun + 1, !.revision = 0, !.releasing = FALSE]
  <2>1. Claimant(d) = s
    BY <1>2 DEF Claimant
  <2>2. lastRun' = lastRun + 1 /\ lastRun + 1 \in Runs /\ lastRun + 1 \in 0..MaxRuns
    BY <1>2, Domains DEF TakeRun, IInv, TypeOK
  <2>3. /\ s \in ReceiverState /\ s.pending = mem[d].pending /\ s.stage = mem[d].stage
        /\ s.sub = mem[d].sub /\ s.run = lastRun + 1
    BY <2>2, Typed DEF ReceiverState
  <2>4. s \in Reportable
    BY <2>3, Typed DEF Reportable
  <2> QED
    BY <2>1, <2>2, <2>3, <2>4
<1> QED
  BY <1>1, <1>2

(* A granted claim makes the claimer the active executor.                   *)
LEMMA ClaimedRecord ==
  ASSUME IInv, NEW d \in Devices, TakeRun(d)
  PROVE  /\ Claimed(d) \in Record
         /\ Claimed(d).owner = [device |-> d, run |-> Claimant(d).run]
         /\ Claimed(d).mode = "Active"
<1>1. [device |-> d, run |-> Claimant(d).run] \in Owner
  BY ClaimantReportable DEF Owner
<1>2. ProgressOf(Claimant(d)) \in Progress
  BY ClaimantReportable, ProgressReported
<1> QED
  BY <1>1, <1>2, Typed, ClaimFields DEF Claimed

(* A claim by d: everybody else that can still send is outside the steps    *)
(* between claim and close, so only d's own place matters.                  *)
LEMMA ClaimKeepsOwnership ==
  ASSUME IInv, NEW d \in Devices, TakeRun(d), MayClaim(d), record' = Claimed(d),
         UNCHANGED <<revoked, cutoff>>,
         mem'[d].run = Claimant(d).run,
         \A e \in Devices \ {d} : pc'[e] = pc[e] /\ mem'[e] = mem[e],
         pc'[d] \notin {"SavePending", "Host", "Acknowledge"}
  PROVE  Ownership'
<1>1. /\ record'.owner = [device |-> d, run |-> Claimant(d).run] /\ record'.mode = "Active"
  BY ClaimedRecord
<1>2. Claimant(d).run \in Runs
  BY ClaimantReportable
<1>3. \A e \in (Devices \ cutoff) \ {d} : pc[e] \notin Executing
  BY <1>2, ClaimExcludes DEF MayClaim
<1>4. RunKnown'
  BY <1>2, Domains DEF IInv, Ownership, RunKnown
<1>5. BatchPending'
  BY DEF IInv, Ownership, BatchPending
<1>6. ExecutorsOwn'
  BY <1>1, <1>3 DEF ExecutorsOwn, Execution
<1>7. HostReported'
  BY <1>3 DEF HostReported, Executing
<1> QED
  BY <1>4, <1>5, <1>6, <1>7 DEF Ownership

(* A granted claim and what the receiver takes back from it.                *)
LEMMA ClaimExecutionStep ==
  ASSUME IInv, NEW d \in Devices, ClaimExecution(d)
  PROVE  IInv'
<1> DEFINE granted == [Claimant(d) EXCEPT !.revision = record'.revision]
           explicit == ExplicitResolution(granted, record'.progress)
           resumed == IF explicit THEN granted ELSE Restore(granted, record'.progress)
<1>1. /\ TakeRun(d) /\ MayClaim(d) /\ record' = Claimed(d) /\ Store(d, resumed)
      /\ Goto(d, IF explicit THEN "SaveResolution"
                  ELSE IF resumed.pending THEN "Verify" ELSE "Poll")
      /\ UNCHANGED <<revoked, cutoff, bridge, lastSub, history>>
  BY DEF ClaimExecution
<1>2. Claimant(d) \in Reportable /\ lastRun' \in 0..MaxRuns
  BY <1>1, ClaimantReportable
<1>3. record' \in Record
  BY <1>1, ClaimedRecord
<1>4. granted \in Reportable /\ granted.run = Claimant(d).run
  <2>1. record'.revision \in Nat
    BY <1>3 DEF Record
  <2>2. /\ granted \in ReceiverState /\ granted.run = Claimant(d).run
        /\ granted.pending = Claimant(d).pending /\ granted.stage = Claimant(d).stage
        /\ granted.sub = Claimant(d).sub
    BY <1>2, <2>1 DEF Reportable, ReceiverState
  <2> QED
    BY <1>2, <2>2 DEF Reportable
<1>5. record'.progress \in Progress
  BY <1>3 DEF Record
<1> HIDE DEF granted
<1>6. resumed \in Reportable /\ resumed.run = Claimant(d).run
  <2>1. /\ Restore(granted, record'.progress) \in Reportable
        /\ Restore(granted, record'.progress).run = granted.run
    BY <1>4, <1>5, RestoreReportable
  <2> QED
    BY <1>4, <2>1
<1> HIDE DEF resumed, explicit
<1>7. PICK step \in {"SaveResolution", "Verify", "Poll"} : Goto(d, step)
  BY <1>1
<1>8. /\ Shapes' /\ mem'[d] = resumed /\ \A e \in Devices \ {d} : mem'[e] = mem[e]
      /\ file' \in [Devices -> ReceiverState] /\ mem' \in [Devices -> ReceiverState]
  BY <1>1, <1>6, Typed, StoreShapes
<1>9. pc' \in [Devices -> Step] /\ pc'[d] = step /\ \A e \in Devices \ {d} : pc'[e] = pc[e]
  BY <1>7, Typed, GotoSteps DEF Step
<1>10. Ownership'
  BY <1>1, <1>6, <1>7, <1>8, <1>9, ClaimKeepsOwnership
<1>11. TypeOK'
  BY <1>1, <1>2, <1>3, <1>8, <1>9 DEF IInv, TypeOK, bridge, history
<1> QED
  BY <1>8, <1>10, <1>11 DEF IInv

(* A claim whose request or answer is lost.                                 *)
LEMMA ClaimUnansweredStep ==
  ASSUME IInv, NEW d \in Devices, ClaimUnanswered(d)
  PROVE  IInv'
<1>1. /\ pc[d] = "Claim" /\ TakeRun(d) /\ Store(d, Claimant(d))
      /\ UNCHANGED <<revoked, cutoff, bridge, lastSub, history>>
  BY DEF ClaimUnanswered
<1>2. Claimant(d) \in Reportable /\ lastRun' \in 0..MaxRuns
  BY <1>1, ClaimantReportable
<1>3. PICK step \in {"Reclose", "Close"} : Goto(d, step)
  BY DEF ClaimUnanswered, GotoFailure
<1>4. /\ Shapes' /\ mem'[d] = Claimant(d) /\ \A e \in Devices \ {d} : mem'[e] = mem[e]
      /\ file' \in [Devices -> ReceiverState] /\ mem' \in [Devices -> ReceiverState]
  BY <1>1, <1>2, Typed, StoreShapes
<1>5. pc' \in [Devices -> Step] /\ pc'[d] = step /\ \A e \in Devices \ {d} : pc'[e] = pc[e]
  BY <1>3, Typed, GotoSteps DEF Step
<1>6. record' \in Record /\ Ownership'
  <2>1. CASE UNCHANGED record
    BY <1>1, <1>3, <1>4, <1>5, <2>1, LocalKeepsOwnership, Typed DEF Local, Executing, IInv
  <2>2. CASE MayClaim(d) /\ record' = Claimed(d)
    BY <1>1, <1>3, <1>4, <1>5, <2>2, ClaimedRecord, ClaimKeepsOwnership
  <2> QED
    BY <2>1, <2>2 DEF ClaimUnanswered
<1>7. TypeOK'
  BY <1>1, <1>2, <1>4, <1>5, <1>6 DEF IInv, TypeOK, bridge, history
<1> QED
  BY <1>4, <1>6, <1>7 DEF IInv

(* A save that is accepted leaves the executor in place and reports what    *)
(* the receiver has in memory.                                              *)
LEMMA SavedRecord ==
  ASSUME IInv, NEW d \in Devices, Saved(d)
  PROVE  /\ record' \in Record
         /\ record'.owner = record.owner /\ record'.mode = record.mode
         /\ record'.progress = ProgressOf(mem[d])
<1>1. ProgressOf(mem[d]) \in Progress
  BY Typed, ProgressReported
<1>2. record \in Record /\ record' = Save(record, ProgressOf(mem[d]))
  BY Typed DEF Saved
<1> QED
  BY <1>1, <1>2, SaveFields

(* A save by d: no other computer that can still send is executing, since   *)
(* the record names d.                                                      *)
LEMMA SaveKeepsOwnership ==
  ASSUME IInv, NEW d \in Devices, MaySave(d), Saved(d), pc[d] \in Executing,
         UNCHANGED <<revoked, cutoff>>,
         mem'[d].run = mem[d].run,
         \A e \in Devices \ {d} : pc'[e] = pc[e] /\ mem'[e] = mem[e],
         pc'[d] # "SavePending", pc'[d] # "Acknowledge",
         pc'[d] = "Host" => mem'[d].pending /\ ProgressOf(mem'[d]) = ProgressOf(mem[d])
  PROVE  Ownership'
<1>1. record.owner = [device |-> d, run |-> mem[d].run]
  BY DEF MaySave, CanSave, Execution
<1>2. \A e \in (Devices \ cutoff) \ {d} : pc[e] \notin Executing
  BY <1>1, OwnerExecutesAlone
<1>3. /\ record'.owner = record.owner /\ record'.mode = record.mode
      /\ record'.progress = ProgressOf(mem[d])
  BY SavedRecord
<1>4. RunKnown' /\ BatchPending'
  BY DEF IInv, Ownership, RunKnown, BatchPending
<1>5. ExecutorsOwn'
  <2>1. d \notin revoked /\ record.mode # "Idle"
    BY DEF MaySave, CanSave
  <2> QED
    BY <1>1, <1>2, <1>3, <2>1 DEF ExecutorsOwn, Execution
<1>6. HostReported'
  BY <1>2, <1>3 DEF HostReported, Executing
<1> QED
  BY <1>4, <1>5, <1>6 DEF Ownership

(* A save of a resolution or an outcome.                                    *)
LEMMA SaveProgressStep ==
  ASSUME IInv, NEW d \in Devices, SaveProgress(d)
  PROVE  IInv'
<1> DEFINE s == [mem[d] EXCEPT !.revision = record'.revision]
<1>1. /\ pc[d] \in Executing /\ MaySave(d) /\ Saved(d) /\ Store(d, s) /\ Goto(d, "Poll")
      /\ UNCHANGED <<revoked, cutoff, bridge, lastRun, lastSub, history>>
  BY DEF SaveProgress, Executing
<1>2. record' \in Record /\ record'.revision \in Nat
  BY <1>1, SavedRecord DEF Record
<1>3. /\ s \in ReceiverState /\ s.run = mem[d].run /\ s.pending = mem[d].pending
      /\ s.stage = mem[d].stage /\ s.sub = mem[d].sub
  BY <1>2, Typed DEF ReceiverState
<1>4. s \in Reportable
  BY <1>3, Typed DEF Reportable
<1> HIDE DEF s
<1>5. /\ Shapes' /\ mem'[d] = s /\ \A e \in Devices \ {d} : mem'[e] = mem[e]
      /\ file' \in [Devices -> ReceiverState] /\ mem' \in [Devices -> ReceiverState]
  BY <1>1, <1>4, Typed, StoreShapes
<1>6. pc' \in [Devices -> Step] /\ pc'[d] = "Poll" /\ \A e \in Devices \ {d} : pc'[e] = pc[e]
  BY <1>1, Typed, GotoSteps DEF Step
<1>7. Ownership'
  BY <1>1, <1>3, <1>5, <1>6, SaveKeepsOwnership
<1>8. TypeOK'
  BY <1>1, <1>2, <1>5, <1>6 DEF IInv, TypeOK, bridge, history
<1> QED
  BY <1>5, <1>7, <1>8 DEF IInv

(* The save of the pending delivery and the start of the host.              *)
LEMMA StartHostStep ==
  ASSUME IInv, NEW d \in Devices, StartHost(d)
  PROVE  IInv'
<1> DEFINE s == [mem[d] EXCEPT !.revision = record'.revision, !.stage = "Uncertain"]
<1>1. /\ pc[d] = "SavePending" /\ MaySave(d) /\ Saved(d) /\ Store(d, s) /\ Goto(d, "Host")
      /\ licensed' = licensed \ {mem[d].sub} /\ shown' = shown \cup Batch(mem[d])
      /\ UNCHANGED <<revoked, cutoff, bridge, lastRun, lastSub, skipped>>
  BY DEF StartHost
<1>2. record' \in Record /\ record'.revision \in Nat
  BY <1>1, SavedRecord DEF Record
<1>3. mem[d].pending
  BY <1>1 DEF IInv, Ownership, BatchPending
<1>4. /\ s \in ReceiverState /\ s.run = mem[d].run /\ s.pending = mem[d].pending
      /\ s.sub = mem[d].sub /\ s.event = mem[d].event /\ s.after = mem[d].after
  BY <1>2, Typed DEF ReceiverState, Stage
<1>5. s \in Reportable
  BY <1>3, <1>4, Typed DEF Reportable
<1>6. ProgressOf(s) = ProgressOf(mem[d])
  BY <1>3, <1>4 DEF ProgressOf, DeliveryOf
<1> HIDE DEF s
<1>7. /\ Shapes' /\ mem'[d] = s /\ \A e \in Devices \ {d} : mem'[e] = mem[e]
      /\ file' \in [Devices -> ReceiverState] /\ mem' \in [Devices -> ReceiverState]
  BY <1>1, <1>5, Typed, StoreShapes
<1>8. pc' \in [Devices -> Step] /\ pc'[d] = "Host" /\ \A e \in Devices \ {d} : pc'[e] = pc[e]
  BY <1>1, Typed, GotoSteps DEF Step
<1>9. Ownership'
  BY <1>1, <1>3, <1>4, <1>6, <1>7, <1>8, SaveKeepsOwnership DEF Executing
<1>10. Batch(mem[d]) \subseteq Events
  <2>1. mem[d].after \in 0..MaxMessages /\ mem[d].event \in 0..MaxMessages
    BY Typed, Domains DEF ReceiverState
  <2> QED
    BY <2>1, Domains DEF Batch
<1>11. TypeOK'
  BY <1>1, <1>2, <1>7, <1>8, <1>10 DEF IInv, TypeOK, bridge
<1> QED
  BY <1>7, <1>9, <1>11 DEF IInv

(* A save whose answer is lost.                                             *)
LEMMA SaveUnansweredStep ==
  ASSUME IInv, NEW d \in Devices, SaveUnanswered(d)
  PROVE  IInv'
<1>1. /\ pc[d] \in Executing /\ MaySave(d) /\ Saved(d)
      /\ UNCHANGED <<revoked, cutoff, file, mem, bridge, lastRun, lastSub, history>>
  BY DEF SaveUnanswered, Saving, Executing
<1>2. PICK step \in {"Reclose", "Close"} : Goto(d, step)
  BY DEF SaveUnanswered, GotoFailure
<1>3. pc' \in [Devices -> Step] /\ pc'[d] = step /\ \A e \in Devices \ {d} : pc'[e] = pc[e]
  BY <1>2, Typed, GotoSteps DEF Step
<1>4. Ownership'
  BY <1>1, <1>2, <1>3, SaveKeepsOwnership
<1>5. record' \in Record
  BY <1>1, SavedRecord
<1>6. TypeOK' /\ Shapes'
  BY <1>1, <1>3, <1>5 DEF IInv, TypeOK, Shapes, bridge, history
<1> QED
  BY <1>4, <1>6 DEF IInv

-----------------------------------------------------------------------------
(* A release by d leaves nobody between claim and close who can still send. *)
LEMMA ReleaseKeepsOwnership ==
  ASSUME IInv, NEW d \in Devices, MayRelease(d), record' = Release(record),
         UNCHANGED <<revoked, cutoff>>,
         \A e \in Devices \ {d} : pc'[e] = pc[e] /\ mem'[e] = mem[e],
         pc'[d] \notin Executing
  PROVE  Ownership'
<1>1. record.owner = [device |-> d, run |-> mem[d].run]
  BY DEF MayRelease, CanRelease, Execution
<1>2. \A e \in (Devices \ cutoff) \ {d} : pc[e] \notin Executing
  BY <1>1, OwnerExecutesAlone
<1>3. RunKnown' /\ BatchPending'
  BY DEF IInv, Ownership, RunKnown, BatchPending, Executing
<1>4. ExecutorsOwn' /\ HostReported'
  BY <1>2 DEF ExecutorsOwn, HostReported, Executing
<1> QED
  BY <1>3, <1>4 DEF Ownership

(* A release that is answered.                                              *)
LEMMA ReleaseExecutionStep ==
  ASSUME IInv, NEW d \in Devices, ReleaseExecution(d)
  PROVE  IInv'
<1> DEFINE s == [mem[d] EXCEPT !.run = 0, !.revision = 0, !.releasing = FALSE]
<1>1. /\ MayRelease(d) /\ record' = Release(record) /\ file' = [file EXCEPT ![d] = s]
      /\ UNCHANGED <<revoked, cutoff, bridge, lastRun, lastSub, history>>
  BY DEF ReleaseExecution
<1>2. s \in ReceiverState /\ s.pending = mem[d].pending /\ s.stage = mem[d].stage /\ s.sub = mem[d].sub
  BY Typed, Domains DEF ReceiverState
<1>3. s \in Reportable
  BY <1>2, Typed DEF Reportable
<1>4. \/ Goto(d, "Open") /\ mem' = [mem EXCEPT ![d] = s]
      \/ Exit(d)
  BY DEF ReleaseExecution
<1> HIDE DEF s
<1>5. file' \in [Devices -> Reportable] /\ file' \in [Devices -> ReceiverState]
  BY <1>1, <1>2, <1>3, Typed DEF Shapes
<1>6. /\ pc' \in [Devices -> Step] /\ pc'[d] \notin Executing
      /\ mem' \in [Devices -> Reportable] /\ mem' \in [Devices -> ReceiverState]
      /\ \A e \in Devices \ {d} : pc'[e] = pc[e] /\ mem'[e] = mem[e]
  <2>1. CASE Goto(d, "Open") /\ mem' = [mem EXCEPT ![d] = s]
    BY <1>2, <1>3, <2>1, Typed DEF Goto, Shapes, Step, Executing
  <2>2. CASE Exit(d)
    BY <2>2, ExitSteps DEF IInv, Executing
  <2> QED
    BY <1>4, <2>1, <2>2
<1>7. Ownership'
  BY <1>1, <1>6, ReleaseKeepsOwnership
<1>8. record' \in Record
  BY <1>1, Typed, ReleaseFields
<1>9. TypeOK' /\ Shapes'
  BY <1>1, <1>5, <1>6, <1>8 DEF IInv, TypeOK, Shapes, bridge, history
<1> QED
  BY <1>7, <1>9 DEF IInv

(* A release whose request or answer is lost, or that is refused.           *)
LEMMA ReleaseFailedStep ==
  ASSUME IInv, NEW d \in Devices, ReleaseFailed(d)
  PROVE  IInv'
<1> DEFINE s == [mem[d] EXCEPT !.releasing = TRUE]
<1>1. /\ Exit(d) /\ file' = [file EXCEPT ![d] = s]
      /\ UNCHANGED <<revoked, cutoff, bridge, lastRun, lastSub, history>>
  BY DEF ReleaseFailed
<1>2. s \in ReceiverState /\ s.pending = mem[d].pending /\ s.stage = mem[d].stage /\ s.sub = mem[d].sub
  BY Typed DEF ReceiverState
<1>3. s \in Reportable
  BY <1>2, Typed DEF Reportable
<1> HIDE DEF s
<1>4. file' \in [Devices -> Reportable] /\ file' \in [Devices -> ReceiverState]
  BY <1>1, <1>2, <1>3, Typed DEF Shapes
<1>5. /\ pc' \in [Devices -> Step] /\ pc'[d] = "Off"
      /\ mem' \in [Devices -> Reportable] /\ mem' \in [Devices -> ReceiverState]
      /\ \A e \in Devices \ {d} : pc'[e] = pc[e] /\ mem'[e] = mem[e]
  BY <1>1, ExitSteps DEF IInv
<1>6. record' \in Record /\ Ownership'
  <2>1. CASE UNCHANGED record
    BY <1>1, <1>5, <2>1, LocalKeepsOwnership, Typed DEF Local, Executing, IInv
  <2>2. CASE MayRelease(d) /\ record' = Release(record)
    BY <1>1, <1>5, <2>2, ReleaseKeepsOwnership, ReleaseFields, Typed DEF Executing
  <2> QED
    BY <2>1, <2>2 DEF ReleaseFailed
<1>7. TypeOK' /\ Shapes'
  BY <1>1, <1>4, <1>5, <1>6 DEF IInv, TypeOK, Shapes, bridge, history
<1> QED
  BY <1>6, <1>7 DEF IInv

-----------------------------------------------------------------------------
(* The owner, the Bridge and the room.                                      *)

(* The owner moves the agent or revokes a computer.                         *)
LEMMA OwnerSteps ==
  ASSUME IInv,
         \/ \E next \in Devices \cup {None} : OwnerDrains(next)
         \/ \E d \in Devices : OwnerRevokes(d) \/ CutOff(d)
  PROVE  IInv'
<1>1. ASSUME NEW next \in Devices \cup {None}, OwnerDrains(next) PROVE IInv'
  <2>1. record' = Drain(record, next, cutoff) /\ record \in Record
    BY <1>1, Typed DEF OwnerDrains
  <2>2. /\ record' \in Record /\ record'.owner = record.owner
        /\ record'.progress = record.progress
        /\ record'.mode = "Idle" => record.mode = "Idle" \/ record.owner.device \in cutoff
    BY <2>1, DrainFields
  <2>3. UNCHANGED <<revoked, cutoff, file, mem, pc, bridge, lastRun, lastSub, history>>
    BY <1>1 DEF OwnerDrains
  <2>4. TypeOK' /\ Shapes'
    BY <2>2, <2>3 DEF IInv, TypeOK, Shapes, bridge, history
  <2>5. RunKnown' /\ BatchPending' /\ HostReported'
    BY <2>2, <2>3 DEF IInv, Ownership, RunKnown, BatchPending, HostReported
  <2>6. ExecutorsOwn'
    <3> SUFFICES ASSUME NEW d \in Devices \ cutoff, pc[d] \in Executing
                 PROVE  record'.owner = Execution(d)' /\ record'.mode # "Idle"
      BY <2>3 DEF ExecutorsOwn
    <3>1. record.owner = Execution(d) /\ record.mode # "Idle"
      BY DEF IInv, Ownership, ExecutorsOwn
    <3>2. record.owner.device = d /\ Execution(d)' = Execution(d)
      BY <2>3, <3>1 DEF Execution
    <3> QED
      BY <2>2, <3>1, <3>2
  <2> QED
    BY <2>4, <2>5, <2>6 DEF IInv, Ownership
<1>2. ASSUME NEW d \in Devices, OwnerRevokes(d) \/ CutOff(d) PROVE IInv'
  <2>1. /\ revoked \subseteq revoked' /\ revoked' \subseteq revoked \cup {d}
        /\ cutoff \subseteq cutoff' /\ cutoff' \subseteq revoked
        /\ UNCHANGED <<record, file, mem, pc, bridge, lastRun, lastSub, history>>
    BY <1>2 DEF OwnerRevokes, CutOff, IInv, TypeOK
  <2>2. TypeOK' /\ Shapes'
    BY <2>1 DEF IInv, TypeOK, Shapes, bridge, history
  <2>3. Ownership'
    BY <2>1 DEF IInv, Ownership, RunKnown, BatchPending, ExecutorsOwn, HostReported, Execution
  <2> QED
    BY <2>2, <2>3 DEF IInv
<1> QED
  BY <1>1, <1>2

(* The owner retries or skips an uncertain delivery.                        *)
LEMMA ResolveSteps ==
  ASSUME IInv, NEW d \in Devices, ResolveRetry(d) \/ ResolveSkip(d)
  PROVE  IInv'
<1>1. UNCHANGED <<record, revoked, cutoff, mem, pc, bridge, lastRun, lastSub, shown>>
  BY DEF ResolveRetry, ResolveSkip, server
<1>2. Ownership'
  BY <1>1, UnchangedKeepsOwnership DEF IInv
<1>3. file[d] \in Reportable /\ file[d].pending /\ file[d].sub # 0 /\ file[d].sub \in Submissions
  BY Typed DEF ResolveRetry, ResolveSkip, Reportable, ReceiverState
<1>4. CASE ResolveRetry(d)
  <2> DEFINE s == [file[d] EXCEPT !.pending = FALSE, !.stage = "Received"]
  <2>1. file' = [file EXCEPT ![d] = s] /\ licensed' = licensed \cup {file[d].sub} /\ UNCHANGED skipped
    BY <1>4, Typed DEF ResolveRetry
  <2>2. s \in ReceiverState /\ s.sub = file[d].sub
    BY Typed DEF ReceiverState, Stage
  <2>3. s \in Reportable
    BY <1>3, <2>2 DEF Reportable
  <2> HIDE DEF s
  <2>4. file' \in [Devices -> Reportable] /\ file' \in [Devices -> ReceiverState]
    BY <2>1, <2>2, <2>3, Typed DEF Shapes
  <2> QED
    BY <1>1, <1>2, <1>3, <2>1, <2>4 DEF IInv, TypeOK, Shapes, bridge
<1>5. CASE ResolveSkip(d)
  <2> DEFINE s == [file[d] EXCEPT !.pending = FALSE, !.after = file[d].event, !.stage = "Skipped"]
  <2>1. /\ file' = [file EXCEPT ![d] = s] /\ UNCHANGED licensed
        /\ skipped' = skipped \cup Batch(file[d])
    BY <1>5, Typed DEF ResolveSkip
  <2>2. s \in ReceiverState /\ s.sub = file[d].sub
    BY Typed DEF ReceiverState, Stage
  <2>3. s \in Reportable
    BY <1>3, <2>2 DEF Reportable
  <2> HIDE DEF s
  <2>4. file' \in [Devices -> Reportable] /\ file' \in [Devices -> ReceiverState]
    BY <2>1, <2>2, <2>3, Typed DEF Shapes
  <2>5. Batch(file[d]) \subseteq Events
    <3>1. file[d].after \in 0..MaxMessages /\ file[d].event \in 0..MaxMessages
      BY Typed, Domains DEF ReceiverState
    <3> QED
      BY <3>1, Domains DEF Batch
  <2> QED
    BY <1>1, <1>2, <2>1, <2>4, <2>5 DEF IInv, TypeOK, Shapes, bridge
<1> QED
  BY <1>4, <1>5

(* A Bridge carries out a send.                                             *)
LEMMA BridgeSteps ==
  ASSUME IInv, NEW c \in calls, Authorize(c) \/ Publish(c) \/ SendFailed(c)
  PROVE  IInv'
<1>1. UNCHANGED <<record, revoked, cutoff, file, mem, pc, arrived, seen, lastRun, lastSub, history>>
  BY DEF Authorize, Publish, SendFailed, server
<1>2. Ownership'
  BY <1>1, UnchangedKeepsOwnership DEF IInv
<1>3. c \in Send
  BY DEF IInv, TypeOK
<1>4. calls' \subseteq Send
  <2>1. [c EXCEPT !.authorized = TRUE] \in Send
    BY <1>3 DEF Send
  <2> QED
    BY <2>1 DEF Authorize, Publish, SendFailed, IInv, TypeOK
<1>5. replies' \subseteq Reply
  <2>1. [sub |-> c.sub, after |-> arrived, covers |-> c.covers] \in Reply
    BY <1>3 DEF Send, Reply, IInv, TypeOK
  <2> QED
    BY <2>1 DEF Authorize, Publish, SendFailed, IInv, TypeOK
<1> QED
  BY <1>1, <1>2, <1>4, <1>5 DEF IInv, TypeOK, Shapes, history

(* A message arrives in the room or at a computer.                          *)
LEMMA RoomSteps ==
  ASSUME IInv, MessageArrives \/ \E d \in Devices : MessageSynced(d)
  PROVE  IInv'
<1>1. UNCHANGED <<record, revoked, cutoff, file, mem, pc, calls, replies, lastRun, lastSub, history>>
  BY DEF MessageArrives, MessageSynced, server
<1>2. Ownership'
  BY <1>1, UnchangedKeepsOwnership DEF IInv
<1>3. arrived' \in Events /\ seen' \in [Devices -> 0..arrived']
  <2>1. arrived \in 0..MaxMessages /\ seen \in [Devices -> 0..arrived]
    BY Domains DEF IInv, TypeOK
  <2>2. CASE MessageArrives
    BY <2>1, <2>2, Domains DEF MessageArrives
  <2>3. ASSUME NEW d \in Devices, MessageSynced(d)
        PROVE  arrived' \in Events /\ seen' \in [Devices -> 0..arrived']
    BY <2>1, <2>3, Domains DEF MessageSynced
  <2> QED
    BY <2>2, <2>3
<1> QED
  BY <1>1, <1>2, <1>3 DEF IInv, TypeOK, Shapes, history

-----------------------------------------------------------------------------
(* The inductive invariant holds before any receiver started.               *)
LEMMA InitIInv == Init => IInv
<1> SUFFICES ASSUME Init PROVE IInv
  OBVIOUS
<1>1. [after |-> 0, pending |-> None, retry |-> None] \in Progress
  BY Domains DEF Progress
<1>2. record \in Record
  BY <1>1 DEF Init, Absent, Record, Mode
<1>3. Configured \in ReceiverState /\ Configured \in Reportable
  BY ConfiguredReportable DEF Reportable
<1>4. TypeOK /\ Shapes
  BY <1>2, <1>3, Domains DEF Init, TypeOK, Shapes, Step
<1>5. Ownership
  BY DEF Init, Ownership, RunKnown, BatchPending, ExecutorsOwn, HostReported, Executing
<1> QED
  BY <1>4, <1>5 DEF IInv

(* Every step of receivers, Bridges, owner and room preserves the           *)
(* invariant.                                                               *)
LEMMA NextIInv == IInv /\ [Next]_vars => IInv'
<1> SUFFICES ASSUME IInv, [Next]_vars PROVE IInv'
  OBVIOUS
<1>1. ASSUME NEW d \in Devices, Receiver(d) PROVE IInv'
  BY <1>1, StartStep, ControlSteps, ExitStep, ClaimExecutionStep, ClaimRefusedStep,
     ClaimUnansweredStep, SaveProgressStep, StartHostStep, SaveUnansweredStep,
     RecoverStep, BeginBatchStep, CompletingSteps, HostDoneStep, UnconfirmedStep,
     AcknowledgeStep, HandoffStep, ReleaseExecutionStep, ReleaseFailedStep
  DEF Receiver
<1>2. ASSUME NEW d \in Devices,
             MessageSynced(d) \/ ResolveRetry(d) \/ ResolveSkip(d)
             \/ OwnerRevokes(d) \/ CutOff(d)
      PROVE  IInv'
  BY <1>2, RoomSteps, ResolveSteps, OwnerSteps
<1>3. ASSUME NEW c \in calls, Authorize(c) \/ Publish(c) \/ SendFailed(c) PROVE IInv'
  BY <1>3, BridgeSteps
<1>4. ASSUME NEW next \in Devices \cup {None}, OwnerDrains(next) PROVE IInv'
  BY <1>4, OwnerSteps
<1>5. CASE MessageArrives
  BY <1>5, RoomSteps
<1>6. CASE UNCHANGED vars
  <2>1. Ownership'
    BY <1>6, UnchangedKeepsOwnership DEF vars, IInv
  <2> QED
    BY <1>6, <2>1 DEF vars, IInv, TypeOK, Shapes
<1> QED
  BY <1>1, <1>2, <1>3, <1>4, <1>5, <1>6 DEF Next

(* The inductive invariant holds in every behaviour.                        *)
LEMMA Inductive == Spec => []IInv
BY InitIInv, NextIInv, PTL DEF Spec

(***************************************************************************)
(* Receivers, their files, the record, the Bridges' calls and the room     *)
(* keep their types.                                                       *)
(***************************************************************************)
THEOREM TypeCorrect == Spec => []TypeOK
<1>1. IInv => TypeOK
  BY DEF IInv
<1> QED
  BY <1>1, Inductive, PTL

(***************************************************************************)
(* For any number of computers: two that can still send never run a host   *)
(* turn of the agent at the same time, however they crash, reconnect, lose *)
(* answers and are moved.                                                  *)
(***************************************************************************)
THEOREM OneHostTurn == Spec => []HostTurnExclusive
<1>1. IInv => HostTurnExclusive
  <2> SUFFICES ASSUME IInv, NEW d \in Devices \ cutoff, NEW e \in Devices \ cutoff,
                      pc[d] = "Host", pc[e] = "Host", d # e
               PROVE  FALSE
    BY DEF HostTurnExclusive
  <2>1. record.owner = [device |-> d, run |-> mem[d].run]
    BY DEF IInv, Ownership, ExecutorsOwn, Executing, Execution
  <2>2. pc[e] \notin Executing
    BY <2>1, OwnerExecutesAlone
  <2> QED
    BY <2>2 DEF Executing
<1> QED
  BY <1>1, Inductive, PTL

(***************************************************************************)
(* While a host works on a delivery, the server's record names exactly     *)
(* that delivery as pending and this computer as its executor, whatever    *)
(* other computers and the owner have done since.                          *)
(***************************************************************************)
THEOREM HostDeliveryOnServer == Spec => []PendingBeforeHost
<1>1. IInv => PendingBeforeHost
  BY DEF IInv, Ownership, ExecutorsOwn, HostReported, BatchPending, PendingBeforeHost, Executing
<1> QED
  BY <1>1, Inductive, PTL

-----------------------------------------------------------------------------
(***************************************************************************)
(* One computer.  With two, a file left behind by one passes for the       *)
(* owner's decision about a delivery of the other, and none of the three   *)
(* theorems at the end of this module holds.                               *)
(***************************************************************************)
OneComputer == \A d, e \in Devices : d = e

(* The delivery a progress is about, if any.                                *)
Current(p) == IF p.pending # None THEN p.pending ELSE p.retry

(* What a receiver's state x says at each step of its run, given the        *)
(* server's progress p.                                                     *)
AtStep(step, x, p) ==
  /\ step = "Poll" => ~x.pending /\ p = ProgressOf(x)
  /\ step = "SavePending" =>
       /\ x.pending /\ x.stage = "Received"
       /\ p.pending = None /\ x.after = p.after /\ x.after < x.event
       /\ p.retry # None => x.sub = p.retry.sub /\ p.retry.event <= x.event
  /\ step = "Host" => x.pending /\ x.stage = "Uncertain" /\ p = ProgressOf(x)
  /\ step \in {"Verify", "Acknowledge"} =>
       /\ Current(p) # None /\ Current(p) = DeliveryOf(x)
       /\ p.pending # None => x.stage = "Uncertain"
       /\ x.pending <=> step = "Verify"
       /\ x.after = IF step = "Verify" THEN p.after ELSE x.event
  /\ step = "SaveOutcome" =>
       /\ ~x.pending /\ x.stage = "NoDelivery"
       /\ Current(p) # None /\ x.after = Current(p).event
  /\ step = "SaveResolution" =>
       /\ ~x.pending /\ x.stage \in {"Received", "Skipped"}
       /\ p.pending # None /\ p.pending = DeliveryOf(x)

(* A file or a memory that still has a delivery in hand while one is        *)
(* pending on the server has that very one, and its cursor.                 *)
Knows(x, p) ==
  p.pending # None /\ (x.pending \/ x.stage \in {"Received", "Skipped"}) =>
    /\ p.pending = DeliveryOf(x)
    /\ x.after = IF x.stage = "Skipped" /\ ~x.pending THEN x.event ELSE p.after

(* ... what it would try again it may try again, and before the first claim *)
(* it has nothing in hand.                                                  *)
Fits(x, r, L) ==
  /\ Knows(x, r.progress)
  /\ x.stage = "Received" => x.sub \in L
  /\ r.owner = None => ~x.pending /\ x.stage = "NoDelivery"

Places ==
  \A d \in Devices :
    /\ AtStep(pc[d], mem[d], record.progress)
    /\ Fits(mem[d], record, licensed)
    /\ Fits(file[d], record, licensed)
    /\ Saving(d) => file[d] = mem[d]

(* Replies in the room and sends under way.                                 *)
Written == calls \cup replies

Beginning ==
  record.owner = None => Written = {} /\ \A d \in Devices : pc[d] \notin Executing

(* What is written under the submission of the server's delivery is about   *)
(* messages of that delivery; everything else is about messages before the  *)
(* cursor.                                                                  *)
Within(w, p) ==
  IF Current(p) # None /\ w.sub = Current(p).sub
  THEN w.covers \subseteq (p.after + 1)..Current(p).event
  ELSE w.covers \subseteq 1..p.after

Answers ==
  /\ \A w \in Written : w.sub <= lastSub /\ Within(w, record.progress)
  /\ \A w, v \in Written : w.sub # v.sub => w.covers \cap v.covers = {}
  /\ \A r, q \in replies : r.sub = q.sub => r = q

(* The server's delivery lies ahead of its cursor, and a delivery that is   *)
(* about to reach the server for the first time has a fresh submission.     *)
Submitted(p) ==
  Current(p) # None => Current(p).sub <= lastSub /\ p.after < Current(p).event

Fresh ==
  \A d \in Devices : pc[d] = "SavePending" =>
    /\ mem[d].sub <= lastSub
    /\ record.progress.retry = None => \A w \in Written : w.sub # mem[d].sub

Licence(p, L) == p.retry # None => p.retry.sub \in L

OneInv ==
  /\ Places /\ Beginning /\ Answers /\ Fresh
  /\ Submitted(record.progress) /\ Licence(record.progress, licensed)

-----------------------------------------------------------------------------
(* Positions and submissions of receivers and of the server are numbers.    *)
LEMMA Numbers ==
  /\ \A x \in ReceiverState : x.after \in Nat /\ x.event \in Nat /\ x.sub \in Nat
  /\ \A p \in Progress :
       /\ p.after \in Nat
       /\ p.pending # None => p.pending \in Delivery
       /\ p.retry # None => p.retry \in Delivery
       /\ p.pending = None \/ p.retry = None
  /\ \A y \in Delivery : y.event \in Nat /\ y.sub \in Nat /\ y.sub # 0
<1>1. /\ \A n \in Events : n \in Nat
      /\ \A n \in Submissions : n \in Nat /\ n # 0
  BY Domains
<1>2. \A x \in ReceiverState : x.after \in Nat /\ x.event \in Nat /\ x.sub \in Nat
  BY <1>1 DEF ReceiverState
<1>3. \A y \in Delivery : y.event \in Nat /\ y.sub \in Nat /\ y.sub # 0
  BY <1>1 DEF Delivery
<1>4. ASSUME NEW p \in Progress
      PROVE  /\ p.after \in Nat
             /\ p.pending # None => p.pending \in Delivery
             /\ p.retry # None => p.retry \in Delivery
             /\ p.pending = None \/ p.retry = None
  BY <1>1 DEF Progress
<1> QED
  BY <1>2, <1>3, <1>4

(* What a state reports, field by field.                                    *)
LEMMA ProgressFields ==
  ASSUME NEW s
  PROVE  /\ ProgressOf(s).after = s.after
         /\ s.pending => ProgressOf(s).pending = DeliveryOf(s) /\ ProgressOf(s).retry = None
         /\ ~s.pending => /\ ProgressOf(s).pending = None
                          /\ ProgressOf(s).retry = IF s.stage = "Received" THEN DeliveryOf(s) ELSE None
BY DEF ProgressOf

(* Two states that agree on the delivery and its cursor.                    *)
Alike(s, t) ==
  /\ s.after = t.after /\ s.event = t.event /\ s.sub = t.sub
  /\ s.pending = t.pending /\ s.stage = t.stage

(* ... report the same and stand in the same relation to the server.        *)
LEMMA AlikeFits ==
  ASSUME NEW s, NEW t, Alike(s, t)
  PROVE  /\ ProgressOf(s) = ProgressOf(t) /\ DeliveryOf(s) = DeliveryOf(t)
         /\ \A r, L : Fits(s, r, L) <=> Fits(t, r, L)
         /\ \A step, p : AtStep(step, s, p) <=> AtStep(step, t, p)
<1>1. ProgressOf(s) = ProgressOf(t) /\ DeliveryOf(s) = DeliveryOf(t)
  BY DEF Alike, ProgressOf, DeliveryOf
<1>2. \A r, L : Fits(s, r, L) <=> Fits(t, r, L)
  BY <1>1 DEF Alike, Fits, Knows
<1>3. \A step, p : AtStep(step, s, p) <=> AtStep(step, t, p)
  BY <1>1 DEF Alike, AtStep
<1> QED
  BY <1>1, <1>2, <1>3

(* A configured receiver has nothing in hand.                               *)
LEMMA ConfiguredFits == \A r, L : Fits(Configured, r, L)
BY DEF Configured, Fits, Knows

(* restore takes over exactly what the server knows.                        *)
LEMMA RestoreAgrees ==
  ASSUME NEW s \in Reportable, NEW p \in Progress
  PROVE  /\ Restore(s, p).after = p.after
         /\ p.pending # None => /\ Restore(s, p).pending
                                /\ Restore(s, p).stage = "Uncertain"
                                /\ DeliveryOf(Restore(s, p)) = p.pending
         /\ p.pending = None => ~Restore(s, p).pending /\ ProgressOf(Restore(s, p)) = p
         /\ p.retry # None => DeliveryOf(Restore(s, p)) = p.retry
         /\ Restore(s, p).stage = "Received" => p.retry # None
<1> DEFINE at == [s EXCEPT !.after = p.after, !.pending = p.pending # None]
<1>1. /\ at \in ReceiverState /\ at.after = p.after /\ at.stage = s.stage
      /\ at.pending <=> p.pending # None
  BY DEF Reportable, ReceiverState, Progress
<1> HIDE DEF at
<1>2. ASSUME NEW y \in Delivery, NEW stage \in Stage
      PROVE  /\ DeliveryOf(WithDelivery(at, y, stage)) = y
             /\ WithDelivery(at, y, stage).stage = stage
             /\ WithDelivery(at, y, stage).after = at.after
             /\ WithDelivery(at, y, stage).pending = at.pending
  BY <1>1 DEF WithDelivery, DeliveryOf, Delivery, ReceiverState
<1>3. p = [after |-> p.after, pending |-> p.pending, retry |-> p.retry]
  BY DEF Progress
<1>4. CASE p.pending # None
  <2>1. Restore(s, p) = WithDelivery(at, p.pending, "Uncertain")
    BY <1>4 DEF Restore, at
  <2>2. p.pending \in Delivery /\ p.retry = None
    BY <1>4, Numbers
  <2>3. /\ DeliveryOf(Restore(s, p)) = p.pending /\ Restore(s, p).stage = "Uncertain"
        /\ Restore(s, p).after = at.after /\ Restore(s, p).pending = at.pending
    BY <1>2, <2>1, <2>2 DEF Stage
  <2> QED
    BY <1>1, <1>4, <2>2, <2>3
<1>5. CASE p.pending = None /\ p.retry # None
  <2>1. Restore(s, p) = WithDelivery(at, p.retry, "Received")
    BY <1>5 DEF Restore, at
  <2>2. p.retry \in Delivery
    BY <1>5, Numbers
  <2>3. /\ DeliveryOf(Restore(s, p)) = p.retry /\ Restore(s, p).stage = "Received"
        /\ Restore(s, p).after = at.after /\ Restore(s, p).pending = at.pending
    BY <1>2, <2>1, <2>2 DEF Stage
  <2>4. Restore(s, p).after = p.after /\ ~Restore(s, p).pending
    BY <1>1, <1>5, <2>3
  <2> QED
    BY <1>3, <1>5, <2>3, <2>4 DEF ProgressOf
<1>6. CASE p.pending = None /\ p.retry = None
  <2>1. /\ Restore(s, p).after = p.after /\ Restore(s, p).pending = FALSE
        /\ Restore(s, p).stage # "Received"
    <3>1. CASE s.stage = "Skipped"
      <4>1. Restore(s, p) = at
        BY <1>6, <3>1 DEF Restore, at
      <4> QED
        BY <1>1, <1>6, <3>1, <4>1
    <3>2. CASE s.stage # "Skipped"
      <4>1. Restore(s, p) = Finished(at)
        BY <1>6, <3>2 DEF Restore, at
      <4> QED
        BY <1>1, <1>6, <4>1 DEF Finished, ReceiverState
    <3> QED
      BY <3>1, <3>2
  <2> QED
    BY <1>3, <1>6, <2>1 DEF ProgressOf
<1> QED
  BY <1>4, <1>5, <1>6

-----------------------------------------------------------------------------
(* Steps that leave alone what the server knows and what is written.        *)
LEMMA QuietStep ==
  ASSUME IInv, OneInv, OneComputer, NEW d \in Devices,
         record'.progress = record.progress, record'.owner = record.owner,
         UNCHANGED <<calls, replies, lastSub, licensed>>,
         AtStep(pc'[d], mem'[d], record.progress),
         Fits(mem'[d], record, licensed), Fits(file'[d], record, licensed),
         pc'[d] \in {"SaveResolution", "SavePending", "SaveOutcome"} => file'[d] = mem'[d],
         pc'[d] = "SavePending" => pc[d] = "SavePending" /\ mem'[d] = mem[d],
         pc'[d] \in Executing => pc[d] \in Executing
  PROVE  OneInv'
<1>1. \A e \in Devices : e = d
  BY DEF OneComputer
<1>2. \A x : Fits(x, record, licensed) => Fits(x, record', licensed')
  BY DEF Fits
<1>3. Places'
  BY <1>1, <1>2 DEF Places, Saving
<1>4. Beginning' /\ Fresh'
  BY <1>1 DEF OneInv, Beginning, Fresh, Written
<1>5. Answers' /\ Submitted(record.progress)' /\ Licence(record.progress, licensed)'
  BY DEF OneInv, Answers, Written, Submitted, Licence
<1> QED
  BY <1>3, <1>4, <1>5 DEF OneInv

(* The parts of the invariant that concern one receiver.                    *)
LEMMA Placed ==
  ASSUME IInv, OneInv, NEW d \in Devices
  PROVE  /\ AtStep(pc[d], mem[d], record.progress)
         /\ Fits(mem[d], record, licensed) /\ Fits(file[d], record, licensed)
         /\ Saving(d) => file[d] = mem[d]
         /\ mem[d] \in Reportable /\ file[d] \in Reportable
         /\ mem[d] \in ReceiverState /\ file[d] \in ReceiverState
         /\ record.progress \in Progress
BY Typed DEF OneInv, Places, Record

(* Places of a run about which the invariant says nothing.                  *)
Elsewhere == {"Off", "FirstRelease", "Open", "Claim", "Reclose", "Close", "Release"}

(* Nothing is said of them, and no receiver executes there.                 *)
LEMMA ElsewhereFree ==
  /\ \A step \in Elsewhere : \A x, p : AtStep(step, x, p)
  /\ Elsewhere \cap Executing = {}
BY DEF Elsewhere, AtStep, Executing

(* Starting, connecting, being refused, closing and crashing only move the  *)
(* receiver on to such a place.                                             *)
LEMMA OneControlSteps ==
  ASSUME IInv, OneInv, OneComputer, NEW d \in Devices,
         \/ Start(d) \/ OpenSession(d) \/ SaveRefused(d) \/ Interrupt(d) \/ CloseSession(d)
         \/ Crash(d) \/ NothingToRelease(d) \/ CloseFailed(d)
  PROVE  OneInv'
<1>1. UNCHANGED <<record, calls, replies, lastSub, licensed, file>>
  BY DEF Start, OpenSession, SaveRefused, Interrupt, CloseSession, Crash, NothingToRelease,
         CloseFailed, server, bridge, history
<1>2. pc'[d] \in Elsewhere
  BY Typed DEF Start, OpenSession, SaveRefused, Interrupt, CloseSession, Crash, NothingToRelease,
         CloseFailed, Exit, Goto, GotoFailure, Elsewhere
<1>3. mem'[d] \in {mem[d], file[d], Configured}
  BY Typed DEF Start, OpenSession, SaveRefused, Interrupt, CloseSession, Crash, NothingToRelease,
         CloseFailed, Exit
<1>4. Fits(mem'[d], record, licensed) /\ Fits(file'[d], record, licensed)
  BY <1>1, <1>3, Placed, ConfiguredFits
<1> QED
  BY <1>1, <1>2, <1>4, ElsewhereFree, QuietStep DEF Elsewhere

(* A refused claim, a handoff and a release write the delivery down as it   *)
(* is in memory.                                                            *)
LEMMA OneReleaseSteps ==
  ASSUME IInv, OneInv, OneComputer, NEW d \in Devices,
         \/ ClaimRefused(d) \/ HandoffRequested(d) \/ ReleaseExecution(d) \/ ReleaseFailed(d)
  PROVE  OneInv'
<1>1. /\ UNCHANGED <<calls, replies, lastSub, licensed>>
      /\ record'.progress = record.progress /\ record'.owner = record.owner
  BY Typed, ReleaseFields
  DEF ClaimRefused, HandoffRequested, ReleaseExecution, ReleaseFailed, server, bridge, history
<1>2. pc'[d] \in Elsewhere
  BY Typed DEF ClaimRefused, HandoffRequested, ReleaseExecution, ReleaseFailed, Exit, Goto, Elsewhere
<1>3. /\ Alike(file'[d], mem[d])
      /\ Alike(mem'[d], mem[d]) \/ mem'[d] = Configured
  <2> DEFINE stopped == [mem[d] EXCEPT !.run = 0, !.revision = 0, !.releasing = FALSE]
             intent == [mem[d] EXCEPT !.releasing = TRUE]
  <2>1. Alike(stopped, mem[d]) /\ Alike(intent, mem[d]) /\ Alike(mem[d], mem[d])
    BY Typed DEF ReceiverState, Alike
  <2>2. /\ file'[d] \in {stopped, intent, mem[d]}
        /\ mem'[d] \in {stopped, intent, mem[d], Configured}
    BY Typed DEF ClaimRefused, HandoffRequested, ReleaseExecution, ReleaseFailed, Store, Exit
  <2> QED
    BY <2>1, <2>2
<1>4. Fits(mem'[d], record, licensed) /\ Fits(file'[d], record, licensed)
  BY <1>3, Placed, AlikeFits, ConfiguredFits
<1> QED
  BY <1>1, <1>2, <1>4, ElsewhereFree, QuietStep DEF Elsewhere

-----------------------------------------------------------------------------
(* Delivering a batch.                                                      *)

(* The host stays silent, or the reply is found in the room: the checkpoint *)
(* is completed in memory only.                                             *)
LEMMA OneCompletingSteps ==
  ASSUME IInv, OneInv, OneComputer, NEW d \in Devices, HostSilent(d) \/ Confirm(d)
  PROVE  OneInv'
<1> DEFINE s == Completed(mem[d])
<1>1. /\ pc[d] \in {"Host", "Verify"} /\ Remember(d, s) /\ Goto(d, "Acknowledge")
      /\ UNCHANGED <<record, calls, replies, lastSub, licensed>>
  BY DEF HostSilent, Confirm, server, bridge, history
<1>2. /\ s.pending = FALSE /\ s.after = mem[d].event /\ s.event = mem[d].event
      /\ s.sub = mem[d].sub /\ s.stage = mem[d].stage
  BY Typed DEF Completed, ReceiverState
<1>3. DeliveryOf(s) = DeliveryOf(mem[d])
  BY <1>2 DEF DeliveryOf
<1> HIDE DEF s
<1>4. pc'[d] = "Acknowledge" /\ mem'[d] = s /\ file'[d] = file[d]
  BY <1>1, Typed DEF Remember, Goto
<1>5. /\ Current(record.progress) # None
      /\ Current(record.progress) = DeliveryOf(mem[d])
      /\ record.progress.pending # None => mem[d].stage = "Uncertain"
  <2>1. CASE pc[d] = "Verify"
    BY <2>1, Placed DEF AtStep
  <2>2. CASE pc[d] = "Host"
    <3>1. mem[d].pending /\ record.progress = ProgressOf(mem[d]) /\ mem[d].stage = "Uncertain"
      BY <2>2, Placed DEF AtStep
    <3>2. DeliveryOf(mem[d]) # None
      BY <3>1, Placed, NoneAssumption DEF Reportable, ReceiverState, DeliveryOf
    <3> QED
      BY <3>1, <3>2, ProgressFields DEF Current
  <2> QED
    BY <1>1, <2>1, <2>2
<1>6. AtStep("Acknowledge", s, record.progress)
  BY <1>2, <1>3, <1>5 DEF AtStep
<1>7. Fits(s, record, licensed)
  <2>1. record.owner # None
    BY <1>1 DEF OneInv, Beginning, Executing
  <2>2. Knows(s, record.progress)
    BY <1>2, <1>5 DEF Knows
  <2> QED
    BY <1>2, <2>1, <2>2, Placed DEF Fits
<1>8. pc[d] \in Executing /\ "Acknowledge" \notin {"SaveResolution", "SavePending", "SaveOutcome"}
  BY <1>1 DEF Executing
<1> QED
  BY <1>1, <1>4, <1>6, <1>7, <1>8, Placed, QuietStep

(* recover_previous makes the delivery pending in memory again.             *)
LEMMA OneRecoverStep ==
  ASSUME IInv, OneInv, OneComputer, NEW d \in Devices, RecoverPrevious(d)
  PROVE  OneInv'
<1> DEFINE s == [mem[d] EXCEPT !.pending = TRUE]
<1>1. /\ pc[d] = "Poll" /\ mem[d].stage = "Received" /\ Remember(d, s) /\ Goto(d, "Verify")
      /\ UNCHANGED <<record, calls, replies, lastSub, licensed>>
  BY DEF RecoverPrevious, server, bridge, history
<1>2. /\ s.pending = TRUE /\ s.after = mem[d].after /\ s.event = mem[d].event
      /\ s.sub = mem[d].sub /\ s.stage = mem[d].stage
  BY Typed DEF ReceiverState
<1>3. DeliveryOf(s) = DeliveryOf(mem[d])
  BY <1>2 DEF DeliveryOf
<1> HIDE DEF s
<1>4. pc'[d] = "Verify" /\ mem'[d] = s /\ file'[d] = file[d]
  BY <1>1, Typed DEF Remember, Goto
<1>5. ~mem[d].pending /\ record.progress = ProgressOf(mem[d])
  BY <1>1, Placed DEF AtStep
<1>6. /\ record.progress.pending = None /\ record.progress.retry = DeliveryOf(mem[d])
      /\ record.progress.after = mem[d].after
  BY <1>1, <1>5, ProgressFields
<1>7. DeliveryOf(mem[d]) # None
  BY <1>1, Placed, NoneAssumption DEF Reportable, ReceiverState, DeliveryOf
<1>8. AtStep("Verify", s, record.progress)
  BY <1>2, <1>3, <1>6, <1>7 DEF AtStep, Current
<1>9. Fits(s, record, licensed)
  <2>1. record.owner # None
    BY <1>1 DEF OneInv, Beginning, Executing
  <2> QED
    BY <1>2, <1>6, <2>1, Placed DEF Fits, Knows
<1>10. pc[d] \in Executing
  BY <1>1 DEF Executing
<1> QED
  BY <1>1, <1>4, <1>8, <1>9, <1>10, Placed, QuietStep

(* The reply is not found in time.                                          *)
LEMMA OneUnconfirmedStep ==
  ASSUME IInv, OneInv, OneComputer, NEW d \in Devices, Unconfirmed(d)
  PROVE  OneInv'
<1> DEFINE s == [mem[d] EXCEPT !.stage = "Uncertain"]
<1>1. /\ pc[d] = "Verify" /\ Store(d, s)
      /\ UNCHANGED <<record, calls, replies, lastSub, licensed>>
  BY DEF Unconfirmed, server, bridge, history
<1>2. /\ s.pending = mem[d].pending /\ s.after = mem[d].after /\ s.event = mem[d].event
      /\ s.sub = mem[d].sub /\ s.stage = "Uncertain"
  BY Typed DEF ReceiverState
<1>3. DeliveryOf(s) = DeliveryOf(mem[d])
  BY <1>2 DEF DeliveryOf
<1> HIDE DEF s
<1>4. mem'[d] = s /\ file'[d] = s
  BY <1>1, Typed DEF Store
<1>5. pc'[d] \in Elsewhere
  BY Typed DEF Unconfirmed, Goto, GotoFailure, Elsewhere
<1>6. /\ Current(record.progress) = DeliveryOf(mem[d])
      /\ mem[d].pending /\ mem[d].after = record.progress.after
  BY <1>1, Placed DEF AtStep
<1>7. Fits(s, record, licensed)
  <2>1. record.owner # None
    BY <1>1 DEF OneInv, Beginning, Executing
  <2> QED
    BY <1>2, <1>3, <1>6, <2>1 DEF Fits, Knows, Current
<1> QED
  BY <1>1, <1>4, <1>5, <1>7, ElsewhereFree, QuietStep DEF Elsewhere

(* The completed delivery is written down before the server hears of it.    *)
LEMMA OneAcknowledgeStep ==
  ASSUME IInv, OneInv, OneComputer, NEW d \in Devices, AcknowledgeInBridge(d)
  PROVE  OneInv'
<1> DEFINE s == Finished(mem[d])
<1>1. /\ pc[d] = "Acknowledge" /\ Store(d, s) /\ Goto(d, "SaveOutcome")
      /\ UNCHANGED <<record, calls, replies, lastSub, licensed>>
  BY DEF AcknowledgeInBridge, server, bridge, history
<1>2. s.pending = mem[d].pending /\ s.after = mem[d].after /\ s.stage = "NoDelivery"
  BY Typed DEF Finished, ReceiverState
<1> HIDE DEF s
<1>3. pc'[d] = "SaveOutcome" /\ mem'[d] = s /\ file'[d] = s
  BY <1>1, Typed DEF Store, Goto
<1>4. /\ Current(record.progress) # None /\ Current(record.progress) = DeliveryOf(mem[d])
      /\ ~mem[d].pending /\ mem[d].after = mem[d].event
  BY <1>1, Placed DEF AtStep
<1>5. AtStep("SaveOutcome", s, record.progress)
  BY <1>2, <1>4 DEF AtStep, DeliveryOf
<1>6. Fits(s, record, licensed)
  BY <1>2, <1>4 DEF Fits, Knows
<1>7. pc[d] \in Executing
  BY <1>1 DEF Executing
<1> QED
  BY <1>1, <1>3, <1>5, <1>6, <1>7, QuietStep

(* The host's reply is handed to the Bridge under the submission of the     *)
(* delivery that is pending on the server, and for its messages.            *)
LEMMA OneHostDoneStep ==
  ASSUME IInv, OneInv, OneComputer, NEW d \in Devices, HostDone(d)
  PROVE  OneInv'
<1> DEFINE new == [device |-> d, sub |-> mem[d].sub, run |-> mem[d].run,
                   covers |-> Batch(mem[d]), authorized |-> FALSE]
           p == record.progress
<1>1. /\ pc[d] = "Host" /\ Store(d, mem[d]) /\ Goto(d, "Verify")
      /\ calls' = calls \cup {new} \/ UNCHANGED calls
      /\ UNCHANGED <<record, replies, lastSub, licensed>>
  BY DEF HostDone, server, history
<1>2. \A e \in Devices : e = d
  BY DEF OneComputer
<1>3. mem'[d] = mem[d] /\ file'[d] = mem[d] /\ pc'[d] = "Verify"
  BY <1>1, Typed DEF Store, Goto
<1>4. mem[d].pending /\ p = ProgressOf(mem[d]) /\ mem[d].stage = "Uncertain"
  BY <1>1, Placed DEF AtStep
<1>5. DeliveryOf(mem[d]) # None
  BY <1>4, Placed, NoneAssumption DEF Reportable, ReceiverState, DeliveryOf
<1>6. p.pending = DeliveryOf(mem[d]) /\ Current(p) = DeliveryOf(mem[d]) /\ p.after = mem[d].after
  BY <1>4, <1>5, ProgressFields DEF Current
<1>7. Places'
  <2>1. AtStep("Verify", mem[d], p)
    BY <1>4, <1>5, <1>6 DEF AtStep
  <2> QED
    BY <1>1, <1>2, <1>3, <2>1, Placed DEF Places, Saving
<1>8. Beginning' /\ Fresh' /\ Submitted(record.progress)' /\ Licence(record.progress, licensed)'
  <2>1. record.owner # None
    BY <1>1 DEF OneInv, Beginning, Executing
  <2> QED
    BY <1>1, <1>2, <1>3, <2>1 DEF OneInv, Beginning, Fresh, Submitted, Licence
<1>9. /\ new.sub = Current(p).sub /\ new.sub <= lastSub
      /\ new.covers = (p.after + 1)..Current(p).event
  BY <1>5, <1>6 DEF OneInv, Submitted, DeliveryOf, Batch
<1>10. Within(new, p)
  BY <1>5, <1>6, <1>9 DEF Within
<1>11. \A w \in Written : w.sub # new.sub => w.covers \cap new.covers = {}
  <2> SUFFICES ASSUME NEW w \in Written, w.sub # new.sub PROVE w.covers \cap new.covers = {}
    OBVIOUS
  <2>1. w.covers \subseteq 1..p.after
    BY <1>9 DEF OneInv, Answers, Within
  <2>2. p.after \in Nat
    BY Placed, Numbers
  <2>3. \A n \in 1..p.after : n \notin (p.after + 1)..Current(p).event
    BY <2>2
  <2> QED
    BY <1>9, <2>1, <2>3
<1> HIDE DEF new, p
<1>12. Written' \subseteq Written \cup {new} /\ p' = p
  BY <1>1 DEF Written, p
<1>13. Answers'
  <2>1. \A w \in Written' : w.sub <= lastSub' /\ Within(w, p')
    BY <1>1, <1>9, <1>10, <1>12 DEF OneInv, Answers, p
  <2>2. \A w, v \in Written' : w.sub # v.sub => w.covers \cap v.covers = {}
    BY <1>11, <1>12 DEF OneInv, Answers
  <2>3. \A r, q \in replies' : r.sub = q.sub => r = q
    BY <1>1 DEF OneInv, Answers
  <2> QED
    BY <2>1, <2>2, <2>3 DEF Answers, p
<1> QED
  BY <1>7, <1>8, <1>13 DEF OneInv

(* begin_batch: a retried delivery grows under its submission, a new one    *)
(* takes a submission nobody has used.                                      *)
LEMMA OneBeginBatchStep ==
  ASSUME IInv, OneInv, OneComputer, NEW d \in Devices, BeginBatch(d)
  PROVE  OneInv'
<1> DEFINE p == record.progress
<1>1. /\ pc[d] = "Poll" /\ mem[d].after < seen[d] /\ Goto(d, "SavePending")
      /\ UNCHANGED <<record, calls, replies>>
  BY DEF BeginBatch, server, bridge
<1>2. \A e \in Devices : e = d
  BY DEF OneComputer
<1>3. ~mem[d].pending /\ p = ProgressOf(mem[d])
  BY <1>1, Placed DEF AtStep
<1>4. /\ p.after = mem[d].after /\ p.pending = None
      /\ p.retry = IF mem[d].stage = "Received" THEN DeliveryOf(mem[d]) ELSE None
  BY <1>3, ProgressFields
<1>5. pc'[d] = "SavePending"
  BY <1>1, Typed DEF Goto
<1>6. record.owner # None
  BY <1>1 DEF OneInv, Beginning, Executing
<1>7. lastSub \in Nat /\ mem[d].event \in Nat
  BY Placed, Numbers DEF IInv, TypeOK
<1>8. /\ mem'[d].pending = TRUE /\ mem'[d].stage = "Received" /\ mem'[d].after = mem[d].after
      /\ mem'[d].event = seen[d] /\ file'[d] = mem'[d]
      /\ mem'[d].sub \in licensed' /\ licensed \subseteq licensed'
      /\ lastSub <= lastSub' /\ mem'[d].sub <= lastSub'
      /\ p.retry # None => mem'[d].sub = p.retry.sub /\ p.retry.event <= seen[d]
      /\ p.retry = None => \A w \in Written : w.sub # mem'[d].sub
  <2>1. CASE mem[d].stage = "Received"
    <3> DEFINE s == [mem[d] EXCEPT !.pending = TRUE, !.event = seen[d]]
    <3>1. Store(d, s) /\ UNCHANGED <<lastSub, licensed>> /\ mem[d].event <= seen[d]
      BY <2>1 DEF BeginBatch, Searchable
    <3>2. /\ s.pending = TRUE /\ s.event = seen[d] /\ s.sub = mem[d].sub
          /\ s.stage = mem[d].stage /\ s.after = mem[d].after
      BY Typed DEF ReceiverState
    <3> HIDE DEF s
    <3>3. mem'[d] = s /\ file'[d] = s
      BY <3>1, Typed DEF Store
    <3>4. DeliveryOf(mem[d]) # None
      BY <2>1, Placed, NoneAssumption DEF Reportable, ReceiverState, DeliveryOf
    <3>5. p.retry # None /\ p.retry.sub = mem[d].sub /\ p.retry.event = mem[d].event
      BY <1>4, <2>1, <3>4 DEF DeliveryOf
    <3>6. p.retry.sub <= lastSub
      BY <1>4, <3>5 DEF OneInv, Submitted, Current
    <3>7. mem[d].sub \in licensed
      BY <2>1, Placed DEF Fits
    <3> QED
      BY <1>7, <2>1, <3>1, <3>2, <3>3, <3>5, <3>6, <3>7
  <2>2. CASE mem[d].stage # "Received"
    <3> DEFINE s == [mem[d] EXCEPT !.pending = TRUE, !.event = seen[d],
                                   !.sub = lastSub', !.stage = "Received"]
    <3>1. Store(d, s) /\ lastSub' = lastSub + 1 /\ licensed' = licensed \cup {lastSub'}
      BY <2>2 DEF BeginBatch
    <3>2. /\ s.pending = TRUE /\ s.event = seen[d] /\ s.sub = lastSub'
          /\ s.stage = "Received" /\ s.after = mem[d].after
      BY Typed DEF ReceiverState
    <3> HIDE DEF s
    <3>3. mem'[d] = s /\ file'[d] = s
      BY <3>1, Typed DEF Store
    <3>4. p.retry = None
      BY <1>4, <2>2
    <3>5. ASSUME NEW w \in Written PROVE w.sub # lastSub'
      <4>1. w.sub <= lastSub
        BY DEF OneInv, Answers
      <4> QED
        BY <1>7, <3>1, <4>1
    <3> QED
      BY <1>7, <3>1, <3>2, <3>3, <3>4, <3>5
  <2> QED
    BY <2>1, <2>2
<1>9. AtStep("SavePending", mem'[d], p)
  BY <1>1, <1>4, <1>8 DEF AtStep
<1>10. Fits(mem'[d], record, licensed')
  BY <1>4, <1>6, <1>8 DEF Fits, Knows
<1>11. Places'
  BY <1>1, <1>2, <1>5, <1>8, <1>9, <1>10 DEF Places
<1>12. lastSub' \in Nat
  BY BeginBatchStep DEF IInv, TypeOK
<1>13. Answers'
  <2>1. \A w \in Written : w.sub \in Nat
    BY Domains DEF Written, IInv, TypeOK, Send, Reply
  <2>2. \A w \in Written : w.sub <= lastSub'
    BY <1>7, <1>8, <1>12, <2>1 DEF OneInv, Answers
  <2> QED
    BY <1>1, <2>2 DEF OneInv, Answers, Written
<1>14. Submitted(record.progress)'
  <2>1. Current(p) # None => Current(p).sub \in Nat
    BY Placed, Numbers DEF Current
  <2> QED
    BY <1>1, <1>7, <1>8, <1>12, <2>1 DEF OneInv, Submitted
<1>15. Beginning' /\ Fresh' /\ Licence(record.progress, licensed)'
  BY <1>1, <1>2, <1>6, <1>8 DEF OneInv, Beginning, Fresh, Licence, Written
<1> QED
  BY <1>11, <1>13, <1>14, <1>15 DEF OneInv

-----------------------------------------------------------------------------
(* Requests to the server.                                                  *)

(* What has to be shown of a step that changes what the server knows.       *)
LEMMA ServerStep ==
  ASSUME OneComputer, NEW d \in Devices, record'.owner # None,
         AtStep(pc'[d], mem'[d], record'.progress),
         Fits(mem'[d], record', licensed'), Fits(file'[d], record', licensed'),
         pc'[d] \in {"SaveResolution", "SaveOutcome"} => file'[d] = mem'[d],
         pc'[d] # "SavePending",
         Answers', Submitted(record.progress)', Licence(record.progress, licensed)'
  PROVE  OneInv'
<1>1. \A e \in Devices : e = d
  BY DEF OneComputer
<1>2. Places' /\ Beginning' /\ Fresh'
  BY <1>1 DEF Places, Beginning, Fresh, Saving
<1> QED
  BY <1>2 DEF OneInv

(* What is written is about messages up to the end of the server's          *)
(* delivery: once the cursor is there, everything written is behind it.     *)
LEMMA AllBehind ==
  ASSUME IInv, OneInv, NEW q \in Progress, Current(record.progress) # None,
         q.after = Current(record.progress).event, Current(q) = None
  PROVE  /\ \A w \in Written : Within(w, q)
         /\ Submitted(q)
         /\ record.progress.after <= q.after
<1> DEFINE p == record.progress
<1>1. p.after \in Nat /\ q.after \in Nat /\ p.after < q.after
  BY Typed, Numbers DEF OneInv, Submitted, Record
<1>2. ASSUME NEW w \in Written PROVE Within(w, q)
  <2>1. w.covers \subseteq (p.after + 1)..q.after \/ w.covers \subseteq 1..p.after
    BY DEF OneInv, Answers, Within
  <2>2. \A n : n \in (p.after + 1)..q.after \/ n \in 1..p.after => n \in 1..q.after
    BY <1>1
  <2>3. w.covers \subseteq 1..q.after
    BY <2>1, <2>2
  <2> QED
    BY <2>3 DEF Within
<1> QED
  BY <1>1, <1>2 DEF Submitted

(* A save moves the cursor on to the end of the server's delivery, or makes *)
(* the delivery pending, larger perhaps, or clears it for another attempt.  *)
LEMMA SavedOnward ==
  ASSUME IInv, OneInv, NEW d \in Devices, Saving(d),
         record'.progress = ProgressOf(mem[d]), UNCHANGED <<calls, replies, lastSub>>
  PROVE  /\ Answers' /\ Submitted(record.progress)'
         /\ record.progress.after <= record'.progress.after
<1> DEFINE p == record.progress
           x == mem[d]
           q == ProgressOf(mem[d])
<1>1. /\ p \in Progress /\ q \in Progress /\ x \in ReceiverState /\ x \in Reportable
      /\ AtStep(pc[d], x, p) /\ Knows(x, p)
  BY Placed, ProgressReported DEF Fits
<1>2. p.after \in Nat /\ x.after \in Nat /\ x.event \in Nat /\ x.sub \in Nat /\ q.after = x.after
  BY <1>1, Numbers, ProgressFields
<1>3. SUFFICES /\ \A w \in Written : Within(w, q)
               /\ Submitted(q)
               /\ p.after <= q.after
  BY DEF OneInv, Answers, Submitted, Written
<1>4. x.pending \/ x.stage = "Received" => DeliveryOf(x) # None
  BY <1>1, NoneAssumption DEF Reportable, ReceiverState, DeliveryOf
<1>5. DeliveryOf(x).sub = x.sub /\ DeliveryOf(x).event = x.event
  BY DEF DeliveryOf
<1>6. CASE pc[d] = "SavePending"
  <2>1. /\ x.pending /\ x.stage = "Received" /\ p.pending = None /\ x.after = p.after
        /\ x.after < x.event
        /\ p.retry # None => x.sub = p.retry.sub /\ p.retry.event <= x.event
    BY <1>1, <1>6 DEF AtStep
  <2>2. Current(q) = DeliveryOf(x) /\ Current(q) # None /\ Current(p) = p.retry
    BY <1>4, <2>1, ProgressFields DEF Current
  <2>3. x.sub <= lastSub /\ (p.retry = None => \A w \in Written : w.sub # x.sub)
    BY <1>6 DEF OneInv, Fresh
  <2>4. ASSUME NEW w \in Written PROVE Within(w, q)
    <3>1. Within(w, p)
      BY DEF OneInv, Answers
    <3>2. CASE w.sub = x.sub
      <4>1. p.retry # None /\ w.sub = p.retry.sub /\ p.retry.event <= x.event
        BY <2>1, <2>3, <3>2
      <4>2. w.covers \subseteq (p.after + 1)..p.retry.event
        BY <2>2, <3>1, <4>1 DEF Within
      <4>3. p.retry.event \in Nat
        BY <1>1, <4>1, Numbers
      <4>4. \A n \in (p.after + 1)..p.retry.event : n \in (p.after + 1)..x.event
        BY <1>2, <4>1, <4>3
      <4> QED
        BY <1>2, <1>5, <2>1, <2>2, <3>2, <4>2, <4>4 DEF Within
    <3>3. CASE w.sub # x.sub
      <4>1. w.covers \subseteq 1..p.after
        BY <2>1, <2>2, <3>1, <3>3 DEF Within
      <4> QED
        BY <1>2, <1>5, <2>1, <2>2, <3>3, <4>1 DEF Within
    <3> QED
      BY <3>2, <3>3
  <2> QED
    BY <1>2, <1>5, <2>1, <2>2, <2>3, <2>4 DEF Submitted
<1>7. CASE pc[d] = "SaveOutcome"
  <2>1. /\ ~x.pending /\ x.stage = "NoDelivery"
        /\ Current(p) # None /\ x.after = Current(p).event
    BY <1>1, <1>7 DEF AtStep
  <2>2. Current(q) = None
    BY <2>1, ProgressFields DEF Current
  <2> QED
    BY <1>1, <1>2, <2>1, <2>2, AllBehind
<1>8. CASE pc[d] = "SaveResolution"
  <2>1. /\ ~x.pending /\ x.stage \in {"Received", "Skipped"}
        /\ p.pending # None /\ p.pending = DeliveryOf(x)
        /\ x.after = IF x.stage = "Skipped" THEN x.event ELSE p.after
    BY <1>1, <1>8 DEF AtStep, Knows
  <2>2. Current(p) = DeliveryOf(x)
    BY <2>1 DEF Current
  <2>3. CASE x.stage = "Skipped"
    <3>1. Current(q) = None
      BY <2>1, <2>3, ProgressFields DEF Current
    <3>2. Current(p) # None /\ q.after = Current(p).event
      BY <1>2, <1>5, <2>1, <2>2, <2>3
    <3> QED
      BY <1>1, <3>1, <3>2, AllBehind
  <2>4. CASE x.stage = "Received"
    <3>1. Current(q) = Current(p) /\ q.after = p.after
      BY <1>2, <2>1, <2>2, <2>4, ProgressFields DEF Current
    <3>2. \A w \in Written : Within(w, q)
      BY <3>1 DEF OneInv, Answers, Within
    <3>3. Submitted(q)
      BY <3>1 DEF OneInv, Submitted
    <3> QED
      BY <1>2, <3>1, <3>2, <3>3
  <2> QED
    BY <2>1, <2>3, <2>4
<1> QED
  BY <1>6, <1>7, <1>8 DEF Saving

(* A state knows what it has just reported.                                 *)
LEMMA OwnReport == \A s : Knows(s, ProgressOf(s))
<1> SUFFICES ASSUME NEW s, ProgressOf(s).pending # None
             PROVE  s.pending /\ ProgressOf(s).pending = DeliveryOf(s) /\ ProgressOf(s).after = s.after
  BY DEF Knows
<1> QED
  BY ProgressFields

(* What every save that was carried out has in common.                      *)
LEMMA SaveCommon ==
  ASSUME IInv, OneInv, NEW d \in Devices, Saving(d), Saved(d),
         UNCHANGED <<calls, replies, lastSub>>
  PROVE  /\ record'.progress = ProgressOf(mem[d]) /\ record'.owner # None
         /\ Answers' /\ Submitted(record.progress)'
         /\ Licence(ProgressOf(mem[d]), licensed)
<1>1. record'.progress = ProgressOf(mem[d]) /\ record'.owner = record.owner
  BY SavedRecord
<1>2. record.owner # None
  BY DEF Saving, OneInv, Beginning, Executing
<1>3. Licence(ProgressOf(mem[d]), licensed)
  <2>1. mem[d].stage = "Received" => mem[d].sub \in licensed
    BY Placed DEF Fits
  <2>2. ProgressOf(mem[d]).retry # None => mem[d].stage = "Received"
                                           /\ ProgressOf(mem[d]).retry = DeliveryOf(mem[d])
    BY ProgressFields
  <2> QED
    BY <2>1, <2>2 DEF Licence, DeliveryOf
<1> QED
  BY <1>1, <1>2, <1>3, SavedOnward

(* A save of a resolution or an outcome.                                    *)
LEMMA OneSaveProgressStep ==
  ASSUME IInv, OneInv, OneComputer, NEW d \in Devices, SaveProgress(d)
  PROVE  OneInv'
<1> DEFINE s == [mem[d] EXCEPT !.revision = record'.revision]
<1>1. /\ pc[d] \in {"SaveResolution", "SaveOutcome"} /\ Saved(d) /\ Store(d, s) /\ Goto(d, "Poll")
      /\ UNCHANGED <<calls, replies, lastSub, licensed>>
  BY DEF SaveProgress, bridge, history
<1>2. /\ record'.progress = ProgressOf(mem[d]) /\ record'.owner # None
      /\ Answers' /\ Submitted(record.progress)' /\ Licence(ProgressOf(mem[d]), licensed)
  BY <1>1, SaveCommon DEF Saving
<1>3. Alike(s, mem[d])
  BY Typed DEF ReceiverState, Alike
<1> HIDE DEF s
<1>4. mem'[d] = s /\ file'[d] = s /\ pc'[d] = "Poll"
  BY <1>1, Typed DEF Store, Goto
<1>5. ~mem[d].pending
  BY <1>1, Placed DEF AtStep
<1>6. AtStep("Poll", mem[d], record'.progress)
  BY <1>2, <1>5 DEF AtStep
<1>7. Fits(mem[d], record', licensed')
  BY <1>1, <1>2, OwnReport, Placed DEF Fits
<1>8. AtStep("Poll", s, record'.progress) /\ Fits(s, record', licensed')
  BY <1>3, <1>6, <1>7, AlikeFits
<1>9. Licence(record.progress, licensed)'
  BY <1>1, <1>2 DEF Licence
<1> QED
  BY <1>2, <1>4, <1>8, <1>9, ServerStep

(* The save of the pending delivery and the start of the host.              *)
LEMMA OneStartHostStep ==
  ASSUME IInv, OneInv, OneComputer, NEW d \in Devices, StartHost(d)
  PROVE  OneInv'
<1> DEFINE s == [mem[d] EXCEPT !.revision = record'.revision, !.stage = "Uncertain"]
<1>1. /\ pc[d] = "SavePending" /\ Saved(d) /\ Store(d, s) /\ Goto(d, "Host")
      /\ UNCHANGED <<calls, replies, lastSub>>
  BY DEF StartHost, bridge
<1>2. /\ record'.progress = ProgressOf(mem[d]) /\ record'.owner # None
      /\ Answers' /\ Submitted(record.progress)'
  BY <1>1, SaveCommon DEF Saving
<1>3. /\ s.pending = mem[d].pending /\ s.after = mem[d].after /\ s.event = mem[d].event
      /\ s.sub = mem[d].sub /\ s.stage = "Uncertain"
  BY Typed DEF ReceiverState
<1> HIDE DEF s
<1>4. mem'[d] = s /\ file'[d] = s /\ pc'[d] = "Host"
  BY <1>1, Typed DEF Store, Goto
<1>5. mem[d].pending
  BY <1>1, Placed DEF AtStep
<1>6. ProgressOf(s) = ProgressOf(mem[d])
  BY <1>3, <1>5 DEF ProgressOf, DeliveryOf
<1>7. AtStep("Host", s, record'.progress)
  BY <1>2, <1>3, <1>5, <1>6 DEF AtStep
<1>8. Fits(s, record', licensed')
  BY <1>2, <1>3, <1>6, OwnReport DEF Fits
<1>9. Licence(record.progress, licensed)'
  BY <1>2, <1>5, ProgressFields DEF Licence
<1> QED
  BY <1>2, <1>4, <1>7, <1>8, <1>9, ServerStep

(* A save whose answer is lost.                                             *)
LEMMA OneSaveUnansweredStep ==
  ASSUME IInv, OneInv, OneComputer, NEW d \in Devices, SaveUnanswered(d)
  PROVE  OneInv'
<1>1. /\ Saving(d) /\ Saved(d) /\ UNCHANGED <<mem, file, calls, replies, lastSub, licensed>>
  BY DEF SaveUnanswered, bridge, history
<1>2. /\ record'.progress = ProgressOf(mem[d]) /\ record'.owner # None
      /\ Answers' /\ Submitted(record.progress)' /\ Licence(ProgressOf(mem[d]), licensed)
  BY <1>1, SaveCommon
<1>3. pc'[d] \in Elsewhere
  BY Typed DEF SaveUnanswered, Goto, GotoFailure, Elsewhere
<1>4. Fits(mem[d], record', licensed')
  BY <1>1, <1>2, OwnReport, Placed DEF Fits
<1>5. mem'[d] = mem[d] /\ file'[d] = mem[d]
  BY <1>1, Placed
<1>6. Licence(record.progress, licensed)'
  BY <1>1, <1>2 DEF Licence
<1> QED
  BY <1>2, <1>3, <1>4, <1>5, <1>6, ElsewhereFree, ServerStep DEF Elsewhere

(* A claim that was carried out leaves the server's progress alone, or, the *)
(* first one, sets a progress without a delivery.                           *)
LEMMA ClaimCommon ==
  ASSUME IInv, OneInv, NEW d \in Devices, TakeRun(d), record' = Claimed(d),
         UNCHANGED <<calls, replies, lastSub, licensed>>
  PROVE  /\ record'.owner # None /\ record'.progress \in Progress
         /\ Fits(Claimant(d), record', licensed')
         /\ Answers' /\ Submitted(record.progress)' /\ Licence(record.progress, licensed)'
         /\ record.owner # None => record'.progress = record.progress
<1>1. Alike(Claimant(d), mem[d])
  BY Typed DEF Claimant, ReceiverState, Alike
<1>2. [device |-> d, run |-> Claimant(d).run] \in Owner
  BY ClaimantReportable DEF Owner
<1>3. ProgressOf(Claimant(d)) \in Progress
  BY ClaimantReportable, ProgressReported
<1>4. /\ record' \in Record /\ record'.owner = [device |-> d, run |-> Claimant(d).run]
      /\ record'.progress = IF record.owner = None THEN ProgressOf(Claimant(d)) ELSE record.progress
  BY <1>2, <1>3, Typed, ClaimFields DEF Claimed
<1>5. record'.owner # None /\ record'.progress \in Progress
  BY <1>2, <1>4, OwnerNotNone DEF Record
<1>6. Fits(Claimant(d), record, licensed)
  BY <1>1, Placed, AlikeFits
<1>7. CASE record.owner # None
  <2>1. record'.progress = record.progress
    BY <1>4, <1>7
  <2>2. Fits(Claimant(d), record', licensed')
    BY <1>5, <1>6, <2>1 DEF Fits
  <2>3. Answers' /\ Submitted(record.progress)' /\ Licence(record.progress, licensed)'
    BY <2>1 DEF OneInv, Answers, Written, Submitted, Licence
  <2> QED
    BY <1>5, <2>1, <2>2, <2>3
<1>8. CASE record.owner = None
  <2>1. ~Claimant(d).pending /\ Claimant(d).stage = "NoDelivery"
    BY <1>6, <1>8 DEF Fits
  <2>2. record'.progress.pending = None /\ record'.progress.retry = None
    BY <1>4, <1>8, <2>1, ProgressFields
  <2>3. Written' = {} /\ replies' = {}
    BY <1>8 DEF OneInv, Beginning, Written
  <2>4. Fits(Claimant(d), record', licensed')
    BY <1>5, <2>1, <2>2 DEF Fits, Knows
  <2>5. Answers' /\ Submitted(record.progress)' /\ Licence(record.progress, licensed)'
    BY <2>2, <2>3 DEF Answers, Submitted, Licence, Current
  <2> QED
    BY <1>5, <1>8, <2>4, <2>5
<1> QED
  BY <1>7, <1>8

(* A granted claim: the owner's decision stands if it is about the delivery *)
(* pending on the server, otherwise the server's word is taken.             *)
LEMMA OneClaimStep ==
  ASSUME IInv, OneInv, OneComputer, NEW d \in Devices, ClaimExecution(d)
  PROVE  OneInv'
<1> DEFINE granted == [Claimant(d) EXCEPT !.revision = record'.revision]
           explicit == ExplicitResolution(granted, record'.progress)
           resumed == IF explicit THEN granted ELSE Restore(granted, record'.progress)
           step == IF explicit THEN "SaveResolution" ELSE IF resumed.pending THEN "Verify" ELSE "Poll"
           q == record'.progress
<1>1. /\ TakeRun(d) /\ record' = Claimed(d) /\ Store(d, resumed) /\ Goto(d, step)
      /\ UNCHANGED <<calls, replies, lastSub, licensed>>
  BY DEF ClaimExecution, bridge, history
<1>2. /\ record'.owner # None /\ q \in Progress /\ Fits(Claimant(d), record', licensed')
      /\ Answers' /\ Submitted(record.progress)' /\ Licence(record.progress, licensed)'
  BY <1>1, ClaimCommon
<1>3. Claimant(d) \in Reportable /\ record'.revision \in Nat
  BY <1>1, ClaimantReportable, ClaimedRecord DEF Record
<1>4. /\ granted \in ReceiverState /\ Alike(granted, Claimant(d)) /\ granted \in Reportable
  <2>1. granted \in ReceiverState /\ Alike(granted, Claimant(d))
    BY <1>3 DEF Reportable, ReceiverState, Alike
  <2> QED
    BY <1>3, <2>1 DEF Reportable, Alike
<1> HIDE DEF granted
<1>5. Fits(granted, record', licensed')
  BY <1>2, <1>4, AlikeFits
<1>6. mem'[d] = resumed /\ file'[d] = resumed /\ pc'[d] = step
  BY <1>1, Typed DEF Store, Goto
<1>7. AtStep(step, resumed, q) /\ Fits(resumed, record', licensed')
  <2>1. CASE explicit
    <3>1. /\ q.pending # None /\ ~granted.pending /\ granted.stage \in {"Received", "Skipped"}
      BY <2>1 DEF ExplicitResolution
    <3>2. q.pending = DeliveryOf(granted)
      BY <1>5, <3>1 DEF Fits, Knows
    <3>3. AtStep("SaveResolution", granted, q)
      BY <3>1, <3>2 DEF AtStep
    <3> QED
      BY <1>5, <2>1, <3>3
  <2>2. CASE ~explicit
    <3> DEFINE x == Restore(granted, q)
    <3>1. /\ x.after = q.after
          /\ q.pending # None => x.pending /\ x.stage = "Uncertain" /\ DeliveryOf(x) = q.pending
          /\ q.pending = None => ~x.pending /\ ProgressOf(x) = q
          /\ q.retry # None => DeliveryOf(x) = q.retry
          /\ x.stage = "Received" => q.retry # None
      BY <1>2, <1>4, RestoreAgrees
    <3>2. resumed = x
      BY <2>2
    <3> HIDE DEF x, resumed, explicit
    <3>3. Knows(x, q)
      BY <3>1 DEF Knows
    <3>4. x.stage = "Received" => x.sub \in licensed'
      <4>1. q.retry # None => q.retry.sub \in licensed'
        BY <1>2 DEF Licence
      <4>2. q.retry # None => x.sub = q.retry.sub
        BY <3>1 DEF DeliveryOf
      <4> QED
        BY <3>1, <4>1, <4>2
    <3>5. Fits(x, record', licensed')
      BY <1>2, <3>3, <3>4 DEF Fits
    <3>6. AtStep(IF x.pending THEN "Verify" ELSE "Poll", x, q)
      <4>1. CASE q.pending # None
        <5>1. AtStep("Verify", x, q)
          BY <3>1, <4>1 DEF AtStep, Current
        <5> QED
          BY <3>1, <4>1, <5>1
      <4>2. CASE q.pending = None
        <5>1. AtStep("Poll", x, q)
          BY <3>1, <4>2 DEF AtStep
        <5> QED
          BY <3>1, <4>2, <5>1
      <4> QED
        BY <4>1, <4>2
    <3> QED
      BY <2>2, <3>2, <3>5, <3>6
  <2> QED
    BY <2>1, <2>2
<1>8. step \in {"SaveResolution", "Verify", "Poll"}
  OBVIOUS
<1> HIDE DEF step, resumed, explicit
<1> QED
  BY <1>2, <1>6, <1>7, <1>8, ServerStep

(* A claim whose request or answer is lost.                                 *)
LEMMA OneClaimUnansweredStep ==
  ASSUME IInv, OneInv, OneComputer, NEW d \in Devices, ClaimUnanswered(d)
  PROVE  OneInv'
<1>1. /\ TakeRun(d) /\ Store(d, Claimant(d)) /\ UNCHANGED <<calls, replies, lastSub, licensed>>
  BY DEF ClaimUnanswered, bridge, history
<1>2. mem'[d] = Claimant(d) /\ file'[d] = Claimant(d)
  BY <1>1, Typed DEF Store
<1>3. pc'[d] \in Elsewhere
  BY Typed DEF ClaimUnanswered, Goto, GotoFailure, Elsewhere
<1>4. CASE UNCHANGED record
  <2>1. Alike(Claimant(d), mem[d])
    BY Typed DEF Claimant, ReceiverState, Alike
  <2>2. Fits(Claimant(d), record, licensed)
    BY <2>1, Placed, AlikeFits
  <2> QED
    BY <1>1, <1>2, <1>3, <1>4, <2>2, ElsewhereFree, QuietStep DEF Elsewhere
<1>5. CASE record' = Claimed(d)
  BY <1>1, <1>2, <1>3, <1>5, ClaimCommon, ElsewhereFree, ServerStep DEF Elsewhere
<1> QED
  BY <1>4, <1>5 DEF ClaimUnanswered

-----------------------------------------------------------------------------
(* The owner, the Bridge and the room.                                      *)

(* The owner has the delivery in the file tried again, or skipped.          *)
LEMMA OneResolveSteps ==
  ASSUME IInv, OneInv, OneComputer, NEW d \in Devices, ResolveRetry(d) \/ ResolveSkip(d)
  PROVE  OneInv'
<1>1. /\ UNCHANGED <<record, mem, pc, calls, replies, lastSub>>
      /\ pc[d] = "Off" /\ file[d].pending
  BY DEF ResolveRetry, ResolveSkip, server, bridge
<1>2. \A e \in Devices : e = d
  BY DEF OneComputer
<1>3. record.owner # None
  BY <1>1, Placed DEF Fits
<1>4. /\ record.progress.pending # None => /\ record.progress.pending = DeliveryOf(file[d])
                                           /\ file[d].after = record.progress.after
  BY <1>1, Placed DEF Fits, Knows
<1>5. licensed \subseteq licensed' /\ Fits(file'[d], record, licensed')
  <2>1. CASE ResolveRetry(d)
    <3> DEFINE s == [file[d] EXCEPT !.pending = FALSE, !.stage = "Received"]
    <3>1. file' = [file EXCEPT ![d] = s] /\ licensed' = licensed \cup {file[d].sub}
      BY <2>1, Typed DEF ResolveRetry
    <3>2. /\ s.pending = FALSE /\ s.stage = "Received" /\ s.after = file[d].after
          /\ s.sub = file[d].sub /\ s.event = file[d].event
      BY Typed DEF ReceiverState
    <3> HIDE DEF s
    <3>3. file'[d] = s
      BY <3>1, Typed
    <3> QED
      BY <1>3, <1>4, <3>1, <3>2, <3>3 DEF Fits, Knows, DeliveryOf
  <2>2. CASE ResolveSkip(d)
    <3> DEFINE s == [file[d] EXCEPT !.pending = FALSE, !.after = file[d].event, !.stage = "Skipped"]
    <3>1. file' = [file EXCEPT ![d] = s] /\ UNCHANGED licensed
      BY <2>2, Typed DEF ResolveSkip
    <3>2. /\ s.pending = FALSE /\ s.stage = "Skipped" /\ s.after = file[d].event
          /\ s.sub = file[d].sub /\ s.event = file[d].event
      BY Typed DEF ReceiverState
    <3> HIDE DEF s
    <3>3. file'[d] = s
      BY <3>1, Typed
    <3> QED
      BY <1>3, <1>4, <3>1, <3>2, <3>3 DEF Fits, Knows, DeliveryOf
  <2> QED
    BY <2>1, <2>2
<1>6. Fits(mem[d], record, licensed')
  BY <1>5, Placed DEF Fits
<1>7. Places'
  BY <1>1, <1>2, <1>5, <1>6, Placed DEF Places, Saving
<1>8. Beginning' /\ Fresh' /\ Answers' /\ Submitted(record.progress)'
  BY <1>1 DEF OneInv, Beginning, Fresh, Answers, Submitted, Written
<1>9. Licence(record.progress, licensed)'
  BY <1>1, <1>5 DEF OneInv, Licence
<1> QED
  BY <1>7, <1>8, <1>9 DEF OneInv

(* Steps that keep the receiver, what the server knows, and the submission  *)
(* and the messages of everything written.                                  *)
LEMMA UntouchedStep ==
  ASSUME OneInv, record'.progress = record.progress, record'.owner = record.owner,
         UNCHANGED <<file, mem, pc, lastSub, licensed>>,
         \A w \in Written' : \E v \in Written : w.sub = v.sub /\ w.covers = v.covers,
         \A r, q \in replies' : r.sub = q.sub => r = q
  PROVE  OneInv'
<1>1. Places'
  BY DEF OneInv, Places, Fits, Saving
<1>2. \A w, p : \A v : w.sub = v.sub /\ w.covers = v.covers /\ Within(v, p) => Within(w, p)
  BY DEF Within
<1>3. Answers'
  <2>1. \A w \in Written' : w.sub <= lastSub' /\ Within(w, record.progress)
    BY <1>2 DEF OneInv, Answers
  <2>2. \A w, v \in Written' : w.sub # v.sub => w.covers \cap v.covers = {}
    BY DEF OneInv, Answers
  <2> QED
    BY <2>1, <2>2 DEF Answers
<1>4. Beginning' /\ Fresh'
  BY DEF OneInv, Beginning, Fresh
<1>5. Submitted(record.progress)' /\ Licence(record.progress, licensed)'
  BY DEF OneInv, Submitted, Licence
<1> QED
  BY <1>1, <1>3, <1>4, <1>5 DEF OneInv

(* A send is authorised, published unless its submission is in the room     *)
(* already, or given up.                                                    *)
LEMMA OneBridgeSteps ==
  ASSUME IInv, OneInv, NEW c \in calls, Authorize(c) \/ Publish(c) \/ SendFailed(c)
  PROVE  OneInv'
<1>1. UNCHANGED <<record, file, mem, pc, lastSub, licensed>>
  BY DEF Authorize, Publish, SendFailed, server, history
<1>2. c \in Send
  BY DEF IInv, TypeOK
<1>3. CASE Authorize(c)
  <2> DEFINE a == [c EXCEPT !.authorized = TRUE]
  <2>1. a.sub = c.sub /\ a.covers = c.covers
    BY <1>2 DEF Send
  <2>2. calls' = (calls \ {c}) \cup {a} /\ replies' = replies
    BY <1>3 DEF Authorize
  <2> HIDE DEF a
  <2>3. \A w \in Written' : \E v \in Written : w.sub = v.sub /\ w.covers = v.covers
    BY <2>1, <2>2 DEF Written
  <2> QED
    BY <1>1, <2>2, <2>3, UntouchedStep DEF OneInv, Answers
<1>4. CASE Publish(c)
  <2> DEFINE r == [sub |-> c.sub, after |-> arrived, covers |-> c.covers]
  <2>1. r.sub = c.sub /\ r.covers = c.covers
    OBVIOUS
  <2>2. /\ calls' = calls \ {c}
        /\ replies' = replies \/ (replies' = replies \cup {r} /\ \A q \in replies : q.sub # c.sub)
    BY <1>4 DEF Publish
  <2> HIDE DEF r
  <2>3. \A w \in Written' : \E v \in Written : w.sub = v.sub /\ w.covers = v.covers
    BY <2>1, <2>2 DEF Written
  <2>4. \A x, y \in replies' : x.sub = y.sub => x = y
    BY <2>1, <2>2 DEF OneInv, Answers
  <2> QED
    BY <1>1, <2>3, <2>4, UntouchedStep
<1>5. CASE SendFailed(c)
  <2>1. calls' = calls \ {c} /\ replies' = replies
    BY <1>5 DEF SendFailed
  <2>2. \A w \in Written' : \E v \in Written : w.sub = v.sub /\ w.covers = v.covers
    BY <2>1 DEF Written
  <2> QED
    BY <1>1, <2>1, <2>2, UntouchedStep DEF OneInv, Answers
<1> QED
  BY <1>3, <1>4, <1>5

(* The owner moves or revokes the computer, messages arrive, or nothing     *)
(* happens.                                                                 *)
LEMMA OneOuterSteps ==
  ASSUME IInv, OneInv,
         \/ \E next \in Devices \cup {None} : OwnerDrains(next)
         \/ \E d \in Devices : OwnerRevokes(d) \/ CutOff(d) \/ MessageSynced(d)
         \/ MessageArrives \/ UNCHANGED vars
  PROVE  OneInv'
<1>1. UNCHANGED <<file, mem, pc, calls, replies, lastSub, licensed>>
  BY DEF OwnerDrains, OwnerRevokes, CutOff, MessageSynced, MessageArrives, vars, bridge, history
<1>2. record'.progress = record.progress /\ record'.owner = record.owner
  BY Typed, DrainFields
  DEF OwnerDrains, OwnerRevokes, CutOff, MessageSynced, MessageArrives, vars, server
<1>3. \A w \in Written' : \E v \in Written : w.sub = v.sub /\ w.covers = v.covers
  BY <1>1 DEF Written
<1> QED
  BY <1>1, <1>2, <1>3, UntouchedStep DEF OneInv, Answers

-----------------------------------------------------------------------------
(* The invariant of one computer in every behaviour.                        *)

(* At first there is no record and nothing is written.                      *)
LEMMA InitOneInv == Init => OneInv
<1> SUFFICES ASSUME Init PROVE OneInv
  OBVIOUS
<1>1. /\ record.owner = None /\ record.progress.pending = None /\ record.progress.retry = None
      /\ Written = {} /\ replies = {}
      /\ \A d \in Devices : pc[d] = "Off" /\ mem[d] = Configured /\ file[d] = Configured
  BY DEF Init, Absent, Written
<1>2. "Off" \in Elsewhere /\ "Off" \notin Executing
  BY DEF Elsewhere, Executing
<1>3. Places
  BY <1>1, <1>2, ElsewhereFree, ConfiguredFits DEF Places
<1> QED
  BY <1>1, <1>2, <1>3 DEF OneInv, Beginning, Answers, Fresh, Submitted, Licence, Current

(* Every step preserves it.                                                 *)
LEMMA NextOneInv == OneComputer /\ IInv /\ OneInv /\ [Next]_vars => OneInv'
<1> SUFFICES ASSUME OneComputer, IInv, OneInv, [Next]_vars PROVE OneInv'
  OBVIOUS
<1>1. ASSUME NEW d \in Devices, Receiver(d) PROVE OneInv'
  BY <1>1, OneControlSteps, OneReleaseSteps, OneCompletingSteps, OneRecoverStep,
     OneUnconfirmedStep, OneAcknowledgeStep, OneHostDoneStep, OneBeginBatchStep,
     OneSaveProgressStep, OneStartHostStep, OneSaveUnansweredStep, OneClaimStep,
     OneClaimUnansweredStep
  DEF Receiver
<1>2. ASSUME NEW d \in Devices,
             MessageSynced(d) \/ ResolveRetry(d) \/ ResolveSkip(d)
             \/ OwnerRevokes(d) \/ CutOff(d)
      PROVE  OneInv'
  BY <1>2, OneResolveSteps, OneOuterSteps
<1>3. ASSUME NEW c \in calls, Authorize(c) \/ Publish(c) \/ SendFailed(c) PROVE OneInv'
  BY <1>3, OneBridgeSteps
<1>4. CASE \E next \in Devices \cup {None} : OwnerDrains(next)
  BY <1>4, OneOuterSteps
<1>5. CASE MessageArrives \/ UNCHANGED vars
  BY <1>5, OneOuterSteps
<1> QED
  BY <1>1, <1>2, <1>3, <1>4, <1>5 DEF Next

(* It holds in every behaviour of one computer.                             *)
LEMMA InductiveOne ==
  ASSUME OneComputer
  PROVE  Spec => []OneInv
<1>1. IInv /\ OneInv /\ [Next]_vars => OneInv'
  BY NextOneInv
<1> QED
  BY <1>1, InitOneInv, Inductive, PTL DEF Spec

(***************************************************************************)
(* One computer, any number of messages, attempts, crashes and lost        *)
(* answers: two replies in the room are never written for the same         *)
(* message.                                                                *)
(***************************************************************************)
THEOREM OneReplyPerMessage ==
  ASSUME OneComputer
  PROVE  Spec => []AnsweredOnce
<1>1. OneInv => AnsweredOnce
  <2> SUFFICES ASSUME OneInv, NEW r \in replies, NEW q \in replies, r # q
               PROVE  r.covers \cap q.covers = {}
    BY DEF AnsweredOnce
  <2>1. r.sub # q.sub /\ r \in Written /\ q \in Written
    BY DEF OneInv, Answers, Written
  <2> QED
    BY <2>1 DEF OneInv, Answers
<1> QED
  BY <1>1, InductiveOne, PTL

(* The server's progress changes by a claim, a save or not at all.          *)
LEMMA ProgressSteps ==
  ASSUME IInv, [Next]_vars
  PROVE  \/ record'.progress = record.progress
         \/ \E d \in Devices : (ClaimExecution(d) \/ ClaimUnanswered(d)) /\ record' = Claimed(d)
         \/ \E d \in Devices : /\ Saving(d) /\ Saved(d)
                               /\ SaveProgress(d) \/ StartHost(d) \/ SaveUnanswered(d)
<1>1. ASSUME NEW d \in Devices, Receiver(d)
      PROVE  \/ record'.progress = record.progress
             \/ (ClaimExecution(d) \/ ClaimUnanswered(d)) /\ record' = Claimed(d)
             \/ /\ Saving(d) /\ Saved(d)
                /\ SaveProgress(d) \/ StartHost(d) \/ SaveUnanswered(d)
  <2>1. CASE \/ Start(d) \/ OpenSession(d) \/ ClaimRefused(d) \/ SaveRefused(d)
             \/ RecoverPrevious(d) \/ BeginBatch(d) \/ HostSilent(d) \/ HostDone(d)
             \/ Confirm(d) \/ Unconfirmed(d) \/ AcknowledgeInBridge(d)
             \/ Interrupt(d) \/ HandoffRequested(d) \/ CloseSession(d) \/ CloseFailed(d)
             \/ NothingToRelease(d) \/ Crash(d)
    BY <2>1 DEF Start, OpenSession, ClaimRefused, SaveRefused, RecoverPrevious, BeginBatch,
       HostSilent, HostDone, Confirm, Unconfirmed, AcknowledgeInBridge, Interrupt,
       HandoffRequested, CloseSession, CloseFailed, NothingToRelease, Crash, server
  <2>2. CASE ReleaseExecution(d) \/ ReleaseFailed(d)
    BY <2>2, Typed, ReleaseFields DEF ReleaseExecution, ReleaseFailed
  <2>3. CASE ClaimExecution(d) \/ ClaimUnanswered(d)
    BY <2>3 DEF ClaimExecution, ClaimUnanswered
  <2>4. CASE SaveProgress(d) \/ StartHost(d) \/ SaveUnanswered(d)
    BY <2>4 DEF SaveProgress, StartHost, SaveUnanswered, Saving
  <2> QED
    BY <1>1, <2>1, <2>2, <2>3, <2>4 DEF Receiver
<1>2. ASSUME NEW next \in Devices \cup {None}, OwnerDrains(next)
      PROVE  record'.progress = record.progress
  BY <1>2, Typed, DrainFields DEF OwnerDrains
<1>3. ASSUME \/ \E d \in Devices : \/ MessageSynced(d) \/ ResolveRetry(d) \/ ResolveSkip(d)
                                   \/ OwnerRevokes(d) \/ CutOff(d)
             \/ \E c \in calls : Authorize(c) \/ Publish(c) \/ SendFailed(c)
             \/ MessageArrives \/ UNCHANGED vars
      PROVE  record'.progress = record.progress
  BY <1>3 DEF MessageSynced, ResolveRetry, ResolveSkip, OwnerRevokes, CutOff, Authorize,
     Publish, SendFailed, MessageArrives, vars, server
<1> QED
  BY <1>1, <1>2, <1>3 DEF Next

(***************************************************************************)
(* One computer: the confirmed cursor on the server never goes back, over  *)
(* crashes, lost answers, retries and skips.                               *)
(***************************************************************************)
THEOREM CursorOnward ==
  ASSUME OneComputer
  PROVE  Spec => CursorNeverBack
<1>1. ASSUME IInv, OneInv, [Next]_vars, record.owner # None
      PROVE  record.progress.after <= record'.progress.after
  <2>1. record.progress.after \in Nat
    BY <1>1, Typed, Numbers DEF Record
  <2>2. CASE record'.progress = record.progress
    BY <2>1, <2>2
  <2>3. ASSUME NEW d \in Devices, ClaimExecution(d) \/ ClaimUnanswered(d), record' = Claimed(d)
        PROVE  record'.progress = record.progress
    <3>1. TakeRun(d) /\ UNCHANGED <<calls, replies, lastSub, licensed>>
      BY <2>3 DEF ClaimExecution, ClaimUnanswered, bridge, history
    <3> QED
      BY <1>1, <2>3, <3>1, ClaimCommon
  <2>4. ASSUME NEW d \in Devices, Saving(d), Saved(d),
               SaveProgress(d) \/ StartHost(d) \/ SaveUnanswered(d)
        PROVE  record.progress.after <= record'.progress.after
    <3>1. UNCHANGED <<calls, replies, lastSub>>
      BY <2>4 DEF SaveProgress, StartHost, SaveUnanswered, bridge
    <3>2. record'.progress = ProgressOf(mem[d])
      BY <1>1, <2>4, SavedRecord
    <3> QED
      BY <1>1, <2>4, <3>1, <3>2, SavedOnward
  <2> QED
    BY <1>1, <2>1, <2>2, <2>3, <2>4, ProgressSteps
<1>2. IInv /\ OneInv /\ [Next]_vars
        => [record.owner # None => record.progress.after <= record'.progress.after]_vars
  BY <1>1
<1> QED
  BY <1>2, Inductive, InductiveOne, PTL DEF Spec, CursorNeverBack

(***************************************************************************)
(* One computer: a host turn is started only for a submission no host has  *)
(* been run for yet, or that the owner asked to try again since its last   *)
(* turn.                                                                   *)
(***************************************************************************)
THEOREM RerunOnlyIfAsked ==
  ASSUME OneComputer
  PROVE  Spec => NeverRerunUnasked
<1>1. IInv /\ OneInv => \A d \in Devices : StartHost(d) => mem[d].sub \in licensed
  BY Placed DEF StartHost, AtStep, Fits
<1>2. IInv /\ OneInv /\ [Next]_vars
        => [\A d \in Devices : StartHost(d) => mem[d].sub \in licensed]_vars
  BY <1>1
<1> QED
  BY <1>2, Inductive, InductiveOne, PTL DEF Spec, NeverRerunUnasked
=============================================================================
