--------------------------- MODULE ExecutionLock ---------------------------
(***************************************************************************)
(* What the execution record promises, without the record: the background  *)
(* execution of an agent is a lock with a consenting holder.  Somebody     *)
(* else may hold it only after the last holder asked to stop (or lost its  *)
(* device), and the progress kept beside the lock is written by the holder *)
(* alone and survives every change of hands.                               *)
(***************************************************************************)
CONSTANTS Owner, Progress, None

VARIABLES
  holder,     \* the executor, or None
  progress,   \* the durable progress, None until the first executor came
  consented   \* executors that asked to stop or whose device was revoked

vars == <<holder, progress, consented>>

Init == holder = None /\ progress = None /\ consented = {}

Consent ==
  /\ \E S \in SUBSET Owner : consented' = consented \cup S
  /\ UNCHANGED <<holder, progress>>

Acquire(o) ==
  /\ holder = None
  /\ holder' = o
  /\ progress = None => progress' \in Progress
  /\ progress # None => progress' = progress
  /\ UNCHANGED consented

Write ==
  /\ holder # None
  /\ progress' \in Progress
  /\ UNCHANGED <<holder, consented>>

Yield ==
  /\ holder \in consented
  /\ holder' = None
  /\ UNCHANGED <<progress, consented>>

Next == Consent \/ (\E o \in Owner : Acquire(o)) \/ Write \/ Yield

Spec == Init /\ [][Next]_vars
=============================================================================
