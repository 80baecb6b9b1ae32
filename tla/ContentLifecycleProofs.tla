---------------------- MODULE ContentLifecycleProofs ----------------------
(***************************************************************************)
(* Theorems about the content service, for any number of contents,         *)
(* completions, readers and cleanup workers.                               *)
(***************************************************************************)
EXTENDS ContentLifecycle, TLAPS

(***************************************************************************)
(* What an upload under way knows about its object.  Once its bytes were   *)
(* put they stay as long as the object may still become active, which      *)
(* ends with a rejection even if the row stays "uploading"; it goes to     *)
(* activate with a verdict that allows reading, and deletes bytes only     *)
(* after a verdict that forbids it.                                        *)
(***************************************************************************)
Underway(up, o, has) ==
  /\ o.state # "none"
  /\ up.at = "put" /\ up.scan # "pending" => o.scan = up.scan
  /\ up.at \in {"scan", "record_clean", "record_rejected", "activate"}
       /\ o.state \in {"uploading", "active"} /\ o.scan # "rejected" => has
  /\ up.at = "activate" => AllowsRead(o.scan)
  /\ up.at \in {"compensate", "delete"} => o.scan = "rejected"

UploadsSafe ==
  \A u \in Uploads : upload[u] # Idle =>
    Underway(upload[u], object[upload[u].content], upload[u].content \in stored)

(* What a batch under way knows: whatever it is about to delete is final.  *)
BatchesSafe ==
  \A k \in Cleaners :
    /\ cleaner[k].at \in {"delete", "mark"} => object[cleaner[k].id].state \in Final
    /\ \A l \in cleaner[k].todo : l.state \in Final => object[l.id].state \in Final

ObjectsSafe ==
  \A c \in Contents :
    /\ object[c].state = "none" => object[c].scan = "pending"
    /\ object[c].state = "active" => AllowsRead(object[c].scan) /\ c \in stored

IInv == TypeOK /\ UploadsSafe /\ BatchesSafe /\ ObjectsSafe

-----------------------------------------------------------------------------
(* The fields of an object and of what save_content leaves.                *)
LEMMA ObjectFields ==
  ASSUME NEW o \in Object
  PROVE  /\ o.state \in States \cup {"none"}
         /\ o.scan \in Scans
         /\ o.event \in Events \cup {None}
         /\ o.old \in BOOLEAN
         /\ o.due \in BOOLEAN
BY DEF Object

LEMMA SavedFields ==
  ASSUME NEW o \in Object, NEW s \in States
  PROVE  /\ Saved(o, s) \in Object
         /\ Saved(o, s).state = s
         /\ Saved(o, s).scan = o.scan
         /\ Saved(o, s).event = o.event
BY DEF Object, Saved, States

(* An upload that has been claimed.                                        *)
LEMMA BegunFields ==
  ASSUME NEW scan \in Scans
  PROVE  Begun(scan) \in Object /\ Begun(scan).state = "uploading"
BY DEF Object, Begun, Absent, States, Scans

(* The verdict is recorded in place.                                       *)
LEMMA VerdictFields ==
  ASSUME NEW o \in Object, NEW scan \in Scans
  PROVE  LET p == Saved([o EXCEPT !.scan = scan], o.state)
         IN p \in Object /\ p.state = o.state /\ p.scan = scan
BY DEF Object, Saved, States

(* Time and binding change nothing else.                                   *)
LEMMA AgedFields ==
  ASSUME NEW o \in Object
  PROVE  /\ [o EXCEPT !.old = TRUE] \in Object
         /\ [o EXCEPT !.old = TRUE].state = o.state
         /\ [o EXCEPT !.old = TRUE].scan = o.scan
BY DEF Object

LEMMA DueFields ==
  ASSUME NEW o \in Object
  PROVE  /\ [o EXCEPT !.due = TRUE] \in Object
         /\ [o EXCEPT !.due = TRUE].state = o.state
         /\ [o EXCEPT !.due = TRUE].scan = o.scan
BY DEF Object

LEMMA BoundFields ==
  ASSUME NEW o \in Object, NEW e \in Events
  PROVE  /\ [o EXCEPT !.event = e] \in Object
         /\ [o EXCEPT !.event = e].state = o.state
         /\ [o EXCEPT !.event = e].scan = o.scan
BY DEF Object

(* The fields of a reader, and what each step of an open leaves of them.   *)
LEMMA ReaderFields ==
  ASSUME NEW rd \in Reader, rd.at # "idle"
  PROVE  rd.content \in Contents /\ rd.at \in OpenSteps \cup {"held"}
BY DEF Reader, NoTicket

LEMMA TicketFields ==
  /\ NoTicket \in Reader /\ NoTicket.at = "idle"
  /\ \A c \in Contents : /\ Ticket(c) \in Reader
                          /\ Ticket(c).at = "held" /\ Ticket(c).content = c
BY DEF Reader, Ticket, NoTicket

LEMMA OpenedFields ==
  ASSUME NEW c \in Contents, NEW d \in BOOLEAN, NEW l \in BOOLEAN
  PROVE  [at |-> "row", content |-> c, due |-> d, live |-> l] \in Reader
BY DEF Reader, OpenSteps

LEMMA ProceedFields ==
  ASSUME NEW rd \in Reader, rd.at # "idle", NEW step \in OpenSteps
  PROVE  LET p == [rd EXCEPT !.at = step]
         IN  /\ p \in Reader /\ p.at = step /\ p.content = rd.content
             /\ p.due = rd.due /\ p.live = rd.live
BY DEF Reader, NoTicket

-----------------------------------------------------------------------------
(* Nothing exists before the first upload is claimed.                      *)
LEMMA InitIInv == Init => IInv
<1> SUFFICES ASSUME Init PROVE IInv
  OBVIOUS
<1>1. Absent \in Object /\ Absent.state = "none" /\ Absent.scan = "pending"
  BY DEF Absent, Object, Scans
<1>2. TypeOK
  BY <1>1, TicketFields DEF Init, TypeOK
<1>3. UploadsSafe
  BY DEF Init, UploadsSafe
<1>4. BatchesSafe
  BY DEF Init, BatchesSafe, Resting
<1>5. ObjectsSafe
  BY <1>1 DEF Init, ObjectsSafe
<1> QED
  BY <1>2, <1>3, <1>4, <1>5 DEF IInv

(* Every step keeps the types.                                             *)
LEMMA NextTypeOK == TypeOK /\ [Next]_vars => TypeOK'
<1> SUFFICES ASSUME TypeOK, [Next]_vars PROVE TypeOK'
  OBVIOUS
<1> USE DEF TypeOK
<1>1. ASSUME NEW c \in Contents, GrowOld(c) \/ FallDue(c) PROVE TypeOK'
  <2>1. object[c] \in Object
    OBVIOUS
  <2>2. \/ object' = [object EXCEPT ![c] = [object[c] EXCEPT !.old = TRUE]]
        \/ object' = [object EXCEPT ![c] = [object[c] EXCEPT !.due = TRUE]]
    BY <1>1 DEF GrowOld, FallDue
  <2>3. object' \in [Contents -> Object]
    BY <2>1, <2>2, AgedFields, DueFields
  <2> QED
    BY <1>1, <2>3 DEF GrowOld, FallDue
<1>2. ASSUME NEW c \in Contents, Begin(c) PROVE TypeOK'
  BY <1>2, BegunFields DEF Begin, Scans
<1>3. ASSUME NEW c \in Contents, Redact(c) PROVE TypeOK'
  BY <1>3, SavedFields DEF Redact, States
<1>4. ASSUME NEW c \in Contents, NEW e \in Events, Bind(c, e) PROVE TypeOK'
  <2>1. object[c] \in Object
    OBVIOUS
  <2> QED
    BY <1>4, <2>1, BoundFields DEF Bind
<1>5. ASSUME NEW u \in Uploads, NEW c \in Contents, Load(u, c) PROVE TypeOK'
  BY <1>5, ObjectFields DEF Load, UploadSteps
<1>6. ASSUME NEW u \in Uploads, Put(u) \/ Scan(u) PROVE TypeOK'
  BY <1>6 DEF Put, Scan, Goto, Finish, UploadSteps, Idle
<1>7. ASSUME NEW u \in Uploads, RecordScan(u) PROVE TypeOK'
  <2>1. upload[u].content \in Contents
    BY <1>7 DEF RecordScan, Idle
  <2>2. CASE ~CanRecordScan(object[upload[u].content])
    BY <1>7, <2>2 DEF RecordScan, Finish
  <2>3. CASE CanRecordScan(object[upload[u].content])
    <3> DEFINE c == upload[u].content
               v == IF upload[u].at = "record_clean" THEN "clean" ELSE "rejected"
    <3>1. object[c] \in Object /\ object[c].state \in States \cup {"none"} /\ v \in Scans
      BY <2>1, ObjectFields DEF Scans
    <3>2. Saved([object[c] EXCEPT !.scan = v], object[c].state) \in Object
      BY <3>1, VerdictFields
    <3>3. object' = [object EXCEPT ![c] = Saved([object[c] EXCEPT !.scan = v], object[c].state)]
      BY <1>7, <2>3 DEF RecordScan
    <3>4. object' \in [Contents -> Object]
      BY <2>1, <3>2, <3>3
    <3> HIDE DEF v
    <3> QED
      BY <1>7, <2>1, <2>3, <3>4 DEF RecordScan, Goto, UploadSteps, Idle
  <2> QED
    BY <2>2, <2>3
<1>8. ASSUME NEW u \in Uploads, Activate(u) \/ Compensate(u) PROVE TypeOK'
  BY <1>8, SavedFields DEF Activate, Compensate, Goto, Finish, UploadSteps, Idle, States
<1>9. ASSUME NEW u \in Uploads, DeleteRejected(u) \/ AbortUpload(u) PROVE TypeOK'
  BY <1>9 DEF DeleteRejected, AbortUpload, Finish
<1>10. CASE DeleteAccount
  BY <1>10, SavedFields DEF DeleteAccount, States
<1>11. ASSUME NEW r \in Readers, (\E c \in Contents : Issue(r, c)) \/ Read(r)
       PROVE TypeOK'
  <2>1. reader[r] \in Reader
    OBVIOUS
  <2>2. CASE Open(r)
    <3> DEFINE o == object[reader[r].content]
    <3>1. reader[r].content \in Contents
      BY <2>1, <2>2, ReaderFields DEF Open
    <3>2. o.due \in BOOLEAN /\ (Readable(o) /\ ~revoked) \in BOOLEAN
      BY <3>1, ObjectFields
    <3>3. reader' = [reader EXCEPT ![r] = [at |-> "row", content |-> reader[r].content,
                                           due |-> o.due, live |-> Readable(o) /\ ~revoked]]
      BY <2>2 DEF Open
    <3> HIDE DEF o
    <3>4. reader' \in [Readers -> Reader]
      BY <3>1, <3>2, <3>3, OpenedFields
    <3> QED
      BY <2>2, <3>4 DEF Open
  <2>3. ASSUME NEW step \in OpenSteps, reader[r].at # "idle", Proceed(r, step)
        PROVE  reader' \in [Readers -> Reader]
    BY <2>1, <2>3, ProceedFields DEF Proceed
  <2>4. ASSUME reader[r].at # "idle", Refuse(r)
        PROVE  reader' \in [Readers -> Reader]
    BY <2>1, <2>4, ReaderFields, TicketFields DEF Refuse
  <2>5. CASE ReadRow(r) \/ ReadPolicy(r) \/ OpenBytes(r) \/ EndRead(r)
    BY <2>3, <2>4, <2>5 DEF ReadRow, ReadPolicy, OpenBytes, EndRead, OpenSteps
  <2>6. CASE Lapse(r) \/ \E c \in Contents : Issue(r, c)
    BY <2>6, TicketFields DEF Lapse, Issue
  <2> QED
    BY <1>11, <2>2, <2>5, <2>6 DEF Read
<1>12. ASSUME NEW k \in Cleaners, List(k) PROVE TypeOK'
  <2> DEFINE found == {x \in Contents : Reclaimable(object[x])}
             todo == {[id |-> c, state |-> object[c].state, due |-> object[c].due] : c \in found}
  <2>1. \A c \in found : object[c].state \in States /\ object[c].due \in BOOLEAN
    BY ObjectFields DEF Reclaimable, States
  <2>2. todo \subseteq Listed
    BY <2>1 DEF Listed
  <2>3. found # {}
    BY <1>12 DEF List
  <2>4. todo # {}
    <3>1. PICK c \in found : TRUE
      BY <2>3
    <3>2. [id |-> c, state |-> object[c].state, due |-> object[c].due] \in todo
      OBVIOUS
    <3> QED
      BY <3>2
  <2>5. cleaner' = [cleaner EXCEPT ![k] = [at |-> "prepare", id |-> None, todo |-> todo]]
    BY <1>12 DEF List
  <2> HIDE DEF todo
  <2> QED
    BY <1>12, <2>2, <2>4, <2>5 DEF List
<1>13. ASSUME NEW k \in Cleaners, Prepare(k) PROVE TypeOK'
  <2>1. PICK l \in cleaner[k].todo : Prepare(k)!2!(l)
    BY <1>13 DEF Prepare
  <2>2. l.id \in Contents /\ l.state \in States
    BY <1>13 DEF Prepare, Listed, Resting
  <2>3. Target(l) \in States
    BY <2>2 DEF Target, States
  <2>4. object[l.id] \in Object
    BY <2>2
  <2>5. cleaner[k].todo \ {l} \subseteq Listed
    BY <1>13 DEF Prepare, Resting
  <2>6. \/ object' = object
        \/ object' = [object EXCEPT ![l.id] = Saved(object[l.id], Target(l))]
    BY <2>1
  <2>7. object' \in [Contents -> Object]
    BY <2>2, <2>3, <2>4, <2>6, SavedFields
  <2>8. \/ cleaner' = [cleaner EXCEPT ![k] =
                         [at |-> "delete", id |-> l.id, todo |-> cleaner[k].todo \ {l}]]
        \/ Continue(k, cleaner[k].todo \ {l})
    BY <2>1
  <2>9. cleaner' \in [Cleaners -> {Resting} \cup
          [at : {"prepare"}, todo : (SUBSET Listed) \ {{}}, id : {None}] \cup
          [at : {"delete", "mark"}, todo : SUBSET Listed, id : Contents]]
    BY <2>2, <2>5, <2>8 DEF Continue
  <2> QED
    BY <1>13, <2>7, <2>9 DEF Prepare
<1>14. ASSUME NEW k \in Cleaners, DeleteBytes(k) PROVE TypeOK'
  BY <1>14 DEF DeleteBytes, Resting
<1>15. ASSUME NEW k \in Cleaners, MarkDeleted(k) PROVE TypeOK'
  BY <1>15, SavedFields DEF MarkDeleted, MarkedDeleted, Continue, Resting, States
<1>16. ASSUME NEW k \in Cleaners, FailItem(k) \/ AbortBatch(k) PROVE TypeOK'
  BY <1>16 DEF FailItem, AbortBatch, Continue, Resting
<1>17. CASE UNCHANGED vars
  BY <1>17 DEF vars
<1> QED
  BY <1>1, <1>2, <1>3, <1>4, <1>5, <1>6, <1>7, <1>8, <1>9, <1>10, <1>11, <1>12, <1>13,
     <1>14, <1>15, <1>16, <1>17 DEF Next, Complete, Clean

-----------------------------------------------------------------------------
(***************************************************************************)
(* How one object may change in one step: final states and verdicts stay,  *)
(* nothing disappears, and only a verdict that allows reading activates.   *)
(***************************************************************************)
Evolves(o, p) ==
  /\ o.state \in Final => p.state \in Final
  /\ o.scan # "pending" => p.scan = o.scan
  /\ o.state # "none" => p.state # "none"
  /\ p.state = "none" => p.scan = o.scan
  /\ p.state = "active" /\ o.state # "active" => AllowsRead(o.scan) /\ o.state = "uploading"

LEMMA EveryObjectEvolves ==
  ASSUME TypeOK, UploadsSafe, ObjectsSafe, [Next]_vars, NEW x \in Contents
  PROVE  Evolves(object[x], object'[x])
<1> USE DEF TypeOK
<1>0. object[x] \in Object /\ object[x].state \in States \cup {"none"} /\ object[x].scan \in Scans
  BY ObjectFields
<1>1. ASSUME object'[x] = object[x] PROVE Evolves(object[x], object'[x])
  BY <1>1 DEF Evolves
<1>2. ASSUME object'[x].state = object[x].state, object'[x].scan = object[x].scan
      PROVE  Evolves(object[x], object'[x])
  BY <1>2 DEF Evolves
<1>3. ASSUME NEW s \in Final, object'[x] = Saved(object[x], s)
      PROVE  Evolves(object[x], object'[x])
  BY <1>0, <1>3, SavedFields DEF Evolves, Final, States
<1>4. ASSUME NEW c \in Contents, GrowOld(c) \/ FallDue(c)
      PROVE  Evolves(object[x], object'[x])
  <2>1. \/ object'[x] = object[x]
        \/ object'[x] = [object[x] EXCEPT !.old = TRUE]
        \/ object'[x] = [object[x] EXCEPT !.due = TRUE]
    BY <1>4 DEF GrowOld, FallDue
  <2> QED
    BY <1>0, <1>1, <1>2, <2>1, AgedFields, DueFields
<1>5. ASSUME NEW c \in Contents, Begin(c) PROVE Evolves(object[x], object'[x])
  BY <1>0, <1>1, <1>5, BegunFields DEF Begin, Evolves, Final, ObjectsSafe, Scans
<1>6. ASSUME NEW c \in Contents, Redact(c) PROVE Evolves(object[x], object'[x])
  BY <1>1, <1>3, <1>6 DEF Redact, Final
<1>7. ASSUME NEW c \in Contents, NEW e \in Events, Bind(c, e)
      PROVE  Evolves(object[x], object'[x])
  BY <1>0, <1>1, <1>2, <1>7, BoundFields DEF Bind
<1>8. ASSUME NEW u \in Uploads, RecordScan(u) PROVE Evolves(object[x], object'[x])
  <2> DEFINE v == IF upload[u].at = "record_clean" THEN "clean" ELSE "rejected"
  <2>1. \/ object'[x] = object[x]
        \/ /\ object[x].scan = "pending" /\ x = upload[u].content
           /\ object'[x] = Saved([object[x] EXCEPT !.scan = v], object[x].state)
    BY <1>8 DEF RecordScan, CanRecordScan
  <2>2. v \in Scans
    BY DEF Scans
  <2> HIDE DEF v
  <2>3. ASSUME object[x].scan = "pending", x = upload[u].content,
               object'[x] = Saved([object[x] EXCEPT !.scan = v], object[x].state)
        PROVE  Evolves(object[x], object'[x])
    <3>1. object'[x].state = object[x].state
      BY <1>0, <2>2, <2>3, VerdictFields
    <3>2. object[x].state # "none"
      BY <1>8, <2>3 DEF RecordScan, UploadsSafe, Underway, Idle
    <3> QED
      BY <2>3, <3>1, <3>2 DEF Evolves
  <2> QED
    BY <1>1, <2>1, <2>3
<1>9. ASSUME NEW u \in Uploads, Activate(u) PROVE Evolves(object[x], object'[x])
  <2>1. \/ object'[x] = object[x]
        \/ CanActivate(object[x]) /\ object'[x] = Saved(object[x], "active")
    BY <1>9 DEF Activate
  <2> QED
    BY <1>0, <1>1, <2>1, SavedFields DEF CanActivate, Evolves, Final, States
<1>10. ASSUME NEW u \in Uploads, Compensate(u) PROVE Evolves(object[x], object'[x])
  BY <1>1, <1>3, <1>10 DEF Compensate, Final
<1>11. CASE DeleteAccount
  BY <1>1, <1>3, <1>11 DEF DeleteAccount, Final
<1>12. ASSUME NEW k \in Cleaners, Prepare(k) PROVE Evolves(object[x], object'[x])
  <2>1. PICK l \in cleaner[k].todo : Prepare(k)!2!(l)
    BY <1>12 DEF Prepare
  <2>2. \/ object'[x] = object[x]
        \/ Target(l) # l.state /\ object'[x] = Saved(object[x], Target(l))
    BY <2>1
  <2>3. Target(l) # l.state => Target(l) \in Final
    BY DEF Target, Final
  <2> QED
    BY <1>1, <1>3, <2>2, <2>3
<1>13. ASSUME NEW k \in Cleaners, MarkDeleted(k) PROVE Evolves(object[x], object'[x])
  BY <1>1, <1>3, <1>13 DEF MarkDeleted, MarkedDeleted, Final
<1>14. CASE object' = object
  BY <1>1, <1>14
<1> QED
  BY <1>4, <1>5, <1>6, <1>7, <1>8, <1>9, <1>10, <1>11, <1>12, <1>13, <1>14
  DEF Next, Complete, Clean, Load, Put, Scan, DeleteRejected, AbortUpload, Issue,
      Read, Open, ReadRow, ReadPolicy, OpenBytes, EndRead, Lapse, List, DeleteBytes,
      FailItem, AbortBatch, vars

(* Bytes are only deleted of objects that are final or rejected.           *)
LEMMA DeletedBytesAreUnwanted ==
  ASSUME IInv, [Next]_vars, NEW x \in stored, x \notin stored'
  PROVE  object'[x].state \in Final \/ object'[x].scan = "rejected"
<1> USE DEF IInv
<1>1. ASSUME NEW u \in Uploads, DeleteRejected(u) PROVE object'[x].scan = "rejected"
  BY <1>1 DEF DeleteRejected, UploadsSafe, Underway, Idle
<1>2. ASSUME NEW k \in Cleaners, DeleteBytes(k) PROVE object'[x].state \in Final
  BY <1>2 DEF DeleteBytes, BatchesSafe
<1>3. stored' # stored
  OBVIOUS
<1> QED
  BY <1>1, <1>2, <1>3
  DEF Next, Complete, Clean, GrowOld, FallDue, Begin, Redact, Bind, Load, Put, Scan, RecordScan,
      Activate, Compensate, AbortUpload, DeleteAccount, Issue, Read, Open, ReadRow, ReadPolicy,
      OpenBytes, EndRead, Lapse, Proceed, Refuse, List, Prepare, MarkDeleted, FailItem, AbortBatch, vars

(* What an upload knows stays true while it does not move.                 *)
LEMMA UnderwayKept ==
  ASSUME IInv, [Next]_vars, NEW u \in Uploads, upload[u] # Idle
  PROVE  Underway(upload[u], object'[upload[u].content], upload[u].content \in stored')
<1> DEFINE c == upload[u].content
<1>1. c \in Contents /\ upload[u].at \in UploadSteps /\ upload[u].scan \in Scans
  BY DEF IInv, TypeOK
<1>2. Evolves(object[c], object'[c])
  BY <1>1, EveryObjectEvolves DEF IInv
<1>3. Underway(upload[u], object[c], c \in stored)
  BY DEF IInv, UploadsSafe
<1>4. object[c] \in Object /\ object'[c] \in Object
  BY <1>1, NextTypeOK DEF IInv, TypeOK
<1>5. object'[c].state \in {"uploading", "active"} => object[c].state \in {"uploading", "active"}
  BY <1>2, <1>3, <1>4, ObjectFields DEF Evolves, Underway, Final, States
<1>6. object'[c].state \in {"uploading", "active"} /\ object'[c].scan # "rejected" /\ c \in stored
        => c \in stored'
  BY DeletedBytesAreUnwanted DEF Final
<1> HIDE DEF c
<1> QED
  BY <1>2, <1>3, <1>5, <1>6 DEF Evolves, Underway, AllowsRead, c

(* Every step keeps what uploads under way rely on.                        *)
LEMMA NextUploadsSafe == IInv /\ [Next]_vars => UploadsSafe'
<1> SUFFICES ASSUME IInv, [Next]_vars, NEW v \in Uploads, upload'[v] # Idle
             PROVE  Underway(upload'[v], object'[upload'[v].content], upload'[v].content \in stored')
  BY DEF UploadsSafe
<1> DEFINE Goal == Underway(upload'[v], object'[upload'[v].content], upload'[v].content \in stored')
<1>1. ASSUME upload'[v] = upload[v] PROVE Goal
  BY <1>1, UnderwayKept
<1>2. ASSUME NEW c \in Contents, Load(v, c) PROVE Goal
  <2>1. upload'[v] = [at |-> "put", content |-> c, scan |-> object[c].scan] /\ object' = object
    BY <1>2 DEF Load, IInv, TypeOK
  <2> QED
    BY <1>2, <2>1 DEF Load, Underway
<1>3. ASSUME upload[v] # Idle, NEW step \in UploadSteps, upload' = [upload EXCEPT ![v].at = step]
      PROVE  /\ upload'[v].at = step /\ upload'[v].content = upload[v].content
             /\ upload'[v].scan = upload[v].scan
  BY <1>3 DEF IInv, TypeOK
<1>4. CASE Put(v)
  <2>1. upload[v] # Idle /\ upload[v].content \in stored' /\ object' = object
    BY <1>4 DEF Put, Idle
  <2>2. Underway(upload[v], object[upload[v].content], upload[v].content \in stored)
    BY <2>1 DEF IInv, UploadsSafe
  <2>3. upload[v].scan \in Scans
    BY <2>1 DEF IInv, TypeOK
  <2>4. PICK step \in {"scan", "activate", "compensate"} :
          /\ upload' = [upload EXCEPT ![v].at = step]
          /\ step = "activate" => AllowsRead(upload[v].scan)
          /\ step = "compensate" => upload[v].scan # "pending" /\ ~AllowsRead(upload[v].scan)
    <3>1. CASE upload[v].scan = "pending"
      BY <1>4, <3>1 DEF Put, Goto
    <3>2. CASE upload[v].scan # "pending" /\ AllowsRead(upload[v].scan)
      BY <1>4, <3>2 DEF Put, Goto
    <3>3. CASE upload[v].scan # "pending" /\ ~AllowsRead(upload[v].scan)
      BY <1>4, <3>3 DEF Put, Goto
    <3> QED
      BY <3>1, <3>2, <3>3
  <2>5. step \in UploadSteps
    BY DEF UploadSteps
  <2> QED
    BY <1>3, <1>4, <2>1, <2>2, <2>3, <2>4, <2>5 DEF Put, Underway, AllowsRead, Scans
<1>5. CASE Scan(v)
  <2>1. upload[v] # Idle
    BY <1>5 DEF Scan, Idle
  <2>2. PICK step \in {"record_clean", "record_rejected"} : upload' = [upload EXCEPT ![v].at = step]
    BY <1>5 DEF Scan, Goto, Finish, IInv, TypeOK
  <2>3. step \in UploadSteps
    BY DEF UploadSteps
  <2> QED
    BY <1>3, <1>5, <2>1, <2>2, <2>3, UnderwayKept DEF Scan, Underway
<1>6. CASE RecordScan(v)
  <2> DEFINE c == upload[v].content
             clean == upload[v].at = "record_clean"
             w == IF clean THEN "clean" ELSE "rejected"
  <2>1. upload[v] # Idle /\ upload[v].at \in {"record_clean", "record_rejected"}
    BY <1>6 DEF RecordScan, Idle
  <2>2. CanRecordScan(object[c])
    BY <1>6 DEF RecordScan, Finish, IInv, TypeOK
  <2>3. upload' = [upload EXCEPT ![v].at = IF clean THEN "activate" ELSE "compensate"]
    BY <1>6, <2>2 DEF RecordScan, Goto
  <2>4. c \in Contents /\ object[c] \in Object /\ w \in Scans
    BY <2>1 DEF IInv, TypeOK, Scans
  <2>5. object'[c] = Saved([object[c] EXCEPT !.scan = w], object[c].state)
    BY <1>6, <2>2, <2>4 DEF RecordScan, IInv, TypeOK
  <2>6. object'[c].scan = w
    BY <2>4, <2>5, VerdictFields
  <2>7. Underway(upload[v], object'[c], c \in stored')
    BY <2>1, UnderwayKept
  <2>8. (IF clean THEN "activate" ELSE "compensate") \in UploadSteps
    BY DEF UploadSteps
  <2> QED
    BY <1>3, <2>1, <2>3, <2>6, <2>7, <2>8 DEF Underway, AllowsRead
<1>7. CASE Compensate(v)
  <2> DEFINE c == upload[v].content
  <2>1. upload[v] # Idle /\ upload[v].at = "compensate"
    BY <1>7 DEF Compensate, Idle
  <2>2. Underway(upload[v], object'[c], c \in stored')
    BY <2>1, UnderwayKept
  <2>3. upload' = [upload EXCEPT ![v].at = "delete"] /\ "delete" \in UploadSteps
    BY <1>7 DEF Compensate, Goto, UploadSteps
  <2> QED
    BY <1>3, <2>1, <2>2, <2>3 DEF Underway
<1>8. ASSUME NEW u \in Uploads, u # v,
             Complete(u) \/ AbortUpload(u) \/ \E c \in Contents : Load(u, c)
      PROVE  upload'[v] = upload[v]
  BY <1>8 DEF Complete, AbortUpload, Load, Put, Scan, RecordScan, Activate, Compensate,
              DeleteRejected, Goto, Finish, IInv, TypeOK
<1>9. ASSUME Activate(v) \/ DeleteRejected(v) \/ AbortUpload(v) PROVE FALSE
  BY <1>9 DEF Activate, DeleteRejected, AbortUpload, Finish, IInv, TypeOK
<1>10. CASE upload' = upload
  BY <1>1, <1>10
<1> QED
  BY <1>1, <1>2, <1>4, <1>5, <1>6, <1>7, <1>8, <1>9, <1>10
  DEF Next, Complete, Clean, GrowOld, FallDue, Begin, Redact, Bind, DeleteAccount, Issue,
      Read, Open, ReadRow, ReadPolicy, OpenBytes, EndRead, Lapse, List, Prepare, DeleteBytes,
      MarkDeleted, FailItem, AbortBatch, vars

(* Every step keeps what a batch under way relies on: the candidates it    *)
(* listed as final stay final, and the one it prepared has become final.   *)
LEMMA NextBatchesSafe == IInv /\ [Next]_vars => BatchesSafe'
<1> SUFFICES ASSUME IInv, [Next]_vars, NEW j \in Cleaners
             PROVE  /\ cleaner'[j].at \in {"delete", "mark"} => object'[cleaner'[j].id].state \in Final
                    /\ \A l \in cleaner'[j].todo : l.state \in Final => object'[l.id].state \in Final
  BY DEF BatchesSafe
<1> DEFINE DeletesFinal == cleaner'[j].at \in {"delete", "mark"} => object'[cleaner'[j].id].state \in Final
           ListedFinal == \A l \in cleaner'[j].todo : l.state \in Final => object'[l.id].state \in Final
<1>1. \A c \in Contents : object[c].state \in Final => object'[c].state \in Final
  BY EveryObjectEvolves DEF IInv, Evolves
<1>2. \A l \in cleaner[j].todo :
        l \in Listed /\ (l.state \in Final => object'[l.id].state \in Final)
  <2>1. cleaner[j].todo \subseteq Listed
    BY DEF IInv, TypeOK, Resting
  <2> QED
    BY <1>1, <2>1 DEF IInv, BatchesSafe, Listed
<1>3. cleaner[j].at \in {"delete", "mark"} => object'[cleaner[j].id].state \in Final
  <2>1. cleaner[j].at \in {"delete", "mark"} => cleaner[j].id \in Contents
    BY DEF IInv, TypeOK, Resting
  <2> QED
    BY <1>1, <2>1 DEF IInv, BatchesSafe
<1>4. CASE cleaner'[j] = cleaner[j]
  BY <1>2, <1>3, <1>4
<1>5. CASE List(j)
  <2>1. /\ cleaner'[j].at = "prepare"
        /\ cleaner'[j].todo = {[id |-> c, state |-> object[c].state, due |-> object[c].due] :
                                 c \in {x \in Contents : Reclaimable(object[x])}}
    BY <1>5 DEF List, IInv, TypeOK
  <2> QED
    BY <1>1, <2>1
<1>6. ASSUME NEW todo \in SUBSET cleaner[j].todo, Continue(j, todo)
      PROVE  DeletesFinal /\ ListedFinal
  <2>1. cleaner'[j].at \in {"idle", "prepare"} /\ cleaner'[j].todo \subseteq todo
    BY <1>6 DEF Continue, Resting, IInv, TypeOK
  <2> QED
    BY <1>2, <2>1
<1>7. CASE Prepare(j)
  <2>1. PICK l \in cleaner[j].todo : Prepare(j)!2!(l)
    BY <1>7 DEF Prepare
  <2>2. l.id \in Contents /\ l.state \in States
    BY <1>2 DEF Listed
  <2>3. CASE Continue(j, cleaner[j].todo \ {l})
    BY <1>6, <2>3
  <2>4. CASE ~Continue(j, cleaner[j].todo \ {l})
    <3>1. cleaner'[j] = [at |-> "delete", id |-> l.id, todo |-> cleaner[j].todo \ {l}]
      BY <2>1, <2>4 DEF IInv, TypeOK
    <3>2. object'[l.id].state \in Final
      <4>1. CASE Target(l) = l.state
        <5>1. l.state \in Final
          BY <2>2, <4>1 DEF Target, Final, States
        <5> QED
          BY <1>2, <5>1
      <4>2. CASE Target(l) # l.state
        <5>1. object'[l.id] = Saved(object[l.id], Target(l))
          BY <2>1, <2>2, <2>4, <4>2 DEF IInv, TypeOK
        <5>2. Target(l) \in Final /\ Target(l) \in States /\ object[l.id] \in Object
          BY <2>2, <4>2 DEF Target, Final, States, IInv, TypeOK
        <5> QED
          BY <5>1, <5>2, SavedFields
      <4> QED
        BY <4>1, <4>2
    <3> QED
      BY <1>2, <3>1, <3>2
  <2> QED
    BY <2>3, <2>4
<1>8. CASE DeleteBytes(j)
  <2>1. cleaner[j].at = "delete" /\ cleaner'[j].id = cleaner[j].id /\ cleaner'[j].todo = cleaner[j].todo
    BY <1>8 DEF DeleteBytes, IInv, TypeOK
  <2> QED
    BY <1>2, <1>3, <2>1
<1>9. CASE MarkDeleted(j) \/ FailItem(j)
  BY <1>6, <1>9 DEF MarkDeleted, FailItem
<1>10. CASE AbortBatch(j)
  <2>1. cleaner'[j].at = "idle" /\ cleaner'[j].todo = {}
    BY <1>10 DEF AbortBatch, Resting, IInv, TypeOK
  <2> QED
    BY <2>1
<1>11. ASSUME NEW k \in Cleaners, k # j, Clean(k) \/ FailItem(k) \/ AbortBatch(k)
       PROVE  cleaner'[j] = cleaner[j]
  BY <1>11 DEF Clean, List, Prepare, DeleteBytes, MarkDeleted, FailItem, AbortBatch, Continue,
               IInv, TypeOK
<1>12. CASE cleaner' = cleaner
  BY <1>4, <1>12
<1> QED
  BY <1>4, <1>5, <1>7, <1>8, <1>9, <1>10, <1>11, <1>12
  DEF Next, Complete, Clean, GrowOld, FallDue, Begin, Redact, Bind, DeleteAccount, Load, Put, Scan,
      RecordScan, Activate, Compensate, DeleteRejected, AbortUpload, Issue,
      Read, Open, ReadRow, ReadPolicy, OpenBytes, EndRead, Lapse, vars

(* Every step keeps the bytes of what is active.                           *)
LEMMA NextObjectsSafe == IInv /\ [Next]_vars => ObjectsSafe'
<1> SUFFICES ASSUME IInv, [Next]_vars, NEW x \in Contents
             PROVE  /\ object'[x].state = "none" => object'[x].scan = "pending"
                    /\ object'[x].state = "active" => AllowsRead(object'[x].scan) /\ x \in stored'
  BY DEF ObjectsSafe
<1>1. Evolves(object[x], object'[x])
  BY EveryObjectEvolves DEF IInv
<1>2. object[x] \in Object /\ object'[x] \in Object
  BY NextTypeOK DEF IInv, TypeOK
<1>3. object'[x].state = "none" => object'[x].scan = "pending"
  BY <1>1, <1>2, ObjectFields DEF Evolves, Final, States, IInv, ObjectsSafe
<1>4. ASSUME object'[x].state = "active" PROVE AllowsRead(object'[x].scan) /\ x \in stored'
  <2>1. CASE object[x].state = "active"
    <3>1. AllowsRead(object[x].scan) /\ x \in stored
      BY <2>1 DEF IInv, ObjectsSafe
    <3> QED
      BY <1>1, <1>4, <3>1, DeletedBytesAreUnwanted DEF Evolves, AllowsRead, Final
  <2>2. CASE object[x].state # "active"
    <3>1. AllowsRead(object[x].scan) /\ object[x].state = "uploading"
      BY <1>1, <1>4, <2>2 DEF Evolves
    <3>2. PICK u \in Uploads : Activate(u) /\ x = upload[u].content
      <4>1. object'[x] # object[x]
        BY <1>4, <2>2
      <4>2. ASSUME NEW s \in States, object'[x] = Saved(object[x], s) PROVE s = "active"
        BY <1>2, <1>4, <4>2, SavedFields
      <4>3. ASSUME object'[x].state = object[x].state PROVE FALSE
        BY <1>4, <2>2, <4>3
      <4>4. ASSUME NEW c \in Contents, GrowOld(c) \/ FallDue(c) PROVE FALSE
        <5>1. \/ object'[x] = [object[x] EXCEPT !.old = TRUE]
              \/ object'[x] = [object[x] EXCEPT !.due = TRUE]
          BY <4>1, <4>4 DEF GrowOld, FallDue, IInv, TypeOK
        <5> QED
          BY <1>2, <4>3, <5>1, AgedFields, DueFields
      <4>5. ASSUME NEW c \in Contents, Begin(c) PROVE FALSE
        BY <1>4, <4>1, <4>5, BegunFields DEF Begin, Scans, IInv, TypeOK
      <4>6. ASSUME NEW c \in Contents, Redact(c) PROVE FALSE
        BY <4>1, <4>2, <4>6 DEF Redact, States, IInv, TypeOK
      <4>7. ASSUME NEW c \in Contents, NEW e \in Events, Bind(c, e) PROVE FALSE
        BY <1>2, <4>1, <4>3, <4>7, BoundFields DEF Bind, IInv, TypeOK
      <4>8. ASSUME NEW u \in Uploads, RecordScan(u) PROVE FALSE
        <5> DEFINE v == IF upload[u].at = "record_clean" THEN "clean" ELSE "rejected"
        <5>1. object'[x] = Saved([object[x] EXCEPT !.scan = v], object[x].state)
          BY <4>1, <4>8 DEF RecordScan, IInv, TypeOK
        <5>2. v \in Scans
          BY DEF Scans
        <5> HIDE DEF v
        <5> QED
          BY <1>2, <4>3, <5>1, <5>2, VerdictFields
      <4>9. ASSUME NEW u \in Uploads, Activate(u) PROVE x = upload[u].content
        BY <4>1, <4>9 DEF Activate, IInv, TypeOK
      <4>10. ASSUME NEW u \in Uploads, Compensate(u) PROVE FALSE
        BY <4>1, <4>2, <4>10 DEF Compensate, States, IInv, TypeOK
      <4>11. CASE DeleteAccount
        BY <4>1, <4>2, <4>11 DEF DeleteAccount, States
      <4>12. ASSUME NEW k \in Cleaners, Prepare(k) PROVE FALSE
        <5>1. PICK l \in cleaner[k].todo : Prepare(k)!2!(l)
          BY <4>12 DEF Prepare
        <5>2. Target(l) # l.state /\ object'[x] = Saved(object[x], Target(l))
          BY <4>1, <5>1 DEF IInv, TypeOK
        <5>3. Target(l) \in {"expired", "orphaned"}
          BY <5>2 DEF Target
        <5> QED
          BY <4>2, <5>2, <5>3 DEF States
      <4>13. ASSUME NEW k \in Cleaners, MarkDeleted(k) PROVE FALSE
        BY <4>1, <4>2, <4>13 DEF MarkDeleted, MarkedDeleted, States, IInv, TypeOK
      <4> QED
        BY <4>1, <4>4, <4>5, <4>6, <4>7, <4>8, <4>9, <4>10, <4>11, <4>12, <4>13
        DEF Next, Complete, Clean, Load, Put, Scan, DeleteRejected, AbortUpload, Issue,
            Read, Open, ReadRow, ReadPolicy, OpenBytes, EndRead, Lapse, List, DeleteBytes,
            FailItem, AbortBatch, vars
    <3>3. upload[u] # Idle /\ upload[u].at = "activate" /\ stored' = stored
      BY <3>2 DEF Activate, Idle
    <3>4. x \in stored'
      BY <3>1, <3>2, <3>3 DEF IInv, UploadsSafe, Underway, AllowsRead
    <3> QED
      BY <1>1, <3>1, <3>4 DEF Evolves, AllowsRead
  <2> QED
    BY <2>1, <2>2
<1> QED
  BY <1>3, <1>4

(* Every step keeps the inductive invariant.                               *)
LEMMA NextIInv == IInv /\ [Next]_vars => IInv'
BY NextTypeOK, NextUploadsSafe, NextBatchesSafe, NextObjectsSafe DEF IInv

(* The inductive invariant always holds.                                   *)
THEOREM AlwaysIInv == Spec => []IInv
BY InitIInv, NextIInv, PTL DEF Spec

(***************************************************************************)
(* The rows, the requests and the batches keep their types.                *)
(***************************************************************************)
THEOREM Typing == Spec => []TypeOK
<1>1. IInv => TypeOK
  BY DEF IInv
<1> QED
  BY <1>1, AlwaysIInv, PTL

(***************************************************************************)
(* Whatever is readable has its bytes, for any number of completions and   *)
(* cleanup workers, whatever fails half-way.                               *)
(***************************************************************************)
THEOREM ReadableBytes == Spec => []ReadableHasBytes
<1>1. IInv => ReadableHasBytes
  BY DEF IInv, ObjectsSafe, ReadableHasBytes, Readable
<1> QED
  BY <1>1, AlwaysIInv, PTL

(***************************************************************************)
(* Redaction, expiry and giving up are final.                              *)
(***************************************************************************)
THEOREM FinalStays == Spec => NeverRevived
<1>1. IInv /\ [Next]_vars =>
        [\A c \in Contents : object[c].state \in Final => object'[c].state \in Final]_vars
  BY EveryObjectEvolves DEF IInv, Evolves
<1> QED
  BY <1>1, AlwaysIInv, PTL DEF Spec, NeverRevived

(***************************************************************************)
(* What the scanner rejected stays rejected and never becomes active.      *)
(***************************************************************************)
THEOREM RejectedStays == Spec => RejectedNeverActive
<1>1. ASSUME IInv, [Next]_vars, NEW c \in Contents, object[c].scan = "rejected"
      PROVE  object'[c].scan = "rejected" /\ object'[c].state # "active"
  <2>1. Evolves(object[c], object'[c]) /\ object[c].state # "active"
    BY <1>1, EveryObjectEvolves DEF IInv, ObjectsSafe, AllowsRead
  <2> QED
    BY <1>1, <2>1 DEF Evolves, AllowsRead
<1>2. IInv /\ [Next]_vars =>
        [\A c \in Contents : object[c].scan = "rejected" =>
           object'[c].scan = "rejected" /\ object'[c].state # "active"]_vars
  BY <1>1
<1> QED
  BY <1>2, AlwaysIInv, PTL DEF Spec, RejectedNeverActive

-----------------------------------------------------------------------------
(* The promise of ContentPromise.                                          *)

(* A content that was never uploaded is the object nobody has touched.     *)
Unborn == \A c \in Contents : object[c].state = "none" => object[c] = Absent

(* What Moves asks of a change, in the words of this module.               *)
LEMMA MovesHere ==
  ASSUME NEW o, NEW p,
         p.state = o.state \/ p.state \in Promise!Successors(o.state),
         p.state = "none" => p = o,
         o.scan # "pending" => p.scan = o.scan,
         p.state = "active" => AllowsRead(p.scan),
         o.event # None => p.event = o.event,
         p.event # o.event => o.state = "active" /\ p.state = "active",
         o.due => p.due
  PROVE  Promise!Moves(o, p)
BY DEF Promise!Moves, Promise!AllowsRead, AllowsRead

(* Everything save_content leaves alone.                                   *)
LEMMA SavedAll ==
  ASSUME NEW o \in Object, NEW s
  PROVE  /\ Saved(o, s).state = s /\ Saved(o, s).scan = o.scan
         /\ Saved(o, s).event = o.event /\ Saved(o, s).due = o.due
BY DEF Object, Saved

(* A verdict and nothing else.                                             *)
LEMMA VerdictAll ==
  ASSUME NEW o \in Object, NEW v
  PROVE  LET p == Saved([o EXCEPT !.scan = v], o.state) IN
         p.state = o.state /\ p.scan = v /\ p.event = o.event /\ p.due = o.due
BY DEF Object, Saved

(* The event of a binding and nothing else.                                *)
LEMMA BoundAll ==
  ASSUME NEW o \in Object, NEW e
  PROVE  LET p == [o EXCEPT !.event = e] IN
         p.state = o.state /\ p.scan = o.scan /\ p.event = e /\ p.due = o.due
BY DEF Object

(* Time makes an object old or due and nothing else.                       *)
LEMMA TimeAll ==
  ASSUME NEW o \in Object
  PROVE  /\ LET p == [o EXCEPT !.old = TRUE] IN
              p.state = o.state /\ p.scan = o.scan /\ p.event = o.event /\ p.due = o.due
         /\ LET p == [o EXCEPT !.due = TRUE] IN
              p.state = o.state /\ p.scan = o.scan /\ p.event = o.event /\ p.due = TRUE
BY DEF Object

(* Whatever happens, every object makes a promised move.                   *)
LEMMA EveryObjectMoves ==
  ASSUME IInv, Unborn, [Next]_vars, NEW x \in Contents
  PROVE  Promise!Moves(object[x], object'[x])
<1> DEFINE o == object[x]
           p == object'[x]
<1>0. object \in [Contents -> Object] /\ o \in Object /\ o.state \in States \cup {"none"}
      /\ (o.state = "active" => AllowsRead(o.scan)) /\ (o.state = "none" => o = Absent)
  BY ObjectFields DEF IInv, TypeOK, ObjectsSafe, Unborn
<1>1. ASSUME p = o PROVE Promise!Moves(o, p)
  BY <1>0, <1>1, MovesHere
<1>2. ASSUME NEW s, s \in Promise!Successors(o.state), s \notin {"none", "active"}, p = Saved(o, s)
      PROVE  Promise!Moves(o, p)
  BY <1>0, <1>2, SavedAll, MovesHere
<1>4. ASSUME NEW c \in Contents, GrowOld(c) \/ FallDue(c) PROVE Promise!Moves(o, p)
  <2>1. \/ p = o
        \/ o.state # "none" /\ p = [o EXCEPT !.old = TRUE]
        \/ o.state # "none" /\ p = [o EXCEPT !.due = TRUE]
    BY <1>0, <1>4 DEF GrowOld, FallDue
  <2>2. p = o \/ (o.state # "none" /\ p.state = o.state /\ p.scan = o.scan /\ p.event = o.event
                  /\ (o.due => p.due))
    BY <1>0, <2>1, TimeAll
  <2> QED
    BY <1>0, <1>1, <2>2, MovesHere
<1>5. ASSUME NEW c \in Contents, Begin(c) PROVE Promise!Moves(o, p)
  <2>1. p = o \/ (o.state = "none" /\ \E v : p = Begun(v))
    BY <1>0, <1>5 DEF Begin
  <2>2. CASE o.state = "none" /\ \E v : p = Begun(v)
    <3>1. o.scan = "pending" /\ o.event = None /\ o.due = FALSE
      BY <1>0, <2>2 DEF Absent
    <3>2. p.state = "uploading" /\ p.event = None /\ p.due = FALSE
      BY <2>2 DEF Begun, Absent
    <3> QED
      BY <2>2, <3>1, <3>2, MovesHere DEF Promise!Successors
  <2> QED
    BY <1>1, <2>1, <2>2
<1>6. ASSUME NEW c \in Contents, Redact(c) PROVE Promise!Moves(o, p)
  <2>1. p = o \/ (o.state = "active" /\ p = Saved(o, "redacted"))
    BY <1>0, <1>6 DEF Redact
  <2> QED
    BY <1>1, <1>2, <2>1 DEF Promise!Successors
<1>7. ASSUME NEW c \in Contents, NEW e \in Events, Bind(c, e) PROVE Promise!Moves(o, p)
  <2>1. p = o \/ (o.state = "active" /\ o.event \in {None, e} /\ p = [o EXCEPT !.event = e])
    BY <1>0, <1>7 DEF Bind, CanBind
  <2>2. CASE o.state = "active" /\ o.event \in {None, e} /\ p = [o EXCEPT !.event = e]
    <3>1. p.state = "active" /\ p.scan = o.scan /\ p.event = e /\ p.due = o.due
      BY <1>0, <2>2, BoundAll
    <3> QED
      BY <1>0, <2>2, <3>1, MovesHere
  <2> QED
    BY <1>1, <2>1, <2>2
<1>8. ASSUME NEW u \in Uploads, RecordScan(u) PROVE Promise!Moves(o, p)
  <2> DEFINE v == IF upload[u].at = "record_clean" THEN "clean" ELSE "rejected"
  <2>1. \/ p = o
        \/ /\ o.scan = "pending" /\ x = upload[u].content
           /\ p = Saved([o EXCEPT !.scan = v], o.state)
    BY <1>0, <1>8 DEF RecordScan, CanRecordScan
  <2> HIDE DEF v
  <2>2. CASE /\ o.scan = "pending" /\ x = upload[u].content
             /\ p = Saved([o EXCEPT !.scan = v], o.state)
    <3>1. o.state # "none"
      BY <1>8, <2>2 DEF RecordScan, IInv, UploadsSafe, Underway, Idle
    <3>2. o.state # "active"
      BY <1>0, <2>2 DEF AllowsRead
    <3>3. p.state = o.state /\ p.event = o.event /\ p.due = o.due
      BY <1>0, <2>2, VerdictAll
    <3> QED
      BY <2>2, <3>1, <3>2, <3>3, MovesHere
  <2> QED
    BY <1>1, <2>1, <2>2
<1>9. ASSUME NEW u \in Uploads, Activate(u) PROVE Promise!Moves(o, p)
  <2>1. p = o \/ (CanActivate(o) /\ p = Saved(o, "active"))
    BY <1>0, <1>9 DEF Activate
  <2>2. CASE CanActivate(o) /\ p = Saved(o, "active")
    <3>1. o.state \in {"uploading", "active"} /\ AllowsRead(o.scan)
      BY <2>2 DEF CanActivate
    <3>2. p.state = "active" /\ p.scan = o.scan /\ p.event = o.event /\ p.due = o.due
      BY <1>0, <2>2, SavedAll
    <3> QED
      BY <3>1, <3>2, MovesHere DEF Promise!Successors
  <2> QED
    BY <1>1, <2>1, <2>2
<1>10. ASSUME NEW u \in Uploads, Compensate(u) PROVE Promise!Moves(o, p)
  <2>1. p = o \/ (o.state = "uploading" /\ p = Saved(o, "orphaned"))
    BY <1>0, <1>10 DEF Compensate
  <2> QED
    BY <1>1, <1>2, <2>1 DEF Promise!Successors
<1>11. ASSUME DeleteAccount PROVE Promise!Moves(o, p)
  <2>1. \/ p = o
        \/ o.state = "uploading" /\ p = Saved(o, "orphaned")
        \/ o.state = "active" /\ p = Saved(o, "redacted")
    BY <1>0, <1>11 DEF DeleteAccount
  <2> QED
    BY <1>1, <1>2, <2>1 DEF Promise!Successors
<1>12. ASSUME NEW k \in Cleaners, Prepare(k) PROVE Promise!Moves(o, p)
  <2>1. PICK l \in cleaner[k].todo : Prepare(k)!2!(l)
    BY <1>12 DEF Prepare
  <2>2. p = o \/ (Target(l) # l.state /\ o.state = l.state /\ p = Saved(o, Target(l)))
    BY <1>0, <2>1
  <2>3. Target(l) # l.state => \/ l.state = "active" /\ Target(l) \in {"expired", "orphaned"}
                               \/ l.state = "uploading" /\ Target(l) = "orphaned"
    BY DEF Target
  <2> QED
    BY <1>1, <1>2, <2>2, <2>3 DEF Promise!Successors
<1>13. ASSUME NEW k \in Cleaners, MarkDeleted(k) PROVE Promise!Moves(o, p)
  <2>1. p = o \/ (CanMarkDeleted(o) /\ p = Saved(o, "deleted"))
    BY <1>0, <1>13 DEF MarkDeleted, MarkedDeleted
  <2>2. CASE o.state = "deleted" /\ p = Saved(o, "deleted")
    BY <1>0, <2>2, SavedAll, MovesHere
  <2>3. CASE o.state \in {"orphaned", "redacted", "expired"} /\ p = Saved(o, "deleted")
    BY <1>2, <2>3 DEF Promise!Successors
  <2> QED
    BY <1>1, <2>1, <2>2, <2>3 DEF CanMarkDeleted
<1>14. ASSUME object' = object PROVE Promise!Moves(o, p)
  BY <1>1, <1>14
<1> QED
  BY <1>4, <1>5, <1>6, <1>7, <1>8, <1>9, <1>10, <1>11, <1>12, <1>13, <1>14
  DEF Next, Complete, Clean, Load, Put, Scan, DeleteRejected, AbortUpload, Issue,
      Read, Open, ReadRow, ReadPolicy, OpenBytes, EndRead, Lapse, List, DeleteBytes,
      FailItem, AbortBatch, vars

(* Nothing is touched before its upload is claimed.                        *)
LEMMA AlwaysUnborn == Spec => []Unborn
<1>1. Init => Unborn
  BY DEF Init, Unborn
<1>2. IInv /\ Unborn /\ [Next]_vars => Unborn'
  <2> SUFFICES ASSUME IInv, Unborn, [Next]_vars, NEW c \in Contents, object'[c].state = "none"
               PROVE  object'[c] = Absent
    BY DEF Unborn
  <2>1. object'[c] = object[c]
    BY EveryObjectMoves DEF Promise!Moves
  <2> QED
    BY <2>1 DEF Unborn
<1> QED
  BY <1>1, <1>2, AlwaysIInv, PTL DEF Spec

(***************************************************************************)
(* The content service, with completions that overlap, fail half-way or    *)
(* come late, any number of cleanup workers and the deletion of the        *)
(* account, implements ContentPromise.                                     *)
(***************************************************************************)
THEOREM ServiceKeepsPromise == Spec => KeepsPromise
<1>1. Init => Promise!Init
  BY DEF Init, Promise!Init, Absent, Promise!Absent
<1>2. IInv /\ IInv' /\ Unborn /\ [Next]_vars => [Promise!Next]_object
  <2>1. IInv' => object' \in [Contents -> Promise!Object]
    BY DEF IInv, TypeOK, Object, Promise!Object, States, Promise!States, Scans, Promise!Scans
  <2> QED
    BY <2>1, EveryObjectMoves DEF Promise!Next
<1> QED
  BY <1>1, <1>2, AlwaysIInv, AlwaysUnborn, PTL DEF Spec, KeepsPromise, Promise!Spec

-----------------------------------------------------------------------------
(* Reads.                                                                  *)

(***************************************************************************)
(* What an open under way knows: its content was readable once, so it is   *)
(* active or has ended; and each check it passed rules out one way in      *)
(* which the content had ended before the open began.                      *)
(***************************************************************************)
Reading(rd, o) ==
  /\ o.state \in Final \cup {"active"}
  /\ AllowsRead(o.scan)
  /\ o.event # None
  /\ rd.at = "row" /\ ~rd.live => rd.due \/ o.state \in Final \/ revoked
  /\ rd.at = "policy" /\ ~rd.live => revoked
  /\ rd.at \in {"bytes", "open"} => rd.live

ReadersSafe ==
  \A r \in Readers : reader[r].at # "idle" => Reading(reader[r], object[reader[r].content])

(* A reader that does not move loses nothing by what the others do.        *)
LEMMA ReadingKept ==
  ASSUME IInv, Unborn, ReadersSafe, [Next]_vars, NEW r \in Readers, reader[r].at # "idle",
         reader'[r] = reader[r]
  PROVE  Reading(reader[r], object[reader[r].content])'
<1> DEFINE c == reader[r].content
<1>1. c \in Contents
  BY ReaderFields DEF IInv, TypeOK
<1>2. Promise!Moves(object[c], object'[c])
  BY <1>1, EveryObjectMoves
<1>3. Reading(reader[r], object[c])
  BY DEF ReadersSafe
<1>4. revoked => revoked'
  BY DEF Next, Complete, Clean, GrowOld, FallDue, Begin, Redact, Bind, DeleteAccount, Load, Put,
         Scan, RecordScan, Activate, Compensate, DeleteRejected, AbortUpload, Issue, Read, Open,
         ReadRow, ReadPolicy, OpenBytes, EndRead, Lapse, List, Prepare, DeleteBytes, MarkDeleted,
         FailItem, AbortBatch, vars
<1>5. /\ object'[c].state \in Final \cup {"active"}
      /\ object[c].state \in Final => object'[c].state \in Final
      /\ object'[c].scan = object[c].scan
      /\ object'[c].event # None
  BY <1>2, <1>3 DEF Reading, Promise!Moves, Promise!Successors, Final, AllowsRead
<1> HIDE DEF c
<1> QED
  BY <1>3, <1>4, <1>5 DEF Reading, AllowsRead, c

(* Every step keeps what the opens under way rely on.                      *)
LEMMA NextReadersSafe == IInv /\ Unborn /\ ReadersSafe /\ [Next]_vars => ReadersSafe'
<1> SUFFICES ASSUME IInv, Unborn, ReadersSafe, [Next]_vars, NEW r \in Readers, reader'[r].at # "idle"
             PROVE  Reading(reader[r], object[reader[r].content])'
  BY DEF ReadersSafe
<1> DEFINE c == reader[r].content
           Goal == Reading(reader[r], object[reader[r].content])'
<1>1. reader \in [Readers -> Reader] /\ reader[r] \in Reader
  BY DEF IInv, TypeOK
<1>2. ASSUME reader'[r] = reader[r] PROVE Goal
  BY <1>2, ReadingKept
<1>3. ASSUME reader[r].at # "idle"
      PROVE  Reading(reader[r], object[c]) /\ c \in Contents
  BY <1>1, <1>3, ReaderFields DEF ReadersSafe
<1>4. ASSUME NEW d \in Contents, Issue(r, d) PROVE Goal
  <2>1. reader'[r] = Ticket(d) /\ object' = object /\ Readable(object[d])
    BY <1>1, <1>4 DEF Issue
  <2> QED
    BY <2>1, TicketFields DEF Reading, Readable, Final
<1>5. ASSUME reader[r].at # "idle", Refuse(r), object' = object PROVE Goal
  <2>1. reader'[r] = Ticket(c)
    BY <1>1, <1>5 DEF Refuse
  <2>2. reader'[r].at = "held" /\ reader'[r].content = c
    BY <1>3, <1>5, <2>1, TicketFields
  <2> QED
    BY <1>3, <1>5, <2>2 DEF Reading
<1>6. ASSUME reader[r].at # "idle", NEW step \in OpenSteps, Proceed(r, step)
      PROVE  /\ reader'[r].at = step /\ reader'[r].content = c
             /\ reader'[r].due = reader[r].due /\ reader'[r].live = reader[r].live
  BY <1>1, <1>6, ProceedFields DEF Proceed
<1>7. CASE Open(r)
  <2> DEFINE o == object[c]
  <2>1. reader'[r] = [at |-> "row", content |-> c, due |-> o.due, live |-> Readable(o) /\ ~revoked]
    BY <1>1, <1>7 DEF Open
  <2>2. object' = object /\ revoked' = revoked /\ Reading(reader[r], o)
    BY <1>3, <1>7 DEF Open
  <2>3. reader'[r].at = "row" /\ reader'[r].content = c /\ reader'[r].due = o.due
    BY <2>1
  <2>4. ~reader'[r].live => o.due \/ o.state \in Final \/ revoked
    <3>1. ~(Readable(o) /\ ~revoked) => o.due \/ o.state \in Final \/ revoked
      BY <2>2 DEF Reading, Readable
    <3> DEFINE live == Readable(o) /\ ~revoked
    <3>2. reader'[r] = [at |-> "row", content |-> c, due |-> o.due, live |-> live]
      BY <2>1
    <3> HIDE DEF live
    <3>3. reader'[r].live = live
      BY <3>2
    <3> QED
      BY <3>1, <3>3 DEF live
  <2> QED
    BY <2>2, <2>3, <2>4 DEF Reading
<1>8. CASE ReadRow(r)
  <2> DEFINE o == object[c]
  <2>1. /\ reader[r].at = "row" /\ object' = object /\ revoked' = revoked
        /\ IF Readable([o EXCEPT !.due = reader[r].due]) THEN Proceed(r, "policy") ELSE Refuse(r)
    BY <1>8 DEF ReadRow
  <2>2. Reading(reader[r], o) /\ o \in Object
    BY <1>3, <2>1 DEF IInv, TypeOK
  <2>3. CASE Refuse(r)
    BY <1>5, <2>1, <2>3
  <2>4. CASE Readable([o EXCEPT !.due = reader[r].due]) /\ Proceed(r, "policy")
    <3>1. o.state = "active" /\ ~reader[r].due
      BY <2>2, <2>4 DEF Readable, Object
    <3>2. "policy" \in OpenSteps
      BY DEF OpenSteps
    <3>3. /\ reader'[r].at = "policy" /\ reader'[r].content = c
          /\ reader'[r].live = reader[r].live
      BY <1>6, <2>1, <2>4, <3>2
    <3> QED
      BY <2>1, <2>2, <3>1, <3>3 DEF Reading, Final
  <2> QED
    BY <2>1, <2>3, <2>4
<1>9. CASE ReadPolicy(r)
  <2>1. /\ reader[r].at = "policy" /\ object' = object /\ revoked' = revoked
        /\ Refuse(r) \/ (~revoked /\ Proceed(r, "bytes"))
    BY <1>9 DEF ReadPolicy
  <2>2. CASE ~revoked /\ Proceed(r, "bytes")
    <3>1. "bytes" \in OpenSteps
      BY DEF OpenSteps
    <3>2. /\ reader'[r].at = "bytes" /\ reader'[r].content = c
          /\ reader'[r].live = reader[r].live
      BY <1>6, <2>1, <2>2, <3>1
    <3> QED
      BY <1>3, <2>1, <2>2, <3>2 DEF Reading
  <2> QED
    BY <1>5, <2>1, <2>2
<1>10. CASE OpenBytes(r)
  <2>1. /\ reader[r].at = "bytes" /\ object' = object /\ revoked' = revoked
        /\ Refuse(r) \/ Proceed(r, "open")
    BY <1>10 DEF OpenBytes
  <2>2. CASE Proceed(r, "open")
    <3>1. "open" \in OpenSteps
      BY DEF OpenSteps
    <3>2. /\ reader'[r].at = "open" /\ reader'[r].content = c
          /\ reader'[r].live = reader[r].live
      BY <1>6, <2>1, <2>2, <3>1
    <3> QED
      BY <1>3, <2>1, <3>2 DEF Reading
  <2> QED
    BY <1>5, <2>1, <2>2
<1>11. CASE EndRead(r)
  BY <1>5, <1>11 DEF EndRead, OpenSteps
<1>12. ASSUME Lapse(r) PROVE FALSE
  BY <1>1, <1>12, TicketFields DEF Lapse
<1>13. ASSUME NEW q \in Readers, q # r, (\E d \in Contents : Issue(q, d)) \/ Read(q)
       PROVE  reader'[r] = reader[r]
  BY <1>1, <1>13 DEF Issue, Read, Open, ReadRow, ReadPolicy, OpenBytes, EndRead, Lapse, Proceed, Refuse
<1>14. CASE reader' = reader
  BY <1>2, <1>14
<1> QED
  BY <1>2, <1>4, <1>7, <1>8, <1>9, <1>10, <1>11, <1>12, <1>13, <1>14
  DEF Next, Complete, Clean, Read, GrowOld, FallDue, Begin, Redact, Bind, DeleteAccount, Load, Put,
      Scan, RecordScan, Activate, Compensate, DeleteRejected, AbortUpload, List, Prepare,
      DeleteBytes, MarkDeleted, FailItem, AbortBatch, vars

(***************************************************************************)
(* Whatever happens in the awaits of an open, and for any number of        *)
(* readers: it serves nothing if it began after the content ended, and     *)
(* misses the bytes only if the content ended meanwhile.                   *)
(***************************************************************************)
THEOREM ReadsHonourTickets == Spec => []TicketsHonoured
<1>1. Init => ReadersSafe
  BY TicketFields DEF Init, ReadersSafe
<1>2. IInv /\ ReadersSafe => TicketsHonoured
  <2> SUFFICES ASSUME IInv, ReadersSafe, NEW r \in Readers, reader[r].at \in {"open", "bytes"}
               PROVE  LET o == object[reader[r].content] IN
                      /\ reader[r].at = "open" => reader[r].live /\ AllowsRead(o.scan)
                      /\ reader[r].at = "bytes" => reader[r].content \in stored \/ o.state \in Final
    BY DEF TicketsHonoured
  <2>1. reader[r].content \in Contents /\ Reading(reader[r], object[reader[r].content])
    BY ReaderFields DEF IInv, TypeOK, ReadersSafe
  <2> QED
    BY <2>1 DEF Reading, IInv, ObjectsSafe
<1> QED
  BY <1>1, <1>2, NextReadersSafe, AlwaysIInv, AlwaysUnborn, PTL DEF Spec
=============================================================================
