---------------------- MODULE MessagePublicationProofs ----------------------
(***************************************************************************)
(* For any number of submissions, bodies and concurrent calls: rows tell   *)
(* the truth, who is told "published" had that request published, events   *)
(* have their content, and a redaction is told only when it is done.       *)
(*                                                                         *)
(* The argument: rows, the room and contents only move onward, so whatever *)
(* a call, a row or an event in flight has established stays established.  *)
(* The predicates below take the state as parameters, so that one lemma    *)
(* (Kept) carries them over any step.                                      *)
(***************************************************************************)
EXTENDS MessagePublication, TLAPS

CallRow ==
  {Quiet} \cup [at : Steps \cup Outcomes, sub : Submissions, intent : AnyIntent,
                seen : (RowStates \cup {"none"}) \ {"bound"}]
Row == [state : RowStates \cup {"none"}, intent : AnyIntent \cup {None}]

(* The content side of a submission is done: a body was stored, or the     *)
(* target's body is withdrawn.                                             *)
Ready(s, i, o) ==
  IF s \in Sends THEN o[s].state \notin {"none", "uploading"}
  ELSE o[i].state \in {"redacted", "deleted"}

Accepted(r) == r.state \in {"accepted", "bound"}

(* What a call knows at each of its steps of the rows r, the room e and    *)
(* the contents o.                                                         *)
CallSafe(c, r, e, o) ==
  /\ c \in CallRow
  /\ c.at # "idle" => c.sub \in Submissions /\ c.intent \in Intents(c.sub)
  /\ c.at = "claim" => c.seen = "none"
  /\ c.at \in {"upload", "complete", "bind"} => c.sub \in Sends
  /\ c.at = "redact" => c.sub \in Redactions
  /\ c.at \notin {"idle", "claim", "failed"} => r[c.sub].intent = c.intent
  /\ c.at \notin {"idle", "claim"} /\ c.seen = "accepted" => Accepted(r[c.sub])
  /\ c.at = "publish" => Ready(c.sub, c.intent, o)
  /\ c.at = "mark_accepted" => e[c.sub] # None
  /\ c.at \in {"bind", "mark_bound"} => Accepted(r[c.sub])
  /\ c.at = "mark_bound" /\ c.sub \in Sends => o[c.sub].event = c.sub
  /\ c.at = "published" => r[c.sub].state = "bound"

(* An event in flight.                                                     *)
FlightSafe(m, r, o) ==
  /\ m \in [sub : Submissions, intent : AnyIntent]
  /\ m.intent \in Intents(m.sub)
  /\ r[m.sub].intent = m.intent
  /\ Ready(m.sub, m.intent, o)

(* A submission's row and its event in the room.                           *)
SubSafe(s, r, e, o) ==
  /\ r[s] \in Row
  /\ r[s].state = "none" <=> r[s].intent = None
  /\ e[s] \in Intents(s) \cup {None}
  /\ e[s] # None => e[s] = r[s].intent /\ Ready(s, e[s], o)
  /\ Accepted(r[s]) => e[s] = r[s].intent
  /\ r[s].state = "bound" /\ s \in Sends => o[s].event = s

ContentSafe(x) == x \in Object /\ (x.state = "none" => x.event = None)

Functions ==
  /\ row = [s \in Submissions |-> row[s]]
  /\ call = [k \in Calls |-> call[k]]
  /\ room = [s \in Submissions |-> room[s]]
  /\ content = [s \in Sends |-> content[s]]

IInv ==
  /\ Functions
  /\ \A k \in Calls : CallSafe(call[k], row, room, content)
  /\ \A m \in flying : FlightSafe(m, row, content)
  /\ \A s \in Submissions : SubSafe(s, row, room, content)
  /\ \A s \in Sends : ContentSafe(content[s])

-----------------------------------------------------------------------------
(* A step only moves rows, the room and contents onward.                   *)
OnwardRow(r, q) ==
  /\ q \in Row
  /\ q.state = "none" <=> q.intent = None
  /\ r.intent # None => q.intent = r.intent
  /\ Accepted(r) => Accepted(q)
  /\ r.state = "bound" => q.state = "bound"

Onward(x, y) ==
  /\ ContentSafe(y)
  /\ x.state \notin {"none", "uploading"} => y.state \notin {"none", "uploading"}
  /\ x.state \in {"redacted", "deleted"} => y.state \in {"redacted", "deleted"}
  /\ x.event # None => y.event = x.event

Onwards ==
  /\ row' = [s \in Submissions |-> row'[s]]
  /\ room' = [s \in Submissions |-> room'[s]]
  /\ content' = [s \in Sends |-> content'[s]]
  /\ \A s \in Submissions : OnwardRow(row[s], row'[s])
  /\ \A s \in Submissions : room[s] # None => room'[s] = room[s]
  /\ \A s \in Sends : Onward(content[s], content'[s])

(* Names and values that are told apart.                                   *)
LEMMA Names ==
  /\ None \notin Submissions /\ None \notin AnyIntent /\ None \notin Sends
  /\ \A s \in Submissions : Intents(s) \subseteq AnyIntent
  /\ \A s \in Redactions : Intents(s) = Sends /\ s \notin Sends
  /\ \A s \in Submissions : s \in Sends \/ s \in Redactions
BY SubmissionsAssumption DEF Submissions, AnyIntent, Intents

(* The fields of a call.                                                   *)
LEMMA Fields ==
  ASSUME NEW c \in CallRow
  PROVE  /\ c.at # "idle" => c \in [at : Steps \cup Outcomes, sub : Submissions,
                                    intent : AnyIntent, seen : (RowStates \cup {"none"}) \ {"bound"}]
         /\ c.at = "idle" => c = Quiet
BY DEF CallRow, Quiet, Steps, Outcomes

(* What is done for a submission stays done.                               *)
LEMMA ReadyKept ==
  ASSUME NEW o, NEW p, NEW s \in Submissions, NEW i \in Intents(s), Ready(s, i, o),
         \A x \in Sends : Onward(o[x], p[x])
  PROVE  Ready(s, i, p)
BY Names DEF Ready, Onward

(* A step onward takes nothing back from the calls, the events in flight   *)
(* and the submissions it leaves alone.                                    *)
LEMMA Kept ==
  ASSUME IInv, Onwards
  PROVE  /\ \A k \in Calls : CallSafe(call[k], row', room', content')
         /\ \A m \in flying : FlightSafe(m, row', content')
         /\ \A s \in Submissions : row'[s] = row[s] /\ room'[s] = room[s] =>
              SubSafe(s, row', room', content')
<1>1. ASSUME NEW k \in Calls PROVE CallSafe(call[k], row', room', content')
  <2>1. CallSafe(call[k], row, room, content)
    BY DEF IInv
  <2>2. call[k].at # "idle" => call[k].sub \in Submissions /\ call[k].intent \in Intents(call[k].sub)
                               /\ call[k].intent # None
    BY <2>1, Names DEF CallSafe
  <2>3. call[k].at = "publish" => Ready(call[k].sub, call[k].intent, content')
    BY <2>1, <2>2, ReadyKept DEF CallSafe, Onwards
  <2>4. call[k].at = "mark_bound" /\ call[k].sub \in Sends => content'[call[k].sub].event = call[k].sub
    BY <2>1, Names DEF CallSafe, Onwards, Onward
  <2>5. call[k].at # "idle" => OnwardRow(row[call[k].sub], row'[call[k].sub])
                               /\ (room[call[k].sub] # None => room'[call[k].sub] = room[call[k].sub])
    BY <2>2 DEF Onwards
  <2> QED
    BY <2>1, <2>2, <2>3, <2>4, <2>5 DEF CallSafe, OnwardRow
<1>2. ASSUME NEW m \in flying PROVE FlightSafe(m, row', content')
  <2>1. FlightSafe(m, row, content)
    BY DEF IInv
  <2>2. m.sub \in Submissions /\ m.intent \in Intents(m.sub) /\ m.intent # None
    BY <2>1, Names DEF FlightSafe
  <2>3. OnwardRow(row[m.sub], row'[m.sub])
    BY <2>2 DEF Onwards
  <2>4. Ready(m.sub, m.intent, content')
    BY <2>1, <2>2, ReadyKept DEF FlightSafe, Onwards
  <2> QED
    BY <2>1, <2>2, <2>3, <2>4 DEF FlightSafe, OnwardRow
<1>3. ASSUME NEW s \in Submissions, row'[s] = row[s], room'[s] = room[s]
      PROVE  SubSafe(s, row', room', content')
  <2>1. SubSafe(s, row, room, content)
    BY DEF IInv
  <2>2. room[s] # None => Ready(s, room[s], content')
    BY <2>1, ReadyKept DEF SubSafe, Onwards
  <2>3. row[s].state = "bound" /\ s \in Sends => content'[s].event = s
    BY <2>1, Names DEF SubSafe, Onwards, Onward
  <2> QED
    BY <1>3, <2>1, <2>2, <2>3 DEF SubSafe
<1> QED
  BY <1>1, <1>2, <1>3

(* One call moves, at most one row changes, and nothing enters the room.   *)
LEMMA OneCall ==
  ASSUME IInv, Onwards, NEW k \in Calls, NEW c,
         call' = [call EXCEPT ![k] = c], CallSafe(c, row', room', content'),
         \A m \in flying' \ flying : FlightSafe(m, row', content'),
         \A s \in Submissions : row'[s] # row[s] \/ room'[s] # room[s] =>
           SubSafe(s, row', room', content')
  PROVE  IInv'
<1>1. call' = [j \in Calls |-> call'[j]] /\ \A j \in Calls : call'[j] = IF j = k THEN c ELSE call[j]
  BY DEF IInv, Functions
<1>2. \A j \in Calls : CallSafe(call'[j], row', room', content')
  BY <1>1, Kept
<1>3. \A m \in flying' : FlightSafe(m, row', content')
  BY Kept
<1>4. \A s \in Submissions : SubSafe(s, row', room', content')
  BY Kept
<1>5. \A s \in Sends : ContentSafe(content'[s])
  BY DEF Onwards, Onward
<1> QED
  BY <1>1, <1>2, <1>3, <1>4, <1>5 DEF IInv, Functions, Onwards

(* A step that leaves the rows, the room and the contents alone.           *)
LEMMA Still ==
  ASSUME IInv
  PROVE  /\ \A s \in Submissions : OnwardRow(row[s], row[s])
         /\ \A s \in Sends : Onward(content[s], content[s])
BY DEF IInv, SubSafe, OnwardRow, Onward

(* A call that goes to another step.                                       *)
LEMMA Moved ==
  ASSUME IInv, NEW k \in Calls, call[k].at \in Steps, NEW step \in Steps \cup Outcomes
  PROVE  LET c == [call[k] EXCEPT !.at = step] IN
         /\ (Goto(k, step) <=> call' = [call EXCEPT ![k] = c])
         /\ c \in CallRow /\ c.at = step
         /\ c.sub = call[k].sub /\ c.intent = call[k].intent /\ c.seen = call[k].seen
         /\ c.sub \in Submissions /\ c.intent \in Intents(c.sub) /\ c.intent # None
<1>1. CallSafe(call[k], row, room, content) /\ call[k].at # "idle"
  BY DEF IInv, Steps
<1>2. call[k] \in [at : Steps \cup Outcomes, sub : Submissions, intent : AnyIntent,
                   seen : (RowStates \cup {"none"}) \ {"bound"}]
  BY <1>1, Fields DEF CallSafe
<1>3. call = [j \in Calls |-> call[j]]
  BY DEF IInv, Functions
<1>4. call[k].intent \in Intents(call[k].sub)
  BY <1>1 DEF CallSafe
<1>5. Goto(k, step) <=> call' = [call EXCEPT ![k] = [call[k] EXCEPT !.at = step]]
  BY <1>3 DEF Goto
<1> QED
  BY <1>2, <1>4, <1>5, Names DEF CallRow

(* A call whose submission's row, event and content are not disturbed may  *)
(* always fail.                                                            *)
LEMMA Failing ==
  ASSUME IInv, Onwards, NEW k \in Calls, call[k].at \in Steps, Goto(k, "failed"),
         flying' = flying, row' = row, room' = room
  PROVE  IInv'
<1> DEFINE c == [call[k] EXCEPT !.at = "failed"]
<1>1. "failed" \in Steps \cup Outcomes
  BY DEF Outcomes
<1>2. /\ call' = [call EXCEPT ![k] = c] /\ c \in CallRow /\ c.at = "failed"
      /\ c.sub = call[k].sub /\ c.seen = call[k].seen
      /\ c.sub \in Submissions /\ c.intent \in Intents(c.sub)
  BY <1>1, Moved
<1>3. CallSafe(call[k], row', room', content') /\ call[k].at # "idle"
  BY Kept DEF Steps
<1>4. call[k].at = "claim" => c.seen = "none"
  BY <1>2, <1>3 DEF CallSafe
<1>5. CallSafe(c, row', room', content')
  BY <1>2, <1>3, <1>4 DEF CallSafe
<1> QED
  BY <1>2, <1>5, OneCall

-----------------------------------------------------------------------------
(* Contents.                                                               *)
LEMMA ContentFields ==
  ASSUME NEW x \in Object
  PROVE  /\ x.state \in States \cup {"none"} /\ x.scan \in Scans /\ x.event \in Sends \cup {None}
         /\ x.old \in BOOLEAN /\ x.due \in BOOLEAN
BY DEF Object

LEMMA SavedOnward ==
  ASSUME NEW x \in Object, NEW scan \in Scans, NEW state \in States
  PROVE  LET y == Saved([x EXCEPT !.scan = scan], state) IN
         y \in Object /\ y.state = state /\ y.event = x.event /\ y.scan = scan
BY DEF Saved, Object

LEMMA SavedPlain ==
  ASSUME NEW x \in Object, NEW state \in States
  PROVE  LET y == Saved(x, state) IN y \in Object /\ y.state = state /\ y.event = x.event
BY DEF Saved, Object

(* Whatever an upload leaves behind is onward of what it found.            *)
LEMMA UploadOnward ==
  ASSUME NEW x, ContentSafe(x)
  PROVE  /\ Onward(x, x) /\ Onward(x, Declared(x))
         /\ \A y \in Stages(x) : Onward(x, y)
<1>1. x \in Object /\ Onward(x, x)
  BY DEF ContentSafe, Onward
<1> DEFINE d == Declared(x)
<1>2. d \in Object /\ d.event = x.event /\ d.state # "none" /\ (x.state # "none" => d = x)
      /\ (x.state = "none" => d.state = "uploading")
  BY <1>1, SubmissionsAssumption DEF Declared, Begun, Absent, Object, ContentSafe, States, Scans
<1>3. Onward(x, d)
  BY <1>1, <1>2 DEF Onward, ContentSafe
<1>4. {"uploading", "active", "orphaned"} \subseteq States /\ {"clean", "rejected"} \subseteq Scans
  BY DEF States, Scans
<1>5. x.state = "uploading" => \A p \in Judged(x) : p \in Object /\ p.state = "uploading" /\ p.event = x.event
  BY <1>1, <1>4, SavedOnward DEF Judged
<1>6. x.state = "uploading" => \A p \in Judged(x) : Onward(x, p)
  BY <1>1, <1>5 DEF Onward, ContentSafe
<1>7. ASSUME x.state = "uploading", NEW p \in Judged(x) PROVE Onward(x, Ended(p))
  <2>1. p \in Object /\ p.event = x.event
    BY <1>5, <1>7
  <2>2. PICK state \in {"active", "orphaned"} : Ended(p) = Saved(p, state)
    BY DEF Ended
  <2>3. Ended(p) \in Object /\ Ended(p).state = state /\ Ended(p).event = p.event
    BY <1>4, <2>1, <2>2, SavedPlain
  <2> QED
    BY <1>1, <1>7, <2>1, <2>3 DEF Onward, ContentSafe
<1>8. \A y \in Stages(x) : Onward(x, y)
  BY <1>1, <1>6, <1>7 DEF Stages
<1> QED
  BY <1>1, <1>3, <1>8

LEMMA RedactedOnward ==
  ASSUME NEW x, ContentSafe(x)
  PROVE  /\ Onward(x, x) /\ Onward(x, Redacted(x))
         /\ x.state \in {"active", "redacted"} => Redacted(x).state = "redacted"
<1>1. x \in Object /\ "redacted" \in States
  BY DEF ContentSafe, States
<1> QED
  BY <1>1, SavedPlain DEF Redacted, Onward, ContentSafe

(* One content moves onward, rows and the room stay.                       *)
LEMMA OneContent ==
  ASSUME IInv, NEW s \in Sends, NEW y, Onward(content[s], y),
         content' = [content EXCEPT ![s] = y], row' = row, room' = room
  PROVE  Onwards /\ content'[s] = y
BY Still DEF Onwards, IInv, Functions

(* Rows and contents stay.                                                 *)
LEMMA NothingMoves ==
  ASSUME IInv, row' = row, room' = room, content' = content
  PROVE  Onwards
BY Still DEF Onwards, IInv, Functions

-----------------------------------------------------------------------------
(* Nothing has happened before the first call.                             *)
LEMMA InitIInv == Init => IInv
<1> SUFFICES ASSUME Init PROVE IInv
  OBVIOUS
<1>1. Functions
  BY DEF Init, Functions
<1>2. \A k \in Calls : CallSafe(call[k], row, room, content)
  BY DEF Init, CallSafe, Quiet, CallRow
<1>3. \A s \in Submissions : SubSafe(s, row, room, content)
  BY Names DEF Init, SubSafe, NoRow, Row, Accepted
<1>4. \A s \in Sends : ContentSafe(content[s])
  BY DEF Init, ContentSafe, Absent, Object, Scans
<1> QED
  BY <1>1, <1>2, <1>3, <1>4 DEF Init, IInv

LEMMA RequestIInv ==
  ASSUME IInv, NEW k \in Calls, NEW s \in Submissions, NEW i \in Intents(s), Request(k, s, i)
  PROVE  IInv'
<1> DEFINE c == [at |-> "claim", sub |-> s, intent |-> i, seen |-> "none"]
<1>1. Onwards
  BY NothingMoves DEF Request
<1>2. CallSafe(c, row', room', content')
  BY Names DEF CallSafe, CallRow, Steps
<1> QED
  BY <1>1, <1>2, OneCall DEF Request

LEMMA ClaimIInv ==
  ASSUME IInv, NEW k \in Calls, Claim(k)
  PROVE  IInv'
<1> DEFINE s == call[k].sub
           claimed == IF row[s].state = "none"
                        THEN [state |-> "claimed", intent |-> call[k].intent] ELSE row[s]
           d == [call[k] EXCEPT !.at = Work(s), !.seen = claimed.state]
<1>1. CallSafe(call[k], row, room, content) /\ call[k].at = "claim" /\ call[k].at \in Steps
  BY DEF IInv, Claim, Steps
<1>2. s \in Submissions /\ call[k].intent \in Intents(s) /\ call[k].intent \in AnyIntent
      /\ call[k].intent # None
  BY <1>1, Names DEF CallSafe
<1>3. SubSafe(s, row, room, content)
  BY <1>2 DEF IInv
<1>4. claimed \in Row /\ claimed.intent # None /\ claimed.state \in RowStates
  BY <1>2, <1>3 DEF SubSafe, Row, RowStates
<1>5. OnwardRow(row[s], claimed)
  BY <1>3, <1>4 DEF OnwardRow, SubSafe, Accepted, RowStates
<1>6. row' = [row EXCEPT ![s] = claimed] /\ flying' = flying /\ room' = room /\ content' = content
  BY DEF Claim
<1>7. row'[s] = claimed /\ \A r \in Submissions : r # s => row'[r] = row[r]
  BY <1>2, <1>6 DEF IInv, Functions
<1>8. Onwards
  BY <1>2, <1>5, <1>6, <1>7, Still DEF Onwards, IInv, Functions
<1>9. \A r \in Submissions : row'[r] # row[r] => SubSafe(r, row', room', content')
  <2>1. row[s].state = "none" => room'[s] = None
    BY <1>2, <1>3, <1>6, Names DEF SubSafe
  <2>2. row[s].state = "none" => SubSafe(s, row', room', content')
    BY <1>2, <1>4, <1>7, <2>1 DEF SubSafe, Accepted
  <2> QED
    BY <1>7, <2>2
<1>10. CASE claimed.intent # call[k].intent
  <2>1. row' = row
    BY <1>6, <1>10 DEF IInv, Functions
  <2>2. Goto(k, "failed")
    BY <1>10 DEF Claim
  <2> QED
    BY <1>1, <1>6, <1>8, <2>1, <2>2, Failing
<1>11. CASE claimed.intent = call[k].intent /\ claimed.state = "bound"
  <2> DEFINE c == [call[k] EXCEPT !.at = "published"]
  <2>1. Goto(k, "published") /\ "published" \in Outcomes
    BY <1>11 DEF Claim, Outcomes
  <2>2. /\ call' = [call EXCEPT ![k] = c] /\ c \in CallRow /\ c.at = "published"
        /\ c.sub = s /\ c.intent = call[k].intent /\ c.seen = call[k].seen
    BY <1>1, <2>1, Moved
  <2>3. CallSafe(c, row', room', content')
    BY <1>1, <1>2, <1>7, <1>11, <2>2 DEF CallSafe
  <2> QED
    BY <1>6, <1>8, <1>9, <2>2, <2>3, OneCall
<1>12. CASE claimed.intent = call[k].intent /\ claimed.state # "bound"
  <2>1. call[k] \in [at : Steps \cup Outcomes, sub : Submissions, intent : AnyIntent,
                     seen : (RowStates \cup {"none"}) \ {"bound"}]
    BY <1>1, Fields DEF CallSafe
  <2>2. Work(s) \in Steps /\ Work(s) \in {"upload", "redact"}
        /\ (Work(s) = "upload" => s \in Sends) /\ (Work(s) = "redact" => s \in Redactions)
    BY <1>2, Names DEF Work, Steps
  <2>3. /\ d \in CallRow /\ d.at = Work(s) /\ d.sub = s /\ d.intent = call[k].intent
        /\ d.seen = claimed.state
    BY <1>4, <1>12, <2>1, <2>2 DEF CallRow
  <2>4. call' = [call EXCEPT ![k] = d]
    BY <1>12 DEF Claim, IInv, Functions
  <2>5. CallSafe(d, row', room', content')
    BY <1>2, <1>7, <1>12, <2>2, <2>3 DEF CallSafe, Accepted
  <2> QED
    BY <1>6, <1>8, <1>9, <2>4, <2>5, OneCall
<1> QED
  BY <1>10, <1>11, <1>12

(***************************************************************************)
(* A call that goes on to another step, of which it knows what that step   *)
(* needs; rows, the room and contents move onward.                         *)
(***************************************************************************)
LEMMA GoneOn ==
  ASSUME IInv, Onwards, NEW k \in Calls, call[k].at \in Steps \ {"claim"},
         NEW step \in Steps \cup Outcomes, Goto(k, step), step \notin {"claim", "upload", "redact"},
         step = "publish" => Ready(call[k].sub, call[k].intent, content'),
         step = "mark_accepted" => room'[call[k].sub] # None,
         step \in {"complete", "bind"} => call[k].sub \in Sends,
         step \in {"bind", "mark_bound"} => Accepted(row'[call[k].sub]),
         step = "mark_bound" /\ call[k].sub \in Sends => content'[call[k].sub].event = call[k].sub,
         step = "published" => row'[call[k].sub].state = "bound",
         \A m \in flying' \ flying : FlightSafe(m, row', content'),
         \A s \in Submissions : row'[s] # row[s] \/ room'[s] # room[s] =>
           SubSafe(s, row', room', content')
  PROVE  IInv'
<1> DEFINE c == [call[k] EXCEPT !.at = step]
<1>1. /\ call' = [call EXCEPT ![k] = c] /\ c \in CallRow /\ c.at = step
      /\ c.sub = call[k].sub /\ c.intent = call[k].intent /\ c.seen = call[k].seen
      /\ c.sub \in Submissions /\ c.intent \in Intents(c.sub)
  BY Moved
<1>2. CallSafe(call[k], row', room', content')
  BY Kept
<1>3. call[k].at \notin {"idle", "claim", "failed"}
  BY DEF Steps
<1>4. row'[c.sub].intent = c.intent /\ (c.seen = "accepted" => Accepted(row'[c.sub]))
  BY <1>1, <1>2, <1>3 DEF CallSafe
<1>5. CallSafe(c, row', room', content')
  BY <1>1, <1>4 DEF CallSafe
<1> QED
  BY <1>1, <1>5, OneCall

(* After the content: what Continue chooses is safe.                       *)
LEMMA Continued ==
  ASSUME IInv, Onwards, NEW k \in Calls, call[k].at \in {"complete", "redact"}, Continue(k),
         Ready(call[k].sub, call[k].intent, content'), row' = row, room' = room, flying' = flying
  PROVE  IInv'
<1>1. CallSafe(call[k], row, room, content) /\ call[k].at \in Steps \ {"claim"}
  BY DEF IInv, Steps
<1>2. CASE call[k].seen # "accepted"
  <2>1. Goto(k, "publish") /\ "publish" \in Steps
    BY <1>2 DEF Continue, Steps
  <2> QED
    BY <1>1, <2>1, GoneOn
<1>3. CASE call[k].seen = "accepted" /\ call[k].sub \in Sends
  <2>1. Goto(k, "bind") /\ "bind" \in Steps /\ Accepted(row[call[k].sub])
    BY <1>1, <1>3 DEF Continue, Steps, CallSafe
  <2> QED
    BY <1>1, <1>3, <2>1, GoneOn
<1>4. CASE call[k].seen = "accepted" /\ call[k].sub \notin Sends
  <2>1. Goto(k, "mark_bound") /\ "mark_bound" \in Steps /\ Accepted(row[call[k].sub])
    BY <1>1, <1>4 DEF Continue, Steps, CallSafe
  <2> QED
    BY <1>1, <1>4, <2>1, GoneOn
<1> QED
  BY <1>2, <1>3, <1>4

LEMMA UploadIInv ==
  ASSUME IInv, NEW k \in Calls, BeginUpload(k) \/ CompleteUpload(k) \/ UploadFails(k)
  PROVE  IInv'
<1> DEFINE s == call[k].sub
<1>1. CallSafe(call[k], row, room, content) /\ call[k].at \in {"upload", "complete"}
      /\ call[k].at \in Steps \ {"claim"}
  BY DEF IInv, BeginUpload, CompleteUpload, UploadFails, Steps
<1>2. s \in Sends /\ ContentSafe(content[s])
  BY <1>1 DEF CallSafe, IInv
<1>3. row' = row /\ room' = room /\ flying' = flying
  BY DEF BeginUpload, CompleteUpload, UploadFails
<1>4. CASE BeginUpload(k)
  <2> DEFINE y == Declared(content[s])
  <2>1. Onward(content[s], y) /\ content' = [content EXCEPT ![s] = y]
    BY <1>2, <1>4, UploadOnward DEF BeginUpload
  <2> HIDE DEF y
  <2>2. Onwards
    BY <1>2, <1>3, <2>1, OneContent
  <2>3. Goto(k, "complete") /\ "complete" \in Steps
    BY <1>4 DEF BeginUpload, Steps
  <2> QED
    BY <1>1, <1>2, <1>3, <2>2, <2>3, GoneOn
<1>5. CASE CompleteUpload(k)
  <2>1. PICK y \in Stages(content[s]) : y.state = "active" /\ content' = [content EXCEPT ![s] = y]
    BY <1>5 DEF CompleteUpload
  <2>2. Onward(content[s], y)
    BY <1>2, UploadOnward
  <2>3. Onwards /\ content'[s].state = "active"
    BY <1>2, <1>3, <2>1, <2>2, OneContent
  <2>4. Ready(s, call[k].intent, content')
    BY <1>2, <2>3 DEF Ready
  <2>5. Continue(k) /\ call[k].at = "complete"
    BY <1>5 DEF CompleteUpload
  <2> QED
    BY <1>3, <2>3, <2>4, <2>5, Continued
<1>6. CASE UploadFails(k)
  <2>1. PICK y \in {content[s], Declared(content[s])} \cup Stages(content[s]) :
          content' = [content EXCEPT ![s] = y]
    BY <1>6 DEF UploadFails
  <2>2. Onward(content[s], y)
    BY <1>2, UploadOnward
  <2>3. Onwards
    BY <1>2, <1>3, <2>1, <2>2, OneContent
  <2> QED
    BY <1>1, <1>3, <1>6, <2>3, Failing DEF UploadFails
<1> QED
  BY <1>4, <1>5, <1>6

LEMMA WithdrawIInv ==
  ASSUME IInv, NEW k \in Calls, Withdraw(k) \/ WithdrawFails(k)
  PROVE  IInv'
<1> DEFINE t == call[k].intent
<1>1. CallSafe(call[k], row, room, content) /\ call[k].at = "redact" /\ call[k].at \in Steps
  BY DEF IInv, Withdraw, WithdrawFails, Steps
<1>2. call[k].sub \in Redactions /\ call[k].sub \notin Sends /\ t \in Sends /\ ContentSafe(content[t])
  BY <1>1, Names DEF CallSafe, IInv
<1>3. row' = row /\ room' = room /\ flying' = flying
  BY DEF Withdraw, WithdrawFails
<1>4. CASE Withdraw(k)
  <2>1. content[t].state \in {"active", "redacted"} /\ content' = [content EXCEPT ![t] = Redacted(content[t])]
    BY <1>4 DEF Withdraw
  <2> DEFINE y == Redacted(content[t])
  <2>0. Onward(content[t], y) /\ y.state = "redacted" /\ content' = [content EXCEPT ![t] = y]
    BY <1>2, <2>1, RedactedOnward
  <2> HIDE DEF y
  <2>2. Onwards /\ content'[t].state = "redacted"
    BY <1>2, <1>3, <2>0, OneContent
  <2>3. Ready(call[k].sub, t, content')
    BY <1>2, <2>2 DEF Ready
  <2> QED
    BY <1>1, <1>3, <1>4, <2>2, <2>3, Continued DEF Withdraw
<1>5. CASE WithdrawFails(k)
  <2>1. PICK y \in {content[t], Redacted(content[t])} : content' = [content EXCEPT ![t] = y]
    BY <1>5 DEF WithdrawFails
  <2>0. Onward(content[t], y)
    BY <1>2, RedactedOnward
  <2>2. Onwards
    BY <1>2, <1>3, <2>1, <2>0, OneContent
  <2> QED
    BY <1>1, <1>3, <1>5, <2>2, Failing DEF WithdrawFails
<1> QED
  BY <1>4, <1>5

(* An event that is ready and of its row's intent may enter the room.      *)
LEMMA AcceptOnward ==
  ASSUME IInv, NEW m, FlightSafe(m, row, content), Accept(m), row' = row, content' = content
  PROVE  /\ Onwards /\ room'[m.sub] # None
         /\ \A s \in Submissions : room'[s] # room[s] => SubSafe(s, row', room', content')
<1>1. m.sub \in Submissions /\ m.intent \in Intents(m.sub) /\ m.intent # None
  BY Names DEF FlightSafe
<1>2. /\ room' = [s \in Submissions |-> room'[s]]
      /\ \A s \in Submissions : room'[s] = IF s = m.sub /\ room[s] = None THEN m.intent ELSE room[s]
  BY <1>1 DEF Accept, IInv, Functions
<1>3. Onwards
  BY <1>2, Still DEF Onwards, IInv, Functions
<1>4. ASSUME NEW s \in Submissions, room'[s] # room[s] PROVE SubSafe(s, row', room', content')
  <2>1. s = m.sub /\ room[s] = None /\ room'[s] = m.intent
    BY <1>2, <1>4
  <2>2. SubSafe(s, row, room, content)
    BY DEF IInv
  <2> QED
    BY <1>1, <2>1, <2>2 DEF SubSafe, FlightSafe
<1> QED
  BY <1>1, <1>2, <1>3, <1>4

LEMMA PublishIInv ==
  ASSUME IInv, NEW k \in Calls, Publish(k) \/ PublishRefused(k) \/ PublishUnknown(k)
  PROVE  IInv'
<1> DEFINE m == Event(k)
<1>1. CallSafe(call[k], row, room, content) /\ call[k].at = "publish" /\ call[k].at \in Steps \ {"claim"}
  BY DEF IInv, Publish, PublishRefused, PublishUnknown, Steps
<1>2. FlightSafe(m, row, content) /\ m.sub = call[k].sub /\ m.intent = call[k].intent
  BY <1>1, Names DEF CallSafe, FlightSafe, Event
<1>3. CASE Publish(k)
  <2>1. Accept(m) /\ Goto(k, "mark_accepted") /\ row' = row /\ flying' = flying /\ content' = content
    BY <1>3 DEF Publish
  <2>2. /\ Onwards /\ room'[call[k].sub] # None
        /\ \A s \in Submissions : room'[s] # room[s] => SubSafe(s, row', room', content')
    BY <1>2, <2>1, AcceptOnward
  <2>3. "mark_accepted" \in Steps
    BY DEF Steps
  <2> QED
    BY <1>1, <2>1, <2>2, <2>3, GoneOn
<1>4. CASE PublishRefused(k)
  BY <1>1, <1>4, NothingMoves, Failing DEF PublishRefused
<1>5. CASE PublishUnknown(k)
  <2>1. /\ flying' = flying \cup {m} /\ Goto(k, "mark_unknown")
        /\ row' = row /\ room' = room /\ content' = content
    BY <1>5 DEF PublishUnknown
  <2>2. Onwards /\ "mark_unknown" \in Steps
    BY <2>1, NothingMoves DEF Steps
  <2>3. FlightSafe(m, row', content')
    BY <1>2, <2>1
  <2>4. \A n \in flying' \ flying : FlightSafe(n, row', content')
    BY <2>1, <2>3
  <2> QED
    BY <1>1, <2>1, <2>2, <2>4, GoneOn
<1> QED
  BY <1>3, <1>4, <1>5

(* One row moves onward, the room and contents stay.                       *)
LEMMA OneRow ==
  ASSUME IInv, NEW s \in Submissions, NEW r, OnwardRow(row[s], r),
         row' = [row EXCEPT ![s] = r], room' = room, content' = content
  PROVE  Onwards /\ row'[s] = r /\ \A x \in Submissions : x # s => row'[x] = row[x]
BY Still DEF Onwards, IInv, Functions

(* A row whose event is in the room may be marked accepted.                *)
LEMMA AcceptedOnward ==
  ASSUME IInv, NEW s \in Submissions, room[s] # None,
         row' = [row EXCEPT ![s] = AcceptedRow(row[s])], room' = room, content' = content
  PROVE  /\ Onwards /\ Accepted(row'[s])
         /\ \A x \in Submissions : row'[x] # row[x] => SubSafe(x, row', room', content')
<1> DEFINE r == AcceptedRow(row[s])
<1>1. SubSafe(s, row, room, content)
  BY DEF IInv
<1>2. row[s].intent = room[s] /\ row[s] \in Row
  BY <1>1 DEF SubSafe
<1>3. r \in Row /\ r.intent = row[s].intent /\ Accepted(r) /\ (r.state = "bound" <=> row[s].state = "bound")
  BY <1>2 DEF AcceptedRow, Row, RowStates, Accepted
<1>4. OnwardRow(row[s], r)
  BY <1>2, <1>3 DEF OnwardRow, Accepted
<1>5. row' = [row EXCEPT ![s] = r]
  OBVIOUS
<1> HIDE DEF r
<1>6. Onwards /\ row'[s] = r /\ \A x \in Submissions : x # s => row'[x] = row[x]
  BY <1>4, <1>5, OneRow
<1>7. SubSafe(s, row', room', content')
  BY <1>1, <1>2, <1>3, <1>6 DEF SubSafe, Accepted
<1> QED
  BY <1>3, <1>6, <1>7

LEMMA MarkAcceptedIInv ==
  ASSUME IInv, NEW k \in Calls, MarkAccepted(k)
  PROVE  IInv'
<1> DEFINE s == call[k].sub
<1>1. CallSafe(call[k], row, room, content) /\ call[k].at = "mark_accepted"
      /\ call[k].at \in Steps \ {"claim"}
  BY DEF IInv, MarkAccepted, Steps
<1>2. s \in Submissions /\ room[s] # None
  BY <1>1 DEF CallSafe
<1>3. /\ row' = [row EXCEPT ![s] = AcceptedRow(row[s])]
      /\ room' = room /\ content' = content /\ flying' = flying
  BY DEF MarkAccepted
<1>4. /\ Onwards /\ Accepted(row'[s])
      /\ \A x \in Submissions : row'[x] # row[x] => SubSafe(x, row', room', content')
  BY <1>2, <1>3, AcceptedOnward
<1>5. CASE s \in Sends
  <2>1. Goto(k, "bind") /\ "bind" \in Steps
    BY <1>5 DEF MarkAccepted, Steps
  <2> QED
    BY <1>1, <1>3, <1>4, <1>5, <2>1, GoneOn
<1>6. CASE s \notin Sends
  <2>1. Goto(k, "mark_bound") /\ "mark_bound" \in Steps
    BY <1>6 DEF MarkAccepted, Steps
  <2> QED
    BY <1>1, <1>3, <1>4, <1>6, <2>1, GoneOn
<1> QED
  BY <1>5, <1>6

LEMMA MarkUnknownIInv ==
  ASSUME IInv, NEW k \in Calls, MarkUnknown(k)
  PROVE  IInv'
<1> DEFINE s == call[k].sub
           r == IF row[s].state = "claimed" THEN [row[s] EXCEPT !.state = "submit_unknown"] ELSE row[s]
<1>1. CallSafe(call[k], row, room, content) /\ call[k].at = "mark_unknown"
      /\ call[k].at \in Steps \ {"claim"}
  BY DEF IInv, MarkUnknown, Steps
<1>2. s \in Submissions /\ SubSafe(s, row, room, content)
  BY <1>1 DEF CallSafe, IInv
<1>3. r \in Row /\ r.intent = row[s].intent /\ (r.state = "none" <=> row[s].state = "none")
      /\ (Accepted(r) <=> Accepted(row[s])) /\ (r.state = "bound" <=> row[s].state = "bound")
  BY <1>2 DEF SubSafe, Row, RowStates, Accepted
<1>4. OnwardRow(row[s], r)
  BY <1>2, <1>3 DEF OnwardRow, SubSafe
<1>5. row' = [row EXCEPT ![s] = r] /\ room' = room /\ content' = content /\ flying' = flying
  BY <1>2 DEF MarkUnknown, IInv, Functions
<1>6. Goto(k, "pending") /\ "pending" \in Outcomes
  BY DEF MarkUnknown, Outcomes
<1> HIDE DEF r
<1>7. Onwards /\ row'[s] = r /\ \A x \in Submissions : x # s => row'[x] = row[x]
  BY <1>2, <1>4, <1>5, OneRow
<1>8. SubSafe(s, row', room', content')
  BY <1>2, <1>3, <1>5, <1>7 DEF SubSafe
<1>9. \A x \in Submissions : row'[x] # row[x] => SubSafe(x, row', room', content')
  BY <1>7, <1>8
<1> QED
  BY <1>1, <1>5, <1>6, <1>7, <1>9, GoneOn

LEMMA BindIInv ==
  ASSUME IInv, NEW k \in Calls, Bind(k) \/ BindUnknown(k) \/ BindRefused(k)
  PROVE  IInv'
<1> DEFINE s == call[k].sub
           y == [content[s] EXCEPT !.event = s]
<1>1. CallSafe(call[k], row, room, content) /\ call[k].at = "bind" /\ call[k].at \in Steps \ {"claim"}
  BY DEF IInv, Bind, BindUnknown, BindRefused, Steps
<1>2. s \in Sends /\ s \in Submissions /\ ContentSafe(content[s]) /\ Accepted(row[s])
  BY <1>1 DEF CallSafe, IInv
<1>3. CanBind(content[s], s) => Onward(content[s], y) /\ y.event = s
  BY <1>2 DEF CanBind, Onward, ContentSafe, Object
<1>4. row' = row /\ room' = room /\ flying' = flying
  BY DEF Bind, BindUnknown, BindRefused
<1>5. content' = [content EXCEPT ![s].event = s] => content' = [content EXCEPT ![s] = y]
  BY <1>2 DEF IInv, Functions
<1> HIDE DEF y
<1>6. CanBind(content[s], s) /\ content' = [content EXCEPT ![s].event = s] =>
        Onwards /\ content'[s].event = s
  BY <1>2, <1>3, <1>4, <1>5, OneContent
<1>7. CASE Bind(k)
  <2>1. Goto(k, "mark_bound") /\ "mark_bound" \in Steps /\ Onwards /\ content'[s].event = s
    BY <1>6, <1>7 DEF Bind, Steps
  <2> QED
    BY <1>1, <1>2, <1>4, <2>1, GoneOn
<1>8. CASE BindUnknown(k)
  <2>1. Goto(k, "binding_pending") /\ "binding_pending" \in Outcomes
    BY <1>8 DEF BindUnknown, Outcomes
  <2>2. Onwards
    BY <1>4, <1>6, <1>8, NothingMoves DEF BindUnknown
  <2> QED
    BY <1>1, <1>2, <1>4, <2>1, <2>2, GoneOn
<1>9. CASE BindRefused(k)
  BY <1>1, <1>9, NothingMoves, Failing DEF BindRefused
<1> QED
  BY <1>7, <1>8, <1>9

LEMMA MarkBoundIInv ==
  ASSUME IInv, NEW k \in Calls, MarkBound(k)
  PROVE  IInv'
<1> DEFINE s == call[k].sub
           r == [row[s] EXCEPT !.state = "bound"]
<1>1. CallSafe(call[k], row, room, content) /\ call[k].at = "mark_bound"
      /\ call[k].at \in Steps \ {"claim"}
  BY DEF IInv, MarkBound, Steps
<1>2. s \in Submissions /\ SubSafe(s, row, room, content) /\ Accepted(row[s])
      /\ (s \in Sends => content[s].event = s)
  BY <1>1 DEF CallSafe, IInv
<1>3. r \in Row /\ r.intent = row[s].intent /\ r.state = "bound"
  BY <1>2 DEF SubSafe, Row, RowStates
<1>4. OnwardRow(row[s], r)
  BY <1>2, <1>3 DEF OnwardRow, SubSafe, Accepted
<1>5. /\ row' = [row EXCEPT ![s] = r] /\ room' = room /\ content' = content /\ flying' = flying
      /\ Goto(k, "published") /\ "published" \in Outcomes
  BY <1>2 DEF MarkBound, Accepted, IInv, Functions, Outcomes
<1> HIDE DEF r
<1>6. Onwards /\ row'[s] = r /\ \A x \in Submissions : x # s => row'[x] = row[x]
  BY <1>2, <1>4, <1>5, OneRow
<1>7. SubSafe(s, row', room', content')
  BY <1>2, <1>3, <1>5, <1>6 DEF SubSafe, Accepted
<1>8. \A x \in Submissions : row'[x] # row[x] => SubSafe(x, row', room', content')
  BY <1>6, <1>7
<1> QED
  BY <1>1, <1>3, <1>5, <1>6, <1>8, GoneOn

(* A step of nobody's call.                                                *)
LEMMA NoCall ==
  ASSUME IInv, Onwards, call' = call, flying' \subseteq flying,
         \A s \in Submissions : row'[s] # row[s] \/ room'[s] # room[s] =>
           SubSafe(s, row', room', content')
  PROVE  IInv'
<1>1. /\ \A k \in Calls : CallSafe(call'[k], row', room', content')
      /\ \A m \in flying' : FlightSafe(m, row', content')
      /\ \A s \in Submissions : SubSafe(s, row', room', content')
  BY Kept
<1>2. \A s \in Sends : ContentSafe(content'[s])
  BY DEF Onwards, Onward
<1> QED
  BY <1>1, <1>2 DEF IInv, Functions, Onwards

(* The cleanup's steps.                                                    *)
LEMMA CleanupIInv ==
  ASSUME IInv, NEW s \in Sends, GrowOld(s) \/ Retire(s) \/ Reclaim(s)
  PROVE  IInv'
<1>1. ContentSafe(content[s]) /\ content[s] \in Object
  BY DEF IInv, ContentSafe
<1>2. call' = call /\ flying' = flying /\ row' = row /\ room' = room
  BY DEF GrowOld, Retire, Reclaim
<1>3. "orphaned" \in States /\ "deleted" \in States
  BY DEF States
<1>4. \E y : Onward(content[s], y) /\ content' = [content EXCEPT ![s] = y]
  <2>1. CASE GrowOld(s)
    <3>1. content' = [content EXCEPT ![s] = [content[s] EXCEPT !.old = TRUE]]
      BY <2>1 DEF GrowOld, IInv, Functions
    <3>2. Onward(content[s], [content[s] EXCEPT !.old = TRUE])
      BY <1>1 DEF Onward, ContentSafe, Object
    <3> QED
      BY <3>1, <3>2
  <2>2. CASE Retire(s)
    <3>1. content' = [content EXCEPT ![s] = Saved(content[s], "orphaned")]
          /\ content[s].state \in {"uploading", "active"}
      BY <2>2 DEF Retire
    <3>2. Onward(content[s], Saved(content[s], "orphaned"))
      BY <1>1, <1>3, <3>1, SavedPlain DEF Onward, ContentSafe
    <3> QED
      BY <3>1, <3>2
  <2>3. CASE Reclaim(s)
    <3>1. content' = [content EXCEPT ![s] = Saved(content[s], "deleted")]
      BY <2>3 DEF Reclaim, MarkedDeleted
    <3>2. Onward(content[s], Saved(content[s], "deleted"))
      BY <1>1, <1>3, SavedPlain DEF Onward, ContentSafe
    <3> QED
      BY <3>1, <3>2
  <2> QED
    BY <2>1, <2>2, <2>3
<1>5. Onwards
  BY <1>2, <1>4, OneContent
<1> QED
  BY <1>2, <1>5, NoCall

(* Every step keeps the inductive invariant.                               *)
LEMMA NextIInv == IInv /\ [Next]_vars => IInv'
<1> SUFFICES ASSUME IInv, [Next]_vars PROVE IInv'
  OBVIOUS
<1>1. CASE \E k \in Calls, s \in Submissions : \E i \in Intents(s) : Request(k, s, i)
  BY <1>1, RequestIInv
<1>2. CASE \E k \in Calls : Advance(k)
  BY <1>2, ClaimIInv, UploadIInv, WithdrawIInv, PublishIInv, MarkAcceptedIInv, MarkUnknownIInv,
     BindIInv, MarkBoundIInv DEF Advance
<1>3. CASE \E k \in Calls : Fail(k)
  <2>1. ASSUME NEW k \in Calls, StoreFails(k) PROVE IInv'
    <3>1. call[k].at \in Steps
      BY <2>1 DEF StoreFails, Steps
    <3> QED
      BY <2>1, <3>1, NothingMoves, Failing DEF StoreFails
  <2> QED
    BY <1>3, <2>1, UploadIInv, WithdrawIInv, PublishIInv, BindIInv DEF Fail
<1>4. CASE \E m \in flying : Arrive(m)
  <2>1. PICK m \in flying : Arrive(m)
    BY <1>4
  <2>2. FlightSafe(m, row, content)
    BY DEF IInv
  <2>3. /\ Onwards
        /\ \A s \in Submissions : room'[s] # room[s] => SubSafe(s, row', room', content')
    BY <2>1, <2>2, AcceptOnward DEF Arrive
  <2> QED
    BY <2>1, <2>3, NoCall DEF Arrive
<1>5. CASE \E s \in Submissions : Observe(s)
  <2>1. PICK s \in Submissions : Observe(s)
    BY <1>5
  <2>2. /\ Onwards
        /\ \A x \in Submissions : row'[x] # row[x] => SubSafe(x, row', room', content')
    BY <2>1, AcceptedOnward DEF Observe
  <2> QED
    BY <2>1, <2>2, NoCall DEF Observe
<1>6. CASE \E s \in Sends : GrowOld(s) \/ Retire(s) \/ Reclaim(s)
  BY <1>6, CleanupIInv
<1>7. CASE Crash
  <2>1. call' = [k \in Calls |-> Quiet] /\ flying' = flying /\ row' = row /\ room' = room
        /\ content' = content
    BY <1>7 DEF Crash
  <2>2. \A k \in Calls : CallSafe(call'[k], row', room', content')
    BY <2>1 DEF CallSafe, Quiet, CallRow
  <2> QED
    BY <2>1, <2>2 DEF IInv, Functions
<1>8. CASE UNCHANGED vars
  BY <1>8 DEF vars, IInv, Functions
<1> QED
  BY <1>1, <1>2, <1>3, <1>4, <1>5, <1>6, <1>7, <1>8 DEF Next

(* The inductive invariant always holds.                                   *)
THEOREM AlwaysIInv == Spec => []IInv
BY InitIInv, NextIInv, PTL DEF Spec

-----------------------------------------------------------------------------
(***************************************************************************)
(* Rows, calls, events and contents keep their types, and a row without a  *)
(* state is one without an intent.                                         *)
(***************************************************************************)
THEOREM Typing == Spec => []TypeOK
<1>1. IInv => TypeOK
  <2> SUFFICES ASSUME IInv PROVE TypeOK
    OBVIOUS
  <2>1. row \in [Submissions -> Row] /\ \A s \in Submissions : row[s].state = "none" <=> row[s].intent = None
    BY DEF IInv, Functions, SubSafe
  <2>2. call \in [Calls -> CallRow]
    BY DEF IInv, Functions, CallSafe
  <2>3. flying \subseteq [sub : Submissions, intent : AnyIntent]
    BY DEF IInv, FlightSafe
  <2>4. room \in [Submissions -> AnyIntent \cup {None}]
    BY Names DEF IInv, Functions, SubSafe
  <2>5. content \in [Sends -> Object]
    BY DEF IInv, Functions, ContentSafe
  <2> QED
    BY <2>1, <2>2, <2>3, <2>4, <2>5 DEF TypeOK, Row, CallRow
<1> QED
  BY <1>1, AlwaysIInv, PTL

(* What the inductive invariant says of rows, calls, events and bodies.    *)
LEMMA Guarantees ==
  IInv => PublishedIsOwn /\ RowTellsTruth /\ EventHasContent /\ WithdrawnBeforeTold /\ NeverCorrupt
<1> SUFFICES ASSUME IInv
             PROVE  /\ PublishedIsOwn /\ RowTellsTruth /\ EventHasContent
                    /\ WithdrawnBeforeTold /\ NeverCorrupt
  OBVIOUS
<1>1. PublishedIsOwn
  <2> SUFFICES ASSUME NEW k \in Calls, call[k].at = "published"
               PROVE  room[call[k].sub] = call[k].intent
    BY DEF PublishedIsOwn
  <2>1. CallSafe(call[k], row, room, content)
    BY DEF IInv
  <2>2. call[k].sub \in Submissions /\ row[call[k].sub].state = "bound"
        /\ row[call[k].sub].intent = call[k].intent
    BY <2>1 DEF CallSafe
  <2> QED
    BY <2>2 DEF IInv, SubSafe, Accepted
<1>2. RowTellsTruth
  BY DEF IInv, SubSafe, Accepted, RowTellsTruth
<1>3. EventHasContent
  BY DEF IInv, SubSafe, Ready, EventHasContent, Submissions
<1>4. WithdrawnBeforeTold
  BY Names DEF IInv, SubSafe, Ready, WithdrawnBeforeTold, Submissions
<1>5. NeverCorrupt
  BY DEF IInv, CallSafe, Accepted, NeverCorrupt
<1> QED
  BY <1>1, <1>2, <1>3, <1>4, <1>5

(***************************************************************************)
(* A row is marked accepted or bound only when it is true of the room and  *)
(* of the content, whatever calls overlap, fail or are forgotten.          *)
(***************************************************************************)
THEOREM RowsAreTrue == Spec => []RowTellsTruth
BY Guarantees, AlwaysIInv, PTL

(***************************************************************************)
(* Whoever is told "published" had that very request published.            *)
(***************************************************************************)
THEOREM ToldTheTruth == Spec => []PublishedIsOwn
BY Guarantees, AlwaysIInv, PTL

(***************************************************************************)
(* No event refers to a body that was never stored.                        *)
(***************************************************************************)
THEOREM BodiesStored == Spec => []EventHasContent
BY Guarantees, AlwaysIInv, PTL

(***************************************************************************)
(* The room hears of a redaction only after the body was withdrawn.        *)
(***************************************************************************)
THEOREM WithdrawnFirst == Spec => []WithdrawnBeforeTold
BY Guarantees, AlwaysIInv, PTL

(***************************************************************************)
(* mark_bound always finds a row with an event.                            *)
(***************************************************************************)
THEOREM StoreSound == Spec => []NeverCorrupt
BY Guarantees, AlwaysIInv, PTL

-----------------------------------------------------------------------------
(* Publication beside any control plane that keeps ContentPromise.         *)

(* A promised move of a content takes nothing back from publication.       *)
LEMMA PromisedIsOnward ==
  ASSUME NEW x, NEW y \in Object, ContentSafe(x), Promise!Moves(x, y)
  PROVE  Onward(x, y)
<1>1. x.state \in States \cup {"none"}
  BY ContentFields DEF ContentSafe
<1>2. y.state = x.state \/ y.state \in Promise!Successors(x.state)
  BY DEF Promise!Moves
<1>3. /\ x.state \notin {"none", "uploading"} => y.state \notin {"none", "uploading"}
      /\ x.state \in {"redacted", "deleted"} => y.state \in {"redacted", "deleted"}
  BY <1>1, <1>2 DEF Promise!Successors, States
<1>4. ContentSafe(y)
  BY DEF Promise!Moves, ContentSafe
<1>5. x.event # None => y.event = x.event
  BY DEF Promise!Moves
<1> QED
  BY <1>3, <1>4, <1>5 DEF Onward

(* Whatever the control plane does on its own keeps the invariant.         *)
LEMMA ControlPlaneIInv ==
  ASSUME IInv, ControlPlane
  PROVE  IInv'
<1>1. row' = row /\ call' = call /\ flying' = flying /\ room' = room
  BY DEF ControlPlane
<1>2. content' \in [Sends -> Object] /\ \A s \in Sends : Promise!Moves(content[s], content'[s])
  BY DEF ControlPlane, Promise!Next, Object, Promise!Object, States, Promise!States, Scans,
         Promise!Scans
<1>3. \A s \in Sends : Onward(content[s], content'[s])
  BY <1>2, PromisedIsOnward DEF IInv
<1>4. Onwards
  BY <1>1, <1>2, <1>3, Still DEF Onwards, IInv, Functions
<1> QED
  BY <1>1, <1>4, NoCall

(***************************************************************************)
(* Everything publication guarantees rests on no more than the promise of  *)
(* the content service: beside a control plane that does whatever          *)
(* ContentPromise allows, whoever is told "published" was, rows tell the   *)
(* truth, no event lacks its body, redactions are told after they are      *)
(* done, and no row is set back under a call.                              *)
(***************************************************************************)
THEOREM PublicationComposes ==
  OpenSpec => [](/\ PublishedIsOwn /\ RowTellsTruth /\ EventHasContent
                 /\ WithdrawnBeforeTold /\ NeverCorrupt)
<1>1. IInv /\ [Next \/ ControlPlane]_vars => IInv'
  BY NextIInv, ControlPlaneIInv
<1>2. IInv => /\ PublishedIsOwn /\ RowTellsTruth /\ EventHasContent
              /\ WithdrawnBeforeTold /\ NeverCorrupt
  BY Guarantees
<1> QED
  BY <1>1, <1>2, InitIInv, PTL DEF OpenSpec
=============================================================================
