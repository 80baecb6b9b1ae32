----------------------- MODULE AutomationGrantProofs -----------------------
(***************************************************************************)
(* The ledger of AutomationGrant for any number of grants, submissions,    *)
(* requests and runs.  The limits are inductive together with two facts:   *)
(* what is charged to a grant is finite, and a grant shows as used up      *)
(* exactly when it is.                                                     *)
(***************************************************************************)
EXTENDS AutomationGrant, FiniteSetTheorems, TLAPS

LEMMA WindowType == \A t \in Nat : Window(t) \in Nat
  <1>1. SUFFICES ASSUME NEW t \in Nat PROVE t - (t % Minute) \in Nat
    BY DEF Window
  <1>2. Minute \in Nat \ {0}
    BY GrantAssumption
  <1>3. QED
    BY <1>1, <1>2

(* Letting a grant expire changes its state only.                          *)
LEMMA AgedType ==
  ASSUME NEW r \in {NoGrant} \cup Row, NEW t
  PROVE  /\ Aged(r, t) \in {NoGrant} \cup Row
         /\ Aged(r, t).grantor = r.grantor
         /\ r = NoGrant => Aged(r, t) = NoGrant
         /\ r.state # "active" => Aged(r, t) = r
         /\ Aged(r, t).state \in {r.state, "expired"}
  <1>1. CASE r = NoGrant
    BY <1>1 DEF Aged, Due, NoGrant
  <1>2. CASE r \in Row
    BY <1>2 DEF Aged, Due, Row, States, NoGrant
  <1>3. QED
    BY <1>1, <1>2

LEMMA ChargedType ==
  ASSUME NEW r \in Row, NEW g
  PROVE  Charged(r, g) \in Row /\ Charged(r, g).grantor = r.grantor
  BY DEF Charged, Row, States

(* Revoking an active grant changes its state and the time only.           *)
LEMMA RevokedType ==
  ASSUME NEW r \in {NoGrant} \cup Row, NEW t \in Nat, r.state = "active"
  PROVE  /\ [r EXCEPT !.state = "revoked", !.revoked = t] \in Row
         /\ [r EXCEPT !.state = "revoked", !.revoked = t].state = "revoked"
         /\ [r EXCEPT !.state = "revoked", !.revoked = t].grantor = r.grantor
         /\ r \in Row
  <1>1. r \in Row
    BY DEF NoGrant
  <1>2. QED
    BY <1>1 DEF Row, States

LEMMA RevokeAllType ==
  ASSUME TypeOK, NEW gs, RevokeAll(gs)
  PROVE  /\ grant' \in [Grants -> {NoGrant} \cup Row]
         /\ \A g \in Grants : /\ grant[g].state # "active" => grant'[g] = grant[g]
                             /\ grant'[g].grantor = grant[g].grantor
                             /\ grant'[g].state \in {grant[g].state, "revoked"}
  <1>1. now \in Nat
    BY DEF TypeOK
  <1>2. ASSUME NEW g \in Grants
        PROVE  /\ grant'[g] \in {NoGrant} \cup Row
               /\ grant[g].state # "active" => grant'[g] = grant[g]
               /\ grant'[g].grantor = grant[g].grantor
               /\ grant'[g].state \in {grant[g].state, "revoked"}
    <2>1. grant[g] \in {NoGrant} \cup Row
      BY DEF TypeOK
    <2>2. CASE grant[g].state = "active" /\ g \in gs
      <3>1. grant'[g] = [grant[g] EXCEPT !.state = "revoked", !.revoked = now]
        BY <2>2 DEF RevokeAll
      <3>2. QED
        BY <1>1, <2>1, <2>2, <3>1, RevokedType
    <2>3. CASE ~(grant[g].state = "active" /\ g \in gs)
      BY <2>1, <2>3 DEF RevokeAll
    <2>4. QED
      BY <2>2, <2>3
  <1>3. grant' = [g \in Grants |-> grant'[g]]
    BY DEF RevokeAll
  <1>4. QED
    BY <1>2, <1>3

LEMMA InitType == Init => TypeOK
  BY DEF Init, TypeOK

(* A request that passed the policy is for a grant that exists.            *)
LEMMA PolicyHasRow ==
  ASSUME NEW r \in {NoGrant} \cup Row, NEW q, Policy(r, q)
  PROVE  r \in Row
  BY DEF Policy, NoGrant

(* The request a step is about.                                            *)
LEMMA ConsumingType ==
  ASSUME TypeOK, NEW k \in Requests, request[k].at = "consume"
  PROVE  request[k] \in [at : {"consume"}, sub : Submissions, grant : Grants,
                         instance : Instances, shape : Shapes, run : Nat, now : Nat]
  BY DEF TypeOK, Quiet, Answered

LEMMA AnswerType ==
  ASSUME TypeOK, NEW k \in Requests, NEW outcome \in {"idle", "authorized", "denied"},
         Answer(k, outcome)
  PROVE  request' \in [Requests -> {Quiet, Answered("authorized"), Answered("denied")} \cup
           [at : {"consume"}, sub : Submissions, grant : Grants,
            instance : Instances, shape : Shapes, run : Nat, now : Nat]]
  BY DEF TypeOK, Answer, Answered, Quiet

LEMMA NextType == TypeOK /\ [Next]_vars => TypeOK'
  <1> SUFFICES ASSUME TypeOK, [Next]_vars PROVE TypeOK'
    OBVIOUS
  <1> USE GrantAssumption
  <1>1. CASE Tick
    BY <1>1 DEF TypeOK, Tick
  <1>2. CASE Stop
    BY <1>2 DEF TypeOK, Stop, NoRecord
  <1>3. CASE RetireAgent
    BY <1>3, RevokeAllType DEF TypeOK, RetireAgent
  <1>4. ASSUME NEW g \in Grants, NEW p \in Principals, NEW i \in Instances \cup {None},
               NEW shapes \in SUBSET Shapes \ {{}}, Create(g, p, i, shapes)
        PROVE TypeOK'
    BY <1>4 DEF TypeOK, Create, Row, States
  <1>5. ASSUME NEW g \in Grants, NEW t \in 0..now, Revoke(g, t) PROVE TypeOK'
    <2>1. t \in Nat /\ Aged(grant[g], t) \in {NoGrant} \cup Row
      BY AgedType DEF TypeOK
    <2>2. grant' \in [Grants -> {NoGrant} \cup Row]
      BY <1>5, <2>1, RevokedType DEF TypeOK, Revoke
    <2>3. QED
      BY <1>5, <2>2 DEF TypeOK, Revoke
  <1>6. ASSUME NEW p \in Principals, List(p) PROVE TypeOK'
    <2>1. \A g \in Grants : Aged(grant[g], now) \in {NoGrant} \cup Row
      BY AgedType DEF TypeOK
    <2>2. QED
      BY <1>6, <2>1 DEF TypeOK, List
  <1>7. ASSUME NEW p \in Principals, DeleteAccount(p) PROVE TypeOK'
    BY <1>7, RevokeAllType DEF TypeOK, DeleteAccount
  <1>8. ASSUME NEW s \in Submissions \cup {None}, Deliver(s) PROVE TypeOK'
    BY <1>8 DEF TypeOK, Deliver, NoRecord
  <1>9. ASSUME NEW i \in Instances, Claim(i) PROVE TypeOK'
    <2>1. executor.run \in Nat /\ executor.sub \in Submissions \cup {None}
      BY DEF TypeOK, NoRecord
    <2>2. executor' = [mode |-> "active", run |-> executor.run + 1, instance |-> i,
                       sub |-> executor.sub]
      BY <1>9 DEF TypeOK, Claim, NoRecord
    <2>3. QED
      BY <1>9, <2>1, <2>2 DEF TypeOK, Claim
  <1>10. ASSUME NEW k \in Requests, NEW s \in Submissions, NEW g \in Grants, NEW i \in Instances,
                NEW shape \in Shapes, NEW run \in {0, executor.run}, Check(k, s, g, i, shape, run)
         PROVE TypeOK'
    <2>1. run \in Nat /\ now \in Nat
      BY DEF TypeOK, NoRecord
    <2>2. grant' \in [Grants -> {NoGrant} \cup Row]
      BY <1>10, AgedType DEF TypeOK, Check
    <2>3. request' \in [Requests -> {Quiet, Answered("authorized"), Answered("denied")} \cup
            [at : {"consume"}, sub : Submissions, grant : Grants,
             instance : Instances, shape : Shapes, run : Nat, now : Nat]]
      <3>1. CASE Answer(k, "denied")
        BY <3>1, AnswerType
      <3>2. CASE request' = [request EXCEPT ![k] =
                   [at |-> "consume", sub |-> s, grant |-> g, instance |-> i, shape |-> shape,
                    run |-> run, now |-> now]]
        BY <2>1, <3>2 DEF TypeOK
      <3>3. QED
        BY <1>10, <3>1, <3>2 DEF Check
    <2>4. QED
      BY <1>10, <2>2, <2>3 DEF TypeOK, Check
  <1>11. ASSUME NEW k \in Requests, Fail(k) \/ ConsumeFails(k) PROVE TypeOK'
    BY <1>11, AnswerType DEF TypeOK, Fail, ConsumeFails
  <1>12. ASSUME NEW k \in Requests, ConsumeAgain(k) PROVE TypeOK'
    <2>1. Aged(grant[request[k].grant], request[k].now) \in {NoGrant} \cup Row
      BY <1>12, AgedType, ConsumingType DEF TypeOK, ConsumeAgain
    <2>2. grant' \in [Grants -> {NoGrant} \cup Row]
      BY <1>12, <2>1 DEF TypeOK, ConsumeAgain
    <2>3. QED
      BY <1>12, <2>2, AnswerType DEF TypeOK, ConsumeAgain
  <1>13. ASSUME NEW k \in Requests, ConsumeNew(k) PROVE TypeOK'
    <2> DEFINE q == request[k]
               r == Aged(grant[q.grant], q.now)
    <2>1. /\ q.sub \in Submissions /\ q.grant \in Grants /\ q.instance \in Instances
          /\ q.shape \in Shapes /\ q.now \in Nat
      BY <1>13, ConsumingType DEF ConsumeNew
    <2>2. r \in {NoGrant} \cup Row
      BY <2>1, AgedType DEF TypeOK
    <2>3. Allows(r, q) => Charged(r, q.grant) \in Row
      BY <2>2, PolicyHasRow, ChargedType DEF Allows
    <2>4. grant' \in [Grants -> {NoGrant} \cup Row]
      BY <1>13, <2>2, <2>3 DEF TypeOK, ConsumeNew
    <2>5. used' \in [Submissions -> {Unused} \cup
            [grant : Grants, instance : Instances, shape : Shapes, window : Nat]]
      BY <1>13, <2>1, WindowType DEF TypeOK, ConsumeNew
    <2>6. QED
      BY <1>13, <2>4, <2>5, AnswerType DEF TypeOK, ConsumeNew
  <1>14. CASE UNCHANGED vars
    BY <1>14 DEF TypeOK, vars
  <1>15. QED
    BY <1>1, <1>2, <1>3, <1>4, <1>5, <1>6, <1>7, <1>8, <1>9, <1>10, <1>11, <1>12, <1>13, <1>14
       DEF Next, Consume

(***************************************************************************)
(* The rows, charges and requests keep their types for any number of       *)
(* grants, computers and requests.                                         *)
(***************************************************************************)
THEOREM Typing == Spec => []TypeOK
  BY InitType, NextType, PTL DEF Spec

-----------------------------------------------------------------------------
(***************************************************************************)
(* What a step may do to a grant: it is created, it ends, or it is as it   *)
(* was; its grantor never changes.                                         *)
(***************************************************************************)
Kept(g) ==
  /\ grant[g] # NoGrant =>
       grant'[g] # NoGrant /\ grant'[g].grantor = grant[g].grantor
  /\ grant[g].state \in States \ {"active"} => grant'[g] = grant[g]
  /\ grant'[g].state = "active" => grant[g].state = "active" \/ grant[g] = NoGrant

(* No message is charged: nothing is used up.                              *)
NotSpent(g) == grant'[g].state = "exhausted" => grant[g].state = "exhausted"

LEMMA SameKept ==
  ASSUME NEW g \in Grants, grant'[g] = grant[g]
  PROVE  Kept(g) /\ NotSpent(g)
  BY DEF Kept, NotSpent

LEMMA AgedKept ==
  ASSUME TypeOK, NEW g \in Grants, NEW t, grant'[g] = Aged(grant[g], t)
  PROVE  Kept(g) /\ NotSpent(g)
  <1>1. grant[g] \in {NoGrant} \cup Row
    BY DEF TypeOK
  <1>2. grant[g] \in Row => Aged(grant[g], t) # NoGrant
    BY <1>1, AgedType DEF NoGrant, Row, States
  <1>3. QED
    BY <1>1, <1>2, AgedType DEF Kept, NotSpent, States, NoGrant

LEMMA RevokeAllKept ==
  ASSUME TypeOK, NEW gs, RevokeAll(gs), NEW g \in Grants
  PROVE  Kept(g) /\ NotSpent(g)
  <1>1. grant[g] \in {NoGrant} \cup Row /\ grant'[g] \in {NoGrant} \cup Row
    BY RevokeAllType DEF TypeOK
  <1>2. grant[g] # NoGrant => grant'[g] # NoGrant
    BY <1>1, RevokeAllType DEF NoGrant, Row, States
  <1>3. QED
    BY <1>1, <1>2, RevokeAllType DEF Kept, NotSpent, States

(***************************************************************************)
(* A step charges nothing, or charges one submission that was unused to    *)
(* one grant that was active and had room for it.                          *)
(***************************************************************************)
Charge(k) ==
  LET q == request[k] IN
  /\ q.at = "consume" /\ used[q.sub] = Unused
  /\ q.sub \in Submissions /\ q.grant \in Grants /\ q.now \in Nat
  /\ grant[q.grant].state = "active"
  /\ Total(q.grant) < MaxTotal /\ InWindow(q.grant, Window(q.now)) < PerMinute
  /\ used' = [used EXCEPT ![q.sub] = [grant |-> q.grant, instance |-> q.instance,
                                      shape |-> q.shape, window |-> Window(q.now)]]
  /\ grant' = [grant EXCEPT ![q.grant] = Charged(grant[q.grant], q.grant)]

LEMMA StepCharges ==
  ASSUME TypeOK, [Next]_vars
  PROVE  \/ used' = used /\ \A g \in Grants : Kept(g) /\ NotSpent(g)
         \/ \E k \in Requests : Charge(k)
  <1>1. CASE Tick \/ Stop \/ UNCHANGED vars
    BY <1>1, SameKept DEF Tick, Stop, vars
  <1>2. CASE RetireAgent
    BY <1>2, RevokeAllKept DEF RetireAgent
  <1>3. ASSUME NEW x \in Grants, NEW p \in Principals, NEW i \in Instances \cup {None},
               NEW shapes \in SUBSET Shapes \ {{}}, Create(x, p, i, shapes)
        PROVE  used' = used /\ \A g \in Grants : Kept(g) /\ NotSpent(g)
    <2>1. grant'[x].state = "active" /\ grant[x] = NoGrant
      BY <1>3 DEF Create, TypeOK
    <2>2. Kept(x) /\ NotSpent(x)
      BY <2>1 DEF Kept, NotSpent, NoGrant, States
    <2>3. \A g \in Grants : g # x => grant'[g] = grant[g]
      BY <1>3 DEF Create, TypeOK
    <2>4. QED
      BY <1>3, <2>2, <2>3, SameKept DEF Create
  <1>4. ASSUME NEW x \in Grants, NEW t \in 0..now, Revoke(x, t)
        PROVE  used' = used /\ \A g \in Grants : Kept(g) /\ NotSpent(g)
    <2>1. t \in Nat /\ grant[x] \in {NoGrant} \cup Row /\ grant[x].state = "active"
      BY <1>4 DEF TypeOK, Revoke
    <2>2. \A g \in Grants : g # x => grant'[g] = grant[g]
      BY <1>4 DEF Revoke, TypeOK
    <2>3. CASE Aged(grant[x], t).state # "active"
      <3>1. grant'[x] = Aged(grant[x], t)
        BY <1>4, <2>3 DEF Revoke, TypeOK
      <3>2. QED
        BY <1>4, <2>2, <3>1, SameKept, AgedKept DEF Revoke
    <2>4. CASE Aged(grant[x], t).state = "active"
      <3>1. Aged(grant[x], t) \in {NoGrant} \cup Row /\ Aged(grant[x], t).grantor = grant[x].grantor
        BY <2>1, AgedType
      <3>2. grant'[x] = [Aged(grant[x], t) EXCEPT !.state = "revoked", !.revoked = t]
        BY <1>4, <2>4 DEF Revoke, TypeOK
      <3>3. /\ grant'[x].state = "revoked" /\ grant'[x].grantor = grant[x].grantor
            /\ grant'[x] \in Row
        BY <2>1, <2>4, <3>1, <3>2, RevokedType
      <3>4. grant'[x] # NoGrant
        BY <3>3 DEF NoGrant
      <3>5. Kept(x) /\ NotSpent(x)
        BY <2>1, <3>3, <3>4 DEF Kept, NotSpent, States
      <3>6. QED
        BY <1>4, <2>2, <3>5, SameKept DEF Revoke
    <2>5. QED
      BY <2>3, <2>4
  <1>5. ASSUME NEW p \in Principals, List(p)
        PROVE  used' = used /\ \A g \in Grants : Kept(g) /\ NotSpent(g)
    <2>1. \A g \in Grants : grant'[g] = Aged(grant[g], now) \/ grant'[g] = grant[g]
      BY <1>5 DEF List
    <2>2. QED
      BY <1>5, <2>1, SameKept, AgedKept DEF List
  <1>6. ASSUME NEW p \in Principals, DeleteAccount(p)
        PROVE  used' = used /\ \A g \in Grants : Kept(g) /\ NotSpent(g)
    BY <1>6, RevokeAllKept DEF DeleteAccount
  <1>7. CASE \/ \E s \in Submissions \cup {None} : Deliver(s)
             \/ \E i \in Instances : Claim(i)
    BY <1>7, SameKept DEF Deliver, Claim
  <1>8. ASSUME NEW k \in Requests, NEW s \in Submissions, NEW x \in Grants, NEW i \in Instances,
               NEW shape \in Shapes, NEW run \in {0, executor.run}, Check(k, s, x, i, shape, run)
        PROVE  used' = used /\ \A g \in Grants : Kept(g) /\ NotSpent(g)
    <2>1. \A g \in Grants : grant'[g] = Aged(grant[g], now) \/ grant'[g] = grant[g]
      BY <1>8 DEF Check, TypeOK
    <2>2. QED
      BY <1>8, <2>1, SameKept, AgedKept DEF Check
  <1>9. ASSUME NEW k \in Requests, Fail(k) \/ ConsumeFails(k)
        PROVE  used' = used /\ \A g \in Grants : Kept(g) /\ NotSpent(g)
    BY <1>9, SameKept DEF Fail, ConsumeFails
  <1>10. ASSUME NEW k \in Requests, ConsumeAgain(k)
         PROVE  used' = used /\ \A g \in Grants : Kept(g) /\ NotSpent(g)
    <2>1. \A g \in Grants : grant'[g] = Aged(grant[g], request[k].now) \/ grant'[g] = grant[g]
      BY <1>10 DEF ConsumeAgain, TypeOK
    <2>2. QED
      BY <1>10, <2>1, SameKept, AgedKept DEF ConsumeAgain
  <1>11. ASSUME NEW k \in Requests, ConsumeNew(k)
         PROVE  \/ used' = used /\ \A g \in Grants : Kept(g) /\ NotSpent(g)
                \/ Charge(k)
    <2> DEFINE q == request[k]
               r == Aged(grant[q.grant], q.now)
    <2>1. q.sub \in Submissions /\ q.grant \in Grants /\ q.now \in Nat
      BY <1>11, ConsumingType DEF ConsumeNew
    <2>2. CASE ~Allows(r, q)
      <3>1. \A g \in Grants : grant'[g] = Aged(grant[g], q.now) \/ grant'[g] = grant[g]
        BY <1>11, <2>1, <2>2 DEF ConsumeNew, TypeOK
      <3>2. QED
        BY <1>11, <2>2, <3>1, SameKept, AgedKept DEF ConsumeNew
    <2>3. CASE Allows(r, q)
      <3>1. r = grant[q.grant] /\ grant[q.grant].state = "active"
        BY <2>3 DEF Allows, Aged, Due
      <3>2. QED
        BY <1>11, <2>1, <2>3, <3>1 DEF ConsumeNew, Charge, Allows
    <2>4. QED
      BY <2>2, <2>3
  <1>12. QED
    BY <1>1, <1>2, <1>3, <1>4, <1>5, <1>6, <1>7, <1>8, <1>9, <1>10, <1>11 DEF Next, Consume

-----------------------------------------------------------------------------
(***************************************************************************)
(* The inductive invariant.                                                *)
(***************************************************************************)
Finite == \A g \in Grants : IsFiniteSet(ChargedTo(g))
Unborn == \A g \in Grants : grant[g] = NoGrant => ChargedTo(g) = {}
Totals == \A g \in Grants : Total(g) =< MaxTotal
Rates == \A g \in Grants : \A w \in Nat : InWindow(g, w) =< PerMinute
IInv == TypeOK /\ Finite /\ Unborn /\ Totals /\ Rates /\ ExhaustedMeansSpent

LEMMA Empty ==
  ASSUME NEW g \in Grants, ChargedTo(g) = {}
  PROVE  /\ IsFiniteSet(ChargedTo(g)) /\ Total(g) = 0
         /\ \A w \in Nat : InWindow(g, w) = 0
  <1>1. \A w \in Nat : {s \in ChargedTo(g) : used[s].window = w} = {}
    OBVIOUS
  <1>2. QED
    BY <1>1, FS_EmptySet DEF Total, InWindow

LEMMA InitInv == Init => IInv
  <1> SUFFICES ASSUME Init PROVE IInv
    OBVIOUS
  <1>1. \A g \in Grants : ChargedTo(g) = {}
    BY GrantAssumption DEF Init, ChargedTo, Unused
  <1>2. TypeOK
    BY InitType
  <1>3. Finite /\ Unborn /\ Totals /\ Rates
    BY <1>1, Empty, GrantAssumption DEF Finite, Unborn, Totals, Rates
  <1>4. ExhaustedMeansSpent
    BY DEF Init, ExhaustedMeansSpent, NoGrant
  <1>5. QED
    BY <1>2, <1>3, <1>4 DEF IInv

(* The size of what a grant paid, now and in one window, before and after  *)
(* a charge.                                                               *)
LEMMA ChargeCounts ==
  ASSUME IInv, NEW k \in Requests, Charge(k), NEW g \in Grants
  PROVE  LET q == request[k] IN
         /\ g # q.grant => ChargedTo(g)' = ChargedTo(g)
         /\ g # q.grant => \A w \in Nat : InWindow(g, w)' = InWindow(g, w)
         /\ g = q.grant => /\ IsFiniteSet(ChargedTo(g)')
                           /\ Total(g)' = Total(g) + 1
                           /\ \A w \in Nat : InWindow(g, w)' =
                                InWindow(g, w) + (IF w = Window(q.now) THEN 1 ELSE 0)
  <1> DEFINE q == request[k]
             In(w) == {s \in ChargedTo(g) : used[s].window = w}
  <1>1. /\ q.sub \in Submissions /\ q.grant \in Grants /\ Window(q.now) \in Nat
        /\ used \in [Submissions -> {Unused} \cup
             [grant : Grants, instance : Instances, shape : Shapes, window : Nat]]
    BY WindowType DEF Charge, IInv, TypeOK
  <1>2. /\ used[q.sub].grant = None /\ None \notin Grants
        /\ used'[q.sub].grant = q.grant /\ used'[q.sub].window = Window(q.now)
        /\ \A s \in Submissions : s # q.sub => used'[s] = used[s]
    BY <1>1, GrantAssumption DEF Charge, Unused
  <1>3. q.sub \notin ChargedTo(g)
    BY <1>2 DEF ChargedTo
  <1>4. CASE g # q.grant
    <2>1. ChargedTo(g)' = ChargedTo(g)
      BY <1>1, <1>2, <1>4 DEF ChargedTo
    <2>2. \A w \in Nat : {s \in ChargedTo(g) : used[s].window = w}' = In(w)
      BY <1>2, <1>3, <2>1 DEF ChargedTo
    <2>3. \A w \in Nat : InWindow(g, w)' = InWindow(g, w)
      BY <2>2 DEF InWindow
    <2>4. QED
      BY <1>4, <2>1, <2>3
  <1>5. CASE g = q.grant
    <2>1. ChargedTo(g)' = ChargedTo(g) \cup {q.sub}
      BY <1>1, <1>2, <1>5 DEF ChargedTo
    <2>2. IsFiniteSet(ChargedTo(g))
      BY DEF IInv, Finite
    <2>3. IsFiniteSet(ChargedTo(g)') /\ Total(g)' = Total(g) + 1
      BY <1>3, <2>1, <2>2, FS_AddElement DEF Total
    <2>4. ASSUME NEW w \in Nat
          PROVE InWindow(g, w)' = InWindow(g, w) + (IF w = Window(q.now) THEN 1 ELSE 0)
      <3>1. IsFiniteSet(In(w)) /\ q.sub \notin In(w)
        BY <1>3, <2>2, FS_Subset
      <3>2. Cardinality(In(w)) \in Nat
        BY <3>1, FS_CardinalityType
      <3>3. {s \in ChargedTo(g) : used[s].window = w}' =
              IF w = Window(q.now) THEN In(w) \cup {q.sub} ELSE In(w)
        BY <1>2, <1>3, <2>1 DEF ChargedTo
      <3>4. CASE w = Window(q.now)
        <4>1. Cardinality(In(w) \cup {q.sub}) = Cardinality(In(w)) + 1
          BY <3>1, FS_AddElement
        <4>2. InWindow(g, w)' = Cardinality(In(w) \cup {q.sub}) /\ InWindow(g, w) = Cardinality(In(w))
          BY <3>3, <3>4 DEF InWindow
        <4>3. QED
          BY <3>4, <4>1, <4>2
      <3>5. CASE w # Window(q.now)
        <4>1. InWindow(g, w)' = Cardinality(In(w)) /\ InWindow(g, w) = Cardinality(In(w))
          BY <3>3, <3>5 DEF InWindow
        <4>2. QED
          BY <3>2, <3>5, <4>1
      <3>6. QED
        BY <3>4, <3>5
    <2>5. QED
      BY <1>5, <2>3, <2>4
  <1>6. QED
    BY <1>4, <1>5

LEMMA NextInv == IInv /\ [Next]_vars => IInv'
  <1> SUFFICES ASSUME IInv, [Next]_vars PROVE IInv'
    OBVIOUS
  <1>1. TypeOK /\ TypeOK'
    BY NextType DEF IInv
  <1>2. CASE used' = used /\ \A g \in Grants : Kept(g) /\ NotSpent(g)
    <2>1. \A g \in Grants : ChargedTo(g)' = ChargedTo(g)
      BY <1>2 DEF ChargedTo
    <2>2. \A g \in Grants : /\ Total(g)' = Total(g)
                            /\ \A w \in Nat : InWindow(g, w)' = InWindow(g, w)
      BY <1>2, <2>1 DEF Total, InWindow, ChargedTo
    <2>3. Finite' /\ Totals' /\ Rates'
      BY <2>1, <2>2 DEF IInv, Finite, Totals, Rates
    <2>4. Unborn'
      BY <1>2, <2>1 DEF IInv, Unborn, Kept
    <2>5. ASSUME NEW g \in Grants
          PROVE /\ grant'[g].state = "active" => Total(g)' < MaxTotal
                /\ grant'[g].state = "exhausted" => Total(g)' = MaxTotal
      <3>1. CASE grant[g] = NoGrant
        <4>1. Total(g)' = 0
          BY <2>2, <3>1, Empty DEF IInv, Unborn
        <4>2. grant[g].state = "none"
          BY <3>1 DEF NoGrant
        <4>3. QED
          BY <1>2, <4>1, <4>2, GrantAssumption DEF NotSpent
      <3>2. CASE grant[g] # NoGrant
        BY <1>2, <2>2, <3>2 DEF Kept, NotSpent, IInv, ExhaustedMeansSpent
      <3>3. QED
        BY <3>1, <3>2
    <2>6. QED
      BY <1>1, <2>3, <2>4, <2>5 DEF IInv, ExhaustedMeansSpent
  <1>3. ASSUME NEW k \in Requests, Charge(k) PROVE IInv'
    <2> DEFINE q == request[k]
    <2>1. /\ q.grant \in Grants /\ q.now \in Nat /\ Window(q.now) \in Nat
          /\ grant[q.grant] \in {NoGrant} \cup Row /\ grant[q.grant].state = "active"
          /\ Total(q.grant) < MaxTotal /\ InWindow(q.grant, Window(q.now)) < PerMinute
      BY <1>1, <1>3, WindowType DEF Charge, TypeOK
    <2>2. grant[q.grant] \in Row
      BY <2>1 DEF NoGrant
    <2>3. \A g \in Grants : Total(g) \in Nat /\ \A w \in Nat : InWindow(g, w) \in Nat
      <3>1. \A g \in Grants : \A w \in Nat : IsFiniteSet({s \in ChargedTo(g) : used[s].window = w})
        BY FS_Subset DEF IInv, Finite
      <3>2. QED
        BY <3>1, FS_CardinalityType DEF Total, InWindow, IInv, Finite
    <2>4. Finite'
      BY <1>3, ChargeCounts DEF IInv, Finite
    <2>5. Totals'
      <3>1. ASSUME NEW g \in Grants PROVE Total(g)' =< MaxTotal
        <4>1. CASE g # q.grant
          <5>1. Total(g)' = Total(g)
            BY <1>3, <4>1, ChargeCounts DEF Total
          <5>2. QED
            BY <5>1 DEF IInv, Totals
        <4>2. CASE g = q.grant
          <5>1. Total(g)' = Total(g) + 1
            BY <1>3, <4>2, ChargeCounts
          <5>2. QED
            BY <2>1, <2>3, <4>2, <5>1, GrantAssumption
        <4>3. QED
          BY <4>1, <4>2
      <3>2. QED
        BY <3>1 DEF Totals
    <2>6. Rates'
      <3>1. ASSUME NEW g \in Grants, NEW w \in Nat PROVE InWindow(g, w)' =< PerMinute
        <4>1. CASE g # q.grant
          BY <1>3, <4>1, ChargeCounts DEF IInv, Rates
        <4>2. CASE g = q.grant /\ w = Window(q.now)
          <5>1. InWindow(g, w)' = InWindow(g, w) + 1
            BY <1>3, <4>2, ChargeCounts
          <5>2. QED
            BY <2>1, <2>3, <4>2, <5>1, GrantAssumption
        <4>3. CASE g = q.grant /\ w # Window(q.now)
          <5>1. InWindow(g, w)' = InWindow(g, w) + 0
            BY <1>3, <4>3, ChargeCounts
          <5>2. QED
            BY <2>3, <5>1 DEF IInv, Rates
        <4>4. QED
          BY <4>1, <4>2, <4>3
      <3>2. QED
        BY <3>1 DEF Rates
    <2>7. ASSUME NEW g \in Grants
          PROVE /\ grant'[g] = NoGrant => ChargedTo(g)' = {}
                /\ grant'[g].state = "active" => Total(g)' < MaxTotal
                /\ grant'[g].state = "exhausted" => Total(g)' = MaxTotal
      <3>1. CASE g # q.grant
        <4>1. grant'[g] = grant[g] /\ ChargedTo(g)' = ChargedTo(g) /\ Total(g)' = Total(g)
          BY <1>1, <1>3, <3>1, ChargeCounts DEF Charge, TypeOK, Total
        <4>2. QED
          BY <4>1 DEF IInv, Unborn, ExhaustedMeansSpent
      <3>2. CASE g = q.grant
        <4>1. Total(g)' = Total(g) + 1
          BY <1>3, <3>2, ChargeCounts
        <4>2. grant'[g] = Charged(grant[g], g)
          BY <1>1, <1>3, <3>2 DEF Charge, TypeOK
        <4>3. grant'[g] \in Row
          BY <2>2, <3>2, <4>2, ChargedType
        <4>4. grant'[g] # NoGrant
          BY <4>3 DEF NoGrant, Row, States
        <4>5. CASE Total(g) + 1 >= MaxTotal
          <5>1. grant'[g].state = "exhausted"
            BY <2>2, <3>2, <4>2, <4>5 DEF Charged, Row
          <5>2. Total(g)' = MaxTotal
            BY <2>1, <2>3, <3>2, <4>1, <4>5, GrantAssumption
          <5>3. QED
            BY <4>4, <5>1, <5>2
        <4>6. CASE ~(Total(g) + 1 >= MaxTotal)
          <5>1. grant'[g].state = "active"
            BY <2>1, <3>2, <4>2, <4>6 DEF Charged
          <5>2. Total(g)' < MaxTotal
            BY <2>3, <4>1, <4>6, GrantAssumption
          <5>3. QED
            BY <4>4, <5>1, <5>2
        <4>7. QED
          BY <4>5, <4>6
      <3>3. QED
        BY <3>1, <3>2
    <2>8. Unborn' /\ ExhaustedMeansSpent'
      BY <2>7 DEF Unborn, ExhaustedMeansSpent
    <2>9. QED
      BY <1>1, <2>4, <2>5, <2>6, <2>8 DEF IInv
  <1>4. QED
    BY <1>1, <1>2, <1>3, StepCharges

THEOREM AlwaysIInv == Spec => []IInv
  BY InitInv, NextInv, PTL DEF Spec

(***************************************************************************)
(* No grant pays for more than its total nor for more than its rate in any *)
(* window, however many requests overlap, are repeated or arrive late.     *)
(***************************************************************************)
THEOREM LimitsHold == Spec => []WithinLimits
  <1>1. IInv => WithinLimits
    <2>1. ASSUME IInv, NEW g \in Grants, NEW s \in ChargedTo(g)
          PROVE  used[s].window \in Nat
      BY <2>1, GrantAssumption DEF IInv, TypeOK, ChargedTo, Unused
    <2>2. QED
      BY <2>1 DEF IInv, Totals, Rates, WithinLimits
  <1>2. QED
    BY <1>1, AlwaysIInv, PTL

(***************************************************************************)
(* A grant shows as used up exactly when it is.                            *)
(***************************************************************************)
THEOREM SpentIsShown == Spec => []ExhaustedMeansSpent
  <1>1. IInv => ExhaustedMeansSpent
    BY DEF IInv
  <1>2. QED
    BY <1>1, AlwaysIInv, PTL
-----------------------------------------------------------------------------
(***************************************************************************)
(* Action properties.                                                      *)
(***************************************************************************)

(* Which steps answer a request that waits to be charged.                  *)
LEMMA WhoAnswers ==
  ASSUME TypeOK, Next, NEW k \in Requests, request[k].at = "consume",
         request'[k].at \in {"authorized", "denied"}
  PROVE  ConsumeAgain(k) \/ ConsumeNew(k)
  <1>1. CASE Tick \/ Stop \/ RetireAgent
    BY <1>1 DEF Tick, Stop, RetireAgent
  <1>2. ASSUME NEW g \in Grants, NEW p \in Principals, NEW i \in Instances \cup {None},
               NEW shapes \in SUBSET Shapes \ {{}}, Create(g, p, i, shapes)
        PROVE FALSE
    BY <1>2 DEF Create
  <1>3. ASSUME NEW g \in Grants, NEW t \in 0..now, Revoke(g, t) PROVE FALSE
    BY <1>3 DEF Revoke
  <1>4. ASSUME NEW p \in Principals, List(p) \/ DeleteAccount(p) PROVE FALSE
    BY <1>4 DEF List, DeleteAccount
  <1>5. ASSUME NEW s \in Submissions \cup {None}, Deliver(s) PROVE FALSE
    BY <1>5 DEF Deliver
  <1>6. ASSUME NEW i \in Instances, Claim(i) PROVE FALSE
    BY <1>6 DEF Claim
  <1>7. ASSUME NEW j \in Requests, NEW s \in Submissions, NEW g \in Grants, NEW i \in Instances,
               NEW shape \in Shapes, NEW run \in {0, executor.run}, Check(j, s, g, i, shape, run)
        PROVE FALSE
    <2>1. j # k
      BY <1>7 DEF Check
    <2>2. QED
      BY <1>7, <2>1 DEF Check, Answer, TypeOK
  <1>8. ASSUME NEW j \in Requests, Fail(j) \/ ConsumeFails(j) PROVE FALSE
    BY <1>8 DEF Fail, ConsumeFails, Answer, Answered, Quiet, TypeOK
  <1>9. ASSUME NEW j \in Requests, ConsumeAgain(j) \/ ConsumeNew(j) PROVE j = k
    BY <1>9 DEF ConsumeAgain, ConsumeNew, Answer, TypeOK
  <1>10. QED
    BY <1>1, <1>2, <1>3, <1>4, <1>5, <1>6, <1>7, <1>8, <1>9 DEF Next, Consume

(* An answer is "authorized" only if the policy holds of the locked row.   *)
LEMMA PolicyHolds ==
  ASSUME TypeOK, NEW k \in Requests, ConsumeAgain(k) \/ ConsumeNew(k)
  PROVE  LET q == request[k]
             r == Aged(grant[q.grant], q.now)
         IN request'[k].at = "authorized" => Policy(r, q)
  BY DEF ConsumeAgain, ConsumeNew, Allows, Answer, Answered, Quiet, TypeOK

LEMMA PolicyLives ==
  ASSUME NEW r, NEW q, Policy(Aged(r, q.now), q)
  PROVE  Aged(r, q.now) = r /\ r.state \in {"active", "exhausted"}
  <1>1. CASE Due(r, q.now)
    <2>1. Aged(r, q.now) = [r EXCEPT !.state = "expired"]
      BY <1>1 DEF Aged
    <2>2. QED
      BY <2>1, <1>1 DEF Policy, Due
  <1>2. CASE ~Due(r, q.now)
    BY <1>2 DEF Aged, Policy
  <1>3. QED
    BY <1>1, <1>2

(***************************************************************************)
(* A grant that was revoked or has expired authorises nothing, though the  *)
(* request was checked, or its submission charged, before.                 *)
(***************************************************************************)
THEOREM EndIsTheEnd == Spec => NoneAfterTheEnd
  <1> DEFINE A == \A k \in Requests :
                request[k].at = "consume" /\ request'[k].at = "authorized" =>
                  grant[request[k].grant].state \in {"active", "exhausted"}
  <1>1. TypeOK /\ [Next]_vars => [A]_vars
    <2> SUFFICES ASSUME TypeOK, Next, NEW k \in Requests, request[k].at = "consume",
                        request'[k].at = "authorized"
                 PROVE grant[request[k].grant].state \in {"active", "exhausted"}
      OBVIOUS
    <2>1. ConsumeAgain(k) \/ ConsumeNew(k)
      BY WhoAnswers
    <2>2. Policy(Aged(grant[request[k].grant], request[k].now), request[k])
      BY <2>1, PolicyHolds
    <2>3. QED
      BY <2>2, PolicyLives
  <1>2. Spec => []TypeOK
    BY Typing
  <1>3. QED
    BY <1>1, <1>2, PTL DEF Spec, NoneAfterTheEnd
(***************************************************************************)
(* A grant that ended stays as it ended and a charge stays in its window.  *)
(***************************************************************************)
THEOREM LedgerStays == Spec => LedgerIsFinal
  <1> DEFINE A == /\ \A g \in Grants : grant[g].state \in States \ {"active"} => grant'[g] = grant[g]
                  /\ \A s \in Submissions : used[s] # Unused => used'[s] = used[s]
  <1>1. TypeOK /\ [Next]_vars => [A]_vars
    <2> SUFFICES ASSUME TypeOK, [Next]_vars PROVE A
      OBVIOUS
    <2>1. CASE used' = used /\ \A g \in Grants : Kept(g) /\ NotSpent(g)
      BY <2>1 DEF Kept
    <2>2. ASSUME NEW k \in Requests, Charge(k) PROVE A
      BY <2>2 DEF Charge, TypeOK
    <2>3. QED
      BY <2>1, <2>2, StepCharges
  <1>2. Spec => []TypeOK
    BY Typing
  <1>3. QED
    BY <1>1, <1>2, PTL DEF Spec, LedgerIsFinal

(***************************************************************************)
(* A submission that took the last message of a grant and lost the answer  *)
(* is not refused for it when it is repeated.                              *)
(***************************************************************************)
THEOREM RepeatedIsServed == Spec => NeverStranded
  <1> DEFINE Paid(k) ==
               /\ request[k].at = "consume" /\ grant[request[k].grant].state = "exhausted"
               /\ Policy(grant[request[k].grant], request[k]) /\ Permitted(request[k])
               /\ used[request[k].sub].grant = request[k].grant
               /\ Matches(used[request[k].sub], request[k])
             A == \A k \in Requests : Paid(k) => request'[k].at # "denied"
  <1>1. TypeOK /\ [Next]_vars => [A]_vars
    <2> SUFFICES ASSUME TypeOK, Next, NEW k \in Requests, Paid(k), request'[k].at = "denied"
                 PROVE FALSE
      OBVIOUS
    <2>1. request[k].grant \in Grants
      BY ConsumingType
    <2>2. used[request[k].sub] # Unused
      BY <2>1, GrantAssumption DEF Unused
    <2>3. ConsumeAgain(k)
      BY <2>2, WhoAnswers DEF ConsumeNew
    <2>4. Aged(grant[request[k].grant], request[k].now) = grant[request[k].grant]
      BY DEF Aged, Due
    <2>5. request'[k] = Answered("authorized")
      BY <2>3, <2>4 DEF ConsumeAgain, Answer, TypeOK
    <2>6. QED
      BY <2>5 DEF Answered, Quiet
  <1>2. Spec => []TypeOK
    BY Typing
  <1>3. QED
    BY <1>1, <1>2, PTL DEF Spec, NeverStranded

(***************************************************************************)
(* A request on its way to be charged names a grant of the principal on    *)
(* whose computer it was made.                                             *)
(***************************************************************************)
Owned ==
  \A k \in Requests : request[k].at = "consume" =>
    /\ request[k].grant \in Grants /\ grant[request[k].grant] # NoGrant
    /\ grant[request[k].grant].grantor = Principal[request[k].instance]

LEMMA GrantorStays ==
  ASSUME TypeOK, [Next]_vars, NEW g \in Grants, grant[g] # NoGrant
  PROVE  grant'[g] # NoGrant /\ grant'[g].grantor = grant[g].grantor
  <1>1. CASE used' = used /\ \A x \in Grants : Kept(x) /\ NotSpent(x)
    BY <1>1 DEF Kept
  <1>2. ASSUME NEW k \in Requests, Charge(k)
        PROVE  grant'[g] # NoGrant /\ grant'[g].grantor = grant[g].grantor
    <2>1. grant[g] \in Row
      BY DEF TypeOK
    <2>2. grant'[g] = grant[g] \/ grant'[g] = Charged(grant[g], g)
      BY <1>2 DEF Charge, TypeOK
    <2>3. Charged(grant[g], g) \in Row /\ Charged(grant[g], g).grantor = grant[g].grantor
      BY <2>1, ChargedType
    <2>4. grant'[g] \in Row /\ grant'[g].grantor = grant[g].grantor
      BY <2>1, <2>2, <2>3
    <2>5. QED
      BY <2>4 DEF Row, NoGrant, States
  <1>3. QED
    BY <1>1, <1>2, StepCharges

LEMMA WhoAsks ==
  ASSUME TypeOK, [Next]_vars, NEW k \in Requests, request'[k].at = "consume"
  PROVE  \/ request'[k] = request[k]
         \/ \E s \in Submissions, g \in Grants, i \in Instances, shape \in Shapes :
              \E run \in {0, executor.run} : Check(k, s, g, i, shape, run)
  <1>1. CASE UNCHANGED vars \/ Tick \/ Stop \/ RetireAgent
    BY <1>1 DEF vars, Tick, Stop, RetireAgent
  <1>2. ASSUME NEW g \in Grants, NEW p \in Principals, NEW i \in Instances \cup {None},
               NEW shapes \in SUBSET Shapes \ {{}}, Create(g, p, i, shapes)
        PROVE request'[k] = request[k]
    BY <1>2 DEF Create
  <1>3. ASSUME NEW g \in Grants, NEW t \in 0..now, Revoke(g, t) PROVE request'[k] = request[k]
    BY <1>3 DEF Revoke
  <1>4. ASSUME NEW p \in Principals, List(p) \/ DeleteAccount(p) PROVE request'[k] = request[k]
    BY <1>4 DEF List, DeleteAccount
  <1>5. ASSUME NEW s \in Submissions \cup {None}, Deliver(s) PROVE request'[k] = request[k]
    BY <1>5 DEF Deliver
  <1>6. ASSUME NEW i \in Instances, Claim(i) PROVE request'[k] = request[k]
    BY <1>6 DEF Claim
  <1>7. ASSUME NEW j \in Requests, NEW s \in Submissions, NEW g \in Grants, NEW i \in Instances,
               NEW shape \in Shapes, NEW run \in {0, executor.run}, Check(j, s, g, i, shape, run)
        PROVE j = k \/ request'[k] = request[k]
    BY <1>7 DEF Check, Answer, TypeOK
  <1>8. ASSUME NEW j \in Requests, Fail(j) \/ ConsumeFails(j) \/ ConsumeAgain(j) \/ ConsumeNew(j)
        PROVE request'[k] = request[k]
    <2>1. \A outcome : Answered(outcome).at = outcome
      BY DEF Answered, Quiet
    <2>2. PICK outcome \in {"idle", "authorized", "denied"} : Answer(j, outcome)
      BY <1>8 DEF Fail, ConsumeFails, ConsumeAgain, ConsumeNew
    <2>3. QED
      BY <2>1, <2>2 DEF Answer, TypeOK
  <1>9. QED
    BY <1>1, <1>2, <1>3, <1>4, <1>5, <1>6, <1>7, <1>8 DEF Next, Consume

LEMMA OwnedStep == TypeOK /\ Owned /\ [Next]_vars => Owned'
  <1> SUFFICES ASSUME TypeOK, Owned, [Next]_vars, NEW k \in Requests, request'[k].at = "consume"
               PROVE /\ request'[k].grant \in Grants /\ grant'[request'[k].grant] # NoGrant
                     /\ grant'[request'[k].grant].grantor = Principal[request'[k].instance]
    BY DEF Owned
  <1>1. CASE request'[k] = request[k]
    BY <1>1, GrantorStays DEF Owned
  <1>2. ASSUME NEW s \in Submissions, NEW g \in Grants, NEW i \in Instances, NEW shape \in Shapes,
               NEW run \in {0, executor.run}, Check(k, s, g, i, shape, run)
        PROVE  /\ request'[k].grant \in Grants /\ grant'[request'[k].grant] # NoGrant
               /\ grant'[request'[k].grant].grantor = Principal[request'[k].instance]
    <2> DEFINE r == Aged(grant[g], now)
    <2>1. request'[k] # Answered("denied")
      BY DEF Answered, Quiet
    <2>2. r.grantor = Principal[i] /\ request'[k].grant = g /\ request'[k].instance = i
      BY <1>2, <2>1 DEF Check, Answer, TypeOK
    <2>3. grant'[g] = r
      BY <1>2 DEF Check, TypeOK
    <2>4. Principal[i] \in Principals
      BY GrantAssumption
    <2>5. r # NoGrant
      BY <2>2, <2>4, GrantAssumption DEF NoGrant
    <2>6. QED
      BY <2>2, <2>3, <2>5
  <1>3. QED
    BY <1>1, <1>2, WhoAsks

(***************************************************************************)
(* Whoever is told it may send has been charged to a grant of its own      *)
(* principal.                                                              *)
(***************************************************************************)
THEOREM PaidByItsPrincipal == Spec => AuthorizedIsPaid
  <1> DEFINE A == \A k \in Requests : request[k].at = "consume" /\ request'[k].at = "authorized" =>
                    LET payer == used'[request[k].sub].grant IN
                    payer \in Grants /\ grant[payer].grantor = Principal[request[k].instance]
  <1>1. TypeOK /\ Owned /\ [Next]_vars => [A]_vars
    <2> SUFFICES ASSUME TypeOK, Owned, Next, NEW k \in Requests, request[k].at = "consume",
                        request'[k].at = "authorized"
                 PROVE LET payer == used'[request[k].sub].grant IN
                       payer \in Grants /\ grant[payer].grantor = Principal[request[k].instance]
      OBVIOUS
    <2>1. /\ request[k].sub \in Submissions /\ request[k].grant \in Grants
          /\ grant[request[k].grant].grantor = Principal[request[k].instance]
      BY ConsumingType DEF Owned
    <2>2. CASE ConsumeAgain(k)
      <3>1. used[request[k].sub].grant \in Grants /\ used' = used
        BY <2>1, <2>2 DEF ConsumeAgain, TypeOK
      <3>2. QED
        BY <2>1, <2>2, <3>1 DEF ConsumeAgain
    <2>3. CASE ConsumeNew(k)
      <3>1. "authorized" # "denied" /\ \A outcome : Answered(outcome).at = outcome
        BY DEF Answered, Quiet
      <3>2. Allows(Aged(grant[request[k].grant], request[k].now), request[k])
        BY <2>3, <3>1 DEF ConsumeNew, Answer, TypeOK
      <3>3. used'[request[k].sub].grant = request[k].grant
        BY <2>1, <2>3, <3>2 DEF ConsumeNew, TypeOK
      <3>4. QED
        BY <2>1, <3>3
    <2>4. QED
      BY <2>2, <2>3, WhoAnswers
  <1>2. Init => Owned
    BY DEF Init, Owned, Quiet
  <1>3. Spec => [](TypeOK /\ Owned)
    BY <1>2, InitType, NextType, OwnedStep, PTL DEF Spec
  <1>4. QED
    BY <1>1, <1>3, PTL DEF Spec, AuthorizedIsPaid
=============================================================================
