------------------------ MODULE DeviceSessionProofs ------------------------
(***************************************************************************)
(* For any bounds on families, attempts and time: the session keeps its    *)
(* types, a refresh can always be repeated for a session, and a request    *)
(* left over from an earlier authorisation is harmless.                    *)
(*                                                                         *)
(* Recoverable needs to know that the tokens of a family form a chain with *)
(* one unused end, and that no request in flight uses a token newer than   *)
(* the vault's.                                                            *)
(***************************************************************************)
EXTENDS DeviceSession, TLAPS

Exists(t) == token[t].family # None

(* A token's successor belongs to its family and lasts as long or longer.  *)
Chain ==
  \A t \in Tokens :
    /\ ~Exists(t) => token[t] = NoToken
    /\ Exists(t) => family[token[t].family].state # "none"
    /\ token[t].used =>
         /\ Exists(t) /\ token[t].next \in Tokens /\ token[t].next # t
         /\ token[token[t].next].family = token[t].family
         /\ token[t].expires =< token[token[t].next].expires
    /\ ~token[t].used => token[t].next = None

(* A family has one unused token, which lasts as long as the family does.  *)
OneEnd ==
  \A t \in Tokens : Exists(t) /\ ~token[t].used =>
    /\ token[t].expires = family[token[t].family].expires
    /\ \A u \in Tokens : token[u].family = token[t].family /\ ~token[u].used => u = t

ActiveUnrevoked ==
  \A t \in Tokens : Exists(t) /\ family[token[t].family].state = "active" => ~token[t].revoked

OneActive ==
  \A f, g \in Families : family[f].state = "active" /\ family[g].state = "active" => f = g

Ledger == Chain /\ OneEnd /\ ActiveUnrevoked /\ OneActive

(* What is in flight was asked for from the vault, by its pending attempt  *)
(* if it is still there.                                                   *)
Flight ==
  /\ \A q \in flying :
       /\ Exists(q.token)
       /\ q.token = vault.token => vault.state = "pending" /\ vault.attempt = q.attempt
       /\ q.awaited => q.token = vault.token
  /\ \A q, r \in flying : q.awaited /\ r.awaited => q = r

Newest ==
  vault # NoCredentials =>
    /\ Exists(vault.token) /\ vault.expires = token[vault.token].expires
    /\ token[vault.token].used => \A q \in flying : q.token # token[vault.token].next

IInv == TypeOK /\ Ledger /\ Flight /\ Newest /\ Recoverable

-----------------------------------------------------------------------------
(* The rows and the record sets of TypeOK.                                 *)
FamilyRow == [state : {"none", "active", "revoked", "compromised"}, anchor : Nat, expires : Nat]
TokenRow == [family : Families \cup {None}, used : BOOLEAN, revoked : BOOLEAN,
             expires : Nat, access : Nat, by : Attempts \cup {None},
             next : Tokens \cup {None}, salt : BOOLEAN]
Request == [token : Tokens, attempt : Attempts, sent : 0..MaxTime, awaited : BOOLEAN]

(* The ids of this model are numbers, and None is none.                    *)
LEMMA Ids ==
  Families \subseteq Nat /\ Attempts \subseteq Nat /\ Tokens \subseteq Nat
  /\ None \notin Families /\ None \notin Attempts /\ None \notin Tokens
BY SessionAssumption DEF Families, Attempts, Tokens

(* The ends of families are times.                                         *)
LEMMA Times ==
  ASSUME TypeOK
  PROVE  /\ now \in Nat
         /\ \A anchor \in Nat : Renewed(anchor) \in Nat
         /\ \A f \in Families : Extended(f) \in Nat /\ Extended(f) >= family[f].expires
<1>1. now \in Nat
  BY SessionAssumption DEF TypeOK
<1>2. \A anchor \in Nat : Renewed(anchor) \in Nat
  BY <1>1, SessionAssumption DEF Renewed
<1>3. ASSUME NEW f \in Families PROVE Extended(f) \in Nat /\ Extended(f) >= family[f].expires
  <2>1. family[f].anchor \in Nat /\ family[f].expires \in Nat
    BY DEF TypeOK
  <2>2. Renewed(family[f].anchor) \in Nat
    BY <1>2, <2>1
  <2> QED BY <2>1, <2>2 DEF Extended
<1> QED BY <1>1, <1>2, <1>3

(* A free family and a free token, when there are any.                     *)
LEMMA Free ==
  /\ FreeFamilies # {} => NewFamily \in Families /\ family[NewFamily] = Unborn
  /\ FreeTokens # {} => NewToken \in Tokens /\ token[NewToken] = NoToken
BY DEF FreeFamilies, FreeTokens, NewFamily, NewToken

(* A new token.                                                            *)
LEMMA FreshFields ==
  ASSUME NEW f, NEW e
  PROVE  /\ Fresh(f, e).family = f /\ Fresh(f, e).expires = e /\ Fresh(f, e).next = None
         /\ ~Fresh(f, e).used /\ ~Fresh(f, e).revoked
BY DEF Fresh, NoToken

(* The two revocations, row by row.                                        *)
LEMMA Revocations ==
  ASSUME TypeOK
  PROVE  /\ RevokedFamilies(family) \in [Families -> FamilyRow]
         /\ RevokedTokens(token) \in [Tokens -> TokenRow]
         /\ \A f \in Families :
              /\ RevokedFamilies(family)[f].state # "active"
              /\ RevokedFamilies(family)[f].state = "none" <=> family[f].state = "none"
              /\ RevokedFamilies(family)[f].expires = family[f].expires
              /\ family[f].state # "active" => RevokedFamilies(family)[f] = family[f]
         /\ \A t \in Tokens :
              /\ RevokedTokens(token)[t].family = token[t].family
              /\ RevokedTokens(token)[t].used = token[t].used
              /\ RevokedTokens(token)[t].next = token[t].next
              /\ RevokedTokens(token)[t].expires = token[t].expires
              /\ token[t] = NoToken => RevokedTokens(token)[t] = NoToken
<1> USE DEF FamilyRow, TokenRow
<1>1. family \in [Families -> FamilyRow] /\ token \in [Tokens -> TokenRow]
  BY DEF TypeOK
<1>2. ASSUME NEW f \in Families
      PROVE  /\ RevokedFamilies(family)[f] \in FamilyRow
             /\ RevokedFamilies(family)[f].state # "active"
             /\ RevokedFamilies(family)[f].state = "none" <=> family[f].state = "none"
             /\ RevokedFamilies(family)[f].expires = family[f].expires
             /\ family[f].state # "active" => RevokedFamilies(family)[f] = family[f]
  BY <1>1 DEF RevokedFamilies
<1>3. ASSUME NEW t \in Tokens
      PROVE  /\ RevokedTokens(token)[t] \in TokenRow
             /\ RevokedTokens(token)[t].family = token[t].family
             /\ RevokedTokens(token)[t].used = token[t].used
             /\ RevokedTokens(token)[t].next = token[t].next
             /\ RevokedTokens(token)[t].expires = token[t].expires
             /\ token[t] = NoToken => RevokedTokens(token)[t] = NoToken
  BY <1>1 DEF RevokedTokens
<1>4. RevokedFamilies(family) \in [Families -> FamilyRow]
  BY <1>2 DEF RevokedFamilies
<1>5. RevokedTokens(token) \in [Tokens -> TokenRow]
  BY <1>3 DEF RevokedTokens
<1> QED BY <1>2, <1>3, <1>4, <1>5

(* The rows that store_device_session writes.                              *)
LEMMA StoreRows ==
  ASSUME TypeOK, NEW anchor \in Nat, Store(anchor)
  PROVE  /\ family' \in [Families -> FamilyRow] /\ token' \in [Tokens -> TokenRow]
         /\ NewFamily \in Families /\ NewToken \in Tokens
         /\ family[NewFamily] = Unborn /\ token[NewToken] = NoToken
         /\ family'[NewFamily] =
              [state |-> "active", anchor |-> anchor, expires |-> Renewed(anchor)]
         /\ token'[NewToken] = Fresh(NewFamily, Renewed(anchor))
         /\ \A f \in Families \ {NewFamily} : family'[f] = RevokedFamilies(family)[f]
         /\ \A t \in Tokens \ {NewToken} : token'[t] = RevokedTokens(token)[t]
<1>1. /\ NewFamily \in Families /\ NewToken \in Tokens
      /\ family[NewFamily] = Unborn /\ token[NewToken] = NoToken
  BY Free DEF Store
<1>2. /\ family' = [RevokedFamilies(family) EXCEPT ![NewFamily] =
           [state |-> "active", anchor |-> anchor, expires |-> Renewed(anchor)]]
      /\ token' = [RevokedTokens(token) EXCEPT ![NewToken] = Fresh(NewFamily, Renewed(anchor))]
  BY DEF Store
<1>3. now \in Nat /\ Renewed(anchor) \in Nat
  BY Times
<1>4. [state |-> "active", anchor |-> anchor, expires |-> Renewed(anchor)] \in FamilyRow
  BY <1>3 DEF FamilyRow
<1>5. now + AccessTtl \in Nat
  BY <1>3, SessionAssumption
<1>6. Fresh(NewFamily, Renewed(anchor)) \in TokenRow
  BY <1>1, <1>3, <1>5 DEF Fresh, NoToken, TokenRow
<1>7. RevokedFamilies(family) \in [Families -> FamilyRow] /\ RevokedTokens(token) \in [Tokens -> TokenRow]
  BY Revocations
<1> QED BY <1>1, <1>2, <1>4, <1>6, <1>7

(* The rows that a rotation writes.                                        *)
LEMMA RotateRows ==
  ASSUME TypeOK, Chain, NEW q \in flying, Exists(q.token), ~token[q.token].used, Rotate(q)
  PROVE  LET f == token[q.token].family
             used == [token[q.token] EXCEPT !.used = TRUE, !.by = q.attempt,
                                            !.next = NewToken, !.salt = TRUE]
         IN
         /\ q \in Request /\ f \in Families
         /\ family' \in [Families -> FamilyRow] /\ token' \in [Tokens -> TokenRow]
         /\ NewToken \in Tokens /\ token[NewToken] = NoToken /\ NewToken # q.token
         /\ family'[f] = [family[f] EXCEPT !.expires = Extended(f)]
         /\ \A g \in Families \ {f} : family'[g] = family[g]
         /\ token'[NewToken] = Fresh(f, Extended(f))
         /\ token'[q.token] = used
         /\ \A t \in Tokens \ {NewToken, q.token} :
              token'[t] = IF token[t].next = q.token THEN [token[t] EXCEPT !.salt = FALSE]
                          ELSE token[t]
<1> DEFINE f == token[q.token].family
           used == [token[q.token] EXCEPT !.used = TRUE, !.by = q.attempt,
                                          !.next = NewToken, !.salt = TRUE]
<1>1. q \in Request
  BY DEF TypeOK, Request
<1>2. token \in [Tokens -> TokenRow] /\ family \in [Families -> FamilyRow]
  BY DEF TypeOK, TokenRow, FamilyRow
<1>3. q.token \in Tokens /\ q.attempt \in Attempts
  BY <1>1 DEF Request
<1>4. f \in Families
  BY <1>2, <1>3 DEF Exists, TokenRow
<1>5. NewToken \in Tokens /\ token[NewToken] = NoToken
  BY Free DEF Rotate
<1>6. NewToken # q.token
  BY <1>5 DEF Exists, NoToken
<1>7. Extended(f) \in Nat
  BY <1>4, Times
<1>8. family' = [family EXCEPT ![f].expires = Extended(f)]
  BY DEF Rotate
<1>9. token' = [t \in Tokens |->
         IF t = NewToken THEN Fresh(f, Extended(f))
         ELSE IF t = q.token THEN used
         ELSE IF token[t].next = q.token THEN [token[t] EXCEPT !.salt = FALSE]
         ELSE token[t]]
  BY DEF Rotate
<1>10. family' \in [Families -> FamilyRow]
  BY <1>2, <1>4, <1>7, <1>8 DEF FamilyRow
<1>11. now + AccessTtl \in Nat
  BY Times, SessionAssumption
<1>12. Fresh(f, Extended(f)) \in TokenRow
  BY <1>4, <1>7, <1>11 DEF Fresh, NoToken, TokenRow
<1>13. used \in TokenRow
  <2>1. token[q.token] \in TokenRow /\ q.attempt \in Attempts \cup {None} /\ NewToken \in Tokens \cup {None}
    BY <1>2, <1>3, <1>5
  <2> QED BY <2>1 DEF TokenRow
<1>14. ASSUME NEW t \in Tokens
       PROVE  [token[t] EXCEPT !.salt = FALSE] \in TokenRow
  BY <1>2 DEF TokenRow
<1>15. token' \in [Tokens -> TokenRow]
  BY <1>2, <1>9, <1>12, <1>13, <1>14
<1>16. family'[f] = [family[f] EXCEPT !.expires = Extended(f)]
  BY <1>2, <1>4, <1>8
<1>17. \A g \in Families \ {f} : family'[g] = family[g]
  BY <1>2, <1>8
<1>18. token'[NewToken] = Fresh(f, Extended(f)) /\ token'[q.token] = used
  BY <1>3, <1>5, <1>6, <1>9
<1>19. \A t \in Tokens \ {NewToken, q.token} :
         token'[t] = IF token[t].next = q.token THEN [token[t] EXCEPT !.salt = FALSE] ELSE token[t]
  BY <1>9
<1> QED BY <1>1, <1>4, <1>5, <1>6, <1>10, <1>15, <1>16, <1>17, <1>18, <1>19

(* The rows that a detected theft writes.                                  *)
LEMMA CompromiseRows ==
  ASSUME TypeOK, NEW q \in flying, Exists(q.token), Compromise(q)
  PROVE  /\ family' \in [Families -> FamilyRow] /\ token' = RevokedTokens(token)
         /\ \A f \in Families :
              /\ family'[f].state # "active" /\ family'[f].expires = family[f].expires
              /\ family'[f].state = "none" <=> family[f].state = "none"
              /\ family[f].state # "active" => family'[f] = family[f]
<1> DEFINE f == token[q.token].family
           mid == [family EXCEPT ![f].state = IF @ = "active" THEN "compromised" ELSE @]
<1>1. q.token \in Tokens /\ family \in [Families -> FamilyRow] /\ token \in [Tokens -> TokenRow]
  BY DEF TypeOK, FamilyRow, TokenRow
<1>2. f \in Families
  BY <1>1 DEF Exists, TokenRow
<1>3. /\ mid \in [Families -> FamilyRow]
      /\ \A g \in Families :
           /\ mid[g].expires = family[g].expires
           /\ mid[g].state = "none" <=> family[g].state = "none"
           /\ family[g].state # "active" => mid[g] = family[g]
  BY <1>1, <1>2 DEF FamilyRow
<1>4. family' = RevokedFamilies(mid) /\ token' = RevokedTokens(token)
  BY DEF Compromise
<1> HIDE DEF mid
<1>5. ASSUME NEW g \in Families
      PROVE  /\ family'[g] \in FamilyRow
             /\ family'[g].state # "active" /\ family'[g].expires = family[g].expires
             /\ family'[g].state = "none" <=> family[g].state = "none"
             /\ family[g].state # "active" => family'[g] = family[g]
  BY <1>3, <1>4 DEF RevokedFamilies, FamilyRow
<1>6. family' \in [Families -> FamilyRow]
  BY <1>4, <1>5 DEF RevokedFamilies
<1> QED BY <1>4, <1>5, <1>6

-----------------------------------------------------------------------------
(***************************************************************************)
(* The control plane's tables.                                             *)
(***************************************************************************)
LEMMA StoreLedger ==
  ASSUME TypeOK, Ledger, NEW anchor \in Nat, Store(anchor)
  PROVE  Ledger'
<1>1. token \in [Tokens -> TokenRow] /\ family \in [Families -> FamilyRow]
  BY DEF TypeOK, TokenRow, FamilyRow
<1>2. /\ NewFamily \in Families /\ NewToken \in Tokens
      /\ family[NewFamily] = Unborn /\ token[NewToken] = NoToken
      /\ NewFamily # None
  BY StoreRows, Ids
<1>3. \A t \in Tokens : token[t].family # NewFamily
  BY <1>2 DEF Ledger, Chain, Exists, Unborn
<1>4. /\ token'[NewToken].family = NewFamily /\ ~token'[NewToken].used
      /\ ~token'[NewToken].revoked /\ token'[NewToken].expires = Renewed(anchor)
      /\ token'[NewToken].next = None
  <2>1. token'[NewToken] = Fresh(NewFamily, Renewed(anchor))
    BY StoreRows
  <2> QED BY <2>1, FreshFields
<1>5. \A t \in Tokens : t # NewToken =>
        /\ token'[t].family = token[t].family /\ token'[t].used = token[t].used
        /\ token'[t].next = token[t].next /\ token'[t].expires = token[t].expires
        /\ token[t] = NoToken => token'[t] = NoToken
  BY StoreRows, Revocations
<1>6. \A t \in Tokens : token[t].used => token[t].next # NewToken
  BY <1>2, Ids DEF Ledger, Chain, Exists, NoToken
<1>7. \A f \in Families : f # NewFamily =>
        /\ family'[f].state # "active" /\ family'[f].expires = family[f].expires
        /\ family'[f].state = "none" <=> family[f].state = "none"
  BY StoreRows, Revocations
<1>8. family'[NewFamily].state = "active" /\ family'[NewFamily].expires = Renewed(anchor)
  <2>1. family'[NewFamily] = [state |-> "active", anchor |-> anchor, expires |-> Renewed(anchor)]
    BY StoreRows
  <2> QED BY <2>1
<1>9. \A t \in Tokens : token[t].family \in Families \cup {None}
  BY <1>1 DEF TokenRow
<1>10. ~token[NewToken].used
  BY <1>2 DEF NoToken
<1>11. Chain'
  <2> SUFFICES ASSUME NEW t \in Tokens
               PROVE  /\ ~Exists(t)' => token'[t] = NoToken
                      /\ Exists(t)' => family'[token'[t].family].state # "none"
                      /\ token'[t].used =>
                           /\ Exists(t)' /\ token'[t].next \in Tokens /\ token'[t].next # t
                           /\ token'[token'[t].next].family = token'[t].family
                           /\ token'[t].expires =< token'[token'[t].next].expires
                      /\ ~token'[t].used => token'[t].next = None
    BY DEF Chain
  <2>1. CASE t = NewToken
    BY <2>1, <1>2, <1>4, <1>8 DEF Exists
  <2>2. CASE t # NewToken
    <3>1. /\ token'[t].family = token[t].family /\ token'[t].used = token[t].used
          /\ token'[t].next = token[t].next /\ token'[t].expires = token[t].expires
          /\ token[t] = NoToken => token'[t] = NoToken
      BY <2>2, <1>5
    <3>2. ~Exists(t)' => token'[t] = NoToken
      BY <3>1 DEF Ledger, Chain, Exists
    <3>3. Exists(t)' => family'[token'[t].family].state # "none"
      BY <3>1, <1>3, <1>7, <1>9 DEF Ledger, Chain, Exists
    <3>4. ~token'[t].used => token'[t].next = None
      BY <3>1 DEF Ledger, Chain
    <3>5. ASSUME token'[t].used
          PROVE  /\ Exists(t)' /\ token'[t].next \in Tokens /\ token'[t].next # t
                 /\ token'[token'[t].next].family = token'[t].family
                 /\ token'[t].expires =< token'[token'[t].next].expires
      <4>1. token[t].used
        BY <3>1, <3>5
      <4>2. token[t].next \in Tokens /\ token[t].next # NewToken
        BY <4>1, <1>6 DEF Ledger, Chain
      <4>3. token'[token[t].next].family = token[token[t].next].family
            /\ token'[token[t].next].expires = token[token[t].next].expires
        BY <4>2, <1>5
      <4> QED BY <3>1, <4>1, <4>2, <4>3 DEF Ledger, Chain, Exists
    <3> QED BY <3>2, <3>3, <3>4, <3>5
  <2> QED BY <2>1, <2>2
<1>12. OneEnd'
  BY <1>2, <1>3, <1>4, <1>5, <1>7, <1>8, <1>9 DEF Ledger, OneEnd, Exists
<1>13. ActiveUnrevoked'
  BY <1>2, <1>3, <1>4, <1>5, <1>7, <1>8, <1>9 DEF ActiveUnrevoked, Exists
<1>14. OneActive'
  BY <1>7, <1>8 DEF OneActive
<1> QED BY <1>11, <1>12, <1>13, <1>14 DEF Ledger

(* Revoking everything a device has.                                       *)
LEMMA RevokedLedger ==
  ASSUME TypeOK, Ledger, token' = RevokedTokens(token),
         \A f \in Families :
           /\ family'[f].state # "active" /\ family'[f].expires = family[f].expires
           /\ family'[f].state = "none" <=> family[f].state = "none"
  PROVE  Ledger'
<1>1. \A t \in Tokens :
        /\ token'[t].family = token[t].family /\ token'[t].used = token[t].used
        /\ token'[t].next = token[t].next /\ token'[t].expires = token[t].expires
        /\ token[t] = NoToken => token'[t] = NoToken
  BY Revocations
<1>2. \A t \in Tokens : token[t].family \in Families \cup {None}
  BY DEF TypeOK
<1>3. Chain'
  <2> SUFFICES ASSUME NEW t \in Tokens
               PROVE  /\ ~Exists(t)' => token'[t] = NoToken
                      /\ Exists(t)' => family'[token'[t].family].state # "none"
                      /\ token'[t].used =>
                           /\ Exists(t)' /\ token'[t].next \in Tokens /\ token'[t].next # t
                           /\ token'[token'[t].next].family = token'[t].family
                           /\ token'[t].expires =< token'[token'[t].next].expires
                      /\ ~token'[t].used => token'[t].next = None
    BY DEF Chain
  <2>1. /\ token'[t].family = token[t].family /\ token'[t].used = token[t].used
        /\ token'[t].next = token[t].next /\ token'[t].expires = token[t].expires
        /\ token[t] = NoToken => token'[t] = NoToken
    BY <1>1
  <2>2. (~Exists(t)' => token'[t] = NoToken) /\ (~token'[t].used => token'[t].next = None)
    BY <2>1 DEF Ledger, Chain, Exists
  <2>3. Exists(t)' => family'[token'[t].family].state # "none"
    BY <2>1, <1>2 DEF Ledger, Chain, Exists
  <2>4. ASSUME token'[t].used
        PROVE  /\ Exists(t)' /\ token'[t].next \in Tokens /\ token'[t].next # t
               /\ token'[token'[t].next].family = token'[t].family
               /\ token'[t].expires =< token'[token'[t].next].expires
    <3>1. token[t].used /\ token[t].next \in Tokens
      BY <2>1, <2>4 DEF Ledger, Chain
    <3>2. token'[token[t].next].family = token[token[t].next].family
          /\ token'[token[t].next].expires = token[token[t].next].expires
      BY <3>1, <1>1
    <3> QED BY <2>1, <3>1, <3>2 DEF Ledger, Chain, Exists
  <2> QED BY <2>2, <2>3, <2>4
<1>4. OneEnd'
  BY <1>1, <1>2 DEF Ledger, OneEnd, Exists
<1>5. ActiveUnrevoked'
  BY <1>1, <1>2 DEF ActiveUnrevoked, Exists
<1>6. OneActive'
  BY DEF OneActive
<1> QED BY <1>3, <1>4, <1>5, <1>6 DEF Ledger

LEMMA RotateLedger ==
  ASSUME TypeOK, Ledger, NEW q \in flying, Exists(q.token), ~token[q.token].used,
         family[token[q.token].family].state = "active", Rotate(q)
  PROVE  Ledger'
<1> DEFINE f == token[q.token].family
<1>1. Chain
  BY DEF Ledger
<1>2. /\ q.token \in Tokens /\ f \in Families /\ NewToken \in Tokens
      /\ token[NewToken] = NoToken /\ NewToken # q.token
  BY <1>1, RotateRows DEF Request
<1>3. token \in [Tokens -> TokenRow] /\ family \in [Families -> FamilyRow]
  BY DEF TypeOK, TokenRow, FamilyRow
<1>4. /\ token'[NewToken].family = f /\ ~token'[NewToken].used
      /\ ~token'[NewToken].revoked /\ token'[NewToken].expires = Extended(f)
      /\ token'[NewToken].next = None
  <2>1. token'[NewToken] = Fresh(f, Extended(f))
    BY <1>1, RotateRows
  <2> QED BY <2>1, FreshFields
<1>5. /\ token'[q.token].family = f /\ token'[q.token].used
      /\ token'[q.token].revoked = token[q.token].revoked
      /\ token'[q.token].expires = token[q.token].expires /\ token'[q.token].next = NewToken
  <2>1. token'[q.token] = [token[q.token] EXCEPT !.used = TRUE, !.by = q.attempt,
                                                 !.next = NewToken, !.salt = TRUE]
    BY <1>1, RotateRows
  <2>2. token[q.token] \in TokenRow
    BY <1>2, <1>3
  <2> QED BY <2>1, <2>2 DEF TokenRow
<1>6. \A t \in Tokens : t # NewToken /\ t # q.token =>
        /\ token'[t].family = token[t].family /\ token'[t].used = token[t].used
        /\ token'[t].revoked = token[t].revoked
        /\ token'[t].next = token[t].next /\ token'[t].expires = token[t].expires
        /\ token[t] = NoToken => token'[t] = NoToken
  <2> SUFFICES ASSUME NEW t \in Tokens, t # NewToken, t # q.token
               PROVE  /\ token'[t].family = token[t].family /\ token'[t].used = token[t].used
                      /\ token'[t].revoked = token[t].revoked
                      /\ token'[t].next = token[t].next /\ token'[t].expires = token[t].expires
                      /\ token[t] = NoToken => token'[t] = NoToken
    OBVIOUS
  <2>1. token'[t] = IF token[t].next = q.token THEN [token[t] EXCEPT !.salt = FALSE] ELSE token[t]
    BY <1>1, RotateRows
  <2>2. token[t] \in TokenRow
    BY <1>3
  <2>3. token[t] = NoToken => token[t].next # q.token
    BY <1>2, Ids DEF NoToken
  <2> QED BY <2>1, <2>2, <2>3 DEF TokenRow
<1>7. /\ family'[f].state = "active" /\ family'[f].expires = Extended(f)
      /\ \A g \in Families \ {f} : family'[g] = family[g]
  BY <1>1, <1>2, <1>3, RotateRows DEF FamilyRow
<1>8. \A t \in Tokens : token[t].used => token[t].next # NewToken
  BY <1>1, <1>2 DEF Chain, Exists, NoToken
<1>9. \A t \in Tokens : token[t].family \in Families \cup {None} /\ token[t].expires \in Nat
  BY <1>3 DEF TokenRow
<1>10. Extended(f) \in Nat /\ Extended(f) >= family[f].expires /\ family[f].expires \in Nat
  BY <1>2, <1>3, Times DEF FamilyRow
<1>11. token[q.token].expires = family[f].expires
  BY <1>2 DEF Ledger, OneEnd
<1>12. Chain'
  <2> SUFFICES ASSUME NEW t \in Tokens
               PROVE  /\ ~Exists(t)' => token'[t] = NoToken
                      /\ Exists(t)' => family'[token'[t].family].state # "none"
                      /\ token'[t].used =>
                           /\ Exists(t)' /\ token'[t].next \in Tokens /\ token'[t].next # t
                           /\ token'[token'[t].next].family = token'[t].family
                           /\ token'[t].expires =< token'[token'[t].next].expires
                      /\ ~token'[t].used => token'[t].next = None
    BY DEF Chain
  <2>1. CASE t = NewToken
    BY <2>1, <1>2, <1>4, <1>7, Ids DEF Exists
  <2>2. CASE t = q.token
    BY <2>2, <1>2, <1>4, <1>5, <1>7, <1>9, <1>10, <1>11, Ids DEF Exists
  <2>3. CASE t # NewToken /\ t # q.token
    <3>1. /\ token'[t].family = token[t].family /\ token'[t].used = token[t].used
          /\ token'[t].next = token[t].next /\ token'[t].expires = token[t].expires
          /\ token[t] = NoToken => token'[t] = NoToken
      BY <2>3, <1>6
    <3>2. (~Exists(t)' => token'[t] = NoToken) /\ (~token'[t].used => token'[t].next = None)
      BY <3>1, <1>1 DEF Chain, Exists
    <3>3. Exists(t)' => family'[token'[t].family].state # "none"
      BY <3>1, <1>1, <1>7, <1>9 DEF Chain, Exists
    <3>4. ASSUME token'[t].used
          PROVE  /\ Exists(t)' /\ token'[t].next \in Tokens /\ token'[t].next # t
                 /\ token'[token'[t].next].family = token'[t].family
                 /\ token'[t].expires =< token'[token'[t].next].expires
      <4>1. token[t].used /\ token[t].next \in Tokens /\ token[t].next # NewToken
        BY <3>1, <3>4, <1>1, <1>8 DEF Chain
      <4>2. token'[token[t].next].family = token[token[t].next].family
            /\ token'[token[t].next].expires = token[token[t].next].expires
        BY <4>1, <1>5, <1>6
      <4> QED BY <3>1, <4>1, <4>2, <1>1 DEF Chain, Exists
    <3> QED BY <3>2, <3>3, <3>4
  <2> QED BY <2>1, <2>2, <2>3
<1>13. OneEnd'
  BY <1>2, <1>4, <1>5, <1>6, <1>7, <1>9 DEF Ledger, OneEnd, Exists
<1>14. ActiveUnrevoked'
  BY <1>2, <1>4, <1>5, <1>6, <1>7, <1>9 DEF Ledger, ActiveUnrevoked, Exists
<1>15. OneActive'
  BY <1>2, <1>7 DEF Ledger, OneActive
<1> QED BY <1>12, <1>13, <1>14, <1>15 DEF Ledger

(* What a refresh request does to the tables.                              *)
LEMMA ExecuteLedger ==
  ASSUME TypeOK, Ledger, NEW q \in flying, Exists(q.token), Execute(q)
  PROVE  /\ Ledger'
         /\ family' \in [Families -> FamilyRow] /\ token' \in [Tokens -> TokenRow]
         /\ \A t \in Tokens : Exists(t) => token'[t].family = token[t].family
<1>1. token \in [Tokens -> TokenRow] /\ family \in [Families -> FamilyRow]
  BY DEF TypeOK, TokenRow, FamilyRow
<1>2. CASE UNCHANGED <<family, token>>
  BY <1>1, <1>2 DEF Ledger, Chain, OneEnd, ActiveUnrevoked, OneActive, Exists
<1>3. CASE ~Refuses(q) /\ ~token[q.token].used /\ Rotate(q)
  <2>1. Chain /\ family[token[q.token].family].state = "active"
    BY <1>3 DEF Ledger, Refuses
  <2>2. Ledger'
    BY <1>3, <2>1, RotateLedger
  <2>3. family' \in [Families -> FamilyRow] /\ token' \in [Tokens -> TokenRow]
    BY <1>3, <2>1, RotateRows
  <2>4. ASSUME NEW t \in Tokens, Exists(t) PROVE token'[t].family = token[t].family
    <3>1. t # NewToken
      <4>1. token[NewToken] = NoToken
        BY <1>3, <2>1, RotateRows
      <4> QED BY <2>4, <4>1 DEF Exists, NoToken
    <3>2. token[t] \in TokenRow
      BY <1>1
    <3>3. CASE t = q.token
      <4>1. token'[t] = [token[t] EXCEPT !.used = TRUE, !.by = q.attempt,
                                         !.next = NewToken, !.salt = TRUE]
        BY <1>3, <2>1, <3>3, RotateRows
      <4> QED BY <3>2, <4>1 DEF TokenRow
    <3>4. CASE t # q.token
      <4>1. token'[t] = IF token[t].next = q.token THEN [token[t] EXCEPT !.salt = FALSE]
                        ELSE token[t]
        BY <1>3, <2>1, <3>1, <3>4, RotateRows
      <4> QED BY <3>2, <4>1 DEF TokenRow
    <3> QED BY <3>3, <3>4
  <2> QED BY <2>2, <2>3, <2>4
<1>4. CASE Compromise(q)
  BY <1>4, CompromiseRows, Revocations, RevokedLedger
<1> QED BY <1>2, <1>3, <1>4 DEF Execute

-----------------------------------------------------------------------------
(***************************************************************************)
(* The vault.                                                              *)
(***************************************************************************)
LEMMA VaultKinds ==
  ASSUME TypeOK
  PROVE  \/ vault = NoCredentials
         \/ /\ vault # NoCredentials /\ vault.token \in Tokens
            /\ vault.access \in Nat /\ vault.expires \in Nat
            /\ \/ vault.state = "ready" /\ vault.attempt = None
               \/ vault.state = "pending" /\ vault.attempt \in Attempts
BY Ids DEF TypeOK, NoCredentials

(* A request that is granted names the unused end of its family's chain,   *)
(* which no request in flight uses.                                        *)
LEMMA GrantedEnd ==
  ASSUME TypeOK, Ledger, NEW q \in flying, \A r \in flying : Exists(r.token),
         token[q.token].used => \A r \in flying : r.token # token[q.token].next,
         Execute(q), Granted(q)
  PROVE  LET n == token'[q.token].next
             f == token[q.token].family
         IN /\ n \in Tokens /\ token'[n] \in TokenRow
            /\ token'[n].family = f /\ f \in Families /\ ~token'[n].used
            /\ token'[n].expires = family'[f].expires /\ family'[f].expires \in Nat
            /\ \A r \in flying : r.token # n
<1> DEFINE f == token[q.token].family
<1>1. token \in [Tokens -> TokenRow] /\ family \in [Families -> FamilyRow] /\ q.token \in Tokens
  BY DEF TypeOK, TokenRow, FamilyRow
<1>2. Exists(q.token) /\ f \in Families
  BY <1>1 DEF Exists, TokenRow
<1>3. family' \in [Families -> FamilyRow] /\ token' \in [Tokens -> TokenRow]
  BY <1>2, ExecuteLedger
<1>4. family'[f].expires \in Nat
  BY <1>2, <1>3 DEF FamilyRow
<1>5. Chain
  BY DEF Ledger
<1>6. CASE ~token[q.token].used
  <2>1. Rotate(q)
    BY <1>6 DEF Granted, Execute
  <2>2. /\ token'[NewToken] = Fresh(f, Extended(f)) /\ NewToken \in Tokens
        /\ token[NewToken] = NoToken
    BY <1>2, <1>5, <1>6, <2>1, RotateRows
  <2>3. token'[q.token].next = NewToken
    <3>1. token'[q.token] = [token[q.token] EXCEPT !.used = TRUE, !.by = q.attempt,
                                                   !.next = NewToken, !.salt = TRUE]
      BY <1>2, <1>5, <1>6, <2>1, RotateRows
    <3>2. token[q.token] \in TokenRow
      BY <1>1
    <3> QED BY <3>1, <3>2 DEF TokenRow
  <2>4. family'[f].expires = Extended(f)
    <3>1. family'[f] = [family[f] EXCEPT !.expires = Extended(f)]
      BY <1>2, <1>5, <1>6, <2>1, RotateRows
    <3>2. family[f] \in FamilyRow
      BY <1>1, <1>2
    <3> QED BY <3>1, <3>2 DEF FamilyRow
  <2>5. \A r \in flying : r.token # NewToken
    BY <2>2 DEF Exists, NoToken
  <2>6. /\ token'[NewToken].family = f /\ ~token'[NewToken].used
        /\ token'[NewToken].expires = Extended(f)
    BY <2>2, FreshFields
  <2> QED BY <1>2, <1>3, <1>4, <2>2, <2>3, <2>4, <2>5, <2>6
<1>7. CASE token[q.token].used
  <2>1. Replays(q) /\ UNCHANGED <<family, token>>
    BY <1>7 DEF Granted, Execute
  <2>2. /\ token[q.token].next \in Tokens /\ ~token[token[q.token].next].used
        /\ token[token[q.token].next].family = f
    BY <1>1, <1>5, <1>7, <2>1 DEF Replays, Live, Chain
  <2>3. token[token[q.token].next].expires = family[f].expires
    BY <1>2, <2>2, Ids DEF Ledger, OneEnd, Exists
  <2> QED BY <1>2, <1>3, <1>4, <1>7, <2>1, <2>2, <2>3
<1> QED BY <1>6, <1>7

(* Whoever hears of it, a request that is carried out leaves the vault     *)
(* with a token it can go on with.                                         *)
LEMMA KeptRecoverable ==
  ASSUME IInv, NEW q \in flying, Execute(q), vault' = vault, now' = now, flying' \subseteq flying
  PROVE  Newest' /\ Recoverable'
<1>1. token \in [Tokens -> TokenRow] /\ family \in [Families -> FamilyRow] /\ q.token \in Tokens
  BY DEF IInv, TypeOK, TokenRow, FamilyRow
<1>2. TypeOK /\ Ledger /\ Chain /\ Exists(q.token) /\ Newest /\ Recoverable
  BY DEF IInv, Flight, Ledger
<1>3. SUFFICES ASSUME vault # NoCredentials PROVE Newest' /\ Recoverable'
  BY DEF Newest, Recoverable, NoCredentials
<1> DEFINE v == vault.token
<1>4. v \in Tokens /\ Exists(v) /\ vault.expires \in Nat
  BY <1>2, <1>3, VaultKinds DEF Newest
<1>5. token[v].family \in Families
  BY <1>1, <1>4 DEF Exists, TokenRow
<1>6. CASE UNCHANGED <<family, token>>
  BY <1>2, <1>6 DEF Newest, Recoverable, Exists, Live
<1>7. CASE ~Refuses(q) /\ ~token[q.token].used /\ Rotate(q)
  <2> DEFINE f == token[q.token].family
  <2>1. /\ NewToken \in Tokens /\ token[NewToken] = NoToken
        /\ token'[NewToken] = Fresh(f, Extended(f))
        /\ f \in Families /\ family'[f] = [family[f] EXCEPT !.expires = Extended(f)]
        /\ \A g \in Families \ {f} : family'[g] = family[g]
    BY <1>2, <1>7, RotateRows
  <2>2. v # NewToken /\ \A r \in flying : r.token # NewToken
    <3>1. \A r \in flying : Exists(r.token)
      BY DEF IInv, Flight
    <3> QED BY <1>4, <2>1, <3>1 DEF Exists, NoToken
  <2>3. \A g \in Families : family'[g].state = family[g].state
    BY <1>1, <2>1 DEF FamilyRow
  <2>4. CASE v = q.token
    <3>1. token'[v] = [token[v] EXCEPT !.used = TRUE, !.by = q.attempt,
                                       !.next = NewToken, !.salt = TRUE]
      BY <1>2, <1>7, <2>4, RotateRows
    <3>2. token[v] \in TokenRow
      BY <1>1, <1>4
    <3>3. /\ token'[v].family = token[v].family /\ token'[v].expires = token[v].expires
          /\ token'[v].used /\ token'[v].next = NewToken /\ token'[v].by = q.attempt
          /\ token'[v].salt /\ token'[v].revoked = token[v].revoked
      BY <3>1, <3>2 DEF TokenRow
    <3>4. Newest'
      BY <1>2, <1>3, <2>2, <3>3 DEF Newest, Exists
    <3>5. vault.state = "pending" /\ vault.attempt = q.attempt
      BY <2>4 DEF IInv, Flight
    <3>6. ~token'[NewToken].used /\ ~token'[NewToken].revoked
          /\ token'[NewToken].expires = Extended(f)
      BY <2>1, FreshFields
    <3>7. now < Extended(f)
      <4>1. now < family[f].expires /\ family[f].expires \in Nat
        BY <1>1, <1>2, <1>7, <2>1, Times DEF Refuses, FamilyRow
      <4> QED BY <1>2, <2>1, <4>1, Times
    <3>8. ~token[v].revoked
      BY <1>7, <2>4 DEF Refuses
    <3> QED BY <3>3, <3>4, <3>5, <3>6, <3>7, <3>8 DEF Recoverable, Live
  <2>5. CASE v # q.token
    <3>1. token'[v] = IF token[v].next = q.token THEN [token[v] EXCEPT !.salt = FALSE]
                      ELSE token[v]
      BY <1>2, <1>4, <1>7, <2>2, <2>5, RotateRows
    <3>2. token[v].used => token[v].next # q.token
      BY <1>2, <1>3 DEF Newest
    <3>3. ~token[v].used => token[v].next # q.token
      <4>1. ~token[v].used => token[v].next = None
        BY <1>2, <1>4 DEF Chain
      <4> QED BY <1>1, <4>1, Ids
    <3>4. token'[v] = token[v]
      BY <3>1, <3>2, <3>3
    <3>5. Newest'
      BY <1>2, <3>4 DEF Newest, Exists
    <3>6. ASSUME token[v].used
          PROVE  LET n == token[v].next IN
                 /\ token'[n].used = token[n].used /\ token'[n].revoked = token[n].revoked
                 /\ token'[n].expires = token[n].expires
      <4> DEFINE n == token[v].next
      <4>1. n \in Tokens /\ n # q.token /\ token[n].family = token[v].family
        BY <1>2, <1>4, <3>2, <3>6 DEF Chain
      <4>2. n # NewToken
        BY <1>4, <2>1, <4>1 DEF Exists, NoToken
      <4>3. token'[n] = IF token[n].next = q.token THEN [token[n] EXCEPT !.salt = FALSE]
                        ELSE token[n]
        BY <1>2, <1>7, <4>1, <4>2, RotateRows
      <4>4. token[n] \in TokenRow
        BY <1>1, <4>1
      <4> QED BY <4>3, <4>4 DEF TokenRow
    <3> QED BY <1>2, <1>3, <1>5, <2>3, <3>4, <3>5, <3>6 DEF Recoverable, Live
  <2> QED BY <2>4, <2>5
<1>8. CASE Compromise(q)
  <2>1. /\ token'[v].family = token[v].family /\ token'[v].used = token[v].used
        /\ token'[v].next = token[v].next /\ token'[v].expires = token[v].expires
        /\ family'[token[v].family].state # "active"
    BY <1>2, <1>4, <1>5, <1>8, CompromiseRows, Revocations
  <2> QED BY <1>2, <1>3, <2>1 DEF Newest, Recoverable, Exists
<1> QED BY <1>6, <1>7, <1>8 DEF Execute

-----------------------------------------------------------------------------
LEMMA InitIInv == Init => IInv
<1> SUFFICES ASSUME Init PROVE IInv
  OBVIOUS
<1> USE SessionAssumption, Ids
<1>1. family \in [Families -> FamilyRow] /\ token \in [Tokens -> TokenRow]
  <2>1. Unborn \in FamilyRow
    BY DEF Unborn, FamilyRow
  <2>2. NoToken \in TokenRow
    BY DEF NoToken, TokenRow
  <2> QED BY <2>1, <2>2 DEF Init
<1>2. TypeOK
  BY <1>1 DEF Init, TypeOK, FamilyRow, TokenRow
<1>3. \A t \in Tokens : token[t] = NoToken /\ ~token[t].used /\ ~Exists(t) /\ token[t].next = None
  BY DEF Init, NoToken, Exists
<1>4. \A f \in Families : family[f].state = "none"
  BY DEF Init, Unborn
<1>5. Ledger
  BY <1>3, <1>4 DEF Ledger, Chain, OneEnd, ActiveUnrevoked, OneActive
<1>6. Flight /\ Newest /\ Recoverable
  BY DEF Init, Flight, Newest, Recoverable
<1> QED BY <1>2, <1>5, <1>6 DEF IInv

(* A step that leaves the tables and the clock alone.                      *)
LEMMA SameLedger ==
  ASSUME Ledger, UNCHANGED <<family, token>>
  PROVE  Ledger'
BY DEF Ledger, Chain, OneEnd, ActiveUnrevoked, OneActive, Exists

(* A step that clears the vault while no call waits.                       *)
LEMMA ClearedIInv ==
  ASSUME IInv, ~Waiting, vault' = NoCredentials,
         UNCHANGED <<now, family, token, flying, late, attempts>>
  PROVE  IInv'
<1>1. TypeOK'
  BY DEF IInv, TypeOK
<1>2. Ledger'
  BY SameLedger DEF IInv
<1>3. Flight'
  <2>1. \A q \in flying : Exists(q.token) /\ ~q.awaited /\ q.token \in Tokens
    BY DEF IInv, TypeOK, Flight, Waiting
  <2>2. vault'.token = None
    BY DEF NoCredentials
  <2> QED BY <2>1, <2>2, Ids DEF Flight, Exists
<1>4. Newest' /\ Recoverable'
  BY DEF Newest, Recoverable, NoCredentials
<1> QED BY <1>1, <1>2, <1>3, <1>4 DEF IInv

(* A call that asks for a rotation.                                        *)
LEMMA AskedIInv ==
  ASSUME IInv, ~Waiting, vault # NoCredentials, NEW a \in Attempts,
         vault.state = "pending" => a = vault.attempt,
         Ask(a), attempts' \in 0..MaxAttempts, UNCHANGED <<now, family, token, late>>
  PROVE  IInv'
<1> DEFINE new == [token |-> vault.token, attempt |-> a, sent |-> now, awaited |-> TRUE]
<1>1. vault \in [state : {"ready", "pending"}, token : Tokens, attempt : Attempts \cup {None},
                 access : Nat, expires : Nat]
  BY DEF IInv, TypeOK
<1>2. vault' = [vault EXCEPT !.state = "pending", !.attempt = a] /\ flying' = flying \cup {new}
  BY DEF Ask
<1>3. /\ vault' \in [state : {"pending"}, token : Tokens, attempt : Attempts,
                     access : Nat, expires : Nat]
      /\ vault'.state = "pending" /\ vault'.attempt = a
      /\ vault'.token = vault.token /\ vault'.expires = vault.expires
  BY <1>1, <1>2
<1>4. new \in Request /\ flying \subseteq Request
  BY <1>1 DEF IInv, TypeOK, Request
<1>5. TypeOK'
  BY <1>2, <1>3, <1>4 DEF IInv, TypeOK, Request
<1>6. Ledger'
  BY SameLedger DEF IInv
<1>7. Exists(vault.token) /\ vault.expires = token[vault.token].expires
  BY DEF IInv, Newest
<1>8. Flight'
  <2>1. \A q \in flying : ~q.awaited
    BY DEF Waiting
  <2>2. \A q \in flying : Exists(q.token) /\ (q.token = vault.token => q.attempt = a)
    BY DEF IInv, Flight
  <2>3. new.token = vault.token /\ new.attempt = a
    OBVIOUS
  <2> HIDE DEF new
  <2>4. \A q \in flying' : /\ Exists(q.token)
                           /\ q.token = vault'.token => q.attempt = a
                           /\ q.awaited => q = new
    BY <1>2, <1>3, <1>7, <2>1, <2>2, <2>3
  <2>5. \A q \in flying' : Exists(q.token)'
    BY <2>4 DEF Exists
  <2> QED BY <1>3, <2>3, <2>4, <2>5 DEF Flight
<1>9. Newest'
  <2>1. token[vault.token].used => \A q \in flying : q.token # token[vault.token].next
    BY DEF IInv, Newest
  <2>2. token[vault.token].used => vault.token # token[vault.token].next
    BY <1>1 DEF IInv, Ledger, Chain
  <2> QED BY <1>2, <1>3, <1>7, <2>1, <2>2 DEF Newest, Exists
<1>10. Recoverable'
  <2>1. SUFFICES ASSUME family[token[vault.token].family].state = "active", now < vault.expires
                 PROVE  LET row == token[vault.token] IN
                        ~row.revoked /\ (row.used => row.by = a /\ row.salt /\ Live(row.next))
    BY <1>3 DEF Recoverable, Live
  <2> QED BY <2>1 DEF IInv, Recoverable
<1> QED BY <1>5, <1>6, <1>8, <1>9, <1>10 DEF IInv

(* A request that leaves the air, or is no longer waited for.              *)
LEMMA QuieterFlight ==
  ASSUME IInv, vault' = vault, \A t \in Tokens : Exists(t) => Exists(t)',
         \A r \in flying' : \E q \in flying :
           r.token = q.token /\ r.attempt = q.attempt /\ (r.awaited => r = q)
  PROVE  Flight'
<1>1. \A r \in flying' : /\ Exists(r.token)'
                         /\ r.token = vault.token => vault.state = "pending" /\ vault.attempt = r.attempt
                         /\ r.awaited => r \in flying /\ r.token = vault.token
  BY DEF IInv, TypeOK, Flight
<1> QED BY <1>1 DEF IInv, Flight

LEMMA NextIInv == IInv /\ [Next]_vars => IInv'
<1> SUFFICES ASSUME IInv, [Next]_vars PROVE IInv'
  OBVIOUS
<1> USE SessionAssumption
<1>1. /\ TypeOK /\ Ledger /\ Flight /\ Newest /\ Recoverable
      /\ token \in [Tokens -> TokenRow] /\ family \in [Families -> FamilyRow]
  BY DEF IInv, TypeOK, TokenRow, FamilyRow
<1>2. CASE UNCHANGED vars
  BY <1>1, <1>2 DEF vars, IInv, TypeOK, Ledger, Chain, OneEnd, ActiveUnrevoked, OneActive, Exists,
                    Flight, Newest, Recoverable, Live
<1>3. CASE Tick
  <2>1. now' \in 0..MaxTime /\ now' > now
    BY <1>1, <1>3 DEF Tick, TypeOK
  <2>2. TypeOK'
    BY <1>1, <1>3, <2>1 DEF Tick, TypeOK
  <2>3. Ledger' /\ Flight' /\ Newest'
    BY <1>1, <1>3, SameLedger DEF Tick, Flight, Newest, Exists
  <2>4. Recoverable'
    <3> SUFFICES ASSUME vault # NoCredentials,
                        family[token[vault.token].family].state = "active", now' < vault.expires
                 PROVE  LET row == token[vault.token] IN
                        ~row.revoked /\ (row.used =>
                          /\ vault.state = "pending" /\ row.by = vault.attempt
                          /\ row.salt /\ Live(row.next)')
      BY <1>3 DEF Tick, Recoverable
    <3> DEFINE row == token[vault.token]
    <3>1. now \in Nat /\ now' \in Nat /\ vault.expires \in Nat /\ vault.token \in Tokens
      BY <1>1, <2>1, Times, VaultKinds
    <3>2. now < vault.expires
      BY <2>1, <3>1
    <3>3. ~row.revoked /\ (row.used =>
            vault.state = "pending" /\ row.by = vault.attempt /\ row.salt /\ Live(row.next))
      BY <1>1, <3>2 DEF Recoverable
    <3>4. ASSUME row.used PROVE now' < token[row.next].expires
      <4>1. row.next \in Tokens /\ row.expires =< token[row.next].expires
            /\ vault.expires = row.expires
        BY <1>1, <3>1, <3>4 DEF Ledger, Chain, Newest
      <4>2. row.expires \in Nat /\ token[row.next].expires \in Nat
        BY <1>1, <3>1, <4>1 DEF TokenRow
      <4> QED BY <3>1, <4>1, <4>2
    <3> QED BY <1>3, <3>3, <3>4 DEF Tick, Live
  <2> QED BY <2>2, <2>3, <2>4 DEF IInv
<1>4. ASSUME NEW anchor \in Nat, Register(anchor) PROVE IInv'
  <2>1. Store(anchor) /\ ~Waiting
    BY <1>4 DEF Register, CanRegister
  <2>2. Ledger' /\ family' \in [Families -> FamilyRow] /\ token' \in [Tokens -> TokenRow]
    BY <1>1, <2>1, StoreLedger, StoreRows
  <2>3. /\ NewToken \in Tokens /\ token[NewToken] = NoToken
        /\ token'[NewToken] = Fresh(NewFamily, Renewed(anchor)) /\ NewFamily \in Families
    BY <1>1, <2>1, StoreRows
  <2>4. now + AccessTtl \in Nat /\ Renewed(anchor) \in Nat
    BY <1>1, Times
  <2>5. vault' = [state |-> "ready", token |-> NewToken, attempt |-> None,
                  access |-> now + AccessTtl, expires |-> Renewed(anchor)]
    BY <1>4 DEF Register
  <2>6. vault' \in [state : {"ready"}, token : Tokens, attempt : {None}, access : Nat, expires : Nat]
    BY <2>3, <2>4, <2>5
  <2>7. TypeOK'
    BY <1>1, <1>4, <2>2, <2>6 DEF Register, TypeOK, FamilyRow, TokenRow
  <2>8. /\ token'[NewToken].family = NewFamily /\ token'[NewToken].expires = Renewed(anchor)
        /\ ~token'[NewToken].used /\ ~token'[NewToken].revoked
    BY <2>3, FreshFields
  <2>9. \A q \in flying : q.token # NewToken /\ ~q.awaited /\ Exists(q.token)'
    <3>1. \A q \in flying : q.token \in Tokens /\ Exists(q.token) /\ ~q.awaited
      BY <1>1, <2>1 DEF TypeOK, Flight, Waiting
    <3>2. \A q \in flying : q.token # NewToken
      BY <2>3, <3>1 DEF Exists, NoToken
    <3>3. \A t \in Tokens : t # NewToken => token'[t].family = token[t].family
      BY <1>1, <2>1, StoreRows, Revocations
    <3> QED BY <3>1, <3>2, <3>3 DEF Exists
  <2>10. flying' = flying /\ now' = now
    BY <1>4 DEF Register
  <2>11. Flight'
    BY <2>5, <2>9, <2>10 DEF Flight
  <2>12. Newest' /\ Recoverable'
    BY <2>3, <2>5, <2>8, Ids DEF Newest, Recoverable, Exists
  <2> QED BY <2>2, <2>7, <2>11, <2>12 DEF IInv
<1>5. CASE RegisterUnanswered
  <2>1. TypeOK'
    BY <1>1, <1>5 DEF RegisterUnanswered, TypeOK
  <2>2. Ledger' /\ Flight' /\ Newest' /\ Recoverable'
    BY <1>1, <1>5, SameLedger DEF RegisterUnanswered, Flight, Newest, Recoverable, Exists, Live
  <2> QED BY <2>1, <2>2 DEF IInv
<1>6. ASSUME token' \in [Tokens -> TokenRow], family' \in [Families -> FamilyRow], Ledger',
             \A t \in Tokens : Exists(t) =>
               /\ token'[t].family = token[t].family /\ token'[t].used = token[t].used
               /\ token'[t].next = token[t].next /\ token'[t].expires = token[t].expires
               /\ family'[token[t].family].state # "active",
             late' \in 0..MaxFamilies, UNCHANGED <<now, vault, flying, attempts>>
      PROVE  IInv'
  <2>1. TypeOK'
    BY <1>1, <1>6 DEF TypeOK, FamilyRow, TokenRow
  <2>2. Flight'
    <3>1. \A t \in Tokens : Exists(t) => Exists(t)'
      BY <1>6 DEF Exists
    <3>2. \A r \in flying' : r \in flying
      BY <1>6
    <3> QED BY <1>6, <3>1, <3>2, QuieterFlight
  <2>3. Newest' /\ Recoverable'
    <3>1. CASE vault = NoCredentials
      BY <1>6, <3>1 DEF Newest, Recoverable
    <3>2. CASE vault # NoCredentials
      <4>1. vault.token \in Tokens /\ Exists(vault.token)
        BY <1>1, <3>2, VaultKinds DEF Newest
      <4> QED BY <1>1, <1>6, <3>2, <4>1 DEF Newest, Recoverable, Exists
    <3> QED BY <3>1, <3>2
  <2> QED BY <1>6, <2>1, <2>2, <2>3 DEF IInv
<1>7. ASSUME NEW anchor \in Nat, RegisterLate(anchor) PROVE IInv'
  <2>1. Store(anchor) /\ late' \in 0..MaxFamilies /\ UNCHANGED <<now, vault, flying, attempts>>
    BY <1>1, <1>7 DEF RegisterLate, TypeOK
  <2>2. Ledger' /\ family' \in [Families -> FamilyRow] /\ token' \in [Tokens -> TokenRow]
    BY <1>1, <2>1, StoreLedger, StoreRows
  <2>3. ASSUME NEW t \in Tokens, Exists(t)
        PROVE  /\ token'[t].family = token[t].family /\ token'[t].used = token[t].used
               /\ token'[t].next = token[t].next /\ token'[t].expires = token[t].expires
               /\ family'[token[t].family].state # "active"
    <3>1. token[NewToken] = NoToken /\ family[NewFamily] = Unborn
      BY <1>1, <2>1, StoreRows
    <3>2. t # NewToken /\ token[t].family \in Families
      BY <1>1, <2>3, <3>1 DEF Exists, NoToken, TokenRow
    <3>3. token[t].family # NewFamily
      BY <1>1, <2>3, <3>1 DEF Ledger, Chain, Unborn
    <3>4. token'[t] = RevokedTokens(token)[t]
          /\ family'[token[t].family] = RevokedFamilies(family)[token[t].family]
      BY <1>1, <2>1, <3>2, <3>3, StoreRows
    <3> QED BY <1>1, <3>2, <3>4, Revocations
  <2> QED BY <1>6, <2>1, <2>2, <2>3
<1>8. CASE RevokeDevice
  <2>1. /\ family' = RevokedFamilies(family) /\ token' = RevokedTokens(token)
        /\ UNCHANGED <<now, vault, flying, attempts>> /\ late' \in 0..MaxFamilies
    BY <1>1, <1>8 DEF RevokeDevice, TypeOK
  <2>2. Ledger'
    BY <1>1, <2>1, Revocations, RevokedLedger
  <2>3. ASSUME NEW t \in Tokens, Exists(t) PROVE token[t].family \in Families
    BY <1>1, <2>3 DEF Exists, TokenRow
  <2> QED BY <1>1, <1>6, <2>1, <2>2, <2>3, Revocations
<1>9. CASE Expire
  BY <1>9, ClearedIInv DEF Expire
<1>10. CASE Forget
  BY <1>10, ClearedIInv DEF Forget
<1>11. CASE Refresh
  <2>1. /\ vault # NoCredentials /\ ~Waiting /\ attempts' \in Attempts /\ Ask(attempts')
        /\ attempts' \in 0..MaxAttempts /\ UNCHANGED <<now, family, token, late>>
        /\ vault.state = "ready"
    BY <1>1, <1>11 DEF Refresh, TypeOK, Attempts, NoCredentials
  <2> QED BY <2>1, AskedIInv
<1>12. CASE Retry
  <2>1. /\ vault # NoCredentials /\ ~Waiting /\ Ask(vault.attempt) /\ vault.state = "pending"
        /\ attempts' \in 0..MaxAttempts /\ UNCHANGED <<now, family, token, late>>
    BY <1>1, <1>12 DEF Retry, TypeOK, NoCredentials
  <2>2. vault.attempt \in Attempts
    BY <1>1, <2>1, VaultKinds
  <2> QED BY <2>1, <2>2, AskedIInv
<1>13. ASSUME NEW q \in flying, Serve(q) PROVE IInv'
  <2> DEFINE n == token'[q.token].next
             f == token[q.token].family
             granted == [state |-> "ready", token |-> n, attempt |-> None,
                         access |-> token'[n].access, expires |-> family'[f].expires]
  <2>1. /\ Execute(q) /\ q.awaited /\ flying' = flying \ {q}
        /\ UNCHANGED <<now, late, attempts>>
        /\ vault' = IF Granted(q) THEN granted ELSE NoCredentials
    BY <1>13 DEF Serve
  <2>2. q.token = vault.token /\ q.token \in Tokens /\ \A r \in flying : Exists(r.token)
    BY <1>1, <2>1 DEF Flight, TypeOK
  <2>3. vault # NoCredentials
    BY <2>2, Ids DEF NoCredentials
  <2>4. token[q.token].used => \A r \in flying : r.token # token[q.token].next
    BY <1>1, <2>2, <2>3 DEF Newest
  <2>5. /\ Ledger' /\ family' \in [Families -> FamilyRow] /\ token' \in [Tokens -> TokenRow]
        /\ \A t \in Tokens : Exists(t) => token'[t].family = token[t].family
    BY <1>1, <2>1, <2>2, ExecuteLedger
  <2>6. \A r \in flying' : r \in flying /\ ~r.awaited /\ r.token \in Tokens /\ Exists(r.token)'
    <3>1. \A r \in flying' : r \in flying /\ ~r.awaited
      BY <1>1, <2>1 DEF Flight
    <3> QED BY <1>1, <2>2, <2>5, <3>1 DEF TypeOK, Exists
  <2>7. CASE Granted(q)
    <3>1. /\ n \in Tokens /\ token'[n] \in TokenRow /\ token'[n].family = f /\ f \in Families
          /\ ~token'[n].used /\ token'[n].expires = family'[f].expires
          /\ family'[f].expires \in Nat /\ \A r \in flying : r.token # n
      BY <1>1, <2>1, <2>2, <2>4, <2>7, GrantedEnd
    <3>2. token'[n].access \in Nat
      BY <3>1 DEF TokenRow
    <3> HIDE DEF n
    <3>3. vault' = granted
      BY <2>1, <2>7
    <3>4. vault' \in [state : {"ready"}, token : Tokens, attempt : {None}, access : Nat, expires : Nat]
      BY <3>1, <3>2, <3>3
    <3>5. TypeOK'
      BY <1>1, <2>1, <2>5, <3>4 DEF TypeOK, FamilyRow, TokenRow
    <3>6. vault'.token = n /\ vault'.expires = family'[f].expires
      BY <3>3
    <3>7. Flight'
      BY <2>6, <3>1, <3>6 DEF Flight
    <3>8. Newest'
      BY <3>1, <3>6, Ids DEF Newest, Exists
    <3>9. Recoverable'
      BY <2>5, <3>1, <3>6, Ids DEF Recoverable, Ledger, ActiveUnrevoked, Exists
    <3> QED BY <2>5, <3>5, <3>7, <3>8, <3>9 DEF IInv
  <2>8. CASE ~Granted(q)
    <3>1. vault' = NoCredentials
      BY <2>1, <2>8
    <3>2. TypeOK'
      BY <1>1, <2>1, <2>5, <3>1 DEF TypeOK, FamilyRow, TokenRow
    <3>3. vault'.token = None
      BY <3>1 DEF NoCredentials
    <3>4. Flight'
      BY <2>6, <3>3, Ids DEF Flight
    <3> QED BY <2>5, <3>1, <3>2, <3>4 DEF IInv, Newest, Recoverable
  <2> QED BY <2>7, <2>8
<1>14. ASSUME NEW q \in flying, ServeUnheard(q) PROVE IInv'
  <2>1. /\ Execute(q) /\ flying' = flying \ {q} /\ UNCHANGED <<now, vault, late, attempts>>
    BY <1>14 DEF ServeUnheard
  <2>2. /\ Ledger' /\ family' \in [Families -> FamilyRow] /\ token' \in [Tokens -> TokenRow]
        /\ \A t \in Tokens : Exists(t) => token'[t].family = token[t].family
    BY <1>1, <2>1, ExecuteLedger DEF Flight
  <2>3. TypeOK'
    BY <1>1, <2>1, <2>2 DEF TypeOK, FamilyRow, TokenRow
  <2>4. Flight'
    <3>1. \A t \in Tokens : Exists(t) => Exists(t)'
      BY <2>2 DEF Exists
    <3>2. \A r \in flying' : r \in flying
      BY <2>1
    <3> QED BY <2>1, <3>1, <3>2, QuieterFlight
  <2>5. Newest' /\ Recoverable'
    BY <2>1, KeptRecoverable
  <2> QED BY <2>2, <2>3, <2>4, <2>5 DEF IInv
<1>15. ASSUME NEW q \in flying, Lose(q) \/ GiveUp(q) PROVE IInv'
  <2>1. /\ UNCHANGED <<now, family, token, vault, late, attempts>>
        /\ \/ flying' = flying \ {q}
           \/ flying' = (flying \ {q}) \cup {[q EXCEPT !.awaited = FALSE]}
    BY <1>15 DEF Lose, GiveUp
  <2>2. q \in Request /\ flying \subseteq Request
    BY <1>1 DEF TypeOK, Request
  <2>3. /\ [q EXCEPT !.awaited = FALSE] \in Request
        /\ [q EXCEPT !.awaited = FALSE].token = q.token
        /\ [q EXCEPT !.awaited = FALSE].attempt = q.attempt
        /\ ~[q EXCEPT !.awaited = FALSE].awaited
    BY <2>2 DEF Request
  <2>4. TypeOK'
    BY <1>1, <2>1, <2>2, <2>3 DEF TypeOK, Request
  <2>5. \A r \in flying' : \E p \in flying :
          r.token = p.token /\ r.attempt = p.attempt /\ (r.awaited => r = p)
    BY <2>1, <2>3
  <2>6. Flight'
    <3>1. \A t \in Tokens : Exists(t) => Exists(t)'
      BY <2>1 DEF Exists
    <3> QED BY <2>1, <2>5, <3>1, QuieterFlight
  <2>7. Ledger'
    BY <1>1, <2>1, SameLedger
  <2>8. Newest' /\ Recoverable'
    BY <1>1, <2>1, <2>5 DEF Newest, Recoverable, Exists, Live
  <2> QED BY <2>4, <2>6, <2>7, <2>8 DEF IInv
<1>16. \A anchor \in 0..now : anchor \in Nat
  BY <1>1, Times
<1> QED
  BY <1>2, <1>3, <1>4, <1>5, <1>7, <1>8, <1>9, <1>10, <1>11, <1>12, <1>13, <1>14, <1>15, <1>16
     DEF Next

(* The invariant behind the theorems.                                      *)
THEOREM AlwaysIInv == Spec => []IInv
BY InitIInv, NextIInv, PTL DEF Spec

(***************************************************************************)
(* Tables, vault and requests keep their types.                            *)
(***************************************************************************)
THEOREM Typing == Spec => []TypeOK
<1>1. IInv => TypeOK
  BY DEF IInv
<1> QED BY <1>1, AlwaysIInv, PTL

(***************************************************************************)
(* Whatever the network, the vault and crashes do, a refresh that is       *)
(* repeated gets a session as long as the family is good.                  *)
(***************************************************************************)
THEOREM RepeatedIsGranted == Spec => []Recoverable
<1>1. IInv => Recoverable
  BY DEF IInv
<1> QED BY <1>1, AlwaysIInv, PTL

(* A request of another family leaves the vault's family as it is.         *)
LEMMA OtherFamilyKept ==
  ASSUME IInv, vault # NoCredentials, NEW q \in flying, Execute(q),
         token[q.token].family # token[vault.token].family
  PROVE  family'[token[vault.token].family] = family[token[vault.token].family]
<1> DEFINE f == token[vault.token].family
           g == token[q.token].family
<1>1. TypeOK /\ Ledger /\ Chain /\ Exists(q.token) /\ q.token \in Tokens
  BY DEF IInv, TypeOK, Ledger, Flight
<1>2. vault.token \in Tokens /\ Exists(vault.token)
  BY <1>1, VaultKinds DEF IInv, Newest
<1>3. f \in Families /\ g \in Families
  BY <1>1, <1>2 DEF TypeOK, Exists
<1>4. CASE UNCHANGED <<family, token>>
  BY <1>4
<1>5. CASE ~token[q.token].used /\ Rotate(q)
  BY <1>1, <1>3, <1>5, RotateRows
<1>6. CASE ~Refuses(q) /\ Compromise(q)
  <2>1. family[g].state = "active"
    BY <1>6 DEF Refuses
  <2>2. family[f].state # "active"
    BY <1>1, <1>3, <2>1 DEF Ledger, OneActive
  <2> QED BY <1>1, <1>3, <1>6, <2>2, CompromiseRows
<1> QED BY <1>4, <1>5, <1>6 DEF Execute

(***************************************************************************)
(* A request left over from an earlier authorisation never touches the     *)
(* session the computer has now.                                           *)
(***************************************************************************)
THEOREM LeftoversAreHarmless == Spec => LeftoverHarmless
<1>1. IInv /\ [Next]_vars =>
        [vault # NoCredentials =>
           LET f == token[vault.token].family IN
           (\E q \in flying \ flying' : token[q.token].family # f) => family'[f] = family[f]]_vars
  <2> SUFFICES ASSUME IInv, [Next]_vars, vault # NoCredentials,
                      NEW q \in flying \ flying',
                      token[q.token].family # token[vault.token].family
               PROVE  family'[token[vault.token].family] = family[token[vault.token].family]
    OBVIOUS
  <2>1. CASE UNCHANGED flying
    BY <2>1
  <2>2. CASE \E a : Ask(a)
    BY <2>2 DEF Ask
  <2>3. CASE \E r \in flying : Lose(r) \/ GiveUp(r)
    BY <2>3 DEF Lose, GiveUp
  <2>4. ASSUME NEW r \in flying, Serve(r) \/ ServeUnheard(r)
        PROVE  family'[token[vault.token].family] = family[token[vault.token].family]
    <3>1. Execute(r) /\ r = q
      BY <2>4 DEF Serve, ServeUnheard
    <3> QED BY <3>1, OtherFamilyKept
  <2> QED BY <2>1, <2>2, <2>3, <2>4
          DEF Next, vars, Tick, Register, RegisterUnanswered, RegisterLate, RevokeDevice, Expire,
              Refresh, Retry, Forget
<1> QED BY <1>1, AlwaysIInv, PTL DEF Spec, LeftoverHarmless
=============================================================================
