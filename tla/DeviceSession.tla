--------------------------- MODULE DeviceSession ---------------------------
(***************************************************************************)
(* A computer's session with the control plane.  Registering gives a       *)
(* family of tokens: a short-lived access token and a refresh token that   *)
(* is good for one rotation.  Whoever presents a used refresh token is a   *)
(* thief, unless it repeats the rotation that used it: the Bridge writes   *)
(* the number of its attempt to the vault before it asks, repeats it until *)
(* it has an answer, also after a restart, and the control plane answers a *)
(* repeated attempt with the pair it issued the first time.                *)
(*                                                                         *)
(* The device row is left out: it is revoked together with all of its      *)
(* families.  The look at the token and the transaction that rotates it    *)
(* are one step, for the transaction checks everything again but the age   *)
(* of the request's proof.  A unit of time is longer than the Bridge waits *)
(* for an answer (ten seconds) and both clocks agree up to the skew that   *)
(* ProofAge allows for.                                                    *)
(***************************************************************************)
EXTENDS Naturals

CONSTANTS
  MaxFamilies,  \* bound on registrations
  MaxAttempts,  \* bound on attempts
  MaxTime,      \* bound on the clock
  AccessTtl,    \* what an access token lasts
  Lead,         \* how long before its end the Bridge refreshes it
  ProofAge,     \* how old a signed request may be
  Sliding,      \* what a family lasts after its last rotation
  Lifetime,     \* and at most
  None

Families == 1..MaxFamilies
Attempts == 1..MaxAttempts
Tokens == 1..(MaxFamilies + MaxAttempts)

ASSUME SessionAssumption ==
  /\ MaxFamilies \in Nat /\ MaxAttempts \in Nat /\ MaxTime \in Nat /\ ProofAge \in Nat
  /\ AccessTtl \in Nat \ {0} /\ Lead \in Nat /\ Sliding \in Nat \ {0} /\ Lifetime \in Nat \ {0}
  /\ None \notin Nat

VARIABLES
  now,       \* the time
  family,    \* family[f]: a token family
  token,     \* token[t]: a refresh token, with its attempt row and access token
  vault,     \* the Bridge's credentials in the operating system's vault
  flying,    \* refresh requests under way
  late,      \* registrations nobody waits for that may still be carried out
  attempts   \* attempts made so far

vars == <<now, family, token, vault, flying, late, attempts>>

Unborn == [state |-> "none", anchor |-> 0, expires |-> 0]

(* by, next: the attempt that used the token and what it issued; salt:     *)
(* the issue can be repeated; access: when the access token issued with it *)
(* ends.                                                                   *)
NoToken == [family |-> None, used |-> FALSE, revoked |-> FALSE, expires |-> 0, access |-> 0,
            by |-> None, next |-> None, salt |-> FALSE]

NoCredentials == [state |-> "none", token |-> None, attempt |-> None, access |-> 0, expires |-> 0]

TypeOK ==
  /\ now \in 0..MaxTime
  /\ family \in [Families -> [state : {"none", "active", "revoked", "compromised"},
                              anchor : Nat, expires : Nat]]
  /\ token \in [Tokens -> [family : Families \cup {None}, used : BOOLEAN, revoked : BOOLEAN,
                           expires : Nat, access : Nat, by : Attempts \cup {None},
                           next : Tokens \cup {None}, salt : BOOLEAN]]
  /\ vault \in {NoCredentials} \cup
       [state : {"ready"}, token : Tokens, attempt : {None}, access : Nat, expires : Nat] \cup
       [state : {"pending"}, token : Tokens, attempt : Attempts, access : Nat, expires : Nat]
  /\ flying \subseteq [token : Tokens, attempt : Attempts, sent : 0..MaxTime, awaited : BOOLEAN]
  /\ late \in 0..MaxFamilies
  /\ attempts \in 0..MaxAttempts

Init ==
  /\ now = 0
  /\ family = [f \in Families |-> Unborn]
  /\ token = [t \in Tokens |-> NoToken]
  /\ vault = NoCredentials
  /\ flying = {}
  /\ late = 0
  /\ attempts = 0

(* session_lock: one call at a time waits for an answer.                   *)
Waiting == \E q \in flying : q.awaited

Tick ==
  /\ now < MaxTime /\ ~Waiting
  /\ now' = now + 1
  /\ UNCHANGED <<family, token, vault, flying, late, attempts>>

-----------------------------------------------------------------------------
(***************************************************************************)
(* What the control plane keeps.                                           *)
(***************************************************************************)
FreeFamilies == {f \in Families : family[f] = Unborn}
FreeTokens == {t \in Tokens : token[t] = NoToken}
NewFamily == CHOOSE f \in FreeFamilies : TRUE
NewToken == CHOOSE t \in FreeTokens : TRUE

Fresh(f, expires) ==
  [NoToken EXCEPT !.family = f, !.expires = expires, !.access = now + AccessTtl]

(* renewed_until; lifetime_anchor is when the owner logged in or, when the *)
(* device was approved by its code, when that was.                         *)
Renewed(anchor) ==
  IF now + Sliding < anchor + Lifetime THEN now + Sliding ELSE anchor + Lifetime

(* renew: the end of a family only moves on.                               *)
Extended(f) ==
  IF Renewed(family[f].anchor) > family[f].expires THEN Renewed(family[f].anchor)
  ELSE family[f].expires

(* revoke_tokens and revoke_active_families.                               *)
RevokedTokens(tokens) ==
  [t \in Tokens |-> IF tokens[t] = NoToken THEN NoToken ELSE [tokens[t] EXCEPT !.revoked = TRUE]]
RevokedFamilies(families) ==
  [f \in Families |->
     IF families[f].state = "active" THEN [families[f] EXCEPT !.state = "revoked"]
     ELSE families[f]]

(* A grant of a login whose time is over registers nothing.                *)
Admitted(anchor) == Renewed(anchor) > now

(* store_device_session: a new family takes the place of what the device   *)
(* had.                                                                    *)
Store(anchor) ==
  LET expires == Renewed(anchor) IN
  /\ Admitted(anchor)
  /\ FreeFamilies # {} /\ FreeTokens # {}
  /\ family' = [RevokedFamilies(family) EXCEPT ![NewFamily] =
       [state |-> "active", anchor |-> anchor, expires |-> expires]]
  /\ token' = [RevokedTokens(token) EXCEPT ![NewToken] = Fresh(NewFamily, expires)]

(***************************************************************************)
(* authorize and register_and_store: the Bridge has no credentials and its *)
(* owner approves the computer now, or the desktop application hands it a  *)
(* grant of an earlier login.  The answer, or the vault, may fail it.      *)
(***************************************************************************)
CanRegister == vault = NoCredentials /\ ~Waiting

Register(anchor) ==
  /\ CanRegister /\ Store(anchor)
  /\ vault' = [state |-> "ready", token |-> NewToken, attempt |-> None,
               access |-> now + AccessTtl, expires |-> Renewed(anchor)]
  /\ UNCHANGED <<now, flying, late, attempts>>

RegisterUnanswered ==
  /\ CanRegister /\ late < MaxFamilies /\ late' = late + 1
  /\ UNCHANGED <<now, family, token, vault, flying, attempts>>

RegisterLate(anchor) ==
  /\ late > 0 /\ late' = late - 1
  /\ Store(anchor)
  /\ UNCHANGED <<now, vault, flying, attempts>>

(* The owner removes the computer (revoke_device_and_tokens).              *)
RevokeDevice ==
  /\ \E f \in Families : family[f].state = "active"
  /\ family' = RevokedFamilies(family)
  /\ token' = RevokedTokens(token)
  /\ UNCHANGED <<now, vault, flying, late, attempts>>

-----------------------------------------------------------------------------
(***************************************************************************)
(* active_session.  Credentials that are over are cleared; a session that  *)
(* is good for a while is the answer; anything else asks for a rotation,   *)
(* under the attempt in the vault or a new one that is written there first.*)
(***************************************************************************)
Over == vault # NoCredentials /\ vault.expires =< now

Expire ==
  /\ Over /\ ~Waiting
  /\ vault' = NoCredentials
  /\ UNCHANGED <<now, family, token, flying, late, attempts>>

(* Mutant: the request is announced, but not under which number.           *)
AskUnnumbered(attempt) ==
  /\ vault' = [vault EXCEPT !.state = "pending"]
  /\ flying' = flying \cup
       {[token |-> vault.token, attempt |-> attempt, sent |-> now, awaited |-> TRUE]}

Ask(attempt) ==
  /\ vault' = [vault EXCEPT !.state = "pending", !.attempt = attempt]
  /\ flying' = flying \cup
       {[token |-> vault.token, attempt |-> attempt, sent |-> now, awaited |-> TRUE]}

Refresh ==
  /\ vault.state = "ready" /\ ~Over /\ ~Waiting
  /\ vault.access =< now + Lead
  /\ attempts < MaxAttempts /\ attempts' = attempts + 1
  /\ Ask(attempts')
  /\ UNCHANGED <<now, family, token, late>>

Retry ==
  /\ vault.state = "pending" /\ ~Over /\ ~Waiting
  /\ Ask(vault.attempt)
  /\ UNCHANGED <<now, family, token, late, attempts>>

(* forget_device_session.                                                  *)
Forget ==
  /\ vault # NoCredentials /\ ~Waiting
  /\ vault' = NoCredentials
  /\ UNCHANGED <<now, family, token, flying, late, attempts>>

-----------------------------------------------------------------------------
(***************************************************************************)
(* refresh_device_session and rotate_refresh_transaction.                  *)
(***************************************************************************)
Live(t) == ~token[t].used /\ ~token[t].revoked /\ now < token[t].expires

(* Mutant: a used token is reported before its family is looked at.        *)
RefusesNew(q) ==
  LET row == token[q.token] IN
  ~row.used /\ (family[row.family].state # "active" \/ now >= family[row.family].expires
                \/ row.revoked \/ now >= row.expires \/ now > q.sent + ProofAge)

Refuses(q) ==
  LET row == token[q.token] IN
  \/ family[row.family].state # "active" \/ now >= family[row.family].expires
  \/ row.revoked \/ now >= row.expires
  \/ now > q.sent + ProofAge

(* replay_refresh_attempt.                                                 *)
Replays(q) ==
  LET row == token[q.token] IN
  row.used /\ row.salt /\ row.by = q.attempt /\ Live(row.next)

(* compromise_device, then revoke_device_and_tokens.                       *)
Compromise(q) ==
  /\ family' = RevokedFamilies([family EXCEPT ![token[q.token].family].state =
                 IF @ = "active" THEN "compromised" ELSE @])
  /\ token' = RevokedTokens(token)

(* Mutant: every earlier attempt can be repeated only until the next one   *)
(* begins.                                                                 *)
RotateForgetting(q) ==
  LET f == token[q.token].family
      expires == Extended(f)
  IN
  /\ FreeTokens # {}
  /\ family' = [family EXCEPT ![f].expires = expires]
  /\ token' = [t \in Tokens |->
       IF t = NewToken THEN Fresh(f, expires)
       ELSE IF t = q.token
         THEN [token[t] EXCEPT !.used = TRUE, !.by = q.attempt, !.next = NewToken]
       ELSE token[t]]

(* persist_refresh_replacement and record_refresh_attempt.  What issued    *)
(* the token that is used now cannot be repeated any more.                 *)
Rotate(q) ==
  LET f == token[q.token].family
      expires == Extended(f)
  IN
  /\ FreeTokens # {}
  /\ family' = [family EXCEPT ![f].expires = expires]
  /\ token' = [t \in Tokens |->
       IF t = NewToken THEN Fresh(f, expires)
       ELSE IF t = q.token
         THEN [token[t] EXCEPT !.used = TRUE, !.by = q.attempt, !.next = NewToken, !.salt = TRUE]
       ELSE IF token[t].next = q.token THEN [token[t] EXCEPT !.salt = FALSE]
       ELSE token[t]]

(* What the transaction does, and the credentials it answers with.         *)
Execute(q) ==
  IF Refuses(q) THEN UNCHANGED <<family, token>>
  ELSE IF ~token[q.token].used THEN Rotate(q)
  ELSE IF Replays(q) THEN UNCHANGED <<family, token>>
  ELSE Compromise(q)

Granted(q) == ~Refuses(q) /\ (~token[q.token].used \/ Replays(q))

(* Mutant: a refusal leaves the pending rotation in the vault.             *)
ServeKeepingRefused(q) ==
  /\ q.awaited /\ Execute(q)
  /\ LET next == token'[q.token].next
         f == token[q.token].family
     IN vault' = IF Granted(q)
                   THEN [state |-> "ready", token |-> next, attempt |-> None,
                         access |-> token'[next].access, expires |-> family'[f].expires]
                   ELSE vault
  /\ flying' = flying \ {q}
  /\ UNCHANGED <<now, late, attempts>>

(* resolve_refresh: new credentials are stored, a refusal clears the old.  *)
Serve(q) ==
  /\ q.awaited /\ Execute(q)
  /\ LET next == token'[q.token].next
         f == token[q.token].family
     IN vault' = IF Granted(q)
                   THEN [state |-> "ready", token |-> next, attempt |-> None,
                         access |-> token'[next].access, expires |-> family'[f].expires]
                   ELSE NoCredentials
  /\ flying' = flying \ {q}
  /\ UNCHANGED <<now, late, attempts>>

(* The request is carried out, but the answer is lost, the call was given  *)
(* up before, or the vault refuses the write.                              *)
ServeUnheard(q) ==
  /\ Execute(q)
  /\ flying' = flying \ {q}
  /\ UNCHANGED <<now, vault, late, attempts>>

Lose(q) ==
  /\ flying' = flying \ {q}
  /\ UNCHANGED <<now, family, token, vault, late, attempts>>

(* The call times out, is dropped, or the Bridge dies.                     *)
GiveUp(q) ==
  /\ q.awaited
  /\ flying' = (flying \ {q}) \cup {[q EXCEPT !.awaited = FALSE]}
  /\ UNCHANGED <<now, family, token, vault, late, attempts>>

Next ==
  \/ \E anchor \in 0..now : Register(anchor) \/ RegisterLate(anchor)
  \/ Tick \/ RegisterUnanswered \/ RevokeDevice
  \/ Expire \/ Refresh \/ Retry \/ Forget
  \/ \E q \in flying : Serve(q) \/ ServeUnheard(q) \/ Lose(q) \/ GiveUp(q)

Spec == Init /\ [][Next]_vars

(***************************************************************************)
(* maintain_device_session tries again after every failure; a call ends    *)
(* within its timeout; a control plane that is reached time and again      *)
(* answers one of the calls.                                               *)
(***************************************************************************)
Fairness ==
  /\ WF_vars(Retry) /\ WF_vars(Expire)
  /\ WF_vars(\E q \in flying : GiveUp(q))
  /\ SF_vars(\E q \in flying : Serve(q))

FairSpec == Spec /\ Fairness

-----------------------------------------------------------------------------
(***************************************************************************)
(* Whatever was lost, dropped or killed, the Bridge's next request is good *)
(* for a session as long as its family is: its token is unused, or used by *)
(* the very attempt the vault remembers, whose issue can be repeated.      *)
(***************************************************************************)
Recoverable ==
  vault # NoCredentials =>
    LET row == token[vault.token] IN
    family[row.family].state = "active" /\ now < vault.expires =>
      ~row.revoked /\ (row.used =>
        /\ vault.state = "pending" /\ row.by = vault.attempt
        /\ row.salt /\ Live(row.next))

(***************************************************************************)
(* A request left over from before the computer was authorised again never *)
(* ends the session it has now.                                            *)
(***************************************************************************)
LeftoverHarmless ==
  [][vault # NoCredentials =>
       LET f == token[vault.token].family IN
       (\E q \in flying \ flying' : token[q.token].family # f) => family'[f] = family[f]]_vars

(***************************************************************************)
(* A refresh whose outcome is unknown is settled in the end.               *)
(***************************************************************************)
RefreshSettles == vault.state = "pending" ~> vault.state # "pending"

(***************************************************************************)
(* "The control plane answers with the same new credentials and does not   *)
(* take the retry for a stolen token": only the Bridge asks here, so no    *)
(* family is ever compromised.                                             *)
(***************************************************************************)
RetryIsNoTheft == \A f \in Families : family[f].state # "compromised"
=============================================================================
