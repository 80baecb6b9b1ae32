-------------------------- MODULE AutomationGrant --------------------------
(***************************************************************************)
(* Authority to speak unattended.  A principal grants an agent so many     *)
(* messages a minute and in total for a limited time; every autonomous     *)
(* send asks the control plane first, which looks at the grant, inspects   *)
(* the sender, the room and the text, and then charges the submission to   *)
(* the grant in one transaction that starts by locking the agent's row.    *)
(* The request's time is read once, when it comes in, and used throughout. *)
(* Records of denials are left out.                                        *)
(***************************************************************************)
EXTENDS Naturals, FiniteSets

CONSTANTS
  Grants,       \* grant ids, all for one agent in one room
  Instances,    \* the agent's instances, one per computer
  Principals,   \* owners and operators of the agent
  Submissions,  \* submission ids
  Shapes,       \* what consumption_matches compares: message kind, audience, scan
  Requests,     \* authorization requests under way
  None,
  Principal,    \* Principal[i]: whose device instance i runs on
  PerMinute,    \* max_messages_per_minute
  MaxTotal,     \* max_total_messages
  Lifetime,     \* what a grant lasts
  Minute,       \* the length of a rate window
  MaxTime,      \* bound on the clock
  MaxRuns       \* bound on the runs of the background receiver

ASSUME GrantAssumption ==
  /\ Principal \in [Instances -> Principals]
  /\ PerMinute \in Nat \ {0} /\ MaxTotal \in Nat \ {0}
  /\ Lifetime \in Nat \ {0} /\ Minute \in Nat \ {0} /\ MaxTime \in Nat /\ MaxRuns \in Nat
  /\ None \notin Grants \cup Instances \cup Principals \cup Submissions \cup Shapes

VARIABLES
  now,       \* the control plane's clock
  grant,     \* grant[g]: the row of g
  used,      \* used[s]: the consumption charged for s
  executor,  \* the execution record: its run, instance and the submission it names
  gone,      \* principals without authority over the agent any more
  request    \* request[k]: an authorization request

vars == <<now, grant, used, executor, gone, request>>

(* A row: who gave it, for which instance (None for any) and shapes.       *)
States == {"active", "revoked", "exhausted", "expired"}
Row == [state : States, grantor : Principals, instance : Instances \cup {None},
        shapes : SUBSET Shapes, starts : Nat, expires : Nat, revoked : Nat]
NoGrant == [state |-> "none", grantor |-> None, instance |-> None, shapes |-> {},
            starts |-> 0, expires |-> 0, revoked |-> 0]
Unused == [grant |-> None, instance |-> None, shape |-> None, window |-> 0]
NoRecord == [mode |-> "none", run |-> 0, instance |-> None, sub |-> None]
Quiet == [at |-> "idle", sub |-> None, grant |-> None, instance |-> None, shape |-> None,
          run |-> 0, now |-> 0]
Answered(outcome) == [Quiet EXCEPT !.at = outcome]

TypeOK ==
  /\ now \in Nat
  /\ grant \in [Grants -> {NoGrant} \cup Row]
  /\ used \in [Submissions -> {Unused} \cup
       [grant : Grants, instance : Instances, shape : Shapes, window : Nat]]
  /\ executor \in {NoRecord} \cup
       [mode : {"active", "stopped"}, run : Nat \ {0}, instance : Instances,
        sub : Submissions \cup {None}]
  /\ gone \subseteq Principals
  /\ request \in [Requests -> {Quiet, Answered("authorized"), Answered("denied")} \cup
       [at : {"consume"}, sub : Submissions, grant : Grants,
        instance : Instances, shape : Shapes, run : Nat, now : Nat]]

Init ==
  /\ now = 0
  /\ grant = [g \in Grants |-> NoGrant]
  /\ used = [s \in Submissions |-> Unused]
  /\ executor = NoRecord
  /\ gone = {}
  /\ request = [k \in Requests |-> Quiet]

Tick ==
  /\ now < MaxTime /\ now' = now + 1
  /\ UNCHANGED <<grant, used, executor, gone, request>>

-----------------------------------------------------------------------------
(***************************************************************************)
(* Rows of grants.                                                         *)
(***************************************************************************)
Due(r, t) == r.state = "active" /\ r.expires =< t

(* Mutant: a used-up grant expires, too.                                   *)
AgedAlways(r, t) ==
  IF r.state # "none" /\ r.expires =< t THEN [r EXCEPT !.state = "expired"] ELSE r

(* expire_grants: an active grant whose time is over.                      *)
Aged(r, t) == IF Due(r, t) THEN [r EXCEPT !.state = "expired"] ELSE r

(* may_create: an instance named in the scope is one of the grantor's.     *)
Create(g, p, i, shapes) ==
  /\ grant[g] = NoGrant /\ p \notin gone
  /\ i # None => Principal[i] = p
  /\ grant' = [grant EXCEPT ![g] =
       [state |-> "active", grantor |-> p, instance |-> i, shapes |-> shapes,
        starts |-> now, expires |-> now + Lifetime, revoked |-> 0]]
  /\ UNCHANGED <<now, used, executor, gone, request>>

(* list_for_principal.                                                     *)
List(p) ==
  /\ \E g \in Grants : grant[g].grantor = p /\ Due(grant[g], now)
  /\ grant' = [g \in Grants |-> IF grant[g].grantor = p THEN Aged(grant[g], now) ELSE grant[g]]
  /\ UNCHANGED <<now, used, executor, gone, request>>

(* revoke_automation_grant, at the time t its request came in.             *)
Revoke(g, t) ==
  LET r == Aged(grant[g], t) IN
  /\ grant[g].state = "active" /\ grant[g].starts =< t
  /\ grant' = [grant EXCEPT ![g] =
       IF r.state = "active" THEN [r EXCEPT !.state = "revoked", !.revoked = t] ELSE r]
  /\ UNCHANGED <<now, used, executor, gone, request>>

(* What retiring an agent and deleting an account do to grants that are    *)
(* active in the table.                                                    *)
RevokeAll(gs) ==
  grant' = [g \in Grants |->
    IF g \in gs /\ grant[g].state = "active"
      THEN [grant[g] EXCEPT !.state = "revoked", !.revoked = now] ELSE grant[g]]

DeleteAccount(p) ==
  /\ p \notin gone /\ gone' = gone \cup {p}
  /\ RevokeAll({g \in Grants : grant[g].grantor = p})
  /\ UNCHANGED <<now, used, executor, request>>

RetireAgent ==
  /\ gone # Principals /\ gone' = Principals
  /\ RevokeAll(Grants)
  /\ UNCHANGED <<now, used, executor, request>>

-----------------------------------------------------------------------------
(***************************************************************************)
(* The execution record of ReceptionRecord, as far as                      *)
(* require_reception_owner looks at it.                                    *)
(***************************************************************************)
Claim(i) ==
  /\ executor.mode # "active" /\ executor.run < MaxRuns
  /\ executor' = [executor EXCEPT !.mode = "active", !.run = @ + 1, !.instance = i]
  /\ UNCHANGED <<now, grant, used, gone, request>>

(* A delivery is begun or completed.                                       *)
Deliver(s) ==
  /\ executor.mode = "active" /\ executor' = [executor EXCEPT !.sub = s]
  /\ UNCHANGED <<now, grant, used, gone, request>>

Stop ==
  /\ executor.mode = "active" /\ executor' = [executor EXCEPT !.mode = "stopped"]
  /\ UNCHANGED <<now, grant, used, gone, request>>

Permitted(q) ==
  IF executor.mode = "none" THEN q.run = 0
  ELSE executor.mode = "active" /\ executor.run = q.run /\ executor.instance = q.instance
       /\ executor.sub = q.sub

-----------------------------------------------------------------------------
(***************************************************************************)
(* authorize_send.                                                         *)
(***************************************************************************)
Answer(k, outcome) == request' = [request EXCEPT ![k] = Answered(outcome)]

(* evaluate_policy: everything but the usage.                              *)
Policy(r, q) ==
  /\ r.state \in {"active", "exhausted"}
  /\ r.starts =< q.now /\ q.now < r.expires
  /\ r.instance \in {None, q.instance}
  /\ q.shape \in r.shapes

(***************************************************************************)
(* load_and_precheck, which lets the grant expire, and the grantor's       *)
(* authority.  A receiver names its run, other work has none.              *)
(***************************************************************************)
Check(k, s, g, i, shape, run) ==
  LET q == [at |-> "consume", sub |-> s, grant |-> g, instance |-> i, shape |-> shape,
            run |-> run, now |-> now]
      r == Aged(grant[g], now)
  IN
  /\ request[k].at # "consume"
  /\ grant' = [grant EXCEPT ![g] = r]
  /\ IF r.grantor = Principal[i] /\ r.grantor \notin gone /\ Policy(r, q)
       THEN request' = [request EXCEPT ![k] = q]
       ELSE Answer(k, "denied")
  /\ UNCHANGED <<now, used, executor, gone>>

(* apply_current_authority refuses the sender, the room or the text,       *)
(* something is down, or the requester gives up.                           *)
Fail(k) ==
  /\ request[k].at = "consume"
  /\ Answer(k, "idle")
  /\ UNCHANGED <<now, grant, used, executor, gone>>

-----------------------------------------------------------------------------
(***************************************************************************)
(* consume_in_transaction.                                                 *)
(***************************************************************************)
ChargedTo(g) == {s \in Submissions : used[s].grant = g}
Total(g) == Cardinality(ChargedTo(g))

(* Mutant: the last minute instead of the current one.                     *)
WindowBefore(t) == t - Minute

(* minute_window_start.                                                    *)
Window(t) == t - (t % Minute)
InWindow(g, w) == Cardinality({s \in ChargedTo(g) : used[s].window = w})

(* consumption_matches: a receiver may go on with another grant and on     *)
(* another computer.                                                       *)
Matches(u, q) ==
  /\ q.run # 0 \/ (u.grant = q.grant /\ u.instance = q.instance)
  /\ u.shape = q.shape

ConsumeFails(k) ==
  LET q == request[k] IN
  /\ q.at = "consume"
  /\ \/ ~Permitted(q)
     \/ used[q.sub] # Unused /\ ~Matches(used[q.sub], q)
     \/ used[q.sub] # Unused /\ grant[used[q.sub].grant].grantor # grant[q.grant].grantor
  /\ Answer(k, "idle")
  /\ UNCHANGED <<now, grant, used, executor, gone>>

(* Mutant: what was authorised once stays authorised.                      *)
ConsumeAgainFreely(k) ==
  LET q == request[k] IN
  /\ q.at = "consume" /\ Permitted(q)
  /\ used[q.sub] # Unused /\ Matches(used[q.sub], q)
  /\ Answer(k, "authorized")
  /\ UNCHANGED <<now, grant, used, executor, gone>>

(* Mutant: a repeated submission is weighed against the limits again.      *)
ConsumeAgainLimited(k) ==
  LET q == request[k]
      r == Aged(grant[q.grant], q.now)
  IN
  /\ q.at = "consume" /\ Permitted(q)
  /\ used[q.sub] # Unused /\ Matches(used[q.sub], q)
  /\ grant[used[q.sub].grant].grantor = grant[q.grant].grantor
  /\ grant' = [grant EXCEPT ![q.grant] = r]
  /\ Answer(k, IF Policy(r, q) /\ r.state = "active" THEN "authorized" ELSE "denied")
  /\ UNCHANGED <<now, used, executor, gone>>

(* The submission has been charged: the policy is asked again, not usage.  *)
ConsumeAgain(k) ==
  LET q == request[k]
      r == Aged(grant[q.grant], q.now)
  IN
  /\ q.at = "consume" /\ Permitted(q)
  /\ used[q.sub] # Unused /\ Matches(used[q.sub], q)
  /\ grant[used[q.sub].grant].grantor = grant[q.grant].grantor
  /\ grant' = [grant EXCEPT ![q.grant] = r]
  /\ Answer(k, IF Policy(r, q) THEN "authorized" ELSE "denied")
  /\ UNCHANGED <<now, used, executor, gone>>

(* Mutant: usage is counted in the minute that is current, the charge      *)
(* booked in the request's.                                                *)
AllowsNow(r, q) ==
  /\ Policy(r, q) /\ r.state = "active"
  /\ Total(q.grant) < MaxTotal /\ InWindow(q.grant, Window(now)) < PerMinute

(* evaluate: the policy and the usage.                                     *)
Allows(r, q) ==
  /\ Policy(r, q) /\ r.state = "active"
  /\ Total(q.grant) < MaxTotal /\ InWindow(q.grant, Window(q.now)) < PerMinute

(* Mutant: the grant is used up one message late.                          *)
ChargedLate(r, g) == IF Total(g) >= MaxTotal THEN [r EXCEPT !.state = "exhausted"] ELSE r

(* The grant after one more message.                                       *)
Charged(r, g) == IF Total(g) + 1 >= MaxTotal THEN [r EXCEPT !.state = "exhausted"] ELSE r

ConsumeNew(k) ==
  LET q == request[k]
      r == Aged(grant[q.grant], q.now)
      allowed == Allows(r, q)
  IN
  /\ q.at = "consume" /\ Permitted(q)
  /\ used[q.sub] = Unused
  /\ grant' = [grant EXCEPT ![q.grant] = IF allowed THEN Charged(r, q.grant) ELSE r]
  /\ used' = IF allowed
               THEN [used EXCEPT ![q.sub] = [grant |-> q.grant, instance |-> q.instance,
                                             shape |-> q.shape, window |-> Window(q.now)]]
               ELSE used
  /\ Answer(k, IF allowed THEN "authorized" ELSE "denied")
  /\ UNCHANGED <<now, executor, gone>>

Consume(k) == ConsumeFails(k) \/ ConsumeAgain(k) \/ ConsumeNew(k)

Next ==
  \/ Tick \/ Stop \/ RetireAgent
  \/ \E g \in Grants, p \in Principals, i \in Instances \cup {None}, shapes \in SUBSET Shapes \ {{}} :
       Create(g, p, i, shapes)
  \/ \E g \in Grants, t \in 0..now : Revoke(g, t)
  \/ \E p \in Principals : List(p) \/ DeleteAccount(p)
  \/ \E s \in Submissions \cup {None} : Deliver(s)
  \/ \E i \in Instances : Claim(i)
  \/ \E k \in Requests, s \in Submissions, g \in Grants, i \in Instances, shape \in Shapes :
       \E run \in {0, executor.run} : Check(k, s, g, i, shape, run)
  \/ \E k \in Requests : Fail(k) \/ Consume(k)

Spec == Init /\ [][Next]_vars

-----------------------------------------------------------------------------
(***************************************************************************)
(* However requests overlap, are repeated or arrive late, no grant pays    *)
(* for more than its total, nor for more than its rate in any window.      *)
(***************************************************************************)
WithinLimits ==
  \A g \in Grants :
    /\ Total(g) =< MaxTotal
    /\ \A s \in ChargedTo(g) : InWindow(g, used[s].window) =< PerMinute

(***************************************************************************)
(* A grant shows as used up exactly when it is, so that revoking, expiring *)
(* and charging it never disagree about what is left.                      *)
(***************************************************************************)
ExhaustedMeansSpent ==
  \A g \in Grants :
    /\ grant[g].state = "active" => Total(g) < MaxTotal
    /\ grant[g].state = "exhausted" => Total(g) = MaxTotal

(***************************************************************************)
(* Whoever was told it may send has been charged, to a grant of the same   *)
(* principal, even when another computer took over and asks again with its *)
(* own grant.                                                              *)
(***************************************************************************)
AuthorizedIsPaid ==
  [][\A k \in Requests : request[k].at = "consume" /\ request'[k].at = "authorized" =>
       LET payer == used'[request[k].sub].grant IN
       payer \in Grants /\ grant[payer].grantor = Principal[request[k].instance]]_vars

(***************************************************************************)
(* "Once a revocation is committed nothing is let through": no request is  *)
(* authorised by a grant that was revoked or has expired, though it was    *)
(* checked before, or charged before.                                      *)
(***************************************************************************)
NoneAfterTheEnd ==
  [][\A k \in Requests :
       request[k].at = "consume" /\ request'[k].at = "authorized" =>
         grant[request[k].grant].state \in {"active", "exhausted"}]_vars

(***************************************************************************)
(* A submission that took the last message of a grant and lost the answer  *)
(* may still be repeated: the limits refuse only what is not paid.         *)
(***************************************************************************)
NeverStranded ==
  [][\A k \in Requests :
       /\ request[k].at = "consume" /\ grant[request[k].grant].state = "exhausted"
       /\ Policy(grant[request[k].grant], request[k]) /\ Permitted(request[k])
       /\ used[request[k].sub].grant = request[k].grant
       /\ Matches(used[request[k].sub], request[k])
       => request'[k].at # "denied"]_vars

(***************************************************************************)
(* A grant that ended stays as it ended, and what was charged stays        *)
(* charged in its window, whatever ends, repeats or moves afterwards.      *)
(***************************************************************************)
LedgerIsFinal ==
  [][/\ \A g \in Grants : grant[g].state \in States \ {"active"} => grant'[g] = grant[g]
     /\ \A s \in Submissions : used[s] # Unused => used'[s] = used[s]]_vars

(***************************************************************************)
(* What AutomationGrant::restore asserts of a row: a revocation lies in    *)
(* the grant's lifetime.                                                   *)
(***************************************************************************)
RowsRestorable ==
  \A g \in Grants : grant[g].state = "revoked" =>
    grant[g].starts =< grant[g].revoked /\ grant[g].revoked < grant[g].expires
=============================================================================
