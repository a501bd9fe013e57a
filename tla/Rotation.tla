------------------------------ MODULE Rotation ------------------------------
(***************************************************************************)
(* The account rotation of a chat request (chatCompletions of              *)
(* internal/server/handler.go) for one realm and one model.                *)
(*                                                                         *)
(* A request goes round a loop of MaxRotate hops: choose an account, take  *)
(* a lease, refresh its token, call the upstream, and on a failure penalise*)
(* the account, wait and go on.  Three retries do not count as a hop, each *)
(* made once: the self-heal, the moved system text, the degraded prompt.   *)
(* Every step below is one critical section of the pool or one call.       *)
(***************************************************************************)
EXTENDS Naturals, FiniteSets, SequencesExt

CONSTANTS
    Requests, Accounts, None,
    MaxRotate,
    MaxInFlight,  \* per account; 0: no cap
    HealPeriod,   \* modelBlockSelfHealInterval in ticks
    WafThreshold  \* wafIPThreshold

ASSUME RotationAssumption ==
    /\ IsFiniteSet(Requests) /\ None \notin Accounts
    /\ MaxRotate \in Nat \ {0} /\ MaxInFlight \in Nat
    /\ HealPeriod \in Nat \ {0} /\ WafThreshold \in Nat \ {0}

VARIABLES
    state,     \* what the pool holds against each account
    inFlight,  \* leases out on each account
    healAge,   \* modelBlockHealAt: ticks since the last self-heal
    wafHits,   \* wafIP.hits: accounts that met the firewall in the window
    wafOn,     \* wafIP.active
    degraded,  \* degrade.Active
    req        \* the local variables of each request

vars == <<state, inFlight, healAge, wafHits, wafOn, degraded, req>>
gates == <<healAge, wafHits, wafOn, degraded>>

\* "locked": a running 11102 entry for this model; "cooling" covers the deadlines
\* the fallback passes, "out" what it does not: stops, floors and 6004 locks.
States == {"well", "cooling", "locked", "out"}

\* flexible: prompt mode and body allow the body to be rewritten.
NewRequest(flexible) ==
    [flexible |-> flexible, pc |-> "begin", hop |-> 0, tried |-> {}, acct |-> None, held |-> None,
     sticky |-> None, moved |-> FALSE, degraded |-> FALSE, cleared |-> FALSE,
     sent |-> <<>>]

Init ==
    /\ state = [a \in Accounts |-> "well"]
    /\ inFlight = [a \in Accounts |-> 0]
    /\ healAge = HealPeriod
    /\ wafHits = {} /\ wafOn = FALSE
    /\ degraded = FALSE
    /\ req \in [Requests -> {NewRequest(b) : b \in BOOLEAN}]

At(r, pc) == req[r].pc = pc
Become(r, x) == req' = [req EXCEPT ![r] = x]

Full(a) == MaxInFlight > 0 /\ inFlight[a] >= MaxInFlight

\* The sticky account of the session is looked up (module Session), and the body
\* is rewritten at once while the degradation lasts.
Begin(r) ==
    /\ At(r, "begin")
    /\ \E s \in Accounts \cup {None} :
          Become(r, [req[r] EXCEPT !.pc = "pick", !.sticky = s,
                                   !.degraded = req[r].flexible /\ degraded])
    /\ UNCHANGED <<state, inFlight, gates>>

-----------------------------------------------------------------------------
\* Choosing.

Chosen(x, a) == [x EXCEPT !.pc = "take", !.acct = a, !.tried = @ \cup {a}]

\* PickByUIDForModel on the sticky account; it does not look at tried.
PickSticky(r) ==
    /\ At(r, "pick") /\ req[r].sticky # None
    /\ IF state[req[r].sticky] = "well" /\ ~Full(req[r].sticky)
       THEN Become(r, Chosen(req[r], req[r].sticky))
       ELSE Become(r, [req[r] EXCEPT !.sticky = None])
    /\ UNCHANGED <<state, inFlight, gates>>

\* pick: anybody well, else the fallback to an account that is cooling.
Candidates(r, s) == {a \in Accounts \ req[r].tried : state[a] = s /\ ~Full(a)}

Pick(r) ==
    /\ At(r, "pick") /\ req[r].sticky = None
    /\ LET well == Candidates(r, "well")
           cands == IF well # {} THEN well ELSE Candidates(r, "cooling")
       IN  \/ \E a \in cands : Become(r, Chosen(req[r], a))
           \/ cands = {} /\ Become(r, [req[r] EXCEPT !.pc = "nobody"])
    /\ UNCHANGED <<state, inFlight, gates>>

-----------------------------------------------------------------------------
\* Nobody to choose: the self-heal, in four critical sections.

\* ModelBlockedNow: every account that takes part is locked for the model.
Blocked == LET taking == {a \in Accounts : state[a] # "out"}
           IN  taking # {} /\ \A a \in taking : state[a] = "locked"

Done(x) == [x EXCEPT !.pc = "done"]

\* (The lock that opens first may be a 6004: then nothing is healed.)
HealCheck(r) ==
    /\ At(r, "nobody")
    /\ \/ ~req[r].cleared /\ Blocked /\ Become(r, [req[r] EXCEPT !.pc = "gate"])
       \/ Become(r, Done(req[r]))
    /\ UNCHANGED <<state, inFlight, gates>>

\* allowModelBlockSelfHeal
HealGate(r) ==
    /\ At(r, "gate")
    /\ IF healAge >= HealPeriod
       THEN healAge' = 0 /\ Become(r, [req[r] EXCEPT !.pc = "clear"])
       ELSE Become(r, Done(req[r])) /\ UNCHANGED healAge
    /\ UNCHANGED <<state, inFlight, wafHits, wafOn, degraded>>

\* ClearModelBlocksForRealm; nothing cleared, nothing gained.
HealClear(r) ==
    /\ At(r, "clear")
    /\ state' = [a \in Accounts |-> IF state[a] = "locked" THEN "well" ELSE state[a]]
    /\ Become(r, IF state' # state THEN [req[r] EXCEPT !.pc = "recheck"] ELSE Done(req[r]))
    /\ UNCHANGED <<inFlight, gates>>

MutHealRecheck(r) ==
    /\ At(r, "recheck")
    /\ Become(r, IF Blocked THEN Done(req[r])
                 ELSE [req[r] EXCEPT !.pc = "pick", !.tried = {}])
    /\ UNCHANGED <<state, inFlight, gates>>
HealRecheck(r) ==
    /\ At(r, "recheck")
    /\ Become(r, IF Blocked THEN Done(req[r])
                 ELSE [req[r] EXCEPT !.pc = "pick", !.cleared = TRUE, !.tried = {}])
    /\ UNCHANGED <<state, inFlight, gates>>

-----------------------------------------------------------------------------
\* The lease, the token, the call.

Backoff(x) == [x EXCEPT !.pc = "backoff", !.acct = None]

Unsticky(x, a) == IF x.sticky = a THEN [x EXCEPT !.sticky = None] ELSE x

\* AcquireModel
Take(r) ==
    LET a == req[r].acct
    IN  /\ At(r, "take")
        /\ IF Full(a)
           THEN Become(r, Backoff(Unsticky(req[r], a))) /\ UNCHANGED inFlight
           ELSE /\ inFlight' = [inFlight EXCEPT ![a] = @ + 1]
                /\ Become(r, [req[r] EXCEPT !.held = a, !.pc = "token"])
        /\ UNCHANGED <<state, gates>>

\* The token is good, or was refreshed: ChatStreamContext.
Send(r) ==
    /\ At(r, "token")
    /\ Become(r, [req[r] EXCEPT !.pc = "sent",
          !.sent = Append(@, <<req[r].acct, req[r].moved, req[r].degraded, req[r].cleared>>)])
    /\ UNCHANGED <<state, inFlight, gates>>

\* ReleaseModel of the lease held, and the request goes on as x.
Released(r, x) ==
    /\ inFlight' = [inFlight EXCEPT ![req[r].held] = @ - 1]
    /\ Become(r, [x EXCEPT !.held = None])

\* fail: release, and unbind the sticky account if it is the one.
MutFail(r, x) == Released(r, x)
Fail(r, x) == Released(r, Unsticky(x, req[r].acct))

\* The account pays for it, or has paid already by the time.
Penalised(a, s) == state' = [state EXCEPT ![a] = s]

MutTokenRejected(r) ==
    /\ At(r, "token")
    /\ \E s \in {"well", "cooling", "out"} : Penalised(req[r].acct, s)
    /\ Become(r, Unsticky(Backoff(req[r]), req[r].acct)) /\ UNCHANGED <<inFlight, gates>>
TokenRejected(r) ==
    /\ At(r, "token")
    /\ \E s \in {"well", "cooling", "out"} : Penalised(req[r].acct, s)
    /\ Fail(r, Backoff(req[r])) /\ UNCHANGED gates

-----------------------------------------------------------------------------
\* What the upstream answers.

\* Rate limits, empty balances, bans, 404, 5xx, unknown 4xx, broken transport
\* (a failure the client caused leaves the account alone).
AccountFails(r) ==
    /\ At(r, "sent")
    /\ \E s \in {"well", "cooling", "locked", "out"} : Penalised(req[r].acct, s)
    /\ Fail(r, Backoff(req[r])) /\ UNCHANGED gates

\* A 403 of the firewall: the same, unless noteWaf finds the gateway's address
\* blocked; then another account is no use.
Firewall(r) ==
    LET hits == wafHits \cup {req[r].acct}
        ipBlocked == wafOn \/ Cardinality(hits) >= WafThreshold
    IN  /\ At(r, "sent")
        /\ Penalised(req[r].acct, "cooling")
        /\ wafOn' = ipBlocked
        /\ wafHits' = IF wafOn THEN wafHits ELSE IF ipBlocked THEN {} ELSE hits
        /\ Fail(r, IF ipBlocked THEN Done(req[r]) ELSE Backoff(req[r]))
        /\ UNCHANGED <<healAge, degraded>>

\* 11-128: the request is refused, not the account.  Once, if the prompt mode
\* allows and there is system text, that text moves to the first user message.
MoveSystem(r) ==
    /\ At(r, "sent") /\ req[r].flexible /\ ~req[r].moved
    /\ Released(r, [req[r] EXCEPT !.pc = "pick", !.moved = TRUE, !.tried = @ \ {req[r].acct}])
    /\ UNCHANGED <<state, gates>>

\* Content filter: once, the degraded prompt, for every request until midnight.
MutDegrade(r) ==
    /\ At(r, "sent") /\ req[r].flexible
    /\ degraded' = TRUE
    /\ Released(r, [req[r] EXCEPT !.pc = "pick", !.degraded = TRUE, !.tried = @ \ {req[r].acct}])
    /\ UNCHANGED <<state, healAge, wafHits, wafOn>>
Degrade(r) ==
    /\ At(r, "sent") /\ req[r].flexible /\ ~req[r].degraded
    /\ degraded' = TRUE
    /\ Released(r, [req[r] EXCEPT !.pc = "pick", !.degraded = TRUE, !.tried = @ \ {req[r].acct}])
    /\ UNCHANGED <<state, healAge, wafHits, wafOn>>

\* Refused for good, timed out, a broken or a rejected stream: the end, without a
\* word on the account.
RequestFails(r) ==
    /\ At(r, "sent")
    /\ Released(r, Done(req[r])) \/ Fail(r, Done(req[r]))
    /\ UNCHANGED <<state, gates>>

\* An error frame in a stream under way: the account pays, the request ends.
ErrorFrame(r) ==
    /\ At(r, "sent")
    /\ \E s \in States : Penalised(req[r].acct, s)
    /\ Fail(r, Done(req[r])) /\ UNCHANGED gates

\* NoteSuccess and BlockModelClear: the model is there after all.
Succeed(r) ==
    LET a == req[r].acct
    IN  /\ At(r, "sent")
        /\ \E s \in {"well", state[a]} \ {"locked"} : Penalised(a, s)
        /\ Released(r, Done(req[r])) /\ UNCHANGED gates

\* rotateBackoff before the next hop; a client that has left by then ends it.
MutWait(r) ==
    /\ At(r, "backoff")
    /\ \/ Become(r, Done(req[r]))
       \/ /\ req[r].hop + 1 <= MaxRotate
          /\ Become(r, [req[r] EXCEPT !.pc = "pick", !.hop = @ + 1])
    /\ UNCHANGED <<state, inFlight, gates>>
Wait(r) ==
    /\ At(r, "backoff")
    /\ \/ Become(r, Done(req[r]))
       \/ /\ req[r].hop + 1 < MaxRotate
          /\ Become(r, [req[r] EXCEPT !.pc = "pick", !.hop = @ + 1])
    /\ UNCHANGED <<state, inFlight, gates>>

-----------------------------------------------------------------------------
\* The clock, and everybody else who changes accounts.

PoolChanges ==
    /\ \E a \in Accounts, s \in States : Penalised(a, s)
    /\ UNCHANGED <<inFlight, gates, req>>

Tick ==
    /\ healAge' = IF healAge < HealPeriod THEN healAge + 1 ELSE healAge
    /\ wafHits' \in SUBSET wafHits /\ wafOn' \in {wafOn, FALSE}
    /\ degraded' \in {degraded, FALSE}
    /\ UNCHANGED <<state, inFlight, req>>

Step(r) ==
    \/ Begin(r) \/ PickSticky(r) \/ Pick(r)
    \/ HealCheck(r) \/ HealGate(r) \/ HealClear(r) \/ HealRecheck(r)
    \/ Take(r) \/ Send(r) \/ TokenRejected(r)
    \/ AccountFails(r) \/ Firewall(r) \/ MoveSystem(r) \/ Degrade(r)
    \/ RequestFails(r) \/ ErrorFrame(r) \/ Succeed(r) \/ Wait(r)

Next ==
    \/ \E r \in Requests : Step(r)
    \/ PoolChanges \/ Tick

Spec == Init /\ [][Next]_vars

-----------------------------------------------------------------------------
(***************************************************************************)
(* Properties.                                                             *)
(***************************************************************************)

TypeOK ==
    /\ state \in [Accounts -> States]
    /\ inFlight \in [Accounts -> Nat]
    /\ healAge \in 0 .. HealPeriod
    /\ wafHits \subseteq Accounts /\ wafOn \in BOOLEAN /\ degraded \in BOOLEAN
    /\ \A r \in Requests :
          /\ req[r].hop \in 0 .. MaxRotate - 1 /\ req[r].tried \subseteq Accounts
          /\ {req[r].acct, req[r].held, req[r].sticky} \subseteq Accounts \cup {None}

\* Through retries, failures and early ends a request holds one lease at most and
\* gives every one back: the accounts' counters are the leases held.
LeasesMatch ==
    /\ \A a \in Accounts : inFlight[a] = Cardinality({r \in Requests : req[r].held = a})
    /\ \A r \in Requests : At(r, "done") => req[r].held = None

\* A request costs at most MaxRotate calls and one for each free retry.
CallBudget == \A r \in Requests : Len(req[r].sent) <= MaxRotate + 2

\* No account is asked the same thing twice by one request: a retry has another
\* body, or follows a self-heal; a sticky account that failed is let go.
NeverAsksTwice == \A r \in Requests : IsInjective(req[r].sent)

\* Every step of a request brings it closer to its end, whatever accounts, other
\* requests and the upstream do: the free retries, which do not count as a hop,
\* cannot go round for ever.
Turns(x) == MaxRotate - x.hop + Cardinality({f \in {"moved", "degraded", "cleared"} : ~x[f]})

Place(x) == CASE x.pc = "begin"   -> 11
              [] x.pc = "pick"    -> IF x.sticky = None THEN 9 ELSE 10
              [] x.pc = "nobody"  -> 8
              [] x.pc = "gate"    -> 7
              [] x.pc = "clear"   -> 6
              [] x.pc = "recheck" -> 5
              [] x.pc = "take"    -> 4
              [] x.pc = "token"   -> 3
              [] x.pc = "sent"    -> 2
              [] x.pc = "backoff" -> 1
              [] OTHER            -> 0

Nearer(x, y) == Turns(y) < Turns(x) \/ (Turns(y) = Turns(x) /\ Place(y) < Place(x))

AlwaysNearer == [][\A r \in Requests : req'[r] # req[r] => Nearer(req[r], req'[r])]_vars
=============================================================================
