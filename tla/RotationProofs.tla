--------------------------- MODULE RotationProofs ---------------------------
(***************************************************************************)
(* Proofs about Rotation, for any number of requests, accounts and hops.   *)
(*                                                                         *)
(* A request's variables are one record, and a step of a request changes   *)
(* its own record only; so most of the proof is about what one step does   *)
(* to a record, without the rest of the state.                             *)
(***************************************************************************)
EXTENDS Rotation, FiniteSetTheorems, SequenceTheorems, TLAPS

Places == {"begin", "pick", "nobody", "gate", "clear", "recheck", "take", "token",
           "sent", "backoff", "done"}

Call == Accounts \X BOOLEAN \X BOOLEAN \X BOOLEAN

Request ==
    [flexible : BOOLEAN, pc : Places, hop : 0 .. MaxRotate - 1, tried : SUBSET Accounts,
     acct : Accounts \cup {None}, held : Accounts \cup {None}, sticky : Accounts \cup {None},
     moved : BOOLEAN, degraded : BOOLEAN, cleared : BOOLEAN, sent : Seq(Call)]

\* A lease is held from Take to the answer, on the account chosen.
Leased(x) ==
    /\ x.pc \in {"take", "token", "sent"} => x.acct \in Accounts
    /\ x.held = IF x.pc \in {"token", "sent"} THEN x.acct ELSE None

One(b) == IF b THEN 1 ELSE 0

\* Every hop and every free retry with another body allows one call.
Paced(x) ==
    /\ x.pc = "begin" => Len(x.sent) = 0
    /\ Len(x.sent) <= x.hop + One(x.moved) + One(x.degraded)
                            + One(x.pc \in {"sent", "backoff", "done"})

Good(x) == x \in Request /\ Leased(x) /\ Paced(x)

-----------------------------------------------------------------------------
(***************************************************************************)
(* What a step makes of a request's record x.                              *)
(***************************************************************************)

Begun(x, y) ==
    /\ x.pc = "begin"
    /\ \E s \in Accounts \cup {None}, b \in BOOLEAN :
          y = [x EXCEPT !.pc = "pick", !.sticky = s, !.degraded = b]

Unstuck(x, y) == x.pc = "pick" /\ x.sticky # None /\ y = [x EXCEPT !.sticky = None]

Picked(x, y) ==
    /\ x.pc = "pick"
    /\ \E a \in Accounts : /\ a = x.sticky \/ (x.sticky = None /\ a \notin x.tried)
                           /\ y = Chosen(x, a)

\* From one critical section of the choice or the self-heal to the next.
Healing(x, y) ==
    \/ x.pc = "pick" /\ x.sticky = None /\ y = [x EXCEPT !.pc = "nobody"]
    \/ x.pc = "nobody" /\ ~x.cleared /\ y = [x EXCEPT !.pc = "gate"]
    \/ x.pc = "gate" /\ y = [x EXCEPT !.pc = "clear"]
    \/ x.pc = "clear" /\ y = [x EXCEPT !.pc = "recheck"]

Healed(x, y) ==
    /\ x.pc = "recheck"
    /\ y = [x EXCEPT !.pc = "pick", !.cleared = TRUE, !.tried = {}]

Stopped(x, y) == x.pc \in {"nobody", "gate", "clear", "recheck", "backoff"} /\ y = Done(x)

Refused(x, y) == x.pc = "take" /\ y = Backoff(Unsticky(x, x.acct))

Taken(x, y) == x.pc = "take" /\ y = [x EXCEPT !.held = x.acct, !.pc = "token"]

Sent(x, y) ==
    /\ x.pc = "token"
    /\ y = [x EXCEPT !.pc = "sent",
               !.sent = Append(@, <<x.acct, x.moved, x.degraded, x.cleared>>)]

Ended(x, y) ==
    /\ x.pc = "sent"
    /\ \/ y = [Done(x) EXCEPT !.held = None]
       \/ y = [Unsticky(Done(x), x.acct) EXCEPT !.held = None]

Failed(x, y) ==
    /\ x.pc \in {"token", "sent"}
    /\ y = [Unsticky(Backoff(x), x.acct) EXCEPT !.held = None]

Rewritten(x, y) ==
    /\ x.pc = "sent"
    /\ \/ /\ ~x.moved
          /\ y = [x EXCEPT !.pc = "pick", !.moved = TRUE, !.tried = @ \ {x.acct}, !.held = None]
       \/ /\ ~x.degraded
          /\ y = [x EXCEPT !.pc = "pick", !.degraded = TRUE, !.tried = @ \ {x.acct},
                           !.held = None]

Waited(x, y) ==
    /\ x.pc = "backoff" /\ x.hop + 1 < MaxRotate
    /\ y = [x EXCEPT !.pc = "pick", !.hop = @ + 1]

Moved(x, y) ==
    \/ Begun(x, y) \/ Unstuck(x, y) \/ Picked(x, y) \/ Healing(x, y) \/ Healed(x, y)
    \/ Stopped(x, y) \/ Refused(x, y) \/ Taken(x, y) \/ Sent(x, y) \/ Ended(x, y)
    \/ Failed(x, y) \/ Rewritten(x, y) \/ Waited(x, y)

\* Each of them leaves a good record good.
LEMMA MovedGood == ASSUME NEW x, NEW y, Good(x), Moved(x, y) PROVE Good(y)
<1>0. Len(x.sent) \in Nat /\ x.hop \in Nat /\ x \in Request
  BY LenProperties DEF Good, Request
<1>1. CASE Begun(x, y)
  <2>1. y \in Request
    BY <1>0, <1>1 DEF Begun, Request, Places
  <2>2. Leased(y)
    BY <1>0, <1>1, RotationAssumption DEF Begun, Request, Good, Leased
  <2>3. Paced(y)
    BY <1>0, <1>1 DEF Begun, Request, Good, Paced, One
  <2> QED BY <2>1, <2>2, <2>3 DEF Good
<1>2. CASE Unstuck(x, y)
  <2>1. y \in Request
    BY <1>0, <1>2 DEF Unstuck, Request, Places
  <2>2. Leased(y)
    BY <1>0, <1>2, RotationAssumption DEF Unstuck, Request, Good, Leased
  <2>3. Paced(y)
    BY <1>0, <1>2 DEF Unstuck, Request, Good, Paced, One
  <2> QED BY <2>1, <2>2, <2>3 DEF Good
<1>3. CASE Picked(x, y)
  <2>1. y \in Request
    <3>1. PICK a \in Accounts : y = [x EXCEPT !.pc = "take", !.acct = a, !.tried = @ \cup {a}]
      BY <1>3 DEF Picked, Chosen
    <3> QED BY <1>0, <3>1 DEF Request, Places
  <2>2. Leased(y)
    BY <1>0, <1>3, RotationAssumption DEF Picked, Chosen, Request, Good, Leased
  <2>3. Paced(y)
    BY <1>0, <1>3 DEF Picked, Chosen, Request, Good, Paced, One
  <2> QED BY <2>1, <2>2, <2>3 DEF Good
<1>4. CASE Healing(x, y)
  <2>1. y \in Request
    BY <1>0, <1>4 DEF Healing, Request, Places
  <2>2. Leased(y)
    BY <1>0, <1>4, RotationAssumption DEF Healing, Request, Good, Leased
  <2>3. Paced(y)
    BY <1>0, <1>4 DEF Healing, Request, Good, Paced, One
  <2> QED BY <2>1, <2>2, <2>3 DEF Good
<1>5. CASE Healed(x, y)
  <2>1. y \in Request
    BY <1>0, <1>5 DEF Healed, Request, Places
  <2>2. Leased(y)
    BY <1>0, <1>5, RotationAssumption DEF Healed, Request, Good, Leased
  <2>3. Paced(y)
    BY <1>0, <1>5 DEF Healed, Request, Good, Paced, One
  <2> QED BY <2>1, <2>2, <2>3 DEF Good
<1>6. CASE Stopped(x, y)
  <2>1. y \in Request
    BY <1>0, <1>6 DEF Stopped, Done, Request, Places
  <2>2. Leased(y)
    BY <1>0, <1>6, RotationAssumption DEF Stopped, Done, Request, Good, Leased
  <2>3. Paced(y)
    BY <1>0, <1>6 DEF Stopped, Done, Request, Good, Paced, One
  <2> QED BY <2>1, <2>2, <2>3 DEF Good
<1>7. CASE Refused(x, y)
  <2>1. y \in Request
    BY <1>0, <1>7 DEF Refused, Backoff, Unsticky, Request, Places
  <2>2. Leased(y)
    BY <1>0, <1>7, RotationAssumption DEF Refused, Backoff, Unsticky, Request, Good, Leased
  <2>3. Paced(y)
    BY <1>0, <1>7 DEF Refused, Backoff, Unsticky, Request, Good, Paced, One
  <2> QED BY <2>1, <2>2, <2>3 DEF Good
<1>8. CASE Taken(x, y)
  <2>1. y \in Request
    BY <1>0, <1>8 DEF Taken, Request, Places
  <2>2. Leased(y)
    BY <1>0, <1>8, RotationAssumption DEF Taken, Request, Good, Leased
  <2>3. Paced(y)
    BY <1>0, <1>8 DEF Taken, Request, Good, Paced, One
  <2> QED BY <2>1, <2>2, <2>3 DEF Good
<1>9. CASE Sent(x, y)
  <2>1. <<x.acct, x.moved, x.degraded, x.cleared>> \in Call
    BY <1>9 DEF Sent, Call, Good, Leased, Request
  <2>2. y.sent \in Seq(Call) /\ Len(y.sent) = Len(x.sent) + 1
    BY <1>0, <1>9, <2>1, AppendProperties DEF Sent, Request
  <2>3. y \in Request
    BY <1>0, <1>9, <2>2 DEF Sent, Request, Places
  <2>4. Leased(y)
    BY <1>0, <1>9 DEF Sent, Request, Good, Leased
  <2>5. Paced(y)
    BY <1>0, <1>9, <2>2 DEF Sent, Request, Good, Paced, One
  <2> QED BY <2>3, <2>4, <2>5 DEF Good
<1>10. CASE Ended(x, y)
  <2>1. y \in Request
    BY <1>0, <1>10 DEF Ended, Done, Unsticky, Request, Places
  <2>2. Leased(y)
    <3>1. y.pc = "done" /\ y.held = None
      BY <1>0, <1>10 DEF Ended, Done, Unsticky, Request
    <3> QED BY <3>1 DEF Leased
  <2>3. Paced(y)
    BY <1>0, <1>10 DEF Ended, Done, Unsticky, Request, Good, Paced, One
  <2> QED BY <2>1, <2>2, <2>3 DEF Good
<1>11. CASE Failed(x, y)
  <2>1. y \in Request
    BY <1>0, <1>11 DEF Failed, Backoff, Unsticky, Request, Places
  <2>2. Leased(y)
    BY <1>0, <1>11, RotationAssumption DEF Failed, Backoff, Unsticky, Request, Good, Leased
  <2>3. Paced(y)
    BY <1>0, <1>11 DEF Failed, Backoff, Unsticky, Request, Good, Paced, One
  <2> QED BY <2>1, <2>2, <2>3 DEF Good
<1>12. CASE Rewritten(x, y)
  <2>1. CASE /\ ~x.moved
             /\ y = [x EXCEPT !.pc = "pick", !.moved = TRUE, !.tried = @ \ {x.acct},
                              !.held = None]
    <3>1. y \in Request
      BY <1>0, <2>1 DEF Request, Places
    <3>2. Leased(y)
      BY <1>0, <2>1 DEF Request, Leased
    <3>3. Paced(y)
      BY <1>0, <1>12, <2>1 DEF Rewritten, Request, Good, Paced, One
    <3> QED BY <3>1, <3>2, <3>3 DEF Good
  <2>2. CASE /\ ~x.degraded
             /\ y = [x EXCEPT !.pc = "pick", !.degraded = TRUE, !.tried = @ \ {x.acct},
                              !.held = None]
    <3>1. y \in Request
      BY <1>0, <2>2 DEF Request, Places
    <3>2. Leased(y)
      BY <1>0, <2>2 DEF Request, Leased
    <3>3. Paced(y)
      BY <1>0, <1>12, <2>2 DEF Rewritten, Request, Good, Paced, One
    <3> QED BY <3>1, <3>2, <3>3 DEF Good
  <2> QED BY <1>12, <2>1, <2>2 DEF Rewritten
<1>13. CASE Waited(x, y)
  <2>0. x.hop + 1 \in 0 .. MaxRotate - 1
    BY <1>0, <1>13, RotationAssumption DEF Waited
  <2>1. y \in Request
    BY <1>0, <1>13, <2>0 DEF Waited, Request, Places
  <2>2. Leased(y)
    BY <1>0, <1>13, RotationAssumption DEF Waited, Request, Good, Leased
  <2>3. Paced(y)
    BY <1>0, <1>13 DEF Waited, Request, Good, Paced, One
  <2> QED BY <2>1, <2>2, <2>3 DEF Good
<1> QED BY <1>1, <1>2, <1>3, <1>4, <1>5, <1>6, <1>7, <1>8, <1>9, <1>10, <1>11, <1>12, <1>13
        DEF Moved

-----------------------------------------------------------------------------
(***************************************************************************)
(* The steps.                                                              *)
(***************************************************************************)

\* The rest of the state keeps its types.
Ambient ==
    /\ state \in [Accounts -> States] /\ healAge \in 0 .. HealPeriod
    /\ wafHits \subseteq Accounts /\ wafOn \in BOOLEAN /\ degraded \in BOOLEAN

Requesting == req \in [Requests -> Request] /\ \A r \in Requests : Good(req[r])

\* The counters are the leases held.
HoldersOf(a) == {r \in Requests : req[r].held = a}
Counted ==
    /\ inFlight \in [Accounts -> Nat]
    /\ \A a \in Accounts : inFlight[a] = Cardinality(HoldersOf(a))

\* A step of a request makes one of the changes above, and to its own record only.
LEMMA StepMoves ==
    ASSUME NEW r \in Requests, Step(r), Ambient, Requesting
    PROVE  Moved(req[r], req'[r]) /\ req' = [req EXCEPT ![r] = req'[r]]
<1> DEFINE x == req[r]
<1> DEFINE y == req'[r]
<1> DEFINE Goal == Moved(x, y) /\ req' = [req EXCEPT ![r] = y]
<1> SUFFICES Goal
  OBVIOUS
<1>0. x \in Request /\ Good(x) /\ req \in [Requests -> Request]
  BY DEF Requesting
<1> USE DEF At, Become, Moved
<1>1. CASE Begin(r)
  <2>1. (x.flexible /\ degraded) \in BOOLEAN
    BY <1>0 DEF Request, Ambient
  <2>2. Begun(x, y)
    BY <1>0, <1>1, <2>1 DEF Begin, Begun
  <2> QED BY <1>0, <1>1, <2>2 DEF Begin
<1>2. CASE PickSticky(r)
  <2>1. x.sticky \in Accounts
    BY <1>0, <1>2 DEF PickSticky, Request
  <2>2. Picked(x, y) \/ Unstuck(x, y)
    BY <1>0, <1>2, <2>1 DEF PickSticky, Picked, Unstuck
  <2> QED BY <1>0, <1>2, <2>2 DEF PickSticky
<1>3. CASE Pick(r)
  <2>1. Picked(x, y) \/ Healing(x, y)
    BY <1>0, <1>3 DEF Pick, Candidates, Picked, Healing
  <2> QED BY <1>0, <1>3, <2>1 DEF Pick
<1>4. CASE HealCheck(r)
  <2>1. Healing(x, y) \/ Stopped(x, y)
    BY <1>0, <1>4 DEF HealCheck, Healing, Stopped
  <2> QED BY <1>0, <1>4, <2>1 DEF HealCheck
<1>5. CASE HealGate(r)
  <2>1. Healing(x, y) \/ Stopped(x, y)
    BY <1>0, <1>5 DEF HealGate, Healing, Stopped
  <2> QED BY <1>0, <1>5, <2>1 DEF HealGate
<1>6. CASE HealClear(r)
  <2>1. Healing(x, y) \/ Stopped(x, y)
    BY <1>0, <1>6 DEF HealClear, Healing, Stopped
  <2> QED BY <1>0, <1>6, <2>1 DEF HealClear
<1>7. CASE HealRecheck(r)
  <2>1. Healed(x, y) \/ Stopped(x, y)
    BY <1>0, <1>7 DEF HealRecheck, Healed, Stopped
  <2> QED BY <1>0, <1>7, <2>1 DEF HealRecheck
<1>8. CASE Take(r)
  <2>1. Refused(x, y) \/ Taken(x, y)
    BY <1>0, <1>8 DEF Take, Refused, Taken
  <2> QED BY <1>0, <1>8, <2>1 DEF Take
<1>9. CASE Send(r)
  <2>1. Sent(x, y)
    BY <1>0, <1>9 DEF Send, Sent
  <2> QED BY <1>0, <1>9, <2>1 DEF Send
<1>10. CASE TokenRejected(r) \/ AccountFails(r)
  <2>1. Failed(x, y)
    BY <1>0, <1>10 DEF TokenRejected, AccountFails, Fail, Released, Failed
  <2> QED BY <1>0, <1>10, <2>1 DEF TokenRejected, AccountFails, Fail, Released
<1>11. CASE Firewall(r)
  <2>1. Failed(x, y) \/ Ended(x, y)
    BY <1>0, <1>11 DEF Firewall, Fail, Released, Failed, Ended
  <2> QED BY <1>0, <1>11, <2>1 DEF Firewall, Fail, Released
<1>12. CASE MoveSystem(r) \/ Degrade(r)
  <2>1. Rewritten(x, y)
    BY <1>0, <1>12 DEF MoveSystem, Degrade, Released, Rewritten, Request
  <2> QED BY <1>0, <1>12, <2>1 DEF MoveSystem, Degrade, Released
<1>13. CASE RequestFails(r) \/ ErrorFrame(r) \/ Succeed(r)
  <2>1. Ended(x, y)
    BY <1>0, <1>13 DEF RequestFails, ErrorFrame, Succeed, Fail, Released, Ended
  <2> QED BY <1>0, <1>13, <2>1 DEF RequestFails, ErrorFrame, Succeed, Fail, Released
<1>14. CASE Wait(r)
  <2>1. Waited(x, y) \/ Stopped(x, y)
    BY <1>0, <1>14 DEF Wait, Waited, Stopped
  <2> QED BY <1>0, <1>14, <2>1 DEF Wait
<1> QED BY <1>1, <1>2, <1>3, <1>4, <1>5, <1>6, <1>7, <1>8, <1>9, <1>10, <1>11, <1>12,
           <1>13, <1>14 DEF Step

\* What it does to the counters goes with what it does to the lease it holds.
LEMMA StepLeases ==
    ASSUME NEW r \in Requests, Step(r), Requesting
    PROVE  \/ inFlight' = inFlight /\ req'[r].held = req[r].held
           \/ /\ req[r].held = None /\ req'[r].held \in Accounts
              /\ inFlight' = [inFlight EXCEPT ![req'[r].held] = @ + 1]
           \/ /\ req[r].held \in Accounts /\ req'[r].held = None
              /\ inFlight' = [inFlight EXCEPT ![req[r].held] = @ - 1]
<1> DEFINE x == req[r]
<1>0. x \in Request /\ Leased(x) /\ req \in [Requests -> Request]
  BY DEF Requesting, Good
<1> USE <1>0 DEF At, Become, Request
<1>1. CASE Begin(r) \/ PickSticky(r) \/ Pick(r)
  <2>1. inFlight' = inFlight
    BY <1>1 DEF Begin, PickSticky, Pick
  <2>2. CASE Begin(r)
    BY <2>1, <2>2 DEF Begin
  <2>3. CASE PickSticky(r)
    BY <2>1, <2>3 DEF PickSticky, Chosen
  <2>4. CASE Pick(r)
    <3>1. (\E a \in Accounts : req'[r] = Chosen(x, a)) \/ req'[r] = [x EXCEPT !.pc = "nobody"]
      BY <2>4 DEF Pick, Candidates
    <3> QED BY <2>1, <3>1 DEF Chosen
  <2> QED BY <1>1, <2>2, <2>3, <2>4
<1>2. CASE HealCheck(r) \/ HealGate(r) \/ HealClear(r) \/ HealRecheck(r)
  <2>1. inFlight' = inFlight
    BY <1>2 DEF HealCheck, HealGate, HealClear, HealRecheck, gates
  <2>2. CASE HealCheck(r)
    BY <2>1, <2>2 DEF HealCheck, Done
  <2>3. CASE HealGate(r)
    BY <2>1, <2>3 DEF HealGate, Done
  <2>4. CASE HealClear(r)
    BY <2>1, <2>4 DEF HealClear, Done
  <2>5. CASE HealRecheck(r)
    BY <2>1, <2>5 DEF HealRecheck, Done
  <2> QED BY <1>2, <2>2, <2>3, <2>4, <2>5
<1>3. CASE Take(r)
  <2>1. x.held = None /\ x.acct \in Accounts
    BY <1>3 DEF Take, Leased
  <2>2. CASE Full(x.acct)
    <3>1. inFlight' = inFlight /\ req'[r] = Backoff(Unsticky(x, x.acct))
      BY <1>3, <2>2 DEF Take
    <3> QED BY <3>1 DEF Backoff, Unsticky
  <2>3. CASE ~Full(x.acct)
    <3>1. req'[r].held = x.acct /\ inFlight' = [inFlight EXCEPT ![x.acct] = @ + 1]
      BY <1>3, <2>3 DEF Take
    <3> QED BY <2>1, <3>1
  <2> QED BY <2>2, <2>3
<1>4. CASE Send(r) \/ Wait(r)
  BY <1>4 DEF Send, Wait, Done
<1>5. CASE TokenRejected(r) \/ AccountFails(r) \/ Firewall(r) \/ ErrorFrame(r)
  BY <1>5 DEF TokenRejected, AccountFails, Firewall, ErrorFrame, Fail, Released, Backoff,
              Done, Unsticky, Leased
<1>6. CASE MoveSystem(r) \/ Degrade(r)
  BY <1>6 DEF MoveSystem, Degrade, Released, Leased
<1>7. CASE RequestFails(r) \/ Succeed(r)
  <2>1. x.held \in Accounts
    BY <1>7 DEF RequestFails, Succeed, Leased
  <2>2. CASE RequestFails(r)
    <3>1. Released(r, Done(x)) \/ Released(r, Unsticky(Done(x), x.acct))
      BY <2>2 DEF RequestFails, Fail
    <3> QED BY <2>1, <3>1 DEF Released, Done, Unsticky
  <2>3. CASE Succeed(r)
    BY <2>1, <2>3 DEF Succeed, Released, Done
  <2> QED BY <1>7, <2>2, <2>3
<1> QED BY <1>1, <1>2, <1>3, <1>4, <1>5, <1>6, <1>7 DEF Step

LEMMA StepAmbient ==
    ASSUME NEW r \in Requests, Step(r), Ambient, Requesting
    PROVE  Ambient'
<1> DEFINE x == req[r]
<1>0. x \in Request /\ (x.pc \in {"take", "token", "sent"} => x.acct \in Accounts)
  BY DEF Requesting, Good, Leased
<1> USE RotationAssumption DEF Ambient, States, gates
<1>1. CASE Begin(r) \/ PickSticky(r) \/ Pick(r) \/ Take(r) \/ Send(r) \/ Wait(r)
  BY <1>1 DEF Begin, PickSticky, Pick, Take, Send, Wait
<1>2. CASE HealCheck(r) \/ HealGate(r) \/ HealClear(r) \/ HealRecheck(r)
  BY <1>2 DEF HealCheck, HealGate, HealClear, HealRecheck
<1>3. CASE TokenRejected(r) \/ AccountFails(r) \/ ErrorFrame(r) \/ Succeed(r)
  BY <1>0, <1>3 DEF TokenRejected, AccountFails, ErrorFrame, Succeed, Penalised, At
<1>4. CASE Firewall(r)
  <2>1. x.acct \in Accounts
    BY <1>0, <1>4 DEF Firewall, At
  <2> QED BY <1>4, <2>1 DEF Firewall, Penalised
<1>5. CASE MoveSystem(r) \/ Degrade(r) \/ RequestFails(r)
  BY <1>5 DEF MoveSystem, Degrade, RequestFails
<1> QED BY <1>1, <1>2, <1>3, <1>4, <1>5 DEF Step

-----------------------------------------------------------------------------
(***************************************************************************)
(* The invariant.                                                          *)
(***************************************************************************)

Inv == Ambient /\ Requesting /\ Counted

LEMMA HoldersFinite ==
    ASSUME NEW a
    PROVE  /\ IsFiniteSet(HoldersOf(a)) /\ Cardinality(HoldersOf(a)) \in Nat
<1>1. HoldersOf(a) \subseteq Requests
  BY DEF HoldersOf
<1> QED BY <1>1, RotationAssumption, FS_Subset, FS_CardinalityType

LEMMA InitInv == Init => Inv
<1> SUFFICES ASSUME Init PROVE Inv
  OBVIOUS
<1>1. ASSUME NEW b \in BOOLEAN PROVE Good(NewRequest(b)) /\ NewRequest(b).held = None
  <2>1. <<>> \in Seq(Call) /\ Len(<<>>) = 0
    BY EmptySeq
  <2>2. NewRequest(b) \in Request
    BY <2>1, RotationAssumption DEF NewRequest, Request, Places
  <2> QED BY <2>1, <2>2 DEF Good, NewRequest, Leased, Paced, One
<1>2. \A r \in Requests : req[r] \in Request /\ Good(req[r]) /\ req[r].held = None
  BY <1>1 DEF Init, Good
<1>3. Requesting
  BY <1>2 DEF Requesting, Init
<1>4. \A a \in Accounts : Cardinality(HoldersOf(a)) = 0
  <2>1. \A a \in Accounts : HoldersOf(a) = {}
    BY <1>2, RotationAssumption DEF HoldersOf
  <2> QED BY <2>1, FS_EmptySet
<1>5. Ambient
  <2>1. healAge \in 0 .. HealPeriod
    BY RotationAssumption DEF Init
  <2>2. wafOn \in BOOLEAN /\ degraded \in BOOLEAN /\ wafHits \subseteq Accounts
    BY DEF Init
  <2>3. state \in [Accounts -> States]
    BY DEF Init, States
  <2> QED BY <2>1, <2>2, <2>3 DEF Ambient
<1>6. Counted
  BY <1>4 DEF Init, Counted
<1> QED BY <1>3, <1>5, <1>6 DEF Inv

LEMMA NextInv == Inv /\ [Next]_vars => Inv'
<1> SUFFICES ASSUME Inv, [Next]_vars PROVE Inv'
  OBVIOUS
<1>1. ASSUME NEW r \in Requests, Step(r)
      PROVE  Inv'
  <2>1. req' = [req EXCEPT ![r] = req'[r]] /\ Good(req'[r])
    BY <1>1, StepMoves, MovedGood DEF Inv, Requesting
  <2>2. Requesting'
    BY <2>1 DEF Inv, Requesting, Good
  <2>3. \A q \in Requests \ {r} : req'[q] = req[q]
    BY <2>1 DEF Inv, Requesting
  <2>4. CASE inFlight' = inFlight /\ req'[r].held = req[r].held
    <3>1. \A a \in Accounts : HoldersOf(a)' = HoldersOf(a)
      BY <2>3, <2>4 DEF HoldersOf
    <3> QED BY <1>1, <2>2, <2>4, <3>1, StepAmbient DEF Inv, Counted
  <2>5. CASE /\ req[r].held = None /\ req'[r].held \in Accounts
             /\ inFlight' = [inFlight EXCEPT ![req'[r].held] = @ + 1]
    <3>0. PICK b \in Accounts : b = req'[r].held
      BY <2>5
    <3>1. HoldersOf(b)' = HoldersOf(b) \cup {r} /\ r \notin HoldersOf(b)
      BY <2>3, <2>5, <3>0, RotationAssumption DEF HoldersOf
    <3>2. \A a \in Accounts \ {b} : HoldersOf(a)' = HoldersOf(a)
      BY <2>3, <2>5, <3>0, RotationAssumption DEF HoldersOf
    <3>3. Cardinality(HoldersOf(b)') = Cardinality(HoldersOf(b)) + 1
      BY <3>1, HoldersFinite, FS_AddElement
    <3>4. Counted'
      BY <2>5, <3>0, <3>2, <3>3 DEF Inv, Counted
    <3> QED BY <1>1, <2>2, <3>4, StepAmbient DEF Inv
  <2>6. CASE /\ req[r].held \in Accounts /\ req'[r].held = None
             /\ inFlight' = [inFlight EXCEPT ![req[r].held] = @ - 1]
    <3>0. PICK b \in Accounts : b = req[r].held
      BY <2>6
    <3>1. HoldersOf(b)' = HoldersOf(b) \ {r} /\ r \in HoldersOf(b)
      BY <2>3, <2>6, <3>0, RotationAssumption DEF HoldersOf
    <3>2. \A a \in Accounts \ {b} : HoldersOf(a)' = HoldersOf(a)
      BY <2>3, <2>6, <3>0, RotationAssumption DEF HoldersOf
    <3>3. /\ Cardinality(HoldersOf(b)') = Cardinality(HoldersOf(b)) - 1
          /\ Cardinality(HoldersOf(b)') \in Nat
      BY <3>1, HoldersFinite, FS_RemoveElement, FS_CardinalityType
    <3>4. Counted'
      BY <2>6, <3>0, <3>2, <3>3 DEF Inv, Counted
    <3> QED BY <1>1, <2>2, <3>4, StepAmbient DEF Inv
  <2> QED BY <1>1, <2>4, <2>5, <2>6, StepLeases DEF Inv
<1>2. CASE PoolChanges
  BY <1>2 DEF PoolChanges, Penalised, gates, Inv, Ambient, Requesting, Counted, HoldersOf
<1>3. CASE Tick
  <2>1. Ambient'
    <3>1. healAge' \in 0 .. HealPeriod
      BY <1>3, RotationAssumption DEF Tick, Inv, Ambient
    <3>2. wafOn' \in BOOLEAN /\ degraded' \in BOOLEAN /\ wafHits' \subseteq Accounts
      BY <1>3, Zenon DEF Tick, Inv, Ambient
    <3> QED BY <1>3, <3>1, <3>2 DEF Tick, Inv, Ambient
  <2>2. Requesting' /\ Counted'
    BY <1>3 DEF Tick, Inv, Requesting, Counted, HoldersOf
  <2> QED BY <2>1, <2>2 DEF Inv
<1>4. CASE UNCHANGED vars
  BY <1>4 DEF vars, Inv, Ambient, Requesting, Counted, HoldersOf
<1> QED BY <1>1, <1>2, <1>3, <1>4 DEF Next

\* The inductive invariant of the rotation: each request by itself, and the leases.
THEOREM Invariance == Spec => []Inv
BY InitInv, NextInv, PTL DEF Spec

\* The rotation's variables keep their types; above all no hop goes beyond the
\* last (internal/server/handler.go, chatCompletions).
THEOREM TypeCorrect == Spec => []TypeOK
<1>1. Inv => TypeOK
  BY DEF Inv, TypeOK, Ambient, Requesting, Counted, Request
<1> QED BY <1>1, Invariance, PTL

\* Through retries, failures and early ends every lease is given back exactly once
\* (internal/server/handler.go, chatCompletions).
THEOREM LeasesBalance == Spec => []LeasesMatch
<1>1. Inv => LeasesMatch
  <2> SUFFICES ASSUME Inv PROVE LeasesMatch
    OBVIOUS
  <2>1. \A r \in Requests : At(r, "done") => req[r].held = None
    BY DEF Inv, Requesting, Good, Leased, At
  <2> QED BY <2>1 DEF Inv, Counted, HoldersOf, LeasesMatch
<1> QED BY <1>1, Invariance, PTL

\* One request costs a bounded number of calls (internal/server/handler.go,
\* chatCompletions with its free retries).
THEOREM CallsBounded == Spec => []CallBudget
<1>1. Inv => CallBudget
  <2> SUFFICES ASSUME Inv, NEW r \in Requests PROVE Len(req[r].sent) <= MaxRotate + 2
    BY DEF CallBudget
  <2>1. /\ req[r].hop \in 0 .. MaxRotate - 1 /\ Len(req[r].sent) \in Nat
        /\ Paced(req[r])
    BY LenProperties DEF Inv, Requesting, Good, Request
  <2> DEFINE n == Len(req[r].sent)
             h == req[r].hop
             m == One(req[r].moved)
             d == One(req[r].degraded)
             p == One(req[r].pc \in {"sent", "backoff", "done"})
  <2>2. m \in {0, 1} /\ d \in {0, 1} /\ p \in {0, 1}
    BY DEF One
  <2>3. n <= h + m + d + p
    BY <2>1 DEF Paced
  <2>4. n \in Nat /\ h \in 0 .. MaxRotate - 1
    BY <2>1
  <2> HIDE DEF n, h, m, d, p
  <2>5. n <= MaxRotate + 2
    BY <2>2, <2>3, <2>4, RotationAssumption
  <2> QED BY <2>5 DEF n
<1> QED BY <1>1, Invariance, PTL

-----------------------------------------------------------------------------
(***************************************************************************)
(* Nobody is asked the same thing twice.                                   *)
(***************************************************************************)

Calls(x) == 1 .. Len(x.sent)

\* The account has been asked what the request would ask now.
Asked(x, a) == \E i \in Calls(x) : x.sent[i] = <<a, x.moved, x.degraded, x.cleared>>

\* Rewriting is never taken back: no call was rewritten in a way the request is not.
Grown(x) ==
    \A i \in Calls(x) : /\ x.sent[i][2] => x.moved
                        /\ x.sent[i][3] => x.degraded
                        /\ x.sent[i][4] => x.cleared

\* Who has been asked has been tried, and so is not chosen again but as the sticky
\* account, which is let go as soon as it has been asked.
Careful(x) ==
    /\ \A a \in Accounts : Asked(x, a) => a \in x.tried
    /\ x.pc \in {"take", "token"} => ~Asked(x, x.acct)
    /\ x.pc \in {"take", "token", "sent"} => x.acct \in x.tried /\ x.sticky \in {None, x.acct}
    /\ x.pc \in {"nobody", "gate", "clear", "recheck", "backoff"} => x.sticky = None
    /\ x.pc = "pick" /\ x.sticky # None => ~Asked(x, x.sticky)
    /\ x.pc \in {"gate", "clear", "recheck"} => ~x.cleared
    /\ x.pc = "begin" => ~x.degraded

Distinct(x) == \A i, j \in Calls(x) : x.sent[i] = x.sent[j] => i = j

Tidy(x) == Grown(x) /\ Careful(x) /\ Distinct(x)

\* With the same body and the same calls nothing changes for an account ...
LEMMA SameBody ==
    ASSUME NEW x, NEW y, Tidy(x), y.sent = x.sent,
           y.moved = x.moved, y.degraded = x.degraded, y.cleared = x.cleared
    PROVE  /\ Grown(y) /\ Distinct(y)
           /\ \A a : Asked(y, a) <=> Asked(x, a)
BY DEF Tidy, Grown, Distinct, Asked, Calls

\* ... and with a new body nobody has been asked.
LEMMA NewBody ==
    ASSUME NEW x, NEW y, Tidy(x), y.sent = x.sent,
           x.moved => y.moved, x.degraded => y.degraded, x.cleared => y.cleared,
           (~x.moved /\ y.moved) \/ (~x.degraded /\ y.degraded) \/ (~x.cleared /\ y.cleared)
    PROVE  /\ Grown(y) /\ Distinct(y)
           /\ \A a : ~Asked(y, a)
<1>1. Grown(y) /\ Distinct(y)
  BY DEF Tidy, Grown, Distinct, Calls
<1>2. ASSUME NEW a, NEW i \in Calls(y), y.sent[i] = <<a, y.moved, y.degraded, y.cleared>>
      PROVE  FALSE
  <2>1. /\ x.sent[i][2] = y.moved /\ x.sent[i][3] = y.degraded /\ x.sent[i][4] = y.cleared
        /\ i \in Calls(x)
    BY <1>2 DEF Calls
  <2> QED BY <2>1 DEF Tidy, Grown
<1> QED BY <1>1, <1>2 DEF Asked

LEMMA MovedTidy == ASSUME NEW x, NEW y, Good(x), Tidy(x), Moved(x, y) PROVE Tidy(y)
<1>0. Len(x.sent) \in Nat /\ x \in Request /\ None \notin Accounts
  BY LenProperties, RotationAssumption DEF Good, Request
<1>1. CASE Begun(x, y)
  <2>1. Calls(x) = {} /\ y.sent = x.sent /\ y.pc = "pick"
    BY <1>0, <1>1 DEF Begun, Good, Paced, Calls, Request
  <2> QED BY <2>1 DEF Tidy, Grown, Careful, Distinct, Asked, Calls
<1>2. CASE Unstuck(x, y)
  <2>1. /\ y.sent = x.sent /\ y.moved = x.moved
        /\ y.degraded = x.degraded /\ y.cleared = x.cleared
    BY <1>0, <1>2 DEF Unstuck, Request
  <2>2. Careful(y)
    BY <1>0, <1>2, <2>1, SameBody DEF Unstuck, Request, Tidy, Careful
  <2> QED BY <2>1, <2>2, SameBody DEF Tidy
<1>3. CASE Picked(x, y)
  <2>1. /\ y.sent = x.sent /\ y.moved = x.moved
        /\ y.degraded = x.degraded /\ y.cleared = x.cleared
    BY <1>0, <1>3 DEF Picked, Chosen, Request
  <2>2. Careful(y)
    <3>1. PICK a \in Accounts : /\ a = x.sticky \/ (x.sticky = None /\ a \notin x.tried)
                               /\ y = Chosen(x, a)
      BY <1>3 DEF Picked
    <3>2. /\ y.pc = "take" /\ y.acct = a /\ y.tried = x.tried \cup {a}
          /\ y.sticky = x.sticky /\ x.pc = "pick"
      BY <1>0, <1>3, <3>1 DEF Picked, Chosen, Request
    <3>3. ~Asked(x, a)
      BY <1>0, <3>1, <3>2 DEF Tidy, Careful
    <3> QED BY <2>1, <3>1, <3>2, <3>3, SameBody DEF Tidy, Careful
  <2> QED BY <2>1, <2>2, SameBody DEF Tidy
<1>4. CASE Healing(x, y)
  <2>1. /\ y.sent = x.sent /\ y.moved = x.moved
        /\ y.degraded = x.degraded /\ y.cleared = x.cleared
    BY <1>0, <1>4 DEF Healing, Request
  <2>2. Careful(y)
    BY <1>0, <1>4, <2>1, SameBody DEF Healing, Request, Tidy, Careful
  <2> QED BY <2>1, <2>2, SameBody DEF Tidy
<1>5. CASE Healed(x, y)
  <2>1. /\ y.sent = x.sent /\ y.moved = x.moved /\ y.degraded = x.degraded
        /\ ~x.cleared /\ y.cleared = TRUE /\ y.pc = "pick"
    BY <1>0, <1>5 DEF Healed, Request, Tidy, Careful
  <2>2. Grown(y) /\ Distinct(y) /\ \A a : ~Asked(y, a)
    BY <2>1, NewBody
  <2> QED BY <2>1, <2>2 DEF Tidy, Careful
<1>6. CASE Stopped(x, y)
  <2>1. /\ y.sent = x.sent /\ y.moved = x.moved
        /\ y.degraded = x.degraded /\ y.cleared = x.cleared
    BY <1>0, <1>6 DEF Stopped, Done, Request
  <2>2. Careful(y)
    BY <1>0, <1>6, <2>1, SameBody DEF Stopped, Done, Request, Tidy, Careful
  <2> QED BY <2>1, <2>2, SameBody DEF Tidy
<1>7. CASE Refused(x, y)
  <2>1. /\ y.sent = x.sent /\ y.moved = x.moved
        /\ y.degraded = x.degraded /\ y.cleared = x.cleared
    BY <1>0, <1>7 DEF Refused, Backoff, Unsticky, Request
  <2>2. Careful(y)
    <3>1. y.pc = "backoff" /\ y.tried = x.tried
      BY <1>0, <1>7 DEF Refused, Backoff, Unsticky, Request
    <3>2. y.sticky = None
      BY <1>0, <1>7 DEF Refused, Backoff, Unsticky, Request, Tidy, Careful
    <3> QED BY <2>1, <3>1, <3>2, SameBody DEF Tidy, Careful
  <2> QED BY <2>1, <2>2, SameBody DEF Tidy
<1>8. CASE Taken(x, y)
  <2>1. /\ y.sent = x.sent /\ y.moved = x.moved
        /\ y.degraded = x.degraded /\ y.cleared = x.cleared
    BY <1>0, <1>8 DEF Taken, Request
  <2>2. Careful(y)
    <3>1. /\ y.pc = "token" /\ y.tried = x.tried /\ y.sticky = x.sticky
          /\ y.acct = x.acct /\ x.pc = "take"
      BY <1>0, <1>8 DEF Taken, Request
    <3> QED BY <2>1, <3>1, SameBody DEF Tidy, Careful
  <2> QED BY <2>1, <2>2, SameBody DEF Tidy
<1>9. CASE Sent(x, y)
  <2> DEFINE e == <<x.acct, x.moved, x.degraded, x.cleared>>
  <2>1. e \in Call /\ x.sent \in Seq(Call)
    BY <1>0, <1>9 DEF Sent, Call, Good, Leased, Request
  <2>2. /\ y.sent = Append(x.sent, e) /\ y.moved = x.moved /\ y.pc = "sent"
        /\ y.degraded = x.degraded /\ y.cleared = x.cleared
        /\ y.acct = x.acct /\ y.sticky = x.sticky /\ y.tried = x.tried
    BY <1>0, <1>9 DEF Sent, Request
  <2> HIDE DEF e
  <2>3. /\ Calls(y) = Calls(x) \cup {Len(x.sent) + 1}
        /\ y.sent[Len(x.sent) + 1] = e /\ \A i \in Calls(x) : y.sent[i] = x.sent[i]
    BY <1>0, <2>1, <2>2, AppendProperties DEF Calls
  <2>4. Grown(y)
    <3>1. e[2] = x.moved /\ e[3] = x.degraded /\ e[4] = x.cleared
      BY DEF e
    <3> QED BY <2>2, <2>3, <3>1 DEF Tidy, Grown
  <2>5. ~Asked(x, x.acct)
    BY <1>9 DEF Sent, Tidy, Careful
  <2>6. \A i \in Calls(x) : y.sent[i] # e
    BY <2>3, <2>5 DEF Asked, e
  <2>7. Distinct(y)
    BY <2>3, <2>6 DEF Tidy, Distinct
  <2>8. \A a \in Accounts : Asked(y, a) => Asked(x, a) \/ a = x.acct
    <3> SUFFICES ASSUME NEW a \in Accounts, NEW i \in Calls(y),
                        y.sent[i] = <<a, x.moved, x.degraded, x.cleared>>
                 PROVE  Asked(x, a) \/ a = x.acct
      BY <2>2 DEF Asked
    <3>1. CASE i \in Calls(x)
      BY <2>3, <3>1 DEF Asked
    <3>2. CASE i = Len(x.sent) + 1
      BY <2>3, <3>2 DEF e
    <3> QED BY <2>3, <3>1, <3>2
  <2>9. Careful(y)
    BY <1>9, <2>2, <2>8 DEF Sent, Tidy, Careful
  <2> QED BY <2>4, <2>7, <2>9 DEF Tidy
<1>10. CASE Ended(x, y)
  <2>1. /\ y.sent = x.sent /\ y.moved = x.moved
        /\ y.degraded = x.degraded /\ y.cleared = x.cleared
    BY <1>0, <1>10 DEF Ended, Done, Unsticky, Request
  <2>2. Careful(y)
    BY <1>0, <1>10, <2>1, SameBody DEF Ended, Done, Unsticky, Request, Tidy, Careful
  <2> QED BY <2>1, <2>2, SameBody DEF Tidy
<1>11. CASE Failed(x, y)
  <2>1. /\ y.sent = x.sent /\ y.moved = x.moved
        /\ y.degraded = x.degraded /\ y.cleared = x.cleared
    BY <1>0, <1>11 DEF Failed, Backoff, Unsticky, Request
  <2>2. Careful(y)
    <3>1. y.pc = "backoff" /\ y.tried = x.tried
      BY <1>0, <1>11 DEF Failed, Backoff, Unsticky, Request
    <3>2. y.sticky = None
      BY <1>0, <1>11 DEF Failed, Backoff, Unsticky, Request, Tidy, Careful
    <3> QED BY <2>1, <3>1, <3>2, SameBody DEF Tidy, Careful
  <2> QED BY <2>1, <2>2, SameBody DEF Tidy
<1>12. CASE Rewritten(x, y)
  <2>1. y.sent = x.sent /\ y.cleared = x.cleared /\ y.pc = "pick"
    BY <1>0, <1>12 DEF Rewritten, Request
  <2>2. \/ ~x.moved /\ y.moved /\ y.degraded = x.degraded
        \/ ~x.degraded /\ y.degraded /\ y.moved = x.moved
    BY <1>0, <1>12 DEF Rewritten, Request
  <2>3. Grown(y) /\ Distinct(y) /\ \A a : ~Asked(y, a)
    <3>1. /\ x.moved => y.moved
          /\ x.degraded => y.degraded
          /\ x.cleared => y.cleared
      BY <2>1, <2>2
    <3>2. (~x.moved /\ y.moved) \/ (~x.degraded /\ y.degraded) \/ (~x.cleared /\ y.cleared)
      BY <2>2
    <3> QED BY <2>1, <3>1, <3>2, NewBody
  <2> QED BY <2>1, <2>3 DEF Tidy, Careful
<1>13. CASE Waited(x, y)
  <2>1. /\ y.sent = x.sent /\ y.moved = x.moved
        /\ y.degraded = x.degraded /\ y.cleared = x.cleared
    BY <1>0, <1>13 DEF Waited, Request
  <2>2. Careful(y)
    <3>1. y.pc = "pick" /\ y.tried = x.tried /\ y.sticky = x.sticky /\ x.pc = "backoff"
      BY <1>0, <1>13 DEF Waited, Request
    <3> QED BY <2>1, <3>1, SameBody DEF Tidy, Careful
  <2> QED BY <2>1, <2>2, SameBody DEF Tidy
<1> QED BY <1>1, <1>2, <1>3, <1>4, <1>5, <1>6, <1>7, <1>8, <1>9, <1>10, <1>11, <1>12, <1>13
        DEF Moved

LEMMA InitTidy == Init => \A r \in Requests : Tidy(req[r])
<1> SUFFICES ASSUME Init, NEW r \in Requests PROVE Tidy(req[r])
  OBVIOUS
<1>1. req[r].pc = "begin" /\ ~req[r].degraded /\ Calls(req[r]) = {}
  BY EmptySeq DEF Init, NewRequest, Calls
<1> QED BY <1>1 DEF Tidy, Grown, Careful, Distinct, Asked

LEMMA NextTidy ==
    Inv /\ (\A r \in Requests : Tidy(req[r])) /\ [Next]_vars
        => \A r \in Requests : Tidy(req'[r])
<1> SUFFICES ASSUME Inv, \A r \in Requests : Tidy(req[r]), [Next]_vars
             PROVE  \A r \in Requests : Tidy(req'[r])
  OBVIOUS
<1>1. ASSUME NEW r \in Requests, Step(r)
      PROVE  \A q \in Requests : Tidy(req'[q])
  <2>1. Moved(req[r], req'[r]) /\ req' = [req EXCEPT ![r] = req'[r]]
    BY <1>1, StepMoves DEF Inv
  <2>2. Good(req[r]) /\ req \in [Requests -> Request]
    BY DEF Inv, Requesting
  <2>3. Tidy(req'[r])
    BY <2>1, <2>2, MovedTidy
  <2>4. \A q \in Requests \ {r} : req'[q] = req[q]
    BY <2>1, <2>2
  <2> QED BY <2>3, <2>4
<1>2. CASE UNCHANGED req
  BY <1>2
<1> QED BY <1>1, <1>2 DEF Next, PoolChanges, Tick, vars

\* No account is asked the same thing twice by one request
\* (internal/server/handler.go, chatCompletions: tried, sticky, the free retries).
THEOREM NoneAskedTwice == Spec => []NeverAsksTwice
<1>1. Inv /\ (\A r \in Requests : Tidy(req[r])) => NeverAsksTwice
  <2> SUFFICES ASSUME Inv, NEW r \in Requests, Tidy(req[r]) PROVE IsInjective(req[r].sent)
    BY DEF NeverAsksTwice
  <2>1. DOMAIN req[r].sent = Calls(req[r])
    BY LenProperties DEF Inv, Requesting, Request, Calls
  <2> QED BY <2>1 DEF Tidy, Distinct, IsInjective
<1>2. Inv /\ (\A r \in Requests : Tidy(req[r])) /\ [Next]_vars
        => (\A r \in Requests : Tidy(req[r]))'
  BY NextTidy
<1> QED BY <1>1, <1>2, InitTidy, Invariance, PTL DEF Spec

-----------------------------------------------------------------------------
(***************************************************************************)
(* Every step brings its request nearer to the end.                        *)
(***************************************************************************)

LEMMA TurnsIs ==
    ASSUME NEW x \in Request
    PROVE  Turns(x) = MaxRotate - x.hop + 3 - One(x.moved) - One(x.degraded) - One(x.cleared)
<1> DEFINE S(b, f) == IF b THEN {} ELSE {f}
<1> DEFINE A == S(x.moved, "moved")
<1> DEFINE B == A \cup S(x.degraded, "degraded")
<1> DEFINE C == B \cup S(x.cleared, "cleared")
<1>1. {f \in {"moved", "degraded", "cleared"} : ~x[f]} = C
  BY DEF Request
<1>2. IsFiniteSet(A) /\ Cardinality(A) = 1 - One(x.moved) /\ "degraded" \notin A
  <2>1. CASE x.moved
    BY <2>1, FS_EmptySet DEF One
  <2>2. CASE ~x.moved
    <3>1. A = {"moved"} /\ IsFiniteSet(A) /\ Cardinality(A) = 1
      BY <2>2, FS_Singleton
    <3> QED BY <2>2, <3>1 DEF One
  <2> QED BY <2>1, <2>2
<1>3. IsFiniteSet(B) /\ Cardinality(B) = Cardinality(A) + 1 - One(x.degraded) /\ "cleared" \notin B
  <2>1. CASE x.degraded
    BY <1>2, <2>1, FS_CardinalityType DEF One
  <2>2. CASE ~x.degraded
    <3>1. B = A \cup {"degraded"} /\ One(x.degraded) = 0
      BY <2>2 DEF One
    <3> HIDE DEF A, B
    <3>2. IsFiniteSet(B) /\ Cardinality(B) = Cardinality(A) + 1
      BY <1>2, <3>1, FS_AddElement
    <3>3. "cleared" \notin B
      BY <3>1 DEF A
    <3> QED BY <1>2, <3>1, <3>2, <3>3, FS_CardinalityType
  <2> QED BY <2>1, <2>2
<1>4. Cardinality(C) = Cardinality(B) + 1 - One(x.cleared)
  <2>1. CASE x.cleared
    BY <1>3, <2>1, FS_CardinalityType DEF One
  <2>2. CASE ~x.cleared
    <3>1. C = B \cup {"cleared"} /\ One(x.cleared) = 0
      BY <2>2 DEF One
    <3> HIDE DEF B, C
    <3> QED BY <1>3, <3>1, FS_AddElement, FS_CardinalityType
  <2> QED BY <2>1, <2>2
<1>5. x.hop \in Int /\ One(x.moved) \in Int /\ One(x.degraded) \in Int /\ One(x.cleared) \in Int
  BY DEF Request, One
<1> HIDE DEF C
<1> QED BY <1>1, <1>2, <1>3, <1>4, <1>5, RotationAssumption DEF Turns

LEMMA MovedNearer == ASSUME NEW x, NEW y, Good(x), Tidy(x), Moved(x, y) PROVE Nearer(x, y)
<1>0. /\ x \in Request /\ y \in Request /\ x.hop \in Int
      /\ One(x.moved) \in Int /\ One(x.degraded) \in Int /\ One(x.cleared) \in Int
  BY MovedGood DEF Good, Request, One
\* Steps that stay in the turn go down in the places.
<1>1. ASSUME y.hop = x.hop, y.moved = x.moved, y.degraded = x.degraded,
             y.cleared = x.cleared, Place(y) < Place(x)
      PROVE  Nearer(x, y)
  <2>1. Turns(y) = Turns(x)
    BY <1>0, <1>1, TurnsIs
  <2> QED BY <1>1, <2>1 DEF Nearer
<1>2. CASE Begun(x, y)
  <2>1. /\ y.hop = x.hop /\ y.moved = x.moved /\ y.cleared = x.cleared
        /\ y.pc = "pick" /\ x.pc = "begin"
    BY <1>0, <1>2 DEF Begun, Request
  <2>2. CASE y.degraded
    <3>1. One(x.degraded) = 0 /\ One(y.degraded) = 1
      BY <2>1, <2>2 DEF Tidy, Careful, One
    <3>2. Turns(y) < Turns(x)
      BY <1>0, <2>1, <3>1, TurnsIs, RotationAssumption
    <3> QED BY <3>2 DEF Nearer
  <2>3. CASE ~y.degraded
    <3>1. y.degraded = x.degraded
      BY <1>0, <2>1, <2>3 DEF Tidy, Careful, Request
    <3>2. Place(y) < Place(x)
      BY <2>1 DEF Place
    <3> QED BY <1>1, <2>1, <3>1, <3>2
  <2> QED BY <2>2, <2>3
<1>3. CASE Unstuck(x, y)
  <2>1. /\ y.hop = x.hop /\ y.moved = x.moved
        /\ y.degraded = x.degraded /\ y.cleared = x.cleared
    BY <1>0, <1>3 DEF Unstuck, Request
  <2>2. Place(y) < Place(x)
    BY <1>0, <1>3 DEF Unstuck, Request, Place
  <2> QED BY <1>1, <2>1, <2>2
<1>4. CASE Picked(x, y)
  <2>1. /\ y.hop = x.hop /\ y.moved = x.moved
        /\ y.degraded = x.degraded /\ y.cleared = x.cleared
    BY <1>0, <1>4 DEF Picked, Chosen, Request
  <2>2. Place(y) < Place(x)
    BY <1>0, <1>4 DEF Picked, Chosen, Request, Place
  <2> QED BY <1>1, <2>1, <2>2
<1>5. CASE Healing(x, y)
  <2>1. /\ y.hop = x.hop /\ y.moved = x.moved
        /\ y.degraded = x.degraded /\ y.cleared = x.cleared
    BY <1>0, <1>5 DEF Healing, Request
  <2>2. Place(y) < Place(x)
    BY <1>0, <1>5 DEF Healing, Request, Place
  <2> QED BY <1>1, <2>1, <2>2
<1>6. CASE Stopped(x, y)
  <2>1. /\ y.hop = x.hop /\ y.moved = x.moved
        /\ y.degraded = x.degraded /\ y.cleared = x.cleared
    BY <1>0, <1>6 DEF Stopped, Done, Request
  <2>2. Place(y) < Place(x)
    BY <1>0, <1>6 DEF Stopped, Done, Request, Place
  <2> QED BY <1>1, <2>1, <2>2
<1>7. CASE Refused(x, y)
  <2>1. /\ y.hop = x.hop /\ y.moved = x.moved
        /\ y.degraded = x.degraded /\ y.cleared = x.cleared
    BY <1>0, <1>7 DEF Refused, Backoff, Unsticky, Request
  <2>2. Place(y) < Place(x)
    BY <1>0, <1>7 DEF Refused, Backoff, Unsticky, Request, Place
  <2> QED BY <1>1, <2>1, <2>2
<1>8. CASE Taken(x, y)
  <2>1. /\ y.hop = x.hop /\ y.moved = x.moved
        /\ y.degraded = x.degraded /\ y.cleared = x.cleared
    BY <1>0, <1>8 DEF Taken, Request
  <2>2. Place(y) < Place(x)
    BY <1>0, <1>8 DEF Taken, Request, Place
  <2> QED BY <1>1, <2>1, <2>2
<1>9. CASE Sent(x, y)
  <2>1. /\ y.hop = x.hop /\ y.moved = x.moved
        /\ y.degraded = x.degraded /\ y.cleared = x.cleared
    BY <1>0, <1>9 DEF Sent, Request
  <2>2. Place(y) < Place(x)
    BY <1>0, <1>9 DEF Sent, Request, Place
  <2> QED BY <1>1, <2>1, <2>2
<1>10. CASE Ended(x, y)
  <2>1. /\ y.hop = x.hop /\ y.moved = x.moved
        /\ y.degraded = x.degraded /\ y.cleared = x.cleared
    BY <1>0, <1>10 DEF Ended, Done, Unsticky, Request
  <2>2. Place(y) < Place(x)
    <3>1. x.pc = "sent" /\ y.pc = "done"
      BY <1>0, <1>10 DEF Ended, Done, Unsticky, Request
    <3> QED BY <3>1 DEF Place
  <2> QED BY <1>1, <2>1, <2>2
<1>11. CASE Failed(x, y)
  <2>1. /\ y.hop = x.hop /\ y.moved = x.moved
        /\ y.degraded = x.degraded /\ y.cleared = x.cleared
    BY <1>0, <1>11 DEF Failed, Backoff, Unsticky, Request
  <2>2. Place(y) < Place(x)
    BY <1>0, <1>11 DEF Failed, Backoff, Unsticky, Request, Place
  <2> QED BY <1>1, <2>1, <2>2
<1>12. CASE Healed(x, y)
  <2>1. /\ y.hop = x.hop /\ y.moved = x.moved /\ y.degraded = x.degraded
        /\ ~x.cleared /\ y.cleared = TRUE
    BY <1>0, <1>12 DEF Healed, Request, Tidy, Careful
  <2>2. Turns(y) < Turns(x)
    BY <1>0, <2>1, TurnsIs, RotationAssumption DEF One
  <2> QED BY <2>2 DEF Nearer
<1>13. CASE Rewritten(x, y)
  <2>1. y.hop = x.hop /\ y.cleared = x.cleared
    BY <1>0, <1>13 DEF Rewritten, Request
  <2>2. \/ ~x.moved /\ y.moved = TRUE /\ y.degraded = x.degraded
        \/ ~x.degraded /\ y.degraded = TRUE /\ y.moved = x.moved
    BY <1>0, <1>13 DEF Rewritten, Request
  <2>3. One(x.moved) + One(x.degraded) < One(y.moved) + One(y.degraded)
    BY <2>2 DEF One
  <2>4. Turns(y) < Turns(x)
    BY <1>0, <2>1, <2>3, TurnsIs, RotationAssumption DEF One
  <2> QED BY <2>4 DEF Nearer
<1>14. CASE Waited(x, y)
  <2>1. /\ y.hop = x.hop + 1 /\ y.moved = x.moved
        /\ y.degraded = x.degraded /\ y.cleared = x.cleared
    BY <1>0, <1>14 DEF Waited, Request
  <2>2. Turns(y) < Turns(x)
    BY <1>0, <2>1, TurnsIs, RotationAssumption
  <2> QED BY <2>2 DEF Nearer
<1> QED BY <1>2, <1>3, <1>4, <1>5, <1>6, <1>7, <1>8, <1>9, <1>10, <1>11, <1>12, <1>13, <1>14
        DEF Moved

\* The rotation of a request ends whatever accounts, other requests and the
\* upstream do, as each of its steps brings it nearer to the end
\* (internal/server/handler.go, chatCompletions: the free retries do not count as
\* a hop).
THEOREM RotationEnds == Spec => AlwaysNearer
<1>1. ASSUME Inv, \A r \in Requests : Tidy(req[r]), [Next]_vars, NEW r \in Requests,
             req'[r] # req[r]
      PROVE  Nearer(req[r], req'[r])
  <2>1. PICK q \in Requests : Step(q)
    BY <1>1 DEF Next, PoolChanges, Tick, vars
  <2>2. Moved(req[q], req'[q]) /\ req' = [req EXCEPT ![q] = req'[q]]
    BY <1>1, <2>1, StepMoves DEF Inv
  <2>3. r = q
    BY <1>1, <2>2 DEF Inv, Requesting
  <2> QED BY <1>1, <2>2, <2>3, MovedNearer DEF Inv, Requesting
<1>2. Inv /\ (\A r \in Requests : Tidy(req[r])) /\ [Next]_vars
        => [\A r \in Requests : req'[r] # req[r] => Nearer(req[r], req'[r])]_vars
  BY <1>1
<1>3. Inv /\ (\A r \in Requests : Tidy(req[r])) /\ [Next]_vars
        => (\A r \in Requests : Tidy(req[r]))'
  BY NextTidy
<1> QED BY <1>2, <1>3, InitTidy, Invariance, PTL DEF Spec, AlwaysNearer
=============================================================================
