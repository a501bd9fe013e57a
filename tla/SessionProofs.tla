---------------------------- MODULE SessionProofs ----------------------------
(***************************************************************************)
(* Proofs about Session, for any number of requests, sessions and accounts *)
(* and any limits: types, and what may change a session's account.         *)
(***************************************************************************)
EXTENDS Session, FiniteSetTheorems, TLAPS

\* A request has a session from its first step on, and an account to look at while
\* the fast path does.
InHand ==
    \A r \in Requests :
        /\ pc[r] # "idle" => key[r] \in Keys
        /\ pc[r] \in {"check", "touch", "stale"} => uid[r] \in Accounts

Inv == TypeOK /\ InHand

-----------------------------------------------------------------------------
LEMMA BagGrows ==
    ASSUME NEW B, IsABag(B), BagToSet(B) \subseteq Write, NEW S \in SUBSET Write
    PROVE  IsABag(B (+) SetToBag(S)) /\ BagToSet(B (+) SetToBag(S)) \subseteq Write
BY DEF IsABag, BagToSet, SetToBag, (+)

LEMMA BagShrinks ==
    ASSUME NEW B, IsABag(B), BagToSet(B) \subseteq Write, NEW S \in SUBSET Write
    PROVE  IsABag(B (-) SetToBag(S)) /\ BagToSet(B (-) SetToBag(S)) \subseteq Write
BY DEF IsABag, BagToSet, SetToBag, (-)

LEMMA NoWrites == IsABag(EmptyBag) /\ BagToSet(EmptyBag) \subseteq Write
BY DEF IsABag, BagToSet, SetToBag, EmptyBag

\* What is read of the mirror is of its type.
LEMMA LoadedType ==
    ASSUME NEW read, mirror \in [Keys -> Accounts \cup {None}]
    PROVE  Loaded(read) \in [Keys -> Accounts \cup {None}]
BY DEF Loaded

LEMMA InitInv == Init => Inv
<1> SUFFICES ASSUME Init PROVE Inv
  OBVIOUS
<1>1. mirror \in [Keys -> Accounts \cup {None}]
  BY DEF Init
<1>2. bound \in [Keys -> Accounts \cup {None}]
  BY <1>1, LoadedType DEF Init
<1>3. age \in [Keys -> 0 .. TTL + 1]
  BY SessionAssumption DEF Init
<1> QED BY <1>1, <1>2, <1>3, NoWrites DEF Init, Inv, TypeOK, InHand

-----------------------------------------------------------------------------
\* One step of a request.
LEMMA RequestInv ==
    ASSUME Inv, NEW r \in Requests,
           \/ \E k \in Asked : Lookup(r, k)
           \/ CheckUsable(r) \/ Touch(r) \/ Rejoin(r) \/ Allocate(r) \/ NoAccount(r)
           \/ Unbind(r) \/ Succeed(r) \/ GiveUp(r) \/ MirrorOwed(r)
    PROVE  Inv'
<1> USE SessionAssumption DEF Inv, TypeOK, InHand, Go, GotUid, Owe
<1>1. ASSUME NEW k \in Asked, Lookup(r, k)
      PROVE  Inv'
  <2>1. k \in Keys /\ (Live(k) => bound[k] \in Accounts)
    BY DEF Live
  <2> QED BY <1>1, <2>1 DEF Lookup
<1>2. CASE CheckUsable(r)
  BY <1>2 DEF CheckUsable
<1>3. CASE Touch(r)
  <2>1. key[r] \in Keys /\ uid[r] \in Accounts
    BY <1>3 DEF Touch
  <2>2. {Set(key[r], uid[r])} \subseteq Write
    BY <2>1 DEF Set, Write
  <2>3. TypeOK'
    BY <1>3, <2>1, <2>2 DEF Touch, Store
  <2> QED BY <1>3, <2>3 DEF Touch
<1>4. CASE Rejoin(r)
  <2>1. key[r] \in Keys /\ bound[key[r]] \in Accounts
    BY <1>4 DEF Rejoin, Still, Live
  <2>2. TypeOK'
    BY <1>4, <2>1 DEF Rejoin, Decide, Store
  <2> QED BY <1>4, <2>2 DEF Rejoin, Decide
<1>5. CASE Allocate(r)
  <2>1. key[r] \in Keys
    BY <1>5 DEF Allocate
  <2>2. PICK u \in Accounts : Choose(r, u)
    BY <1>5 DEF Allocate
  <2>3. Set(key[r], u) \in Write /\ Del(key[r]) \in Write
    BY <2>1 DEF Set, Del, Write
  <2>4. IsABag(writes') /\ BagToSet(writes') \subseteq Write
    BY <2>2, <2>3, BagGrows DEF Choose, Submit
  <2>5. TypeOK'
    BY <2>1, <2>2, <2>4 DEF Choose, Decide, Store
  <2> QED BY <1>5, <2>2, <2>5 DEF Allocate, Choose, Decide
<1>6. CASE NoAccount(r)
  <2>1. TypeOK'
    BY <1>6 DEF NoAccount, Decide, Store
  <2> QED BY <1>6, <2>1 DEF NoAccount, Decide
<1>7. CASE Unbind(r)
  <2>1. {Del(key[r])} \subseteq Write
    BY <1>7 DEF Unbind, Del, Write
  <2>2. TypeOK'
    BY <1>7, <2>1 DEF Unbind, Store
  <2> QED BY <1>7, <2>2 DEF Unbind
<1>8. CASE Succeed(r)
  <2>1. key[r] \in Keys
    BY <1>8 DEF Succeed
  <2>2. \A u \in Accounts, k \in Keys : Set(k, u) \in Write /\ Del(k) \in Write
    BY DEF Set, Del, Write
  <2>3. PICK u \in Accounts :
          \/ Store(key[r], u) /\ owed' = [owed EXCEPT ![r] = {Set(key[r], u)}]
          \/ \E old \in Oldest :
                /\ bound' = [bound EXCEPT ![old] = None, ![key[r]] = u]
                /\ age' = [age EXCEPT ![old] = 0, ![key[r]] = 0]
                /\ owed' = [owed EXCEPT ![r] = {Set(key[r], u), Del(old)}]
    BY <1>8 DEF Succeed
  <2>4. Oldest \subseteq Keys
    BY DEF Oldest
  <2>5. owed' \in [Requests -> SUBSET Write]
    BY <2>1, <2>2, <2>3, <2>4
  <2>6. bound' \in [Keys -> Accounts \cup {None}] /\ age' \in [Keys -> 0 .. TTL + 1]
    BY <2>3 DEF Store
  <2>7. TypeOK'
    BY <1>8, <2>5, <2>6 DEF Succeed
  <2> QED BY <1>8, <2>7 DEF Succeed
<1>9. CASE GiveUp(r)
  BY <1>9 DEF GiveUp
<1>10. CASE MirrorOwed(r)
  <2>1. IsABag(writes') /\ BagToSet(writes') \subseteq Write
    BY <1>10, BagGrows DEF MirrorOwed, Submit
  <2> QED BY <1>10, <2>1 DEF MirrorOwed
<1> QED BY <1>1, <1>2, <1>3, <1>4, <1>5, <1>6, <1>7, <1>8, <1>9, <1>10

LEMMA NextInv == Inv /\ [Next]_vars => Inv'
<1> SUFFICES ASSUME Inv, [Next]_vars PROVE Inv'
  OBVIOUS
<1> USE SessionAssumption DEF Inv, TypeOK, InHand, request
<1>1. CASE Collect
  <2>1. sweep' \subseteq Keys
    BY <1>1 DEF Collect
  <2>2. bound' \in [Keys -> Accounts \cup {None}] /\ age' \in [Keys -> 0 .. TTL + 1]
    BY <1>1 DEF Collect
  <2> QED BY <1>1, <2>1, <2>2 DEF Collect
<1>2. CASE MirrorSweep
  <2>1. {Del(k) : k \in sweep} \subseteq Write
    BY DEF Del, Write
  <2>2. IsABag(writes') /\ BagToSet(writes') \subseteq Write
    BY <1>2, <2>1, BagGrows DEF MirrorSweep, Submit
  <2> QED BY <1>2, <2>2 DEF MirrorSweep
<1>3. CASE PoolChanges
  BY <1>3 DEF PoolChanges
<1>4. CASE Tick
  <2>1. age' \in [Keys -> 0 .. TTL + 1]
    BY <1>4 DEF Tick, Expired
  <2> QED BY <1>4, <2>1 DEF Tick
<1>5. CASE Restart
  <2>1. bound' \in [Keys -> Accounts \cup {None}]
    BY <1>5, LoadedType DEF Restart
  <2>2. age' \in [Keys -> 0 .. TTL + 1]
    BY <1>5 DEF Restart
  <2> QED BY <1>5, <2>1, <2>2, NoWrites DEF Restart
<1>6. ASSUME NEW w \in Write, Land(w) \/ Lose(w)
      PROVE  Inv'
  <2>1. IsABag(writes') /\ BagToSet(writes') \subseteq Write
    BY <1>6, BagShrinks DEF Land, Lose
  <2>2. mirror' \in [Keys -> Accounts \cup {None}]
    BY <1>6 DEF Land, Lose, Write
  <2> QED BY <1>6, <2>1, <2>2 DEF Land, Lose
<1>7. CASE UNCHANGED vars
  BY <1>7 DEF vars
<1> QED BY <1>1, <1>2, <1>3, <1>4, <1>5, <1>6, <1>7, RequestInv DEF Next

\* The inductive invariant: types, and what a request has in hand.
THEOREM Invariance == Spec => []Inv
BY InitInv, NextInv, PTL DEF Spec

\* The router's state keeps its types; above all a request never writes a binding
\* without a session or an account (internal/session/session.go).
THEOREM TypeCorrect == Spec => []TypeOK
<1>1. Inv => TypeOK
  BY DEF Inv
<1> QED BY <1>1, Invariance, PTL

-----------------------------------------------------------------------------
(***************************************************************************)
(* What gives a session another account.                                   *)
(***************************************************************************)

\* Only an allocation, a success and a restart do: the fast path, the second look
\* and the touch write what is there.
LEMMA Rebinding ==
    ASSUME Inv, [Next]_vars, NEW k \in Keys, Rebound(k)
    PROVE  \/ Restart
           \/ \E r \in Requests : Succeed(r)
           \/ \E r \in Requests : Allocate(r) /\ key[r] = k /\ bound'[k] \in usable
<1> DEFINE Goal == \/ Restart
                   \/ \E r \in Requests : Succeed(r)
                   \/ \E r \in Requests : Allocate(r) /\ key[r] = k /\ bound'[k] \in usable
<1> USE DEF Inv, TypeOK, Rebound
<1>1. ASSUME NEW r \in Requests,
             \/ \E j \in Asked : Lookup(r, j)
             \/ CheckUsable(r) \/ GiveUp(r) \/ MirrorOwed(r)
      PROVE  FALSE
  BY <1>1 DEF Lookup, CheckUsable, GiveUp, MirrorOwed
<1>2. ASSUME NEW r \in Requests, Touch(r) \/ Unbind(r) \/ NoAccount(r)
      PROVE  FALSE
  BY <1>2 DEF Touch, Unbind, NoAccount, Store
<1>3. ASSUME NEW r \in Requests, Rejoin(r)
      PROVE  FALSE
  BY <1>3 DEF Rejoin, Store
<1>4. ASSUME NEW r \in Requests, Allocate(r)
      PROVE  Goal
  <2>1. PICK u \in usable : Choose(r, u)
    BY <1>4 DEF Allocate
  <2>2. bound' = [bound EXCEPT ![key[r]] = u]
    BY <2>1 DEF Choose, Store
  <2> QED BY <1>4, <2>1, <2>2
<1>5. CASE Collect \/ MirrorSweep \/ PoolChanges \/ Tick
  BY <1>5 DEF Collect, MirrorSweep, PoolChanges, Tick
<1>6. ASSUME NEW w \in Write, Land(w) \/ Lose(w)
      PROVE  FALSE
  BY <1>6 DEF Land, Lose
<1>7. CASE UNCHANGED vars
  BY <1>7 DEF vars
<1> QED BY <1>1, <1>2, <1>3, <1>4, <1>5, <1>6, <1>7 DEF Next

\* A session is never sent back to an account that has failed it
\* (internal/session/session.go, touch: only what is still there is touched).
THEOREM NoneResurrected == Spec => NoResurrection
<1>1. Inv /\ [Next]_vars =>
        [\A k \in Keys : Rebound(k) =>
            bound'[k] \in usable \/ Restart \/ \E r \in Requests : Succeed(r)]_vars
  BY Rebinding
<1> QED BY <1>1, Invariance, PTL DEF Spec, NoResurrection

\* Requests of one session that arrive together share its account
\* (internal/session/session.go, the second look of ResolveForModel).
THEOREM AffinityHolds == Spec => AffinityKept
<1>1. ASSUME Inv, [Next]_vars, NEW k \in Keys, Live(k), bound[k] \in usable, Rebound(k)
      PROVE  \/ Restart
             \/ \E r \in Requests :
                   Succeed(r) \/ (Allocate(r) /\ key[r] = k /\ pc[r] = "stale"
                                              /\ bound[k] \notin seen[r])
  <2>1. ASSUME NEW r \in Requests, Allocate(r), key[r] = k
        PROVE  pc[r] = "stale" /\ bound[k] \notin seen[r]
    BY <1>1, <2>1 DEF Allocate, Still
  <2> QED BY <1>1, <2>1, Rebinding
<1>2. Inv /\ [Next]_vars =>
        [\A k \in Keys : Live(k) /\ bound[k] \in usable /\ Rebound(k) =>
            \/ Restart
            \/ \E r \in Requests :
                  Succeed(r) \/ (Allocate(r) /\ key[r] = k /\ pc[r] = "stale"
                                             /\ bound[k] \notin seen[r])]_vars
  BY <1>1
<1> QED BY <1>2, Invariance, PTL DEF Spec, AffinityKept

-----------------------------------------------------------------------------
\* A success never makes an overfull map fuller
\* (internal/session/session.go, Bind: the one idle for longest goes).
THEOREM BindEvicts == Spec => BindNeverOverfills
<1> DEFINE B == {k \in Keys : bound[k] # None}
<1>1. ASSUME Inv, NEW r \in Requests, Succeed(r), Count >= MaxEntries
      PROVE  Count' <= Count
  <2>1. /\ IsFiniteSet(B) /\ IsFiniteSet(B') /\ Cardinality(B) \in Nat
        /\ Count = Cardinality(B) /\ Count' = Cardinality(B')
    <3>1. B \subseteq Keys /\ B' \subseteq Keys
      OBVIOUS
    <3>2. IsFiniteSet(B) /\ IsFiniteSet(B')
      BY <3>1, SessionAssumption, FS_Subset
    <3> QED BY <3>2, FS_CardinalityType DEF Count
  <2>2. key[r] \in Keys /\ bound \in [Keys -> Accounts \cup {None}]
    BY <1>1 DEF Succeed, Go, Inv, TypeOK, InHand
  <2>3. CASE bound[key[r]] # None
    <3>1. PICK u \in Accounts : Store(key[r], u)
      BY <1>1, <2>2, <2>3 DEF Succeed, Inv, TypeOK
    <3>2. B' = B
      BY <2>2, <2>3, <3>1, SessionAssumption DEF Store
    <3> QED BY <2>1, <3>2
  <2>4. CASE bound[key[r]] = None
    <3>1. PICK u \in Accounts, old \in Oldest :
             bound' = [bound EXCEPT ![old] = None, ![key[r]] = u]
      <4>1. ~(Count < MaxEntries)
        BY <1>1, <2>1, SessionAssumption
      <4>2. PICK u \in IF uid[r] = None THEN Accounts ELSE {uid[r]} :
               \E old \in Oldest : bound' = [bound EXCEPT ![old] = None, ![key[r]] = u]
        BY <1>1, <2>4, <4>1 DEF Succeed
      <4>3. u \in Accounts
        BY <1>1, <4>2 DEF Inv, TypeOK
      <4> QED BY <4>2, <4>3
    <3>2. old \in B /\ key[r] \notin B /\ B' = (B \ {old}) \cup {key[r]}
      BY <2>2, <2>4, <3>1, SessionAssumption DEF Oldest
    <3>3. IsFiniteSet(B \ {old}) /\ Cardinality(B \ {old}) = Cardinality(B) - 1
      BY <2>1, <3>2, FS_RemoveElement
    <3>4. Cardinality(B') = Cardinality(B \ {old}) + 1
      BY <3>2, <3>3, FS_AddElement
    <3> QED BY <2>1, <3>3, <3>4
  <2> QED BY <2>3, <2>4
<1>2. Inv /\ [Next]_vars =>
        [\A r \in Requests : Succeed(r) /\ Count >= MaxEntries => Count' <= Count]_vars
  BY <1>1
<1> QED BY <1>2, Invariance, PTL DEF Spec, BindNeverOverfills
=============================================================================
