---------------------------- MODULE LeaseProofs ----------------------------
(***************************************************************************)
(* Proofs about Lease, for any number of requests and any caps: nobody is  *)
(* let in above the cap he asked under, no count is left when everyone is  *)
(* gone, and while the account stays in the pool the two compare-and-swap  *)
(* loops implement the semaphore.  Then about the rows of ModelLedger.     *)
(***************************************************************************)
EXTENDS MCLease, FiniteSetTheorems, TLAPS

Busy == {"acquire", "acquireCAS", "release", "releaseCAS"}

\* A request in a loop has an entry, and about to swap it has loaded a value
\* that leaves the new one in range.
LoopsLoaded ==
    \A r \in Requests :
        /\ pc[r] \in Busy => at[r] \in Entries
        /\ pc[r] = "acquireCAS" => cap[r] > 0 /\ seen[r] < cap[r]
        /\ pc[r] = "releaseCAS" => seen[r] > 0

Inv == TypeOK /\ LoopsLoaded

\* While the account stays: everyone works on its one entry, which counts them;
\* only who asks remembers a cap.
Counted ==
    stays => /\ entry \in Entries
             /\ \A r \in Requests : pc[r] \in Busy => at[r] = entry
             /\ \A r \in Requests : r \notin Askers => cap[r] = 0
             /\ inFlight[entry] = Cardinality(Holders)

-----------------------------------------------------------------------------
LEMMA InitInv == Init => Inv
BY LeaseAssumption DEF Init, Inv, TypeOK, States, LoopsLoaded, Busy

\* A step of one request changes its own place and at most one counter.
LEMMA NextInv == Inv /\ [Next]_vars => Inv'
<1> SUFFICES ASSUME Inv, [Next]_vars PROVE Inv'
  OBVIOUS
<1> USE LeaseAssumption DEF Inv, TypeOK, States, Go, Leave
<1>1. ASSUME NEW r \in Requests,
             AcquireLookup(r) \/ ReleaseLookup(r) \/ AcquireAgain(r) \/ ReleaseAgain(r)
      PROVE  Inv'
  BY <1>1 DEF AcquireLookup, ReleaseLookup, AcquireAgain, ReleaseAgain,
              LoopsLoaded, Busy
<1>2. ASSUME NEW r \in Requests, AcquireLoad(r) \/ ReleaseLoad(r)
      PROVE  Inv'
  <2>1. TypeOK'
    BY <1>2 DEF AcquireLoad, ReleaseLoad, LoopsLoaded, Busy
  <2>2. LoopsLoaded'
    BY <1>2 DEF AcquireLoad, ReleaseLoad, LoopsLoaded, Busy
  <2> QED BY <2>1, <2>2
<1>3. ASSUME NEW r \in Requests, AcquireFull(r) \/ ReleaseGone(r) \/ ReleaseZero(r)
      PROVE  Inv'
  BY <1>3 DEF AcquireFull, ReleaseGone, ReleaseZero, LoopsLoaded, Busy
<1>4. ASSUME NEW r \in Requests, AcquireUnlimited(r)
      PROVE  Inv'
  BY <1>4 DEF AcquireUnlimited, LoopsLoaded, Busy
<1>5. ASSUME NEW r \in Requests, AcquireCAS(r)
      PROVE  Inv'
  <2>1. at[r] \in Entries /\ seen[r] \in Nat
    BY <1>5 DEF AcquireCAS, LoopsLoaded, Busy
  <2>2. TypeOK'
    BY <1>5, <2>1 DEF AcquireCAS
  <2>3. LoopsLoaded'
    BY <1>5 DEF AcquireCAS, LoopsLoaded, Busy
  <2> QED BY <2>2, <2>3
<1>6. ASSUME NEW r \in Requests, ReleaseCAS(r)
      PROVE  Inv'
  <2>1. at[r] \in Entries /\ seen[r] \in Nat /\ seen[r] > 0
    BY <1>6 DEF ReleaseCAS, LoopsLoaded, Busy
  <2>2. TypeOK'
    BY <1>6, <2>1 DEF ReleaseCAS
  <2>3. LoopsLoaded'
    BY <1>6 DEF ReleaseCAS, LoopsLoaded, Busy
  <2> QED BY <2>2, <2>3
<1>7. CASE Remove \/ Add \/ \E n \in Limits : SetMaxInFlight(n)
  BY <1>7 DEF Remove, Add, SetMaxInFlight, LoopsLoaded, Busy
<1>8. CASE UNCHANGED vars
  BY <1>8 DEF vars, LoopsLoaded, Busy
<1> QED BY <1>1, <1>2, <1>3, <1>4, <1>5, <1>6, <1>7, <1>8 DEF Next

\* The loops never work with an entry or a count they have not read.
THEOREM Invariance == Spec => []Inv
BY InitInv, NextInv, PTL DEF Spec

\* The lease's state keeps its types (internal/pool/pool.go, Acquire and Release).
THEOREM TypeCorrect == Spec => []TypeOK
<1>1. Inv => TypeOK
  BY DEF Inv
<1> QED BY <1>1, Invariance, PTL

\* Nobody is let in above the cap he asked under, even across a removal, a new
\* login and a change of the cap (internal/pool/pool.go, Acquire).
THEOREM Admitted == Spec => AdmittedInCap
<1>1. ASSUME Inv, [Next]_vars,
             NEW r \in Requests, r \in Askers, r \in Holders', cap[r] > 0
      PROVE  inFlight'[at[r]] <= cap[r]
  <2>1. pc[r] \in {"acquire", "acquireCAS"} /\ pc'[r] \in {"held", "release", "releaseCAS"}
    BY <1>1 DEF Askers, Holders
  <2>2. AcquireCAS(r)
    BY <1>1, <2>1 DEF Next, vars, Inv, TypeOK, Go, Leave, AcquireLookup, AcquireUnlimited,
       AcquireLoad, AcquireFull, AcquireAgain, AcquireCAS, ReleaseLookup, ReleaseGone,
       ReleaseLoad, ReleaseZero, ReleaseCAS, ReleaseAgain, Remove, Add, SetMaxInFlight
  <2> QED BY <1>1, <2>2 DEF AcquireCAS, Inv, TypeOK, LoopsLoaded, Leave, Go, Busy
<1>2. Inv /\ [Next]_vars =>
      [\A r \in Requests : r \in Askers /\ r \in Holders' /\ cap[r] > 0
          => inFlight'[at[r]] <= cap[r]]_vars
  BY <1>1
<1> QED BY <1>2, Invariance, PTL DEF Spec, AdmittedInCap

-----------------------------------------------------------------------------
(***************************************************************************)
(* Nothing leaks.                                                          *)
(***************************************************************************)

\* The requests that will still take one from the counter of the entry in the
\* pool, or find that entry gone.  One that has looked up an older entry will not.
Owers == {r \in Requests : \/ pc[r] = "held"
                           \/ pc[r] \in {"release", "releaseCAS"} /\ at[r] = entry}

\* The counter of the entry in the pool counts nobody who will not take his one
\* back.  (Less than all of them, when some came in under an older entry.)
Balanced == entry # None => inFlight[entry] <= Cardinality(Owers)

LEMMA OwersFinite == IsFiniteSet(Owers) /\ Cardinality(Owers) \in Nat
BY LeaseAssumption, FS_Subset, FS_CardinalityType DEF Owers

LEMMA NextBalanced == Inv /\ Balanced /\ [Next]_vars => Balanced'
<1> SUFFICES ASSUME Inv, Balanced, [Next]_vars, entry' # None
             PROVE  inFlight'[entry'] <= Cardinality(Owers')
  BY DEF Balanced
<1> USE LeaseAssumption, OwersFinite DEF Inv, TypeOK, Go, Leave
\* Owers, the entry and its counter stay as they are.
<1>1. ASSUME NEW r \in Requests,
             \/ AcquireLookup(r) \/ AcquireLoad(r) \/ AcquireFull(r) \/ AcquireAgain(r)
             \/ ReleaseLookup(r) \/ ReleaseLoad(r) \/ ReleaseAgain(r)
      PROVE  inFlight'[entry'] <= Cardinality(Owers')
  <2>1. Owers' = Owers
    BY <1>1 DEF Owers, AcquireLookup, AcquireLoad, AcquireFull, AcquireAgain,
                ReleaseLookup, ReleaseLoad, ReleaseAgain
  <2>2. entry' = entry /\ inFlight' = inFlight
    BY <1>1 DEF AcquireLookup, AcquireLoad, AcquireFull, AcquireAgain,
                ReleaseLookup, ReleaseLoad, ReleaseAgain
  <2> QED BY <2>1, <2>2 DEF Balanced
<1>2. ASSUME NEW r \in Requests, AcquireUnlimited(r) \/ AcquireCAS(r)
      PROVE  inFlight'[entry'] <= Cardinality(Owers')
  <2>1. entry' = entry /\ entry \in Entries /\ at[r] \in Entries
    BY <1>2 DEF AcquireUnlimited, AcquireCAS, LoopsLoaded, Busy
  <2>2. r \notin Owers /\ Owers' = Owers \cup {r}
    BY <1>2 DEF AcquireUnlimited, AcquireCAS, Owers
  <2>3. Cardinality(Owers') = Cardinality(Owers) + 1
    BY <2>2, FS_AddElement
  <2>4. inFlight'[entry] \in Nat /\ inFlight'[entry] <= inFlight[entry] + 1
    BY <1>2, <2>1 DEF AcquireUnlimited, AcquireCAS
  <2> QED BY <2>1, <2>3, <2>4 DEF Balanced
<1>3. ASSUME NEW r \in Requests, ReleaseGone(r) \/ ReleaseZero(r)
      PROVE  inFlight'[entry'] <= Cardinality(Owers')
  <2>1. ReleaseZero(r) /\ entry' = entry /\ inFlight' = inFlight /\ inFlight[at[r]] = 0
    BY <1>3 DEF ReleaseGone, ReleaseZero
  <2>2. CASE at[r] = entry
    <3>1. IsFiniteSet(Owers') /\ Cardinality(Owers') \in Nat
      BY FS_Subset, FS_CardinalityType DEF Owers
    <3> QED BY <2>1, <2>2, <3>1
  <2>3. CASE at[r] # entry
    <3>1. Owers' = Owers
      BY <2>1, <2>3 DEF ReleaseZero, Owers
    <3> QED BY <2>1, <3>1 DEF Balanced
  <2> QED BY <2>2, <2>3
<1>4. ASSUME NEW r \in Requests, ReleaseCAS(r)
      PROVE  inFlight'[entry'] <= Cardinality(Owers')
  <2>1. /\ entry' = entry /\ entry \in Entries /\ at[r] \in Entries
        /\ inFlight[at[r]] = seen[r] /\ seen[r] > 0
    BY <1>4 DEF ReleaseCAS, LoopsLoaded, Busy
  <2>2. CASE at[r] = entry
    <3>1. r \in Owers /\ Owers' = Owers \ {r}
      BY <1>4, <2>2 DEF ReleaseCAS, Owers
    <3>2. Cardinality(Owers') = Cardinality(Owers) - 1
      BY <3>1, FS_RemoveElement
    <3>3. inFlight'[entry] = inFlight[entry] - 1
      BY <1>4, <2>1, <2>2 DEF ReleaseCAS
    <3> QED BY <2>1, <3>2, <3>3 DEF Balanced
  <2>3. CASE at[r] # entry
    <3>1. Owers' = Owers
      BY <1>4, <2>3 DEF ReleaseCAS, Owers
    <3>2. inFlight'[entry] = inFlight[entry]
      BY <1>4, <2>1, <2>3 DEF ReleaseCAS
    <3> QED BY <2>1, <3>1, <3>2 DEF Balanced
  <2> QED BY <2>2, <2>3
\* A new entry starts at zero.
<1>5. CASE Remove \/ Add
  <2>1. inFlight'[entry'] = 0
    BY <1>5 DEF Remove, Add
  <2>2. IsFiniteSet(Owers') /\ Cardinality(Owers') \in Nat
    <3>1. Owers' \subseteq Requests
      BY DEF Owers
    <3> QED BY <3>1, FS_Subset, FS_CardinalityType
  <2> QED BY <2>1, <2>2
<1>6. CASE UNCHANGED vars \/ \E n \in Limits : SetMaxInFlight(n)
  BY <1>6 DEF vars, SetMaxInFlight, Owers, Balanced
<1> QED BY <1>1, <1>2, <1>3, <1>4, <1>5, <1>6 DEF Next

\* Nothing leaks, however often the account is removed and logged in again under
\* the requests that hold it (internal/pool/pool.go, Acquire, Release, Remove).
THEOREM NoLeak == Spec => []NothingLeaks
<1>1. Init => Balanced
  <2> SUFFICES ASSUME Init PROVE Balanced
    OBVIOUS
  <2>1. inFlight[entry] = 0
    BY DEF Init
  <2> QED BY <2>1, OwersFinite DEF Balanced
<1>2. Inv /\ Balanced => NothingLeaks
  <2> SUFFICES ASSUME Inv, Balanced, entry # None, \A r \in Requests : pc[r] = "idle"
               PROVE  inFlight[entry] = 0
    BY DEF NothingLeaks
  <2>1. Owers = {}
    BY DEF Owers
  <2>2. inFlight[entry] <= 0
    BY <2>1, FS_EmptySet DEF Balanced
  <2> QED BY <2>2 DEF Inv, TypeOK
<1> QED BY <1>1, <1>2, NextBalanced, Invariance, PTL DEF Spec

-----------------------------------------------------------------------------
(***************************************************************************)
(* The semaphore.                                                          *)
(***************************************************************************)

LEMMA HoldersFinite == IsFiniteSet(Holders) /\ Cardinality(Holders) \in Nat
BY LeaseAssumption, FS_Subset, FS_CardinalityType DEF Holders

LEMMA InitCounted == Init => Counted /\ Semaphore!Init
<1> SUFFICES ASSUME Init PROVE Counted /\ Semaphore!Init
  OBVIOUS
<1>1. Holders = {} /\ Askers = {}
  BY DEF Init, Holders, Askers
<1>2. inFlight[entry] = 0 /\ entry \in Entries
  BY DEF Init
<1> QED BY <1>1, <1>2, FS_EmptySet DEF Init, Counted, Busy, Semaphore!Init

Mapped == <<limit, Askers, cap, Holders>>

\* A step of an account that stays.
LEMMA NextCounted ==
    ASSUME stays, Inv, Counted, [Next]_vars
    PROVE  Counted' /\ [Semaphore!Next]_Mapped /\ stays'
<1> DEFINE Goal == Counted' /\ [Semaphore!Next]_Mapped /\ stays'
<1> SUFFICES Goal
  OBVIOUS
<1> USE DEF Inv, TypeOK, Go, Leave
<1>0. Semaphore!Cardinality(Holders) = Cardinality(Holders)
  BY DEF Semaphore!Cardinality, Cardinality
\* Steps that leave the semaphore alone.
<1>1. ASSUME NEW r \in Requests,
             \/ AcquireLoad(r) \/ AcquireAgain(r)
             \/ ReleaseLookup(r) \/ ReleaseLoad(r) \/ ReleaseAgain(r)
      PROVE  Goal
  <2>1. Holders' = Holders /\ Askers' = Askers /\ UNCHANGED <<limit, entry, stays, inFlight, cap>>
    BY <1>1 DEF AcquireLoad, AcquireAgain, ReleaseLookup, ReleaseLoad, ReleaseAgain,
                Holders, Askers
  <2>2. \A q \in Requests : pc'[q] \in Busy => at'[q] = entry
    BY <1>1 DEF AcquireLoad, AcquireAgain, ReleaseLookup, ReleaseLoad, ReleaseAgain,
                Counted, Busy
  <2> QED BY <2>1, <2>2 DEF Counted, Mapped
<1>2. ASSUME NEW r \in Requests, AcquireLookup(r)
      PROVE  Goal
  <2>1. r \notin Askers \cup Holders /\ Askers' = Askers \cup {r} /\ Holders' = Holders
    BY <1>2 DEF AcquireLookup, Askers, Holders
  <2>2. Semaphore!Ask(r)
    BY <1>2, <2>1 DEF AcquireLookup, Semaphore!Ask
  <2>3. Counted'
    BY <1>2, <2>1 DEF AcquireLookup, Counted, Busy
  <2> QED BY <1>2, <2>2, <2>3 DEF AcquireLookup, Semaphore!Next
<1>3. ASSUME NEW r \in Requests, AcquireFull(r)
      PROVE  Goal
  <2>1. /\ r \in Askers /\ Askers' = Askers \ {r} /\ Holders' = Holders
        /\ at[r] = entry /\ UNCHANGED <<limit, entry, stays, inFlight>>
    BY <1>3 DEF AcquireFull, Askers, Holders, Counted, Busy
  <2>2. ~Semaphore!Room(r)
    BY <1>0, <1>3, <2>1, HoldersFinite DEF AcquireFull, Counted, Semaphore!Room
  <2>3. Semaphore!Answer(r)
    BY <1>3, <2>1, <2>2 DEF AcquireFull, Semaphore!Answer
  <2>4. Counted'
    BY <1>3, <2>1 DEF AcquireFull, Counted, Busy
  <2> QED BY <2>1, <2>3, <2>4 DEF Semaphore!Next
<1>4. ASSUME NEW r \in Requests, AcquireUnlimited(r) \/ AcquireCAS(r)
      PROVE  Goal
  <2>1. at[r] = entry /\ UNCHANGED <<limit, entry, stays>> /\ pc[r] \in {"acquire", "acquireCAS"}
    BY <1>4 DEF AcquireUnlimited, AcquireCAS, Counted, Busy
  <2>2. /\ r \in Askers /\ Askers' = Askers \ {r}
        /\ r \notin Holders /\ Holders' = Holders \cup {r}
    BY <1>4, <2>1 DEF AcquireUnlimited, AcquireCAS, Holders, Askers
  <2>3. inFlight'[entry] = inFlight[entry] + 1
    BY <1>4, <2>1 DEF AcquireUnlimited, AcquireCAS, Counted
  <2>4. Cardinality(Holders') = Cardinality(Holders) + 1
    BY <2>2, HoldersFinite, FS_AddElement
  <2>5. Semaphore!Room(r)
    BY <1>0, <1>4, <2>1 DEF AcquireUnlimited, AcquireCAS, Counted, LoopsLoaded, Semaphore!Room
  <2>6. Semaphore!Answer(r)
    BY <1>4, <2>1, <2>2, <2>5 DEF AcquireUnlimited, AcquireCAS, Semaphore!Answer
  <2>7. Counted'
    <3>1. \A q \in Requests : pc'[q] \in Busy => at'[q] = entry
      BY <1>4 DEF AcquireUnlimited, AcquireCAS, Counted, Busy
    <3>2. \A q \in Requests : q \notin Askers' => cap'[q] = 0
      BY <1>4, <2>2 DEF AcquireUnlimited, AcquireCAS, Counted
    <3> QED BY <2>1, <2>3, <2>4, <3>1, <3>2 DEF Counted
  <2> QED BY <2>1, <2>6, <2>7 DEF Semaphore!Next
<1>5. ASSUME NEW r \in Requests, ReleaseCAS(r)
      PROVE  Goal
  <2>1. at[r] = entry /\ UNCHANGED <<limit, entry, stays>> /\ pc[r] = "releaseCAS"
    BY <1>5 DEF ReleaseCAS, Counted, Busy
  <2>2. r \in Holders /\ Holders' = Holders \ {r} /\ r \notin Askers /\ Askers' = Askers
    BY <1>5, <2>1 DEF ReleaseCAS, Holders, Askers
  <2>3. cap' = cap
    BY <1>5, <2>2 DEF ReleaseCAS, Counted
  <2>4. inFlight'[entry] = inFlight[entry] - 1
    BY <1>5, <2>1 DEF ReleaseCAS, Counted
  <2>5. Cardinality(Holders') = Cardinality(Holders) - 1
    BY <2>2, HoldersFinite, FS_RemoveElement
  <2>6. \A q \in Requests : pc'[q] \in Busy => at'[q] = entry
    BY <1>5 DEF ReleaseCAS, Counted, Busy
  <2>7. Counted'
    BY <2>1, <2>2, <2>3, <2>4, <2>5, <2>6 DEF Counted
  <2>8. Semaphore!Release(r)
    BY <2>1, <2>2, <2>3 DEF Semaphore!Release
  <2> QED BY <2>1, <2>7, <2>8 DEF Semaphore!Next
\* The account is there, and a request that gives it back is counted.
<1>6. ASSUME NEW r \in Requests, ReleaseGone(r) \/ ReleaseZero(r)
      PROVE  FALSE
  <2>1. CASE ReleaseGone(r)
    BY <2>1, LeaseAssumption DEF ReleaseGone, Counted
  <2>2. CASE ReleaseZero(r)
    <3>1. Cardinality(Holders) = 0
      BY <2>2 DEF ReleaseZero, Counted, Busy
    <3>2. r \in Holders
      BY <2>2 DEF ReleaseZero, Holders
    <3> QED BY <3>1, <3>2, HoldersFinite, FS_EmptySet
  <2> QED BY <1>6, <2>1, <2>2
<1>7. CASE Remove \/ Add
  BY <1>7, LeaseAssumption DEF Remove, Add, Counted
<1>8. ASSUME NEW n \in Limits, SetMaxInFlight(n)
      PROVE  Goal
  <2>1. Semaphore!SetLimit(n)
    BY <1>8 DEF SetMaxInFlight, Semaphore!SetLimit, Askers, Holders
  <2>2. Counted'
    BY <1>8 DEF SetMaxInFlight, Counted, Askers, Holders
  <2> QED BY <1>8, <2>1, <2>2 DEF SetMaxInFlight, Semaphore!Next
<1>9. CASE UNCHANGED vars
  BY <1>9 DEF vars, Holders, Askers, Counted, Mapped
<1> QED BY <1>1, <1>2, <1>3, <1>4, <1>5, <1>6, <1>7, <1>8, <1>9 DEF Next

\* The compare-and-swap loops of Acquire and Release are a semaphore: no holder
\* above the cap, no refusal while there is room, no release lost or doubled.
THEOREM Refinement == Spec => IsSemaphore
<1>1. stays' = stays \/ ~[Next]_vars
  BY DEF Next, vars, Go, Leave, AcquireLookup, AcquireUnlimited,
     AcquireLoad, AcquireFull, AcquireAgain, AcquireCAS, ReleaseLookup, ReleaseGone,
     ReleaseLoad, ReleaseZero, ReleaseCAS, ReleaseAgain, Remove, Add, SetMaxInFlight
<1>2. Inv /\ Counted /\ [Next]_vars => Counted' /\ [Semaphore!Next]_(Semaphore!vars)
  <2>1. CASE stays
    BY <1>1, <2>1, NextCounted DEF Semaphore!vars, Mapped
  <2>2. CASE ~stays
    <3> SUFFICES ASSUME [Next]_vars
                 PROVE  Counted' /\ [Semaphore!Next]_(Semaphore!vars)
      OBVIOUS
    <3>1. ~stays'
      BY <1>1, <2>2
    <3>2. limit' = limit \/ \E n \in Limits : limit' = n
      BY DEF Next, vars, Go, Leave, AcquireLookup, AcquireUnlimited,
         AcquireLoad, AcquireFull, AcquireAgain, AcquireCAS, ReleaseLookup, ReleaseGone,
         ReleaseLoad, ReleaseZero, ReleaseCAS, ReleaseAgain, Remove, Add, SetMaxInFlight
    <3> QED BY <2>2, <3>1, <3>2 DEF Counted, Semaphore!vars, Semaphore!Next, Semaphore!SetLimit
  <2> QED BY <2>1, <2>2
<1> QED BY <1>2, InitCounted, Invariance, PTL DEF Spec, IsSemaphore, Semaphore!Spec
-----------------------------------------------------------------------------
(* The other count, the row of a model: ModelLedger as the run has it,     *)
(* with one request and one counter more.  The row never counts a request  *)
(* too many, and it goes away with the last of them.                       *)
Askings == Requests \cup {OneMore}
Rows == Entries \cup {OneMoreCounter}

USE DEF Askings, Rows

\* A request that is to change a counter has found one.
Pointed == \A r \in Askings : where[r] \in {"add", "take"} => pointed[r] \in Rows

\* The requests that have added one to the row in the map, or to an older one,
\* and may still take one from the row in the map.
Owing == {r \in Askings : where[r] = "held" \/ (where[r] = "take" /\ pointed[r] = row)}

Covered == row # None => count[row] <= Cardinality(Owing)

\* A row at zero has somebody who is about to count, or to delete the row.
Kept ==
    row # None => \/ count[row] > 0
                  \/ \E r \in Askings : where[r] \in {"add", "drop"} /\ pointed[r] = row

LedgerInv == Ledger!TypeOK /\ Pointed /\ Covered /\ Kept

-----------------------------------------------------------------------------
LEMMA AskingsFinite == IsFiniteSet(Askings)
BY LeaseAssumption, FS_AddElement

LEMMA OwingFinite ==
    /\ IsFiniteSet(Owing) /\ Cardinality(Owing) \in Nat
    /\ IsFiniteSet(Owing') /\ Cardinality(Owing') \in Nat
<1>1. Owing \subseteq Askings /\ Owing' \subseteq Askings
  BY DEF Owing
<1> QED BY <1>1, AskingsFinite, FS_Subset, FS_CardinalityType

LEMMA LedgerStarts == Ledger!Init => LedgerInv
BY LedgerAssumption DEF Ledger!Init, LedgerInv, Ledger!TypeOK, Pointed, Covered, Kept

\* Types, and the counters requests point to.
LEMMA LedgerTypes ==
    Ledger!TypeOK /\ Pointed /\ [Ledger!Next]_(Ledger!vars) => Ledger!TypeOK' /\ Pointed'
<1> SUFFICES ASSUME Ledger!TypeOK, Pointed, [Ledger!Next]_(Ledger!vars) PROVE Ledger!TypeOK' /\ Pointed'
  OBVIOUS
<1> USE LedgerAssumption DEF Ledger!TypeOK, Ledger!Go, Ledger!Leave
<1>1. ASSUME NEW r \in Askings, Ledger!FindOrCreate(r) \/ Ledger!Find(r)
      PROVE  Ledger!TypeOK' /\ Pointed'
  BY <1>1 DEF Ledger!FindOrCreate, Ledger!Find, Pointed
<1>2. ASSUME NEW r \in Askings, Ledger!AddOne(r)
      PROVE  Ledger!TypeOK' /\ Pointed'
  BY <1>2 DEF Ledger!AddOne, Pointed
<1>3. ASSUME NEW r \in Askings, Ledger!FindNothing(r) \/ Ledger!TakeNothing(r) \/ Ledger!Drop(r)
      PROVE  Ledger!TypeOK' /\ Pointed'
  BY <1>3 DEF Ledger!FindNothing, Ledger!TakeNothing, Ledger!Drop, Pointed
<1>4. ASSUME NEW r \in Askings, Ledger!TakeOne(r)
      PROVE  Ledger!TypeOK' /\ Pointed'
  BY <1>4 DEF Ledger!TakeOne, Pointed
<1>5. ASSUME NEW r \in Askings, Ledger!TakeOfMany(r)
      PROVE  Ledger!TypeOK' /\ Pointed'
  <2>1. pointed[r] \in Rows /\ count[pointed[r]] \in Nat /\ count[pointed[r]] > 1
    BY <1>5 DEF Ledger!TakeOfMany, Pointed
  <2>2. count' \in [Rows -> Nat]
    BY <1>5, <2>1 DEF Ledger!TakeOfMany
  <2> QED BY <1>5, <2>2 DEF Ledger!TakeOfMany, Pointed
<1>6. CASE UNCHANGED Ledger!vars
  BY <1>6 DEF Ledger!vars, Pointed
<1> QED BY <1>1, <1>2, <1>3, <1>4, <1>5, <1>6 DEF Ledger!Next

\* The row counts only requests that will take theirs back.
LEMMA NextCovered == LedgerInv /\ [Ledger!Next]_(Ledger!vars) => Covered'
<1> SUFFICES ASSUME LedgerInv, [Ledger!Next]_(Ledger!vars), row' # None
             PROVE  count'[row'] <= Cardinality(Owing')
  BY DEF Covered
<1> USE LedgerAssumption, OwingFinite DEF LedgerInv, Ledger!TypeOK, Ledger!Go, Ledger!Leave
<1>1. ASSUME NEW r \in Askings, Ledger!FindOrCreate(r)
      PROVE  count'[row'] <= Cardinality(Owing')
  <2>1. CASE row # None
    <3>1. Owing' = Owing /\ row' = row /\ count' = count
      BY <1>1, <2>1 DEF Ledger!FindOrCreate, Owing
    <3> QED BY <2>1, <3>1 DEF Covered
  <2>2. CASE row = None
    <3>1. row' \in Rows /\ count'[row'] = 0
      BY <1>1, <2>2 DEF Ledger!FindOrCreate
    <3> QED BY <3>1
  <2> QED BY <2>1, <2>2
<1>2. ASSUME NEW r \in Askings, Ledger!AddOne(r)
      PROVE  count'[row'] <= Cardinality(Owing')
  <2>1. row' = row /\ row \in Rows /\ pointed[r] \in Rows
    BY <1>2 DEF Ledger!AddOne, Pointed
  <2>2. r \notin Owing /\ Owing' = Owing \cup {r}
    BY <1>2 DEF Ledger!AddOne, Owing
  <2>3. Cardinality(Owing') = Cardinality(Owing) + 1
    BY <2>2, FS_AddElement
  <2>4. count'[row] \in Nat /\ count'[row] <= count[row] + 1
    BY <1>2, <2>1 DEF Ledger!AddOne
  <2> QED BY <2>1, <2>3, <2>4 DEF Covered
<1>3. ASSUME NEW r \in Askings, Ledger!Find(r) \/ Ledger!FindNothing(r) \/ Ledger!Drop(r)
      PROVE  count'[row'] <= Cardinality(Owing')
  <2>1. row' = row /\ count' = count /\ row # None
    BY <1>3 DEF Ledger!Find, Ledger!FindNothing, Ledger!Drop
  <2>2. Owing' = Owing
    BY <1>3, <2>1 DEF Ledger!Find, Ledger!FindNothing, Ledger!Drop, Owing
  <2> QED BY <2>1, <2>2 DEF Covered
<1>4. ASSUME NEW r \in Askings, Ledger!TakeOne(r) \/ Ledger!TakeOfMany(r) \/ Ledger!TakeNothing(r)
      PROVE  count'[row'] <= Cardinality(Owing')
  <2>1. row' = row /\ row \in Rows /\ pointed[r] \in Rows /\ where[r] = "take"
    BY <1>4 DEF Ledger!TakeOne, Ledger!TakeOfMany, Ledger!TakeNothing, Pointed
  <2>2. CASE pointed[r] = row
    <3>1. r \in Owing /\ Owing' = Owing \ {r}
      BY <1>4, <2>1, <2>2 DEF Ledger!TakeOne, Ledger!TakeOfMany, Ledger!TakeNothing, Owing
    <3>2. Cardinality(Owing') = Cardinality(Owing) - 1
      BY <3>1, FS_RemoveElement
    <3>3. count'[row] = 0 \/ count'[row] = count[row] - 1
      BY <1>4, <2>1, <2>2 DEF Ledger!TakeOne, Ledger!TakeOfMany, Ledger!TakeNothing
    <3> QED BY <2>1, <3>2, <3>3 DEF Covered
  <2>3. CASE pointed[r] # row
    <3>1. Owing' = Owing
      BY <1>4, <2>1, <2>3 DEF Ledger!TakeOne, Ledger!TakeOfMany, Ledger!TakeNothing, Owing
    <3>2. count'[row] = count[row]
      BY <1>4, <2>1, <2>3 DEF Ledger!TakeOne, Ledger!TakeOfMany, Ledger!TakeNothing
    <3> QED BY <2>1, <3>1, <3>2 DEF Covered
  <2> QED BY <2>2, <2>3
<1>5. CASE UNCHANGED Ledger!vars
  BY <1>5 DEF Ledger!vars, Owing, Covered
<1> QED BY <1>1, <1>2, <1>3, <1>4, <1>5 DEF Ledger!Next

\* A row at zero is somebody's business.
LEMMA NextKept == LedgerInv /\ [Ledger!Next]_(Ledger!vars) => Kept'
<1> SUFFICES ASSUME LedgerInv, [Ledger!Next]_(Ledger!vars), row' # None
             PROVE  \/ count'[row'] > 0
                    \/ \E r \in Askings : where'[r] \in {"add", "drop"} /\ pointed'[r] = row'
  BY DEF Kept
<1> USE LedgerAssumption DEF LedgerInv, Ledger!TypeOK, Ledger!Go, Ledger!Leave
<1>1. ASSUME NEW r \in Askings, Ledger!FindOrCreate(r)
      PROVE  where'[r] \in {"add", "drop"} /\ pointed'[r] = row'
  BY <1>1 DEF Ledger!FindOrCreate
<1>2. ASSUME NEW r \in Askings, Ledger!AddOne(r)
      PROVE  Kept'
  <2>1. row' = row /\ row \in Rows /\ pointed[r] \in Rows
    BY <1>2 DEF Ledger!AddOne, Pointed
  <2>2. CASE pointed[r] = row
    BY <1>2, <2>1, <2>2 DEF Ledger!AddOne, Kept
  <2>3. CASE pointed[r] # row
    BY <1>2, <2>1, <2>3 DEF Ledger!AddOne, Kept
  <2> QED BY <2>2, <2>3
<1>3. ASSUME NEW r \in Askings, Ledger!Find(r) \/ Ledger!FindNothing(r) \/ Ledger!TakeNothing(r)
      PROVE  Kept'
  BY <1>3 DEF Ledger!Find, Ledger!FindNothing, Ledger!TakeNothing, Kept
<1>4. ASSUME NEW r \in Askings, Ledger!TakeOne(r)
      PROVE  Kept'
  <2>1. row' = row /\ where'[r] = "drop" /\ pointed' = pointed
        /\ \A q \in Askings \ {r} : where'[q] = where[q]
    BY <1>4 DEF Ledger!TakeOne
  <2>2. pointed[r] # row => count'[row] = count[row]
    BY <1>4 DEF Ledger!TakeOne
  <2> QED BY <1>4, <2>1, <2>2 DEF Ledger!TakeOne, Kept
<1>5. ASSUME NEW r \in Askings, Ledger!TakeOfMany(r)
      PROVE  Kept'
  <2>1. row' = row /\ row \in Rows /\ pointed[r] \in Rows
    BY <1>5 DEF Ledger!TakeOfMany, Pointed
  <2>2. CASE pointed[r] = row
    BY <1>5, <2>1, <2>2 DEF Ledger!TakeOfMany, Kept
  <2>3. CASE pointed[r] # row
    BY <1>5, <2>1, <2>3 DEF Ledger!TakeOfMany, Kept
  <2> QED BY <2>2, <2>3
<1>6. ASSUME NEW r \in Askings, Ledger!Drop(r)
      PROVE  count'[row'] > 0
  BY <1>6 DEF Ledger!Drop
<1>7. CASE UNCHANGED Ledger!vars
  BY <1>7 DEF Ledger!vars, Kept
<1> QED BY <1>1, <1>2, <1>3, <1>4, <1>5, <1>6, <1>7 DEF Ledger!Next, Kept

\* The run moves one part or the other: what the ledger does is a step of it.
LEMMA LedgerInvariance == MCSpec => []LedgerInv
<1>1. MCInit => LedgerInv
  BY LedgerStarts DEF MCInit
<1>2. LedgerInv /\ [(LeaseMoves \/ LedgerMoves) /\ part' = part]_<<vars, part, row, count, where, pointed>>
         => LedgerInv'
  <2> SUFFICES ASSUME LedgerInv, [Ledger!Next]_(Ledger!vars) PROVE LedgerInv'
    BY DEF LeaseMoves, LedgerMoves, Ledger!vars
  <2> QED BY LedgerTypes, NextCovered, NextKept DEF LedgerInv
<1> QED BY <1>1, <1>2, PTL DEF MCSpec

-----------------------------------------------------------------------------
\* No count falls below zero, and every request that changes one has found one
\* (internal/pool/entry.go, acquireModel and releaseModel).
THEOREM NoneBelowZero == MCSpec => []LedgerTypeOK
<1>1. LedgerInv => LedgerTypeOK
  BY DEF LedgerInv, LedgerTypeOK
<1> QED BY <1>1, LedgerInvariance, PTL

\* The panel never shows more requests for a model than there are
\* (internal/pool/entry.go, the row and its counter).
THEOREM NoneTooMany == MCSpec => []NeverTooMany
<1>1. LedgerInv => NeverTooMany
  <2> SUFFICES ASSUME LedgerInv PROVE NeverTooMany
    OBVIOUS
  <2>1. Owing \subseteq Ledger!Holders /\ Ledger!Holders \subseteq Askings
    BY DEF Owing, Ledger!Holders
  <2>2. Cardinality(Owing) <= Cardinality(Ledger!Holders) /\ Cardinality(Ledger!Holders) \in Nat
    BY <2>1, AskingsFinite, FS_Subset, FS_CardinalityType
  <2>3. row # None => count[row] \in Nat
    BY DEF LedgerInv, Ledger!TypeOK
  <2>4. Ledger!Shown <= Cardinality(Ledger!Holders)
    BY <2>2, <2>3, OwingFinite DEF LedgerInv, Covered, Ledger!Shown
  <2>5. Ledger!Cardinality(Ledger!Holders) = Cardinality(Ledger!Holders)
    BY DEF Ledger!Cardinality, Cardinality
  <2> QED BY <2>4, <2>5 DEF NeverTooMany, Ledger!NeverTooMany
<1> QED BY <1>1, LedgerInvariance, PTL

\* Once every request is over the model has no row (internal/pool/entry.go, the
\* second look of releaseModel).
THEOREM RowsGone == MCSpec => []RowsGoAway
<1>1. LedgerInv => RowsGoAway
  <2> SUFFICES ASSUME LedgerInv, \A r \in Askings : where[r] = "idle", row # None PROVE FALSE
    BY DEF RowsGoAway, Ledger!RowsGoAway
  <2>1. Owing = {}
    BY DEF Owing
  <2>2. count[row] <= 0
    BY <2>1, FS_EmptySet DEF LedgerInv, Covered
  <2>3. count[row] > 0
    BY DEF LedgerInv, Kept
  <2>4. count[row] \in Nat
    BY DEF LedgerInv, Ledger!TypeOK
  <2> QED BY <2>2, <2>3, <2>4
<1> QED BY <1>1, LedgerInvariance, PTL
=============================================================================
