--------------------------- MODULE KeystoreProofs ---------------------------
(***************************************************************************)
(* Proofs about Keystore, for any number of requests, writers, versions,   *)
(* failures and crashes: no change is forgotten, and the limits are passed *)
(* by at most the other requests in flight.                                *)
(***************************************************************************)
EXTENDS Keystore, FiniteSetTheorems, TLAPS

\* Where the versions stand, and that a change always finds a timer: dirty is
\* only set together with flushTimer, and flushTimer is a timer still to fire.
Versions ==
    /\ mem <= issued /\ saved <= mem /\ disk.ver <= issued
    /\ \A w \in Goroutines : jobs[w].ver <= mem
    /\ dirty => armed
    /\ armed => timers > 0
    /\ ~Running => /\ \A r \in Requests : reqs[r].pc = "idle"
                   /\ \A w \in Goroutines : jobs[w] = NoJob

SaveInv == TypeOK /\ Versions /\ NothingForgotten

\* Requests that passed the quota check, or will pass it on their snapshot.
TokenHot == {r \in Requests :
    \/ reqs[r].pc = "serving"
    \/ reqs[r].pc = "resolved" /\ reqs[r].seen.used < Limit}

\* The same for the rate window.
RateHot == {r \in Requests :
    \/ reqs[r].pc = "serving"
    \/ reqs[r].pc = "resolved" /\ ~(reqs[r].rate.win = window /\ reqs[r].rate.count >= Limit)}

Ceiling == Limit + Cardinality(Requests)

TokenInv ==
    /\ key.used + Cardinality(TokenHot) < Ceiling
    /\ disk.key.used < Ceiling
    /\ \A w \in Goroutines : jobs[w].key.used < Ceiling

RateInv ==
    /\ rate.count < Ceiling /\ rate.win <= window
    /\ rate.win = window => rate.count + Cardinality(RateHot) < Ceiling

-----------------------------------------------------------------------------
LEMMA Nulls == /\ Unborn \in Content /\ Unborn.used = 0 /\ Unborn.state = "none"
               /\ NoJob \notin Job /\ NoJob.ver = -1 /\ NoJob.key = Unborn
               /\ NoJob.failed = FALSE
               /\ NoRate \in Rate /\ NoRate.win = -1 /\ NoRate.count = 0
               /\ NoFlush \in [ver : Nat, ok : BOOLEAN]
               /\ Idle.pc = "idle" /\ Idle \in Request
BY StoreAssumption DEF Unborn, Content, NoJob, Job, Rate, NoRate, NoFlush, Request, Idle

LEMMA JobFacts == ASSUME TypeOK, NEW w \in Goroutines
                  PROVE  /\ jobs[w] \in Job \cup {NoJob} /\ jobs[w].ver \in Int
                         /\ jobs[w] # NoJob => jobs[w].ver \in Nat /\ jobs[w].key \in Content
BY Nulls DEF TypeOK, Job

LEMMA RequestFacts ==
    ASSUME TypeOK, NEW r \in Requests
    PROVE  /\ [Idle EXCEPT !.pc = "serving"] \in Request
           /\ [Idle EXCEPT !.pc = "recorded"] \in Request
           /\ [pc |-> "resolved", seen |-> key, rate |-> rate] \in Request
BY Nulls DEF TypeOK, Request, Idle

LEMMA InitSave == Init => SaveInv
<1> SUFFICES ASSUME Init PROVE SaveInv
  OBVIOUS
<1>1. TypeOK
  BY Nulls DEF Init, TypeOK
<1>2. Versions /\ NothingForgotten
  BY Nulls DEF Init, Versions, NothingForgotten, Running
<1> QED BY <1>1, <1>2 DEF SaveInv

LEMMA EditSave == ASSUME SaveInv, NEW k \in Content, Edit(k) PROVE SaveInv'
<1> USE DEF SaveInv, Edit, Change, Schedule, useVars, boundVars
<1>1. TypeOK'
  BY DEF TypeOK
<1>2. Versions'
  BY Nulls DEF TypeOK, Versions, Running, Job
<1>3. NothingForgotten'
  BY DEF TypeOK, Versions, NothingForgotten
<1> QED BY <1>1, <1>2, <1>3

\* What the panel does is one edit, and no edit adds a use.
LEMMA PanelEdits ==
    ASSUME TypeOK, Panel
    PROVE  \E k \in Content : Edit(k) /\ k.used <= key.used
<1>0. key \in Content
  BY DEF TypeOK
<1>1. CASE Delete \/ ResetUsage
  <2>1. Edit([key EXCEPT !.state = "gone"]) \/ Edit([key EXCEPT !.used = 0])
    BY <1>1 DEF Delete, ResetUsage
  <2>2. /\ [key EXCEPT !.state = "gone"] \in Content /\ [key EXCEPT !.used = 0] \in Content
        /\ [key EXCEPT !.state = "gone"].used <= key.used
        /\ [key EXCEPT !.used = 0].used <= key.used
    BY <1>0 DEF Content
  <2> QED BY <2>1, <2>2
<1>2. ASSUME NEW q \in 1 .. Limit, NEW l \in 1 .. Limit, Create(q, l)
      PROVE  \E k \in Content : Edit(k) /\ k.used <= key.used
  <2> DEFINE k == [state |-> "on", used |-> 0, quota |-> q, rateLimit |-> l]
  <2>1. Edit(k)
    BY <1>2 DEF Create
  <2>2. k \in Content /\ k.used <= key.used
    BY <1>0 DEF Content
  <2> QED BY <2>1, <2>2
<1>3. ASSUME NEW q \in 1 .. Limit, NEW l \in 1 .. Limit, NEW state \in {"on", "off"},
             Update(state, q, l)
      PROVE  \E k \in Content : Edit(k) /\ k.used <= key.used
  <2> DEFINE k == [state |-> state, used |-> key.used, quota |-> q, rateLimit |-> l]
  <2>1. Edit(k)
    BY <1>3 DEF Update
  <2>2. k \in Content /\ k.used <= key.used
    BY <1>0 DEF Content
  <2> QED BY <2>1, <2>2
<1> QED BY <1>1, <1>2, <1>3 DEF Panel

LEMMA PanelSave ==
    ASSUME SaveInv, Panel
    PROVE  SaveInv'
<1>1. PICK k \in Content : Edit(k)
  BY PanelEdits DEF SaveInv
<1> QED BY <1>1, EditSave

LEMMA StepSave ==
    ASSUME SaveInv, NEW r \in Requests, Resolve(r) \/ Validate(r) \/ Leave(r)
    PROVE  SaveInv'
<1> USE DEF SaveInv, Resolve, Validate, Leave, Step, keyVars, saveVars, boundVars
<1>1. reqs[r].pc # "recorded" /\ Running
  OBVIOUS
<1>2. TypeOK'
  BY Nulls, RequestFacts DEF TypeOK
<1>3. Versions'
  BY <1>1 DEF Versions, Running
<1>4. NothingForgotten'
  BY <1>1 DEF TypeOK, NothingForgotten, Running
<1> QED BY <1>2, <1>3, <1>4

LEMMA RecordSave ==
    ASSUME SaveInv, NEW r \in Requests, RecordUse(r) \/ RecordSchedule(r)
    PROVE  SaveInv'
<1> USE DEF SaveInv, keyVars, saveVars, boundVars
<1>1. CASE RecordUse(r)
  <2> USE <1>1 DEF RecordUse, Change
  <2>1. key' \in Content /\ rate' \in Rate /\ reqs' \in [Requests -> Request]
    BY RequestFacts DEF TypeOK, Content, Rate
  <2>4. TypeOK'
    BY <2>1 DEF TypeOK
  <2>2. Versions'
    BY Nulls DEF TypeOK, Versions, Running, Job
  <2>3. NothingForgotten'
    BY Nulls DEF TypeOK, NothingForgotten
  <2> QED BY <2>2, <2>3, <2>4
<1>2. CASE RecordSchedule(r)
  <2> USE <1>2 DEF RecordSchedule, Schedule
  <2>1. TypeOK'
    BY Nulls DEF TypeOK
  <2>2. Versions'
    BY DEF TypeOK, Versions, Running
  <2>3. NothingForgotten'
    BY DEF TypeOK, Versions, NothingForgotten
  <2> QED BY <2>1, <2>2, <2>3
<1> QED BY <1>1, <1>2

\* The snapshot a goroutine takes holds the newest content.
LEMMA TakeSave ==
    ASSUME SaveInv, NEW w \in Goroutines, Take(w)
    PROVE  /\ jobs' \in [Goroutines -> Job \cup {NoJob}]
           /\ \A v \in Goroutines : jobs[v].ver \in Int
           /\ \A v \in Goroutines : jobs'[v] = jobs[v] \/ jobs'[v].ver = mem
           /\ dirty => jobs'[w].ver = mem
           /\ ~dirty => jobs' = jobs
           /\ dirty' = FALSE /\ armed' = FALSE
<1> USE JobFacts DEF Take, SaveInv, TypeOK
<1>1. CASE dirty
  <2>1. Snapshot \in Job /\ Snapshot.ver = mem
    BY DEF Snapshot, Job
  <2> QED BY <1>1, <2>1
<1>2. CASE ~dirty
  BY <1>2
<1> QED BY <1>1, <1>2

LEMMA TimerSave == ASSUME SaveInv, NEW w \in Writers, TimerFlush(w) PROVE SaveInv'
<1>1. /\ Running /\ Running' /\ timers' \in Nat
      /\ UNCHANGED <<key, mem, issued, rate, window, reqs, saved, disk, phase, flushed,
                     failures, crashes>>
  BY DEF TimerFlush, SaveInv, TypeOK, Running, keyVars, useVars, boundVars
<1>2. /\ jobs' \in [Goroutines -> Job \cup {NoJob}]
      /\ \A v \in Goroutines : jobs[v].ver \in Int
      /\ \A v \in Goroutines : jobs'[v] = jobs[v] \/ jobs'[v].ver = mem
      /\ dirty => \E v \in Goroutines : jobs'[v].ver = mem
      /\ ~dirty => jobs' = jobs
      /\ dirty' = FALSE /\ armed' = FALSE
  BY TakeSave DEF TimerFlush, Goroutines
<1> USE <1>1, <1>2 DEF SaveInv
<1>3. TypeOK'
  BY DEF TypeOK
<1>4. Versions'
  BY DEF TypeOK, Versions
<1>5. NothingForgotten'
  BY DEF NothingForgotten
<1> QED BY <1>3, <1>4, <1>5

LEMMA FlushSave ==
    ASSUME SaveInv, NEW stopped \in BOOLEAN, FlushBegin(stopped) PROVE SaveInv'
<1>1. /\ Running /\ Running' /\ phase' \in {"closing", "closed"}
      /\ timers' \in Nat
      /\ flushed' = [ver |-> mem, ok |-> TRUE]
      /\ UNCHANGED <<key, mem, issued, rate, window, reqs, saved, disk, failures, crashes>>
  BY DEF FlushBegin, MayStop, SaveInv, Versions, TypeOK, Running, keyVars, useVars, boundVars
<1>2. /\ jobs' \in [Goroutines -> Job \cup {NoJob}]
      /\ \A v \in Goroutines : jobs[v].ver \in Int
      /\ \A v \in Goroutines : jobs'[v] = jobs[v] \/ jobs'[v].ver = mem
      /\ dirty => \E v \in Goroutines : jobs'[v].ver = mem
      /\ ~dirty => jobs' = jobs
      /\ dirty' = FALSE /\ armed' = FALSE
  BY TakeSave DEF FlushBegin, Goroutines
<1> USE <1>1, <1>2 DEF SaveInv
<1>3. TypeOK'
  BY DEF TypeOK
<1>4. Versions'
  BY DEF TypeOK, Versions
<1>5. NothingForgotten'
  BY DEF NothingForgotten
<1> QED BY <1>3, <1>4, <1>5

LEMMA WriteSave == ASSUME SaveInv, NEW w \in Goroutines, Write(w) PROVE SaveInv'
<1> USE DEF SaveInv, Write, Done, keyVars, useVars, saveVars, boundVars
<1>0. jobs[w] \in Job
  BY DEF TypeOK
<1>1. TypeOK'
  BY <1>0 DEF TypeOK, Job
<1>2. Versions'
  BY <1>0, Nulls DEF TypeOK, Versions, Running, Job
<1>3. NothingForgotten'
  BY <1>0 DEF TypeOK, Versions, NothingForgotten, Running, Job
<1> QED BY <1>1, <1>2, <1>3

LEMMA FailSave == ASSUME SaveInv, NEW w \in Goroutines, WriteFails(w) \/ AfterFailure(w)
                  PROVE  SaveInv'
<1> USE DEF SaveInv, keyVars, useVars, saveVars, boundVars
<1>0. WriteFails(w) => jobs[w] \in Job
  BY DEF TypeOK, WriteFails
<1>1. CASE WriteFails(w)
  <2> DEFINE job == [jobs[w] EXCEPT !.failed = TRUE]
  <2>0. job \in Job /\ job.ver = jobs[w].ver /\ jobs' = [jobs EXCEPT ![w] = job]
    BY <1>0, <1>1 DEF Job, WriteFails
  <2> HIDE DEF job
  <2>4. jobs' \in [Goroutines -> Job \cup {NoJob}]
    BY <2>0 DEF TypeOK
  <2>1. TypeOK'
    BY <1>1, <2>4 DEF TypeOK, WriteFails
  <2>2. Versions'
    BY <1>1, <2>0 DEF TypeOK, Versions, Running, WriteFails
  <2>3. NothingForgotten'
    BY <1>1, <2>0 DEF TypeOK, NothingForgotten, Running, WriteFails
  <2> QED BY <2>1, <2>2, <2>3
<1>2. CASE AfterFailure(w)
  <2> USE <1>2 DEF AfterFailure, MarkDirty, Schedule, Done
  <2>4. /\ phase' \in {"up", "closing", "closed", "down"}
        /\ flushed' \in [ver : Nat, ok : BOOLEAN]
        /\ jobs' \in [Goroutines -> Job \cup {NoJob}]
    BY DEF TypeOK
  <2>1. TypeOK'
    BY <2>4 DEF TypeOK
  <2>2. Versions'
    BY Nulls DEF TypeOK, Versions, Running
  <2>3. NothingForgotten'
    BY DEF TypeOK, Versions, NothingForgotten
  <2> QED BY <2>1, <2>2, <2>3
<1> QED BY <1>1, <1>2

LEMMA StopSave == ASSUME SaveInv, NextWindow \/ Stop \/ Restart PROVE SaveInv'
<1> USE DEF SaveInv, keyVars, useVars, saveVars, boundVars
<1>1. CASE NextWindow
  BY <1>1 DEF NextWindow, TypeOK, Versions, NothingForgotten, Running
<1>2. CASE Stop
  <2>1. TypeOK'
    <3>1. /\ reqs' \in [Requests -> Request]
          /\ jobs' \in [Goroutines -> Job \cup {NoJob}]
      BY <1>2, Nulls DEF Stop
    <3>2. crashes' \in Nat /\ phase' \in {"up", "closing", "closed", "down"}
      BY <1>2 DEF Stop, TypeOK
    <3> QED BY <1>2, <3>1, <3>2, Nulls DEF Stop, TypeOK
  <2>2. Versions' /\ NothingForgotten'
    BY <1>2, Nulls DEF Stop, TypeOK, Versions, NothingForgotten, Running
  <2> QED BY <2>1, <2>2
<1>3. CASE Restart
  BY <1>3, Nulls DEF Restart, TypeOK, Versions, NothingForgotten, Running
<1> QED BY <1>1, <1>2, <1>3

LEMMA NextSave == SaveInv /\ [Next]_vars => SaveInv'
<1> SUFFICES ASSUME SaveInv, [Next]_vars PROVE SaveInv'
  OBVIOUS
<1>1. CASE UNCHANGED vars
  BY <1>1 DEF vars, SaveInv, TypeOK, Versions, NothingForgotten, Running
<1>2. CASE Next
  BY <1>2, PanelSave, StepSave, RecordSave, TimerSave, FlushSave, WriteSave, FailSave,
     StopSave DEF Next
<1> QED BY <1>1, <1>2

\* The inductive invariant of the saves holds throughout.
THEOREM SaveInvariance == Spec => []SaveInv
BY InitSave, NextSave, PTL DEF Spec

\* The store's state keeps its types (internal/keystore/keystore.go).
THEOREM TypeCorrect == Spec => []TypeOK
<1>1. SaveInv => TypeOK
  BY DEF SaveInv
<1> QED BY <1>1, SaveInvariance, PTL

\* No interleaving of uses, edits, timer callbacks, Flush, failed writes and
\* crashes leaves a change without someone who will write it (scheduleFlush,
\* flush, Flush and markDirty of internal/keystore/keystore.go).
THEOREM ChangesReachTheFile == Spec => []NothingForgotten
<1>1. SaveInv => NothingForgotten
  BY DEF SaveInv
<1> QED BY <1>1, SaveInvariance, PTL
-----------------------------------------------------------------------------
(***************************************************************************)
(* The limits.  A use can pass a limit only if its request was let through *)
(* on a snapshot below it.  Below the limit every request may be such a    *)
(* one; from the limit on no new one appears, and each use takes one away. *)
(***************************************************************************)

LEMMA Sizes ==
    /\ Cardinality(Requests) \in Nat /\ Ceiling \in Nat
    /\ \A S \in SUBSET Requests :
        /\ Cardinality(S) \in Nat /\ Cardinality(S) <= Cardinality(Requests)
        /\ \A T \in SUBSET S : Cardinality(T) <= Cardinality(S)
        /\ \A r \in S : Cardinality(S \ {r}) = Cardinality(S) - 1
<1>1. \A S \in SUBSET Requests : IsFiniteSet(S)
  BY StoreAssumption, FS_Subset
<1>2. ASSUME NEW S \in SUBSET Requests, NEW r \in S
      PROVE  Cardinality(S \ {r}) = Cardinality(S) - 1
  BY <1>1, FS_RemoveElement
<1>3. \A S \in SUBSET Requests : Cardinality(S) \in Nat
  BY <1>1, FS_CardinalityType
<1>4. ASSUME NEW S \in SUBSET Requests, NEW T \in SUBSET S
      PROVE  Cardinality(T) <= Cardinality(S)
  BY <1>1, FS_Subset
<1>5. Cardinality(Requests) \in Nat /\ Requests \in SUBSET Requests
  BY <1>3
<1>6. Ceiling \in Nat
  BY <1>5, StoreAssumption DEF Ceiling
<1> QED BY <1>2, <1>3, <1>4, <1>5, <1>6

LEMMA InitLimits == Init => TokenInv /\ RateInv
<1> SUFFICES ASSUME Init PROVE TokenInv /\ RateInv
  OBVIOUS
<1>1. TokenHot = {} /\ RateHot = {}
  BY Nulls DEF Init, TokenHot, RateHot
<1> QED BY <1>1, Sizes, FS_EmptySet, StoreAssumption, Nulls
        DEF Init, TokenInv, RateInv, Ceiling

LEMMA PanelLimits ==
    ASSUME SaveInv, TokenInv, RateInv, Panel
    PROVE  TokenInv' /\ RateInv'
<1>0. PICK k \in Content : Edit(k) /\ k.used <= key.used
  BY PanelEdits DEF SaveInv
<1>1. key'.used \in Nat /\ key'.used <= key.used
  BY <1>0 DEF Edit, Change, Content
<1>2. UNCHANGED <<rate, window, reqs, disk, jobs>>
  BY <1>0 DEF Edit, useVars
<1>3. TokenHot' = TokenHot /\ RateHot' = RateHot
  BY <1>2 DEF TokenHot, RateHot
<1>4. key.used \in Nat /\ Cardinality(TokenHot) \in Nat
  BY Sizes DEF SaveInv, TypeOK, Content, TokenHot
<1> QED BY <1>1, <1>2, <1>3, <1>4, Sizes DEF TokenInv, RateInv

\* The snapshot decides: at the limit a request that resolves stays outside.
LEMMA ResolveLimits ==
    ASSUME SaveInv, TokenInv, RateInv, NEW r \in Requests, Resolve(r)
    PROVE  TokenInv' /\ RateInv'
<1>1. /\ UNCHANGED <<key, rate, window, disk, jobs>>
      /\ reqs' = [reqs EXCEPT ![r] = [pc |-> "resolved", seen |-> key, rate |-> rate]]
      /\ reqs[r].pc = "idle"
  BY DEF Resolve, Step, keyVars, saveVars, boundVars
<1>2. reqs \in [Requests -> Request]
  BY DEF SaveInv, TypeOK
<1>3. key.used >= Limit => TokenHot' = TokenHot
  BY <1>1, <1>2, StoreAssumption DEF TokenHot, SaveInv, TypeOK, Content
<1>4. rate.win = window /\ rate.count >= Limit => RateHot' = RateHot
  BY <1>1, <1>2 DEF RateHot
<1>5. /\ key.used \in Nat /\ rate.count \in Nat /\ Limit \in Nat
      /\ Cardinality(TokenHot') \in Nat /\ Cardinality(TokenHot') <= Cardinality(Requests)
      /\ Cardinality(RateHot') \in Nat /\ Cardinality(RateHot') <= Cardinality(Requests)
      /\ Cardinality(Requests) \in Nat
  BY Sizes, StoreAssumption DEF SaveInv, TypeOK, Content, Rate, TokenHot, RateHot
<1>6. TokenInv'
  BY <1>1, <1>3, <1>5 DEF TokenInv, Ceiling
<1>7. RateInv'
  BY <1>1, <1>4, <1>5 DEF RateInv, Ceiling
<1> QED BY <1>6, <1>7

LEMMA StepLimits ==
    ASSUME SaveInv, TokenInv, RateInv, NEW r \in Requests,
           Validate(r) \/ Leave(r) \/ RecordSchedule(r)
    PROVE  TokenInv' /\ RateInv'
<1>1. UNCHANGED <<key, rate, window, disk, jobs>>
  BY DEF Validate, Leave, Step, RecordSchedule, keyVars, saveVars, boundVars
<1>2. TokenHot' \subseteq TokenHot /\ RateHot' \subseteq RateHot
  <2>1. \A q \in Requests : q # r => reqs'[q] = reqs[q]
    BY DEF Validate, Leave, Step, RecordSchedule, SaveInv, TypeOK
  <2>2. CASE Validate(r)
    <3>1. r \in TokenHot /\ r \in RateHot
      <4>1. /\ reqs[r].seen.used \in Nat /\ reqs[r].rate.count \in Nat
            /\ reqs[r].seen.quota \in 1 .. Limit /\ reqs[r].seen.rateLimit \in 1 .. Limit
        BY DEF SaveInv, TypeOK, Request, Content, Rate
      <4>2. /\ reqs[r].pc = "resolved" /\ ~(reqs[r].seen.used >= reqs[r].seen.quota)
            /\ ~(reqs[r].rate.win = window /\ reqs[r].rate.count >= reqs[r].seen.rateLimit)
        BY <2>2 DEF Validate, OverLimits
      <4> QED BY <4>1, <4>2, StoreAssumption DEF TokenHot, RateHot
    <3> QED BY <1>1, <2>1, <3>1 DEF TokenHot, RateHot
  <2>3. CASE Leave(r) \/ RecordSchedule(r)
    <3>1. reqs'[r].pc = "idle"
      BY <2>3, Nulls DEF Leave, Step, RecordSchedule, SaveInv, TypeOK
    <3> QED BY <1>1, <2>1, <3>1 DEF TokenHot, RateHot
  <2> QED BY <2>2, <2>3
<1>3. /\ Cardinality(TokenHot) \in Nat /\ Cardinality(RateHot) \in Nat
      /\ Cardinality(TokenHot') \in Nat /\ Cardinality(RateHot') \in Nat
      /\ Cardinality(TokenHot') <= Cardinality(TokenHot)
      /\ Cardinality(RateHot') <= Cardinality(RateHot)
  BY <1>2, Sizes DEF TokenHot, RateHot
<1>4. key.used \in Nat /\ rate.count \in Nat
  BY DEF SaveInv, TypeOK, Content, Rate
<1> QED BY <1>1, <1>3, <1>4, Sizes DEF TokenInv, RateInv

\* A use is counted and its request no longer is.
LEMMA RecordLimits ==
    ASSUME SaveInv, TokenInv, RateInv, NEW r \in Requests, RecordUse(r)
    PROVE  TokenInv' /\ RateInv'
<1>1. /\ UNCHANGED <<window, disk, jobs>>
      /\ reqs' = [reqs EXCEPT ![r] = [Idle EXCEPT !.pc = "recorded"]]
      /\ reqs[r].pc = "serving"
      /\ rate' = [win |-> window, count |-> IF rate.win = window THEN rate.count + 1 ELSE 1]
      /\ key' = [key EXCEPT !.used = @ + 1]
  BY DEF RecordUse, Change
<1>2. /\ r \in TokenHot /\ TokenHot' = TokenHot \ {r}
      /\ r \in RateHot /\ RateHot' = RateHot \ {r}
  <2>1. /\ \A q \in Requests : q # r => reqs'[q] = reqs[q]
        /\ reqs'[r].pc = "recorded"
    BY <1>1 DEF SaveInv, TypeOK, Idle
  <2> QED BY <1>1, <2>1 DEF TokenHot, RateHot
<1>3. /\ Cardinality(TokenHot) \in Nat /\ Cardinality(RateHot) \in Nat
      /\ Cardinality(RateHot) <= Cardinality(Requests) /\ Cardinality(Requests) \in Nat
      /\ Cardinality(TokenHot') = Cardinality(TokenHot) - 1
      /\ Cardinality(RateHot') = Cardinality(RateHot) - 1
      /\ Cardinality(RateHot') \in Nat
  <2>1. TokenHot \in SUBSET Requests /\ RateHot \in SUBSET Requests
    BY DEF TokenHot, RateHot
  <2> QED BY <1>2, <2>1, Sizes
<1>4. /\ key.used \in Nat /\ key'.used = key.used + 1
      /\ rate.count \in Nat /\ rate'.win = window
      /\ rate'.count = (IF rate.win = window THEN rate.count + 1 ELSE 1)
      /\ window \in Nat /\ Limit \in Nat \ {0}
  BY <1>1, StoreAssumption DEF SaveInv, TypeOK, Content, Rate
<1>5. TokenInv'
  BY <1>1, <1>3, <1>4, Sizes DEF TokenInv
<1>6. RateInv'
  BY <1>1, <1>3, <1>4 DEF RateInv, Ceiling
<1> QED BY <1>5, <1>6

\* A new window makes the count a thing of the past.
LEMMA WindowLimits ==
    ASSUME SaveInv, TokenInv, RateInv, NextWindow
    PROVE  TokenInv' /\ RateInv'
<1>1. UNCHANGED <<key, rate, reqs, disk, jobs>> /\ window' = window + 1
  BY DEF NextWindow, keyVars, saveVars, boundVars
<1>2. TokenHot' = TokenHot
  BY <1>1 DEF TokenHot
<1>3. rate.win \in Int /\ window \in Nat
  BY DEF SaveInv, TypeOK, Rate
<1> QED BY <1>1, <1>2, <1>3 DEF TokenInv, RateInv, Ceiling

\* Saves copy what is below the ceiling already.
LEMMA SavingLimits ==
    ASSUME SaveInv, TokenInv, RateInv, NEW w \in Goroutines,
           \/ TimerFlush(w) \/ Write(w) \/ WriteFails(w) \/ AfterFailure(w)
           \/ \E stopped \in BOOLEAN : w = Flusher /\ FlushBegin(stopped)
    PROVE  TokenInv' /\ RateInv'
<1> USE DEF keyVars, useVars, saveVars, boundVars
<1>1. UNCHANGED <<key, rate, window, reqs>>
  BY DEF TimerFlush, Write, WriteFails, AfterFailure, FlushBegin
<1>2. TokenHot' = TokenHot /\ RateHot' = RateHot
  BY <1>1 DEF TokenHot, RateHot
<1>3. key.used < Ceiling
  BY Sizes DEF TokenInv, SaveInv, TypeOK, Content, TokenHot
<1>4. NoJob.key.used < Ceiling
  BY Sizes, StoreAssumption, Nulls DEF Ceiling
<1>5. /\ disk'.key.used < Ceiling
      /\ \A v \in Goroutines : jobs'[v].key.used < Ceiling
  <2>1. CASE TimerFlush(w) \/ \E stopped \in BOOLEAN : w = Flusher /\ FlushBegin(stopped)
    BY <2>1, <1>3 DEF TimerFlush, FlushBegin, Take, Snapshot, TokenInv, SaveInv, TypeOK
  <2>2. CASE Write(w) \/ AfterFailure(w)
    BY <2>2, <1>4 DEF Write, AfterFailure, Done, TokenInv, SaveInv, TypeOK
  <2>3. CASE WriteFails(w)
    <3>1. [jobs[w] EXCEPT !.failed = TRUE].key = jobs[w].key
      BY <2>3 DEF WriteFails, SaveInv, TypeOK, Job
    <3> QED BY <2>3, <3>1 DEF WriteFails, TokenInv, SaveInv, TypeOK
  <2> QED BY <2>1, <2>2, <2>3
<1>6. Ceiling' = Ceiling
  BY DEF Ceiling
<1> QED BY <1>1, <1>2, <1>5, <1>6 DEF TokenInv, RateInv

LEMMA StopLimits ==
    ASSUME SaveInv, TokenInv, RateInv, Stop \/ Restart
    PROVE  TokenInv' /\ RateInv'
<1>1. \A r \in Requests : reqs'[r].pc = "idle"
  BY Nulls DEF Stop, Restart, useVars, SaveInv, Versions, Running
<1>2. TokenHot' = {} /\ RateHot' = {}
  BY <1>1 DEF TokenHot, RateHot
<1>3. Cardinality({}) = 0 /\ Ceiling \in Nat /\ Ceiling > 0
  BY FS_EmptySet, Sizes, StoreAssumption DEF Ceiling
<1>4. key'.used < Ceiling /\ disk' = disk
  BY <1>3, Nulls DEF Stop, Restart, TokenInv
<1>5. \A w \in Goroutines : jobs'[w].key.used < Ceiling
  BY <1>3, Nulls DEF Stop, Restart, TokenInv
<1>6. key'.used \in Nat
  BY Nulls DEF Stop, Restart, SaveInv, TypeOK, Content
<1>7. TokenInv'
  BY <1>2, <1>3, <1>4, <1>5, <1>6 DEF TokenInv, Ceiling
<1>0. Ceiling' = Ceiling
  BY DEF Ceiling
<1>8. CASE Stop
  <2>1. rate' = NoRate /\ window' \in Nat
    BY <1>8 DEF Stop, SaveInv, TypeOK
  <2>2. rate'.count < Ceiling /\ rate'.win = -1
    BY <2>1, <1>3, Nulls
  <2> QED BY <1>0, <1>7, <2>1, <2>2 DEF RateInv
<1>9. CASE Restart
  <2>1. UNCHANGED <<rate, window>>
    BY <1>9 DEF Restart, useVars
  <2>2. rate.count + Cardinality(RateHot') = rate.count
    BY <1>2, <1>3 DEF SaveInv, TypeOK, Rate
  <2> QED BY <1>0, <1>7, <2>1, <2>2 DEF RateInv
<1> QED BY <1>7, <1>8, <1>9

LEMMA NextLimits == SaveInv /\ TokenInv /\ RateInv /\ [Next]_vars => (TokenInv /\ RateInv)'
<1> SUFFICES ASSUME SaveInv, TokenInv, RateInv, [Next]_vars PROVE TokenInv' /\ RateInv'
  OBVIOUS
<1>1. CASE UNCHANGED vars
  BY <1>1 DEF vars, TokenInv, RateInv, TokenHot, RateHot, Ceiling
<1>2. Flusher \in Goroutines /\ Writers \subseteq Goroutines
  BY DEF Goroutines
<1>3. CASE Next
  BY <1>2, <1>3, PanelLimits, ResolveLimits, StepLimits, RecordLimits, WindowLimits,
     SavingLimits, StopLimits DEF Next
<1> QED BY <1>1, <1>3

\* However many requests are in flight, a quota or a rate limit is passed by
\* fewer than that many uses (Validate on a snapshot, RecordUse after the
\* upstream answered; internal/keystore/keystore.go).
THEOREM LimitsAreSoft == Spec => []SoftLimits
<1>1. SaveInv /\ TokenInv /\ RateInv => SoftLimits
  BY Sizes DEF SaveInv, TypeOK, Content, TokenInv, RateInv, SoftLimits, Ceiling, TokenHot
<1> QED BY <1>1, InitLimits, NextLimits, SaveInvariance, PTL DEF Spec
=============================================================================
