------------------------- MODULE PoolPersistProofs -------------------------
(***************************************************************************)
(* Proofs about PoolPersist, for any number of versions, failures and      *)
(* crashes.                                                                *)
(***************************************************************************)
EXTENDS PoolPersist, TLAPS

\* Sequence order is snapshot order: jobs with larger numbers hold newer versions.
JobsOrdered ==
    \A j, k \in jobs : /\ j.seq = k.seq => j = k
                       /\ j.seq < k.seq => j.ver <= k.ver

\* A job is never ahead of the pool and, unless it will be skipped, never
\* behind the file.
JobsBetween ==
    \A j \in jobs : /\ j.seq <= seq /\ j.ver <= mem
                    /\ j.seq > completed => j.ver >= durable

WritingLast ==
    writing # NoJob => /\ writing \in jobs /\ writing.seq = completed
                       /\ writing.ver = disk.ver /\ disk # Absent

Versions ==
    /\ completed <= seq /\ mem <= issued
    /\ disk.ver <= issued /\ durable <= mem
    /\ disk.ver = mem => durable = mem
    /\ \A m \in pending \cup {mirror} : m.ver <= issued
    /\ ~Running => jobs = {} /\ writing = NoJob /\ pending = {}

\* Where the version Flush was called with is while Flush waits.
FlushCovered ==
    phase \in {"closing", "closed"} /\ ~flushing.failed =>
        \/ disk.ver >= flushing.ver /\ durable >= flushing.ver
        \/ /\ phase = "closing"
           /\ \E j \in jobs : /\ completed < j.seq /\ j.seq <= flushing.seq
                              /\ j.ver >= flushing.ver

Inv == TypeOK /\ JobsOrdered /\ JobsBetween /\ WritingLast /\ Versions
       /\ CleanMeansOnItsWay /\ FlushCovered

\* With exact file times a mirror stamped no earlier than the file is a copy of it.
TimesInv ==
    /\ disk # Absent => disk.ver = durable /\ disk.at < clock
    /\ \A m \in pending \cup {mirror} :
        m # Absent => /\ m.at < clock
                      /\ disk # Absent /\ disk.at <= m.at => m.ver = disk.ver

-----------------------------------------------------------------------------
LEMMA NullFacts == /\ NoJob \notin Job /\ Absent \notin Snapshot
                   /\ NoJob.seq = 0 /\ NoJob.ver = 0 /\ Absent.ver = 0
BY DEF NoJob, Job, Absent, Snapshot

LEMMA FileFacts == ASSUME TypeOK
                   PROVE  /\ disk.ver \in Nat /\ (disk = Absent => disk.ver = 0)
                          /\ \A m \in pending \cup {mirror} : m.ver \in Nat
BY NullFacts DEF TypeOK, Snapshot

LEMMA MtimeNat == \A t \in Nat : Mtime(t) \in Nat
BY BoundsAssumption DEF Mtime

LEMMA InitInv == Init => Inv
<1> SUFFICES ASSUME Init PROVE Inv
  OBVIOUS
<1> USE NullFacts DEF Init, NoFlush
<1>1. TypeOK
  BY DEF TypeOK
<1>2. JobsOrdered /\ JobsBetween /\ WritingLast
  BY DEF JobsOrdered, JobsBetween, WritingLast
<1>3. Versions
  BY DEF Versions, Running
<1>4. CleanMeansOnItsWay /\ FlushCovered
  BY DEF CleanMeansOnItsWay, FlushCovered
<1> QED BY <1>1, <1>2, <1>3, <1>4 DEF Inv

LEMMA MutateInv == ASSUME Inv, Mutate PROVE Inv'
<1> USE DEF Inv, TypeOK, Mutate
<1>1. TypeOK' /\ JobsOrdered' /\ WritingLast'
  BY DEF JobsOrdered, WritingLast
<1>2. JobsBetween'
  BY DEF JobsBetween, Versions, Job
<1>3. Versions'
  BY FileFacts DEF Versions, Running
<1>4. CleanMeansOnItsWay' /\ FlushCovered'
  BY DEF CleanMeansOnItsWay, FlushCovered
<1> QED BY <1>1, <1>2, <1>3, <1>4

\* What a save leaves true: every conjunct but the one about Flush.
LEMMA NewJobInv ==
    ASSUME Inv, Running, NewJob(mem'), mem' \in Nat, mem' = mem \/ mem' > issued,
           issued' \in Nat, issued' >= mem', issued' >= issued,
           UNCHANGED <<completed, writing, disk, durable, pending, mirror>>, Running'
    PROVE  /\ seq' \in Nat /\ jobs' \subseteq Job
           /\ JobsOrdered' /\ JobsBetween' /\ WritingLast' /\ Versions'
           /\ CleanMeansOnItsWay'
<1> USE DEF Inv, TypeOK, NewJob
<1>1. seq' \in Nat /\ jobs' \subseteq Job
  BY DEF Job
<1>2. mem' >= mem /\ \A j \in jobs : j.seq < seq + 1 /\ j.ver <= mem'
  BY DEF Versions, JobsBetween, Job
<1>3. JobsOrdered'
  BY <1>2 DEF JobsOrdered, Job
<1>4. JobsBetween'
  BY <1>2 DEF JobsBetween, Versions, Job
<1>5. WritingLast'
  BY DEF WritingLast
<1>6. Versions'
  BY FileFacts DEF Versions, Running
<1>7. CleanMeansOnItsWay'
  <2> DEFINE new == [seq |-> seq + 1, ver |-> mem']
  <2>1. new \in jobs' /\ new.ver = mem' /\ new.seq > completed'
    BY DEF Versions
  <2> QED BY <2>1 DEF CleanMeansOnItsWay
<1> QED BY <1>1, <1>3, <1>4, <1>5, <1>6, <1>7

LEMMA MutateAndSaveInv == ASSUME Inv, NEW marks \in BOOLEAN, MutateAndSave(marks) PROVE Inv'
<1> USE DEF Inv, TypeOK, MutateAndSave
<1>1. mem' \in Nat /\ (mem' = mem \/ mem' > issued) /\ issued' \in Nat /\ issued' >= mem' /\ issued' >= issued /\ Running'
  BY DEF Versions, Running
<1>2. NewJob(mem')
  OBVIOUS
<1>3. seq' \in Nat /\ jobs' \subseteq Job /\ JobsOrdered' /\ JobsBetween'
      /\ WritingLast' /\ Versions' /\ CleanMeansOnItsWay'
  BY <1>1, <1>2, NewJobInv
<1>4. FlushCovered'
  BY DEF FlushCovered, NewJob
<1>5. TypeOK'
  BY <1>1, <1>3
<1> QED BY <1>3, <1>4, <1>5

LEMMA TickInv == ASSUME Inv, Tick PROVE Inv'
<1> USE DEF Inv, TypeOK, Tick
<1>1. mem' \in Nat /\ (mem' = mem \/ mem' > issued) /\ issued' \in Nat /\ issued' >= mem' /\ issued' >= issued /\ Running'
  BY DEF Versions, Running
<1>2. NewJob(mem')
  OBVIOUS
<1>3. seq' \in Nat /\ jobs' \subseteq Job /\ JobsOrdered' /\ JobsBetween'
      /\ WritingLast' /\ Versions' /\ CleanMeansOnItsWay'
  BY <1>1, <1>2, NewJobInv
<1>4. FlushCovered'
  BY DEF FlushCovered, NewJob
<1>5. TypeOK'
  BY <1>1, <1>3
<1> QED BY <1>3, <1>4, <1>5

LEMMA FlushBeginInv == ASSUME Inv, FlushBegin PROVE Inv'
<1> USE DEF Inv, TypeOK
<1>1. CASE dirty
  <2>1. mem' \in Nat /\ (mem' = mem \/ mem' > issued) /\ issued' \in Nat /\ issued' >= mem' /\ issued' >= issued /\ Running /\ Running'
    BY DEF Versions, Running, FlushBegin
  <2>2. NewJob(mem')
    BY <1>1 DEF FlushBegin
  <2>3. seq' \in Nat /\ jobs' \subseteq Job /\ JobsOrdered' /\ JobsBetween'
        /\ WritingLast' /\ Versions' /\ CleanMeansOnItsWay'
    BY <2>1, <2>2, NewJobInv DEF FlushBegin
  <2>4. TypeOK'
    BY <2>1, <2>3 DEF FlushBegin
  <2>5. FlushCovered'
    <3> DEFINE new == [seq |-> seq + 1, ver |-> mem]
    <3>1. new \in jobs' /\ new.seq = seq + 1 /\ new.ver = mem /\ completed' < new.seq
      BY <1>1 DEF FlushBegin, NewJob, Versions
    <3>2. flushing'.seq = seq + 1 /\ flushing'.ver = mem /\ phase' = "closing"
      BY <1>1 DEF FlushBegin, NewJob
    <3> QED BY <3>1, <3>2 DEF FlushCovered
  <2> QED BY <2>3, <2>4, <2>5
<1>2. CASE ~dirty
  <2>1. Running /\ Running'
    BY DEF FlushBegin, Running
  <2>2. TypeOK'
    BY <1>2 DEF FlushBegin
  <2>3. JobsOrdered' /\ JobsBetween' /\ WritingLast' /\ Versions'
    BY <1>2, <2>1 DEF FlushBegin, JobsOrdered, JobsBetween, WritingLast, Versions
  <2>4. CleanMeansOnItsWay'
    BY <1>2, <2>1 DEF FlushBegin, CleanMeansOnItsWay
  <2>5. FlushCovered'
    <3>1. flushing' = [seq |-> seq, ver |-> mem, failed |-> FALSE] /\ jobs' = jobs /\ phase' = "closing"
      BY <1>2 DEF FlushBegin
    <3>2. CASE disk.ver = mem
      BY <3>1, <3>2 DEF FlushCovered, FlushBegin, Versions
    <3>3. CASE \E j \in jobs : j.ver = mem /\ j.seq > completed
      BY <3>1, <3>3 DEF FlushCovered, FlushBegin, JobsBetween, Job
    <3> QED BY <1>2, <2>1, <3>2, <3>3 DEF CleanMeansOnItsWay
  <2> QED BY <2>2, <2>3, <2>4, <2>5
<1> QED BY <1>1, <1>2

LEMMA FlushReturnInv == ASSUME Inv, FlushReturn PROVE Inv'
<1> USE DEF Inv, TypeOK, FlushReturn
<1>1. TypeOK' /\ JobsOrdered' /\ JobsBetween' /\ WritingLast'
  BY DEF JobsOrdered, JobsBetween, WritingLast
<1>2. Versions' /\ CleanMeansOnItsWay'
  BY DEF Versions, CleanMeansOnItsWay, Running
<1>3. FlushCovered'
  BY DEF FlushCovered, WaitedThrough, Job
<1> QED BY <1>1, <1>2, <1>3

LEMMA WriterSkipInv == ASSUME Inv, NEW j \in jobs, WriterSkip(j) PROVE Inv'
<1> USE DEF Inv, TypeOK, WriterSkip
<1>1. TypeOK' /\ JobsOrdered' /\ JobsBetween' /\ WritingLast'
  BY DEF JobsOrdered, JobsBetween, WritingLast
<1>2. Versions'
  BY DEF Versions, Running
<1>3. CleanMeansOnItsWay'
  BY DEF CleanMeansOnItsWay, Running, Superseded, Job
<1>4. FlushCovered'
  BY DEF FlushCovered, Superseded, Job
<1> QED BY <1>1, <1>2, <1>3, <1>4

LEMMA WriterFailInv == ASSUME Inv, NEW j \in jobs, WriterFail(j) PROVE Inv'
<1> USE DEF Inv, TypeOK, WriterFail, NotePersistFail
<1>1. flushing' \in [seq : Nat, ver : Nat, failed : BOOLEAN] /\ flushing'.failed
  OBVIOUS
<1>2. TypeOK' /\ FlushCovered'
  BY <1>1 DEF FlushCovered
<1>3. JobsOrdered' /\ JobsBetween' /\ WritingLast'
  BY DEF JobsOrdered, JobsBetween, WritingLast
<1>4. Versions' /\ CleanMeansOnItsWay'
  BY DEF Versions, CleanMeansOnItsWay, Running
<1> QED BY <1>2, <1>3, <1>4

LEMMA WriterRenameInv == ASSUME Inv, NEW j \in jobs, WriterRename(j) PROVE Inv'
<1> USE DEF Inv, TypeOK, WriterRename
<1>1. j \in Job /\ j # NoJob /\ disk' \in Snapshot /\ disk' # Absent /\ j.seq > completed
  BY NullFacts, MtimeNat DEF Superseded, Job, Snapshot
<1>2. TypeOK'
  BY <1>1 DEF Job
<1>3. JobsOrdered' /\ WritingLast'
  BY <1>1 DEF JobsOrdered, WritingLast
<1>4. JobsBetween' /\ Versions'
  BY <1>1 DEF JobsBetween, JobsOrdered, Versions, Running, Job
<1>5. CleanMeansOnItsWay'
  <2> SUFFICES ASSUME Running, ~dirty
               PROVE  disk'.ver = mem \/ \E k \in jobs : k.ver = mem /\ k.seq > j.seq
    BY DEF CleanMeansOnItsWay, Running
  <2>1. disk'.ver = j.ver /\ j.ver <= mem /\ j.ver >= durable /\ durable <= mem
    BY <1>1 DEF JobsBetween, Versions
  <2>2. CASE disk.ver = mem
    BY <1>1, <2>1, <2>2 DEF Versions, Job
  <2>3. CASE \E k \in jobs : k.ver = mem /\ k.seq > completed
    <3>1. PICK k \in jobs : k.ver = mem /\ k.seq > completed
      BY <2>3
    <3>2. k.seq <= j.seq => mem <= j.ver
      BY <1>1, <3>1 DEF JobsOrdered, Job
    <3> QED BY <1>1, <2>1, <3>1, <3>2 DEF Job
  <2> QED BY <2>2, <2>3 DEF CleanMeansOnItsWay
<1>6. FlushCovered'
  <2>1. j.ver >= durable /\ disk'.ver = j.ver /\ completed' = j.seq
    BY <1>1 DEF JobsBetween
  <2>2. ASSUME NEW k \in jobs, k.seq > completed, k.seq <= j.seq
        PROVE  j.ver >= k.ver
    BY <2>2 DEF JobsOrdered, Job
  <2> QED BY <1>1, <2>1, <2>2 DEF FlushCovered, Job, Snapshot, Absent
<1> QED BY <1>2, <1>3, <1>4, <1>5, <1>6

LEMMA WriterMirrorInv == ASSUME Inv, WriterMirror PROVE Inv'
<1> USE DEF Inv, TypeOK, WriterMirror
<1>1. writing \in jobs /\ writing.seq = completed
  BY DEF WritingLast
<1>2. TypeOK'
  BY <1>1 DEF Job, Snapshot
<1>3. JobsOrdered' /\ JobsBetween' /\ WritingLast'
  BY DEF JobsOrdered, JobsBetween, WritingLast
<1>4. Versions'
  <2>1. \A m \in pending' \cup {mirror'} : m.ver <= issued
    BY DEF Versions, WritingLast
  <2> QED BY <2>1 DEF Versions, Running
<1>5. CleanMeansOnItsWay' /\ FlushCovered'
  BY <1>1 DEF CleanMeansOnItsWay, FlushCovered, Running, Job
<1> QED BY <1>2, <1>3, <1>4, <1>5

LEMMA MirrorInv ==
    ASSUME Inv, \/ \E m \in pending : MirrorLand(m) \/ MirrorFail(m)
                \/ MirrorExpire
    PROVE  Inv'
<1> USE DEF Inv, TypeOK, MirrorLand, MirrorFail, MirrorExpire
<1>1. TypeOK'
  OBVIOUS
<1>2. JobsOrdered' /\ JobsBetween' /\ WritingLast'
  BY DEF JobsOrdered, JobsBetween, WritingLast
<1>3. Versions'
  BY NullFacts DEF Versions, Running
<1>4. CleanMeansOnItsWay' /\ FlushCovered'
  BY DEF CleanMeansOnItsWay, FlushCovered, Running
<1> QED BY <1>1, <1>2, <1>3, <1>4

LEMMA StopInv == ASSUME Inv, Stop PROVE Inv'
<1> USE DEF Inv, TypeOK, Stop
<1>1. TypeOK' /\ JobsOrdered' /\ JobsBetween' /\ WritingLast'
  BY DEF JobsOrdered, JobsBetween, WritingLast
<1>2. Versions' /\ CleanMeansOnItsWay' /\ FlushCovered'
  BY DEF Versions, CleanMeansOnItsWay, FlushCovered, Running
<1> QED BY <1>1, <1>2

LEMMA LoseFileInv == ASSUME Inv, LoseFile PROVE Inv'
<1> USE DEF Inv, TypeOK, LoseFile
<1>1. TypeOK' /\ JobsOrdered' /\ JobsBetween' /\ WritingLast'
  BY DEF JobsOrdered, JobsBetween, WritingLast, Versions, Running
<1>2. Versions'
  BY NullFacts, FileFacts DEF Versions, Running
<1>3. CleanMeansOnItsWay' /\ FlushCovered'
  BY DEF CleanMeansOnItsWay, FlushCovered, Running
<1> QED BY <1>1, <1>2, <1>3

\* A stopped process has no write goroutines; what it loads is what it will
\* call durable, and the mirror is adopted dirty.
LEMMA RestartInv == ASSUME Inv, NEW reachable \in BOOLEAN, Restart(reachable) PROVE Inv'
<1> USE DEF Inv, TypeOK, Restart
<1>1. phase = "down" /\ jobs = {} /\ jobs' = {} /\ writing' = NoJob /\ pending' = {}
  BY DEF Versions, Running
<1>2. mem' \in Nat /\ dirty' \in BOOLEAN /\ mem' <= issued /\ (~dirty' => disk.ver = mem')
  <2>1. CASE Adopts(reachable)
    BY <2>1, FileFacts DEF Adopts, AdoptSnapshot, Versions
  <2>2. CASE ~Adopts(reachable)
    BY <2>2, FileFacts DEF Load, Versions
  <2> QED BY <2>1, <2>2
<1>3. TypeOK'
  BY <1>1, <1>2 DEF NoFlush
<1>4. JobsOrdered' /\ JobsBetween' /\ WritingLast'
  BY <1>1 DEF JobsOrdered, JobsBetween, WritingLast
<1>5. Versions'
  <2>1. Running' /\ disk'.ver <= issued' /\ durable' = mem'
    BY DEF Running, Versions
  <2>2. \A m \in pending' \cup {mirror'} : m.ver <= issued'
    BY DEF Versions
  <2> QED BY <1>1, <1>2, <2>1, <2>2 DEF Versions, Running
<1>6. CleanMeansOnItsWay' /\ FlushCovered'
  BY <1>2 DEF CleanMeansOnItsWay, FlushCovered
<1> QED BY <1>3, <1>4, <1>5, <1>6

LEMMA InvInductive == ASSUME Inv, [Next]_vars PROVE Inv'
<1>1. CASE Next
  BY <1>1, MutateInv, MutateAndSaveInv, TickInv, FlushBeginInv, FlushReturnInv,
     WriterSkipInv, WriterRenameInv, WriterFailInv, WriterMirrorInv, MirrorInv,
     StopInv, LoseFileInv, RestartInv DEF Next
<1>2. CASE UNCHANGED vars
  <2> USE <1>2 DEF vars, Inv, TypeOK
  <2>1. TypeOK' /\ JobsOrdered' /\ JobsBetween' /\ WritingLast'
    BY DEF JobsOrdered, JobsBetween, WritingLast
  <2>2. Versions' /\ CleanMeansOnItsWay' /\ FlushCovered'
    BY DEF Versions, CleanMeansOnItsWay, FlushCovered, Running
  <2> QED BY <2>1, <2>2
<1> QED BY <1>1, <1>2

\* The inductive invariant holds of every behaviour.
THEOREM Invariance == Spec => []Inv
<1> QED BY InitInv, InvInductive, PTL DEF Spec

\* Every variable keeps its type, whatever the constants are.
THEOREM TypeCorrect == Spec => []TypeOK
<1>1. Inv => TypeOK
  BY DEF Inv
<1> QED BY <1>1, Invariance, PTL

\* A clean pool has its newest version in the file or on its way there.
THEOREM NothingForgotten == Spec => []CleanMeansOnItsWay
<1>1. Inv => CleanMeansOnItsWay
  BY DEF Inv
<1> QED BY <1>1, Invariance, PTL

\* Flush returns with its version, or a newer one, in the file.
THEOREM FlushDurable == Spec => []FlushIsDurable
<1>1. Inv => FlushIsDurable
  BY DEF Inv, FlushCovered, FlushIsDurable
<1> QED BY <1>1, Invariance, PTL

-----------------------------------------------------------------------------
\* What exact file times add: the refinement of DurableRegister.

LEMMA ExactMtime == ASSUME Granularity = 1 PROVE \A t \in Nat : Mtime(t) = t
BY DEF Mtime

LEMMA InitTimes == Init => TimesInv
BY DEF Init, TimesInv

LEMMA TimesInductive == ASSUME Granularity = 1, Inv, TimesInv, [Next]_vars PROVE TimesInv'
<1> USE DEF Inv, TypeOK
<1>1. ASSUME NEW j \in jobs, WriterRename(j) PROVE TimesInv'
  <2>1. disk' = [ver |-> j.ver, at |-> clock] /\ durable' = j.ver /\ clock' = clock + 1
    BY <1>1, ExactMtime DEF WriterRename
  <2>2. \A m \in pending' \cup {mirror'} : m # Absent => m.at < clock /\ m.at \in Nat
    BY <1>1 DEF TimesInv, WriterRename, Snapshot
  <2> QED BY <2>1, <2>2 DEF TimesInv
<1>2. ASSUME WriterMirror PROVE TimesInv'
  <2>1. writing.ver = disk.ver
    BY <1>2 DEF WriterMirror, WritingLast
  <2>2. \A m \in pending \cup {mirror} : m # Absent => m.at \in Nat
    BY DEF Snapshot
  <2> QED BY <1>2, <2>1, <2>2 DEF TimesInv, WriterMirror, Snapshot
<1>3. ASSUME NEW reachable \in BOOLEAN, Restart(reachable) PROVE TimesInv'
  BY <1>3 DEF TimesInv, Restart, Adopts, AdoptSnapshot, Load
<1>4. CASE \/ MirrorExpire \/ LoseFile \/ Stop
           \/ \E m \in pending : MirrorLand(m) \/ MirrorFail(m)
  BY <1>4 DEF TimesInv, MirrorExpire, LoseFile, Stop, MirrorLand, MirrorFail
<1>5. CASE UNCHANGED <<disk, durable, clock, pending, mirror>>
  BY <1>5 DEF TimesInv
<1>6. \/ UNCHANGED <<disk, durable, clock, pending, mirror>>
      \/ \E j \in jobs : WriterRename(j)
      \/ WriterMirror \/ \E reachable \in BOOLEAN : Restart(reachable)
      \/ MirrorExpire \/ LoseFile \/ Stop
      \/ \E m \in pending : MirrorLand(m) \/ MirrorFail(m)
  BY DEF Next, vars, Mutate, MutateAndSave, Tick, FlushBegin, FlushReturn, WriterSkip, WriterFail
<1> QED BY <1>1, <1>2, <1>3, <1>4, <1>5, <1>6

\* A restart with the file in place brings back exactly what was durable.
LEMMA RestartExact ==
    ASSUME Inv, TimesInv, NEW reachable \in BOOLEAN, Restart(reachable), disk # Absent
    PROVE  mem' = durable
BY DEF TimesInv, Restart, Adopts, AdoptSnapshot, Load

LEMMA InitRegister == Init => Register!Init
BY DEF Init, Register!Init

LEMMA StepRegister ==
    ASSUME Granularity = 1, Inv, TimesInv, [Next]_vars
    PROVE  [Register!Next]_(Register!vars)
<1> USE DEF Inv, TypeOK, Register!Next
<1>1. CASE Mutate \/ \E marks \in BOOLEAN : MutateAndSave(marks)
  BY <1>1 DEF Mutate, MutateAndSave, Register!Change
<1>2. ASSUME NEW j \in jobs, WriterRename(j) PROVE Register!Persist
  <2>1. j \in Job /\ j.ver \in durable .. mem /\ disk' # Absent
    BY <1>2, NullFacts, MtimeNat DEF WriterRename, Superseded, JobsBetween, Job, Snapshot
  <2> QED BY <1>2, <2>1 DEF WriterRename, Register!Persist
<1>3. CASE LoseFile
  BY <1>3 DEF LoseFile, Register!LoseFile
<1>4. ASSUME NEW reachable \in BOOLEAN, Restart(reachable) PROVE Register!Recover
  <2>1. mem' \in 0 .. issued
    BY <1>4, FileFacts DEF Restart, Adopts, AdoptSnapshot, Load, Versions
  <2>2. mem' # durable => disk = Absent
    BY <1>4, RestartExact
  <2> QED BY <1>4, <2>1, <2>2 DEF Restart, Register!Recover
<1>5. CASE UNCHANGED <<mem, durable, disk, issued>>
  BY <1>5 DEF Register!vars
<1>6. \/ UNCHANGED <<mem, durable, disk, issued>>
      \/ Mutate \/ \E marks \in BOOLEAN : MutateAndSave(marks)
      \/ \E j \in jobs : WriterRename(j)
      \/ LoseFile \/ \E reachable \in BOOLEAN : Restart(reachable)
  BY DEF Next, vars, Tick, FlushBegin, FlushReturn, WriterSkip, WriterFail,
         WriterMirror, MirrorExpire, Stop, MirrorLand, MirrorFail
<1> QED BY <1>1, <1>2, <1>3, <1>4, <1>5, <1>6

\* Saving and restoring implement the durable register when file times are exact.
THEOREM Refinement == ASSUME Granularity = 1 PROVE Spec => RegisterSpec
<1>1. Inv /\ TimesInv /\ [Next]_vars => TimesInv'
  BY TimesInductive
<1>2. Inv /\ TimesInv /\ [Next]_vars => [Register!Next]_(Register!vars)
  BY StepRegister
<1> QED BY <1>1, <1>2, InitTimes, InitRegister, Invariance, PTL
        DEF Spec, RegisterSpec, Register!Spec

\* With exact file times a restart never brings back anything but the last write.
THEOREM RestartDurable == ASSUME Granularity = 1 PROVE Spec => RestartBringsBackDurable
<1>1. Inv /\ TimesInv /\ [Next]_vars => TimesInv'
  BY TimesInductive
<1>2. Inv /\ TimesInv /\ [Next]_vars
      => [phase = "down" /\ phase' = "up" /\ disk # Absent => mem' = durable]_vars
  <2> SUFFICES ASSUME Inv, TimesInv, Next, phase = "down", phase' = "up", disk # Absent
               PROVE  mem' = durable
    BY DEF vars
  <2>1. PICK reachable \in BOOLEAN : Restart(reachable)
    BY DEF Next, Mutate, MutateAndSave, Tick, FlushBegin, FlushReturn, WriterSkip,
           WriterRename, WriterFail, WriterMirror, MirrorLand, MirrorFail,
           MirrorExpire, Stop, LoseFile, Running
  <2> QED BY <2>1, RestartExact
<1> QED BY <1>1, <1>2, InitTimes, Invariance, PTL DEF Spec, RestartBringsBackDurable
=============================================================================
