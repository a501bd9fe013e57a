---------------------------- MODULE PoolPersist ----------------------------
(***************************************************************************)
(* Saving and restoring the account pool (internal/pool/persist.go) with   *)
(* its Redis mirror (internal/redisstore).                                 *)
(*                                                                         *)
(* The content of the pool is a version number: every locked operation     *)
(* that changes an account makes a new one.  A save takes the version and  *)
(* a sequence number under the pool lock and hands both to a goroutine;    *)
(* the goroutines write outside that lock, one at a time.                  *)
(***************************************************************************)
EXTENDS Integers, FiniteSets

CONSTANTS
    Granularity,  \* resolution of file modification times, in clock units
    MaxVersion,   \* bound: versions made in a behaviour
    MaxFailures,  \* bound: failed file writes
    MaxCrashes    \* bound: times the process stops

ASSUME BoundsAssumption ==
    /\ Granularity \in Nat \ {0}
    /\ MaxVersion \in Nat /\ MaxFailures \in Nat /\ MaxCrashes \in Nat

VARIABLES
    phase,      \* "up", "closing" (in Flush), "closed" (Flush returned), "down"
    mem,        \* version of byUID in memory
    issued,     \* largest version ever made
    dirty,      \* Pool.dirty
    seq,        \* persistWriter.seq
    completed,  \* persistWriter.completed
    jobs,       \* write goroutines not finished: [seq, ver]
    writing,    \* the job between rename and SaveState, holding persistWriter.mu
    disk,       \* state.json: [ver, at]; at is its modification time
    durable,    \* version the last successful rename stored
    clock,      \* wall clock
    hasStore,   \* FALSE: redisstore.New fell back to Noop
    pending,    \* SaveState goroutines not finished: [ver, at]
    mirror,     \* the snapshot key in Redis: [ver, at]; at is saved_at
    flushing,   \* what the running Flush waits for: [seq, ver, failed]
    failures, crashes

vars == <<phase, mem, issued, dirty, seq, completed, jobs, writing, disk, durable,
          clock, hasStore, pending, mirror, flushing, failures, crashes>>

Absent == [ver |-> 0, at |-> -1]          \* no file, no key
NoJob == [seq |-> 0, ver |-> 0]
NoFlush == [seq |-> 0, ver |-> 0, failed |-> FALSE]

Job == [seq : Nat \ {0}, ver : Nat]
Snapshot == [ver : Nat, at : Nat]

Running == phase \in {"up", "closing", "closed"}

\* Modification times are truncated to the resolution of the file system.
MutMtimeEarly(t) == t - Granularity
Mtime(t) == (t \div Granularity) * Granularity

Init ==
    /\ phase = "up" /\ mem = 0 /\ issued = 0 /\ dirty = FALSE
    /\ seq = 0 /\ completed = 0 /\ jobs = {} /\ writing = NoJob
    /\ disk = Absent /\ durable = 0 /\ clock = 0
    /\ hasStore \in BOOLEAN /\ pending = {} /\ mirror = Absent
    /\ flushing = NoFlush /\ failures = 0 /\ crashes = 0

-----------------------------------------------------------------------------
\* Changes and saves, all under the pool lock.

\* saveLocked: snapshot and sequence number in the same critical section.
NewJob(ver) == /\ seq' = seq + 1
               /\ jobs' = jobs \cup {[seq |-> seq + 1, ver |-> ver]}

\* Any operation that changes an account and sets dirty.
Mutate ==
    /\ Running /\ issued < MaxVersion
    /\ issued' = issued + 1 /\ mem' = issued + 1 /\ dirty' = TRUE
    /\ UNCHANGED <<phase, seq, completed, jobs, writing, disk, durable, clock,
                   hasStore, pending, mirror, flushing, failures, crashes>>

\* Remove (sets dirty) and SyncToDir when an account left (does not): both
\* change the map and save at once.
MutateAndSave(marks) ==
    /\ Running /\ issued < MaxVersion
    /\ issued' = issued + 1 /\ mem' = issued + 1
    /\ dirty' = (dirty \/ marks)
    /\ NewJob(issued + 1)
    /\ UNCHANGED <<phase, completed, writing, disk, durable, clock,
                   hasStore, pending, mirror, flushing, failures, crashes>>

\* A flush waits for every job up to a sequence number.
MutWaitedBefore(s) == \A j \in jobs : j.seq >= s
WaitedThrough(s) == \A j \in jobs : j.seq > s

\* The flusher's tick: dirty.Swap(false), then saveLocked.
Tick ==
    /\ Running /\ dirty
    /\ dirty' = FALSE
    /\ NewJob(mem)
    /\ UNCHANGED <<phase, mem, issued, completed, writing, disk, durable, clock,
                   hasStore, pending, mirror, flushing, failures, crashes>>

\* Flush, first half: save if dirty and note the newest sequence number.
FlushBegin ==
    /\ phase = "up" /\ phase' = "closing"
    /\ IF dirty THEN NewJob(mem) ELSE UNCHANGED <<seq, jobs>>
    /\ dirty' = FALSE
    /\ flushing' = [seq |-> seq', ver |-> mem, failed |-> FALSE]
    /\ UNCHANGED <<mem, issued, completed, writing, disk, durable, clock,
                   hasStore, pending, mirror, failures, crashes>>

\* Flush, second half: waitThrough(seq) has seen every older done channel closed.
FlushReturn ==
    /\ phase = "closing"
    /\ WaitedThrough(flushing.seq)
    /\ phase' = "closed"
    /\ UNCHANGED <<mem, issued, dirty, seq, completed, jobs, writing, disk, durable,
                   clock, hasStore, pending, mirror, flushing, failures, crashes>>

-----------------------------------------------------------------------------
\* The write goroutine of one job; persistWriter.mu lets one in at a time.

MutNeverSuperseded(j) == j.seq < 1
Superseded(j) == j.seq <= completed

\* A failed write asks for another one.
MutNotePersistFailSilent == dirty' = dirty
NotePersistFail == dirty' = TRUE

\* A newer snapshot is on disk already: this one is dropped.
WriterSkip(j) ==
    /\ Running /\ writing = NoJob /\ Superseded(j)
    /\ jobs' = jobs \ {j}
    /\ UNCHANGED <<phase, mem, issued, dirty, seq, completed, writing, disk, durable,
                   clock, hasStore, pending, mirror, flushing, failures, crashes>>

\* writeStateFileSync up to its rename, and completed = seq.
WriterRename(j) ==
    /\ Running /\ writing = NoJob /\ ~Superseded(j)
    /\ disk' = [ver |-> j.ver, at |-> Mtime(clock)]
    /\ durable' = j.ver
    /\ clock' = clock + 1
    /\ completed' = j.seq
    /\ writing' = j
    /\ UNCHANGED <<phase, mem, issued, dirty, seq, jobs, hasStore, pending, mirror,
                   flushing, failures, crashes>>

\* The snapshot is stamped and handed to Redis; done is closed.
WriterMirror ==
    /\ Running /\ writing # NoJob
    /\ pending' = IF hasStore THEN pending \cup {[ver |-> writing.ver, at |-> clock]}
                              ELSE pending
    /\ clock' = clock + 1
    /\ jobs' = jobs \ {writing}
    /\ writing' = NoJob
    /\ UNCHANGED <<phase, mem, issued, dirty, seq, completed, disk, durable,
                   hasStore, mirror, flushing, failures, crashes>>

\* The write failed: the old file stays, notePersistFail sets dirty again.
WriterFail(j) ==
    /\ Running /\ writing = NoJob /\ ~Superseded(j) /\ failures < MaxFailures
    /\ failures' = failures + 1
    /\ NotePersistFail
    /\ jobs' = jobs \ {j}
    /\ flushing' = [flushing EXCEPT !.failed = TRUE]
    /\ UNCHANGED <<phase, mem, issued, seq, completed, writing, disk, durable, clock,
                   hasStore, pending, mirror, crashes>>

-----------------------------------------------------------------------------
\* Redis: SaveState runs in a goroutine of its own, several at a time.

MirrorLand(m) ==
    /\ Running
    /\ mirror' = m /\ pending' = pending \ {m}
    /\ UNCHANGED <<phase, mem, issued, dirty, seq, completed, jobs, writing, disk,
                   durable, clock, hasStore, flushing, failures, crashes>>

MirrorFail(m) ==
    /\ Running
    /\ pending' = pending \ {m}
    /\ UNCHANGED <<phase, mem, issued, dirty, seq, completed, jobs, writing, disk,
                   durable, clock, hasStore, mirror, flushing, failures, crashes>>

\* The key outlives its TTL.
MirrorExpire ==
    /\ phase = "down" /\ mirror # Absent
    /\ mirror' = Absent
    /\ UNCHANGED <<phase, mem, issued, dirty, seq, completed, jobs, writing, disk,
                   durable, clock, hasStore, pending, flushing, failures, crashes>>

-----------------------------------------------------------------------------
\* Stopping and starting.

\* A crash, or the exit of main after Flush returned: goroutines die.
Stop ==
    /\ Running /\ crashes < MaxCrashes
    /\ phase' = "down" /\ crashes' = crashes + 1
    /\ jobs' = {} /\ writing' = NoJob /\ pending' = {}
    /\ UNCHANGED <<mem, issued, dirty, seq, completed, disk, durable, clock,
                   hasStore, mirror, flushing, failures>>

\* The next start is on a new volume: no state.json.
LoseFile ==
    /\ phase = "down" /\ disk # Absent
    /\ disk' = Absent
    /\ UNCHANGED <<phase, mem, issued, dirty, seq, completed, jobs, writing, durable,
                   clock, hasStore, pending, mirror, flushing, failures, crashes>>

\* RestoreFromSnapshot: take the mirror if the file is missing or not newer.
Adopts(reachable) ==
    /\ reachable /\ mirror # Absent
    /\ disk # Absent => disk.at <= mirror.at

\* load: the file's accounts, none if there is no file.
Load == mem' = disk.ver /\ dirty' = FALSE

\* adoptSnapshot: the mirror replaces the pool and will be written back.
MutAdoptClean == mem' = mirror.ver /\ dirty' = FALSE
AdoptSnapshot == mem' = mirror.ver /\ dirty' = TRUE

\* pool.New (load) followed by RestoreFromSnapshot; reachable says whether
\* redisstore.New reached the server.
Restart(reachable) ==
    /\ phase = "down" /\ phase' = "up"
    /\ hasStore' = reachable
    /\ IF Adopts(reachable) THEN AdoptSnapshot ELSE Load
    /\ durable' = mem'
    /\ seq' = 0 /\ completed' = 0 /\ flushing' = NoFlush
    /\ UNCHANGED <<issued, jobs, writing, disk, clock, pending, mirror, failures, crashes>>

-----------------------------------------------------------------------------
Next ==
    \/ Mutate
    \/ \E marks \in BOOLEAN : MutateAndSave(marks)
    \/ Tick \/ FlushBegin \/ FlushReturn
    \/ \E j \in jobs : WriterSkip(j) \/ WriterRename(j) \/ WriterFail(j)
    \/ WriterMirror
    \/ \E m \in pending : MirrorLand(m) \/ MirrorFail(m)
    \/ MirrorExpire \/ Stop \/ LoseFile
    \/ \E reachable \in BOOLEAN : Restart(reachable)

Spec == Init /\ [][Next]_vars

\* The ticker fires for ever, a started goroutine gets the write lock, a
\* stopped process is started again by its supervisor.
Fairness ==
    /\ WF_vars(Tick)
    /\ WF_vars(\E j \in jobs : WriterSkip(j) \/ WriterRename(j) \/ WriterFail(j))
    /\ WF_vars(WriterMirror)
    /\ WF_vars(\E reachable \in BOOLEAN : Restart(reachable))

FairSpec == Spec /\ Fairness
-----------------------------------------------------------------------------
(***************************************************************************)
(* Properties.                                                             *)
(***************************************************************************)

TypeOK ==
    /\ phase \in {"up", "closing", "closed", "down"}
    /\ mem \in Nat /\ issued \in Nat /\ dirty \in BOOLEAN
    /\ seq \in Nat /\ completed \in Nat
    /\ jobs \subseteq Job /\ writing \in Job \cup {NoJob}
    /\ disk \in Snapshot \cup {Absent} /\ durable \in Nat /\ clock \in Nat
    /\ hasStore \in BOOLEAN
    /\ pending \subseteq Snapshot /\ mirror \in Snapshot \cup {Absent}
    /\ flushing \in [seq : Nat, ver : Nat, failed : BOOLEAN]
    /\ failures \in Nat /\ crashes \in Nat

\* A clean pool has nothing to lose: its newest version is in the file or in
\* a write goroutine that will not be skipped (dirty.Swap before saveLocked,
\* set again by notePersistFail and adoptSnapshot).
CleanMeansOnItsWay ==
    Running /\ ~dirty =>
        \/ disk.ver = mem
        \/ \E j \in jobs : j.ver = mem /\ j.seq > completed

\* When Flush returns and no write failed meanwhile, the file holds at least
\* the version Flush was called with, whoever wrote it.
FlushIsDurable ==
    phase = "closed" /\ ~flushing.failed => disk.ver >= flushing.ver

\* With its file in place a restart brings back what the last write stored,
\* whatever order the Redis copies arrived in.
RestartBringsBackDurable ==
    [][phase = "down" /\ phase' = "up" /\ disk # Absent => mem' = durable]_vars

\* Late, skipped, failed and mirrored writes together behave as one register
\* that only moves forward.
Register == INSTANCE DurableRegister
    WITH val <- mem, stable <- durable, lost <- (disk = Absent), issued <- issued

RegisterSpec == Register!Spec

\* Once changes, failures and crashes stop, the file catches up with memory.
EventuallySaved == <>[](disk.ver = mem)
=============================================================================
