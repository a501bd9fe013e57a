------------------------------- MODULE Keystore -------------------------------
(***************************************************************************)
(* The store of distributed keys (internal/keystore/keystore.go) between   *)
(* the requests that use a key (internal/server), the panel that edits it  *)
(* and the debounced saves of api_keys.json.                               *)
(*                                                                         *)
(* One key is followed from its creation on.  Every locked change makes a  *)
(* new version of it; a save in progress and the file hold a version and   *)
(* its content.  The rate window is not saved.  A request uses one unit of *)
(* the quota.  The credit quota and MaxIPs are checked and counted at the  *)
(* same two places as the token quota and are left out, as are the checks  *)
(* on the request alone (address, realm, model) and the expiry date.  The  *)
(* two limits may be edited at any time, but are never taken off (0): a    *)
(* key without a limit has none to keep.                                   *)
(***************************************************************************)
EXTENDS Integers, FiniteSets

CONSTANTS
    Requests,     \* requests that carry the key
    Writers,      \* bound: timer callbacks writing at the same time
    Flusher,      \* the goroutine that calls Flush
    Limit,        \* highest TokenQuota and RateLimit anybody gives the key
    MaxVersions,  \* bound: changes of the key
    MaxWindow,    \* bound: rate windows
    MaxFailures,  \* bound: failed file writes
    MaxCrashes    \* bound: times the process stops

ASSUME StoreAssumption ==
    /\ IsFiniteSet(Requests) /\ Flusher \notin Writers
    /\ Limit \in Nat \ {0}
    /\ MaxVersions \in Nat /\ MaxWindow \in Nat
    /\ MaxFailures \in Nat /\ MaxCrashes \in Nat

VARIABLES
    key,        \* the key in memory: its state, uses and limits
    mem,        \* its version
    issued,     \* largest version ever made
    rate,       \* rateWindowStart and rateCount: [win, count]
    window,     \* the current minute
    reqs,       \* each request: [pc, seen, rate], the last two its snapshot
    dirty,      \* Store.dirty
    armed,      \* Store.flushTimer # nil
    timers,     \* timers whose callback has neither run nor been stopped
    jobs,       \* snapshot each goroutine is writing: [ver, key, failed]
    saved,      \* newest version written since the start
    disk,       \* api_keys.json: [ver, key]
    phase,      \* "up", "closing" (in Flush), "closed" (Flush returned), "down"
    flushed,    \* version Flush was called with, and whether it returned nil
    failures, crashes

keyVars == <<key, mem, issued>>
useVars == <<rate, window, reqs>>
saveVars == <<dirty, armed, timers>>
boundVars == <<failures, crashes>>
vars == <<key, mem, issued, rate, window, reqs, dirty, armed, timers, jobs, saved, disk,
          phase, flushed, failures, crashes>>

Goroutines == Writers \cup {Flusher}
Content == [state : {"none", "on", "off", "gone"}, used : Nat,
            quota : 1 .. Limit, rateLimit : 1 .. Limit]
Unborn == [state |-> "none", used |-> 0, quota |-> 1, rateLimit |-> 1]
Job == [ver : Nat, key : Content, failed : BOOLEAN]
NoJob == [ver |-> -1, key |-> Unborn, failed |-> FALSE]
NoRate == [win |-> -1, count |-> 0]
NoFlush == [ver |-> 0, ok |-> TRUE]

Exists(k) == k.state \in {"on", "off"}
Running == phase # "down"

Rate == [win : Int, count : Nat]
Request == [pc : {"idle", "resolved", "serving", "recorded"}, seen : Content, rate : Rate]
Idle == [pc |-> "idle", seen |-> Unborn, rate |-> NoRate]

Init ==
    /\ key = Unborn /\ mem = 0 /\ issued = 0 /\ rate = NoRate /\ window = 0
    /\ reqs = [r \in Requests |-> Idle]
    /\ dirty = FALSE /\ armed = FALSE /\ timers = 0
    /\ jobs = [w \in Goroutines |-> NoJob] /\ saved = 0
    /\ disk = [ver |-> 0, key |-> Unborn]
    /\ phase = "up" /\ flushed = NoFlush /\ failures = 0 /\ crashes = 0

-----------------------------------------------------------------------------
\* Scheduling a save.

\* scheduleFlushLocked: a pending timer is left as it is.
Schedule ==
    /\ dirty' = TRUE /\ armed' = TRUE
    /\ timers' = IF armed THEN timers ELSE timers + 1

\* A locked change of the key.
Change(k) ==
    /\ Running /\ issued < MaxVersions
    /\ key' = k /\ mem' = issued + 1 /\ issued' = issued + 1

\* markDirty after a failed write, whatever dirty is by then.
MutMarkIfDirty == IF dirty THEN Schedule ELSE UNCHANGED saveVars
MarkDirty == Schedule

-----------------------------------------------------------------------------
\* The panel.

\* Every edit changes the key and schedules in one critical section.
Edit(k) ==
    /\ Change(k) /\ Schedule
    /\ UNCHANGED <<jobs, saved, disk, phase, flushed, boundVars, useVars>>

Create(q, l) ==
    key.state = "none" /\ Edit([state |-> "on", used |-> 0, quota |-> q, rateLimit |-> l])
\* Any of the fields the form has, in one edit.
Update(state, q, l) ==
    Exists(key) /\ Edit([state |-> state, used |-> key.used, quota |-> q, rateLimit |-> l])
Delete == Exists(key) /\ Edit([key EXCEPT !.state = "gone"])
ResetUsage == Exists(key) /\ Edit([key EXCEPT !.used = 0])

Panel ==
    \/ Delete \/ ResetUsage
    \/ \E q, l \in 1 .. Limit :
        \/ Create(q, l)
        \/ \E state \in {"on", "off"} : Update(state, q, l)

-----------------------------------------------------------------------------
\* A request: Resolve, Validate on the snapshot, the upstream, RecordUse.

\* Rejections and Validate: the limits.
MutOverLimits(k, rt) == k.used > k.quota \/ (rt.win = window /\ rt.count > k.rateLimit)
OverLimits(k, rt) == k.used >= k.quota \/ (rt.win = window /\ rt.count >= k.rateLimit)

\* Only the request's own state moves.
Step(r, req) ==
    /\ Running
    /\ reqs' = [reqs EXCEPT ![r] = req]
    /\ UNCHANGED <<keyVars, rate, window, saveVars, jobs, saved, disk, phase,
                   flushed, boundVars>>

Resolve(r) ==
    /\ reqs[r].pc = "idle" /\ Exists(key)
    /\ Step(r, [pc |-> "resolved", seen |-> key, rate |-> rate])

Validate(r) ==
    /\ reqs[r].pc = "resolved"
    /\ reqs[r].seen.state = "on"
    /\ ~OverLimits(reqs[r].seen, reqs[r].rate)
    /\ Step(r, [Idle EXCEPT !.pc = "serving"])

\* Refused, or no answer of the upstream that counts.
Leave(r) == reqs[r].pc \in {"resolved", "serving"} /\ Step(r, Idle)

\* RecordUse, first critical section: the use is added to the key as it is
\* now, not to the snapshot; a deleted key has nowhere to record.
RecordUse(r) ==
    /\ reqs[r].pc = "serving"
    /\ Exists(key)
    /\ Change([key EXCEPT !.used = @ + 1])
    /\ rate' = [win |-> window,
                count |-> IF rate.win = window THEN rate.count + 1 ELSE 1]
    /\ reqs' = [reqs EXCEPT ![r] = [Idle EXCEPT !.pc = "recorded"]]
    /\ UNCHANGED <<window, saveVars, jobs, saved, disk, phase, flushed, boundVars>>

\* RecordUse, second critical section: scheduleFlush.
RecordSchedule(r) ==
    /\ reqs[r].pc = "recorded" /\ Running
    /\ Schedule
    /\ reqs' = [reqs EXCEPT ![r] = Idle]
    /\ UNCHANGED <<keyVars, rate, window, jobs, saved, disk, phase, flushed, boundVars>>

NextWindow ==
    /\ Running /\ window < MaxWindow
    /\ window' = window + 1
    /\ UNCHANGED <<keyVars, rate, reqs, saveVars, jobs, saved, disk, phase, flushed,
                   boundVars>>

-----------------------------------------------------------------------------
\* Saving.

Snapshot == [ver |-> mem, key |-> key, failed |-> FALSE]

\* The locked half of flush and Flush: the snapshot a goroutine will write.
Take(w) ==
    /\ dirty' = FALSE /\ armed' = FALSE
    /\ jobs' = IF dirty THEN [jobs EXCEPT ![w] = Snapshot] ELSE jobs

\* The timer callback; a stale one (Flush came too late to stop it) forgets
\* the newer timer too.
TimerFlush(w) ==
    /\ Running /\ timers > 0 /\ jobs[w] = NoJob
    /\ timers' = timers - 1
    /\ Take(w)
    /\ UNCHANGED <<keyVars, useVars, saved, disk, phase, flushed, boundVars>>

\* There is a timer to stop only if flushTimer is not nil.
MutMayStop(stopped) == TRUE
MayStop(stopped) == stopped => armed

\* Flush: stop the timer, which may have fired already, and take the snapshot.
FlushBegin(stopped) ==
    /\ phase = "up"
    /\ MayStop(stopped)
    /\ timers' = IF stopped THEN timers - 1 ELSE timers
    /\ Take(Flusher)
    /\ phase' = IF dirty THEN "closing" ELSE "closed"
    /\ flushed' = [ver |-> mem, ok |-> TRUE]
    /\ UNCHANGED <<keyVars, useVars, saved, disk, boundVars>>

\* A goroutine is done; Flush returns what came of its own write.
Done(w, ok) ==
    /\ jobs' = [jobs EXCEPT ![w] = NoJob]
    /\ phase' = IF w = Flusher THEN "closed" ELSE phase
    /\ flushed' = IF w = Flusher THEN [flushed EXCEPT !.ok = ok] ELSE flushed

\* writeFileSync under flushMu: nothing compares the snapshot with the file's.
Write(w) ==
    /\ Running /\ jobs[w] # NoJob /\ ~jobs[w].failed
    /\ disk' = [ver |-> jobs[w].ver, key |-> jobs[w].key]
    /\ saved' = IF jobs[w].ver > saved THEN jobs[w].ver ELSE saved
    /\ Done(w, TRUE)
    /\ UNCHANGED <<keyVars, useVars, saveVars, boundVars>>

WriteFails(w) ==
    /\ Running /\ jobs[w] # NoJob /\ ~jobs[w].failed /\ failures < MaxFailures
    /\ failures' = failures + 1
    /\ jobs' = [jobs EXCEPT ![w].failed = TRUE]
    /\ UNCHANGED <<keyVars, useVars, saveVars, saved, disk, phase, flushed, crashes>>

\* The lock is taken again after the failure.
AfterFailure(w) ==
    /\ Running /\ jobs[w].failed
    /\ MarkDirty
    /\ Done(w, FALSE)
    /\ UNCHANGED <<keyVars, useVars, saved, disk, boundVars>>

-----------------------------------------------------------------------------
\* Stopping and starting.

\* A crash, or the exit of main after Flush returned: memory is lost.
Stop ==
    /\ Running /\ crashes < MaxCrashes
    /\ phase' = "down" /\ crashes' = crashes + 1
    /\ key' = Unborn /\ mem' = 0 /\ rate' = NoRate
    /\ reqs' = [r \in Requests |-> Idle]
    /\ dirty' = FALSE /\ armed' = FALSE /\ timers' = 0
    /\ jobs' = [w \in Goroutines |-> NoJob] /\ saved' = 0 /\ flushed' = NoFlush
    /\ UNCHANGED <<issued, window, disk, failures>>

\* Open: the file's keys, an empty rate window.
Restart ==
    /\ phase = "down" /\ phase' = "up"
    /\ key' = disk.key /\ mem' = disk.ver /\ saved' = disk.ver
    /\ UNCHANGED <<issued, useVars, saveVars, jobs, disk, flushed, boundVars>>

-----------------------------------------------------------------------------
Next ==
    \/ Panel
    \/ \E r \in Requests :
        \/ Resolve(r) \/ Validate(r) \/ Leave(r)
        \/ RecordUse(r) \/ RecordSchedule(r)
    \/ NextWindow
    \/ \E w \in Writers : TimerFlush(w)
    \/ \E stopped \in BOOLEAN : FlushBegin(stopped)
    \/ \E w \in Goroutines : Write(w) \/ WriteFails(w) \/ AfterFailure(w)
    \/ Stop \/ Restart

Spec == Init /\ [][Next]_vars

-----------------------------------------------------------------------------
(***************************************************************************)
(* Properties.                                                             *)
(***************************************************************************)

TypeOK ==
    /\ key \in Content /\ mem \in Nat /\ issued \in Nat
    /\ rate \in Rate /\ window \in Nat /\ reqs \in [Requests -> Request]
    /\ dirty \in BOOLEAN /\ armed \in BOOLEAN /\ timers \in Nat
    /\ jobs \in [Goroutines -> Job \cup {NoJob}]
    /\ saved \in Nat /\ disk \in [ver : Nat, key : Content]
    /\ phase \in {"up", "closing", "closed", "down"}
    /\ flushed \in [ver : Nat, ok : BOOLEAN]
    /\ failures \in Nat /\ crashes \in Nat

\* Limits are checked on a snapshot and counted after the upstream answered:
\* the highest they ever were is passed by at most the other requests in flight,
\* whatever edits of the limits and of the key, windows and restarts come between
\* (Validate, RecordUse, Update).
SoftLimits ==
    LET Passed(n) == n < Limit + Cardinality(Requests)
    IN  Passed(key.used) /\ Passed(rate.count)

\* No change is forgotten: while memory is newer than anything written, a
\* timer is running, a goroutine holds the newest content or is about to ask
\* for another try, or the request that made it is about to schedule.
NothingForgotten ==
    Running =>
        \/ saved = mem
        \/ dirty /\ timers > 0
        \/ \E w \in Goroutines : jobs[w].ver = mem
        \/ \E r \in Requests : reqs[r].pc = "recorded"

\* "When Flush returns, the last change is on disk" (keystore.go:834): a Flush
\* that returned nil left at least the content it was called with in the file.
FlushSaves == phase = "closed" /\ flushed.ok => disk.ver >= flushed.ver
=============================================================================
