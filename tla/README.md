# A formal model of WorkBuddy Cockpit

WorkBuddy Cockpit is an OpenAI-compatible gateway, written in Go, that spreads
the requests of its clients over many upstream accounts. It keeps a pool of
accounts with their cooldowns and balances, binds chat sessions to accounts,
rotates over accounts when the upstream refuses, saves its state to a file and
mirrors part of it to Redis, and runs daily jobs that refill the accounts. Two
programs in JavaScript and TypeScript stand beside it: the panel in the browser
through which people watch and change the gateway (`web/`), and the action that
governs the issues and pull requests of its repository
(`.github/actions/ai-governance/`).

This directory holds TLA+ modules that model the parts of the three where
goroutines, runs, late answers, failures and restarts meet, the TLC configurations
that check them, and proofs for TLAPS. `PROJECT.json` says which definition
stands for which lines of the source, which property each run checks, and which
mutation of a definition breaks which property.

    tlc -config Lease.cfg MCLease          # check one model
    tlapm LeaseProofs.tla                  # check one module of proofs

## 1. The system

| component (`internal/` unless said) | state | operations | properties that make it right |
|---|---|---|---|
| `pool`: account state | per account: cooling deadline and kind, backoff streak, locks per model, breaker, degradation, failure counts, stops | 25 locked operations: an answer of the upstream, an operator, a daily job | penalties are not shortened or piled up by late answers; a lock on one model leaves with its cause only |
| `pool`: choice | none of its own | `pick`, fallback to the account that recovers first | never a stopped or exhausted account |
| `pool`: leases | in-flight counters, cap | `Acquire`, `Release`, per-model rows | no admission over the cap, no leak |
| `pool`: persistence | `dirty`, sequence numbers, write goroutines, `state.json`, snapshot in Redis | `saveLocked`, flusher, `Flush`, `RestoreFromSnapshot` | no change forgotten, no older state over a newer one, a restart brings back the last write |
| `pool`: directory watch | fingerprint of `auths/` | poll, `SyncToDir` | a removed account stays removed |
| `session` | map from session key to account, its mirror | `ResolveForModel`, `touch`, `Bind`, `Unbind`, collector | affinity, no return to a failed account, bounded size |
| `redisstore` | queue of asynchronous writes | set, delete, save, scan, close | last write in the end, nothing lost at a clean stop |
| `server`: chat handler | local variables of each request; gates shared by all | the rotation loop, `applyErrorPolicy` | leases balance, it ends, it does not repeat itself |
| `server`: channel-check guard | learnt templates, blocked bodies | inspect, learn, expire | a learnt refusal is not repeated upstream |
| `server`: `responses`, `anthropic`, `search` | per stream | translation of events, tool loop | events in legal order, exactly one end |
| `keystore` | keys, quota windows, used addresses, `dirty` | validate, record, edit, debounced save, `Flush` | quotas up to a bounded overshoot; saves in order |
| `auth`, `upstream` (tokens) | credential file, access and refresh token | refresh, save | one refresh token is spent once; the file follows memory |
| `upstream` (calls) | connection, stream buffers, catalogues | chat, aggregate, queries | a truncated stream is never taken for an answer |
| `scheduler` | next run of each job, days done | check-in, keepalive, travel, school, compensation | each job once a day, a missed one made up for |
| `usage`, `reqlog` | buffers and their files | append, batch, rotate | nothing counted twice |
| `panel` | task queue, stop flags, login sessions | start, stop, sweep, edit configuration | one task per account at a time; a stop is final |
| `livecfg`, `config`, `cmd/server` | configuration, process | reload, start, signal, shutdown | a stop saves what was acknowledged |
| `.github/actions/ai-governance` | the repository on GitHub; per run: its place, the calls still to make | triage, classification, governance of an issue or a pull request, retries, the handlers' catch | governance closes nothing without a home, no link leads nowhere, the bot does not feed on its own issues, every run ends |
| `web/`: cache, login, shell | cached snapshots in memory and storage, request locks per hook, login, realm | `useCachedAsync`, warming, heartbeat, 401, logout, palette | a view shows what it is about; it catches up |
| `web/`: pages (accounts, keys, tasks, settings, models, playground, security) | form, dialogs, locks, draft, conversation, polls | what each button does, and what its answer does | no lock without its call; a key that is shown once is not lost |
| `web/`: dashboard, logs, statistics, activity | filters, range, pause in typing, rounds of requests | choose what is fetched, fetch it, save the sums | what is shown is of the filter in view; a page catches up, an older round overwrites a newer one not for good |
| other `cmd/`, `scripts/` | none in the server | tools | |

How they interact. The handler calls the session router for a sticky account,
the pool for a candidate and a lease, the upstream client for a refresh and a
stream, and reports the answer to the pool (`applyErrorPolicy`). The router asks
the pool who is usable through a callback, outside or inside its own lock. The
scheduler and the panel call the same pool operations as requests do. The pool
and the router hand copies of their state to the Redis mirror, which writes in
goroutines of its own. The watcher brings the pool into line with a directory
that the panel and the command-line tools write. The panel in the browser calls the
server only; what it shows is a copy that may be old. The governance action is started
by GitHub for each opened item, reads and writes the repository one call at a time,
asks an AI endpoint in between, and the issues it opens start it again.

What is hard here:

* *Late answers.* Requests in flight on one account answer in any order, after
  the account has been cooled, freed, removed or reloaded.
* *Locks that are left in between.* The router reads an entry, unlocks, asks the
  pool, locks again. The self-heal decides in one critical section and acts in
  a third one. Counters are changed by compare-and-swap outside the lock that
  found them.
* *Writes out of order.* Saves of the pool, and mirror writes, run in goroutines
  of their own; the process may stop at any point.
* *Free retries.* Three retries in the rotation take the hop counter back.
* *Limits.* Full maps, full accounts, capped backoffs.
* *Lists of calls.* The governance action does by several calls what should be one
  change; any of them may be refused and the run be killed between two.
* *Late answers in the browser.* A call outlives the view, the page, the dialog or the
  login it was made for, and its continuation runs all the same, with the values of
  the render it was made in.
* *Locks of buttons.* Flags, counters and chains of refreshes that a dropped request or
  a failure could leave set.

Every hazard we know of is in `PROJECT.json`, at its line, with the property that
covers it or the reason why none does.

## 2. The modules

| module | what it is | lines of code it stands for |
|---|---|---|
| `DurableRegister` | abstract: a value in memory and a durable one that only moves forward | promise of `pool/persist.go` |
| `PoolPersist` | saves, failures, mirror, crashes, restarts | `persist.go`, parts of `redisstore.go`, `main.go` |
| `Account` | one account as a record; every locked operation as an operator | `entry.go`, `cooldown.go`, `degrade.go`, `state.go`, `transition.go` |
| `AccountPool` | accounts, requests in flight, jobs, operator, clock | `pick.go`, `applyErrorPolicy`, callers in `scheduler`, `admin.go`, `panel.go` |
| `Semaphore` | abstract: a counting semaphore that answers in one step | promise of `Acquire` and `Release` |
| `Lease` | the compare-and-swap loops, hot cap, removal and return | `pool.go` |
| `ModelLedger` | rows of requests per model beside the counter | `entry.go` |
| `Session` | the router, its mirror, and what a request does with it | `session.go`, `redisstore.go`, handler |
| `Rotation` | the rotation of chat requests with leases, gates and retries | `handler.go`, `wafip.go`, `degrade.go`, `backoff.go` |
| `Keystore` | one distributed key: edits, uses, debounced saves, `Flush`, crashes | `keystore.go`, `keystore_auth.go` |
| `GovRepo` | the repository, the runs, calls to GitHub and to the AI | `github.js`, `ai.js`, the catches of the handlers |
| `GovText` | what the detectors read off a text | `templateDetector.js`, `prReviewService.js` |
| `IssueTriage`, `IssueGovernance`, `PrGovernance` | the steps of a run, in this order; a pull request shares those up to the verdict | `issueHandler.js`, `issueProcessor.js`, `prHandler.js` and the services they call |
| `Governance` | people, GitHub and the runs together | `index.js` |
| `Tab` | a tab of the browser: cache, hooks, calls in flight | `data-cache.ts` |
| `Shell` | login, realm, heartbeat, bar and palette | `auth-context.tsx`, `login/page.tsx`, `realm-context.tsx`, `api.ts`, `CommandPalette.tsx` and more |
| `Accounts`, `AddAccount`, `Keys`, `Tasks`, `SettingsFields`, `Settings`, `Tokens`, `Playground`, `Models`, `Security`, `Logs`, `Stats`, `Dashboard` | one page, tab or dialog each; the card of missed runs is in `Tasks`, the activity page in `Dashboard` | the component of that name |
| `Panel` | the pages over the shell, and the server that answers | `layout.tsx`, `error.tsx` and the above |
| `MCLease`, `MCSession`, `MCRotation`, `MCKeystore`, `MCGovernance`, `MCPanel` | instances for TLC: symmetry, restrictions, starts | |
| `PoolPersistProofs`, `AccountPoolProofs`, `LeaseProofs`, `SessionProofs`, `RotationProofs`, `KeystoreProofs`, `GovernanceProofs`, `PanelProofs` | proofs | |

**PoolPersist.** The content of the pool is a version number: any operation that
changes an account makes a new one. `saveLocked` takes the version and a sequence
number in one critical section, so `NewJob` does both. A job then waits for
`persistWriter.mu`, which is why `writing` holds one job at most, and is skipped
(`WriterSkip`), written (`WriterRename`, then `WriterMirror` up to the unlock) or
fails (`WriterFail`). `hasStore` is drawn at each start, as `redisstore.New` falls
back to a no-op store when Redis does not answer. `Restart` is `pool.New` and
`RestoreFromSnapshot` together; nothing else runs before them. The clock moves by
one with every write, so `Granularity = 1` means that two writes never have the
same time.

**Account, AccountPool.** Deadlines are ticks still to go, so "now before until" is
`until > 0`. The lock of a model keeps counting below zero because an expired
11102 entry keeps its hit count for a while (`PruneLock`). Counters that feed a
capped backoff stop where the cap has been reached (`StreakCap`, `RetryCap`,
`HitsCap`; `CapsAssumption` says so). A reset time that has passed gives a cooling
of a millisecond in the code; one tick stands for it. An action of `AccountPool`
is one critical section: `Pick` (with its pruning), each class of answer, each
half of the self-heal, each job. Two answers take two sections: a success resets the
account (`Succeed`) and then clears the model's 11102 (`ClearModel`); "no credit" reads
the setting and the clock (`NoCredit`) and then cools for what it read
(`CoolExhausted`). In between, `owed` holds what the request has yet to do, and
anything else may happen, a saved setting included (`credit`,
`SetCreditExhausted`). `free` in `Pick` is whatever the tried set, the
credit floor and full accounts leave: any subset. Weights, strategies and cost
exploration choose among the healthy, so any of them may be taken.

**Lease.** One account. `entry` is the record the pool's map points to; a removal
and a new login make a new one, and a request may still hold the old. `AcquireLookup`
reads entry and cap under the pool's lock; each later action is one atomic
operation of the loop. `Release` looks the entry up anew, as the code does, which
is how a request can decrement an entry it never incremented; the loop then stops
at zero.

**ModelLedger.** One model's row. The map is changed under a mutex, the counter
outside. `Counters` are addresses: one nobody points to may be used again.

**Session.** `bound` and `age` are the router's map; `owed` and `sweep` are mirror
writes a goroutine has still to hand over after its unlock; `writes` is the bag of
those handed over, which land in any order or not at all. The fast path is three
steps because the lock is left twice. The slow path is one critical section that
calls back into the pool; the two reads of the pool in it are taken as one. `TTL`
is in ticks.

**Rotation.** One realm, one model. An action is one critical section of the pool,
or one call. `state` is what the choice can tell of an account: `well`, `cooling`
(the fallback may still take it), `locked` (an 11102 entry runs for this model) or
`out`. What an answer does to an account is drawn from the outcomes module
`Account` allows, and `PoolChanges` lets anybody else change any account at any
time. `sent` records each call with what made its request different. A request's
flexibility says whether prompt mode and body allow a rewrite. Windows of the
gates expire at will (`Tick`).

**Keystore.** One key from its creation on. `Resolve` takes a snapshot of it,
`Validate` judges the snapshot, and `RecordUse`, once the upstream has answered,
looks the key up again. `Rejections`, between the first two, applies a part of
`Validate`'s checks to the same snapshot, so a request it lets through is one
`Validate` decides on, and one it refuses is a `Leave`. `RecordUse` is two critical
sections, the use and the `scheduleFlush` after it. `armed` is the pointer
`flushTimer`, `timers` counts the timers whose callback is still to run: `Flush` may
come too late to stop a timer, whose stale callback then clears the pointer to a
newer one. An edit (`Update`) sets the key's state, its quota and its rate limit to
anything the form allows, at any time; `Limit` is the highest it gives. `jobs` holds what each goroutine has serialised and will write under
`flushMu`; the file takes whatever comes, in any order. Left out: the credit quota
and the address limit, which are checked and counted beside the token quota;
checks on the request alone; expiry; a store without a file; keys without a quota or a
rate limit (0), which have none to keep. A request uses one unit of the quota.

**GovRepo, IssueTriage, IssueGovernance, PrGovernance, Governance.** `item` is what
GitHub holds of each number, `run` the workflow runs. A step of a run is one question
to the AI or one call to GitHub. Where the code makes several calls of which each may
fail by itself (`executeApiCalls`, the `safe*` methods), the step puts the list into
`todo` and `Write` makes one call of it, which takes effect or is refused; `must` says
what a refusal does in that place: nothing, the end of the list, another attempt, or
an exception, which goes to the catch of the handler (`Raised`). The AI answers what it
likes, numbers that are nothing included; `CallAI` and `Retry` are the loop of attempts
around it. `Killed` takes a run away between two calls, `Rerun` starts one again, and
`CreateCanonical` puts an issue of the bot into the repository with an event of its own.
`item[n].source`, `cited` and `named`, and `run[r].did`, only record what was done. `did` is of a
run, as one run cannot know what another did. What a comment, a body or a title names is of
two kinds. `cited` are the links and records the code writes itself and the numbers that
passed one of its checks (`Gate`, the two reviews). `named` are the numbers in words of the AI
that nothing checks: the key points that most comments, the canonical's records and a pull request's body
carry (`summary`, from `formatSummary`), the answers to questions, a rewritten title, the body of
a canonical issue. The sanitizer neutralises mentions of people and markup and leaves `#N` as it is.
An unclear verdict, the review of a filled-in template and the dry run of a pull
request print no key points in any of the locales, so those comments name nothing. One thing is left out: a
number that is no number where the review's check reads it, as markup divides it, and is joined by the
sanitizer afterwards.

**GovText.** The deterministic tests of a text, in whole numbers: how many headings and
fields it has against what its length makes one expect, which sections are filled in.
A text is a sequence of kinds of lines.

**Tab.** A handler is an operator from a *world* (tab, page, calls) to a world, as a
handler of React runs to its first `await` without being disturbed. A call is sent,
answered (`Serve`, or `Fail`) and taken up (an action `...Land`), in any order with other
calls. `visit` tells the mounts of a page apart: what a continuation sets on a page that
is gone is dropped, but what it sends, or puts in the cache, is not. A hook of
`useCachedAsync` has the key of its data and the key its request lock is for. What the
server holds has one version, raised by each write, and an answer carries the version it
was made from.

**The pages.** Each has `...Mount`, one action for what can be clicked (`...Click`, a disjunct
for each button, with the condition under which it is offered and enabled), one for the
answers (`...Land`), what the server does with its calls (`...Serves`) and what it locks
(`...Locks`). Values that are captured by a closure travel with the call (`arg`, `then`), so a
continuation sees what was there when its handler was made. A text typed into a field
is one of a few that its parser tells apart. `SettingsFields` has every field of the form
with its rule. `Logs` and `Stats` make the key of a hook from the filters and ranges, so that
typing changes what is fetched (`Rekey`); a typed address counts when a pause in typing ends
(`Settle`, at any later moment). A round of `Dashboard` is a record of the parts it still
waits for and of what it has got, and shows the two it keeps when none is left. `Panel` mounts one page at a time and adds what may happen to any: a
reload, another page, another realm, a hidden tab, a login that ends.

## 3. What TLC checks

Twelve runs; the four that end in a counterexample are findings.

| run | instance | shows |
|---|---|---|
| `pool_persist` | 2 changes, 1 failed write, 2 crashes, exact times; 150 000 states | `CleanMeansOnItsWay`, `FlushIsDurable`, refinement of `DurableRegister` (`RegisterSpec`), and `EventuallySaved` |
| `account_pool` | 1 account, 1 model, 2 requests in flight, all 13 kinds of answer, a credit setting that changes; 830 000 states | `OnlyGoodNewsFrees`, `OneBackoffPerCooling`, `RateLockStands` |
| `account_pool_exhausted` | 1 account, 2 requests | `ExhaustedLeavesFallback` fails |
| `lease` | 3 requests, caps 0, 1, 2, account stays or leaves; apart from it, 4 requests of one model; 560 000 states | `NothingLeaks`, `AdmittedInCap`, refinement of `Semaphore` (`IsSemaphore`); of `ModelLedger`: `LedgerTypeOK`, `NeverTooMany`, `RowsGoAway` |
| `session` | 2 requests of one session, 2 accounts, a map of size 1, an older session; 560 000 states | `NoResurrection`, `AffinityKept`, `BindNeverOverfills` |
| `session_cap` | 1 request, 3 keys, a map of size 1 | `CapHolds` fails |
| `rotation` | 2 requests, 2 accounts with a cap of 1, 2 hops; 820 000 states | `LeasesMatch`, `CallBudget`, `NeverAsksTwice`, `AlwaysNearer` |
| `keystore` | 2 requests, limit 1, 4 changes, 2 windows, 1 failed write, 1 crash; 2 800 000 states up to symmetry | `SoftLimits`, `NothingForgotten` |
| `keystore_flush` | 1 request, no failure, no crash | `FlushSaves` fails |
| `governance` | 3 numbers, 2 runs, 2 items of people, 3 deployments, 2 texts, 1 retry, words that name nothing or number 3; 180 000 states | `ClosedHasAHome`, `LetThroughIsOpen`, `NoCascade`, `CitesWhatExists`, `DryRunOnlyTalks`, `EveryRunEnds` |
| `governance_dry_run` | the same | `DryRunChangesNothing` fails |
| `panel` | each page with 1 to 3 clicks and at most 1 failure, 25 starts; 210 000 states | `ViewIsOfKey`, `LockHasItsCall`, `IssuedStands`, `EventuallyFresh` |

A passing run also checks its module's `TypeOK`, except `panel`, whose state is records
that differ from page to page.
`MCLease` holds two models that do not touch one another, either of which a behaviour
runs alone.

Why the bounds are enough. Overtaking needs two saves, and a crash between an
adoption and the next save needs two crashes. A late answer needs two requests on
one account; deadlines of one to three ticks are shorter than, equal to and longer
than one another. A compare-and-swap that fails twice needs three requests. A
stale second look of the router needs two requests of one session and two
accounts. An eviction needs a map of one entry and a second key. A fallback, a
self-heal with a second round and a firewall address block need two accounts, and
`MaxRotate = 2` has a first, a last and no middle hop, as every hop looks the same.
A limit of one is passed as soon as two requests share a snapshot, and the fourth
change is the use that would be one too many. With one value of the limits an edit of them
changes nothing: that raising and lowering them keeps `SoftLimits` is what the theorem
`LimitsAreSoft` adds, for every value of `Limit`. In the same way the run has one model and one
account, where the self-heal and a 6004 that comes between its decision and its clearing meet, and
`RateLocksStand` is of any number of both. There the breaker and the degradation act on their
first failure and have one step; the proofs are of every threshold and of a breaker that doubles.

`MCRotation` restricts the states (`CONSTRAINT Small`): two requests that
may not be rewritten run side by side, while a request that may be rewritten
starts only when nobody else has. What the restriction leaves out are two
concurrent requests that both retry with a rewritten body; they share the
degradation flag, the accounts and the gates, all of which `PoolChanges` and
`Tick` change at any moment. The one thing not simulated is a second lease on
the same account by such a request.

`PoolPersist.cfg` and the two of `Keystore` say `CHECK_DEADLOCK FALSE`: the number of crashes and changes is
bounded, so a process that has stopped after its last flush has no step left.
A clean shutdown is such a state too. So do `Governance.cfg`, as a repository whose items
have been handled may stay as it is, and `Panel.cfg`, as the clicks are bounded and a hidden tab does
nothing by itself.

`MCGovernance` has three deployments (everything on; everything off; a dry run), two texts
(a filled-in template under a good title, and neither), and `MinSections = 1`, at which
one of them counts as complete. Unchecked words name nothing or number 3 (`MCMentions`), which
exists in some behaviours and not in others; where they have named it (`Named`), one plain item of a person
and no retry are enough, as no step of a run reads them. Three numbers are two items of people and a canonical issue,
or one item, the canonical issue drafted from it and the one before. `Small` keeps two runs
side by side to what they can disturb in one another: past the triage, which looks at the
run's own item only, with two plain items, in the deployment without review and index, whose
lists are read anew by each run; and it looks at a repository with a complete canonical issue from before
in a dry run. `Few` lets a person repeat a run only when it left the
item as it was and no other is under way, lets the bot's own issue be repeated only before anything else
exists, and lets a run for the bot's own issue start
alone. One retry has a first, a last and a refused attempt.

`MCPanel` begins at each page with a cache from before, so that a page is looked at without
the clicks that lead to it, and, once each, opened for the first time, from page to page,
with nothing there, and while somebody else writes. Two clicks make two calls that can cross; the
forms get a third, to fill in, send and close. A failure more finds nothing new, as a
lock that a failure frees is free for the next. `Few` lets one answer at most wait to be taken up,
which leaves calls free to be answered, and so to land, in any order, but makes them land
in the order of their answers; on settings and tasks, which begin with four loads at once, it
lets the first ones land in one order, as it does on the tokens' tab, whose state they do not touch,
and once such a page or the dashboard was left; and on the pages of large forms nobody clicks
while a plain load is under way. On models, keys, security, playground, logs and statistics they do.
A reload comes last, as one that comes first leads to what is a start of its own (it leaves nothing but
the stored copy); the bar's dialog and palette, the same on every page, are opened from accounts and keys. Two limits, two instants and one word to
look for make every kind of key and a range that ends before it begins; one beat while a round of
the dashboard is under way makes a second round that may overtake the first.

**Fairness.** `EventuallySaved` needs it (`FairSpec`): the flusher's ticker
fires as long as the process runs; a goroutine that has been started gets the
write lock, since its holders leave it; a process that stopped is started again,
which the service scripts and the container's restart policy do. No fairness is
asked of changes, of failures (they are bounded), or of Redis. `EveryRunEnds` asks
that a run goes on while it can (`WF` of `RunStep`, one run at a time): it is a process of its own,
whose calls return, as the client sets a timeout on each. `EventuallyFresh` asks that of
`Serve`, `Land` and `Beat` together something happens while it can: the server answers, the
browser runs the continuation of an answer, and the interval of `use-heartbeat.ts` fires while
the tab can be seen. It asks nothing of the user, and is claimed of a page that stays in view, with
its login, from some time on. The rotation needs none: `AlwaysNearer` gives every request a measure that falls with
each of its steps, so it ends after a bounded number of them as long as its
calls return, whatever the others do.

**Findings.**

1. `account_pool_exhausted`: a 402 that arrives during a longer soft cooling leaves
   the account's cooling soft, and the fallback offers an account that its
   comment says is excluded (`cooldown.go:64`, `pick.go:381`).
2. `session_cap`: the comment of `maxEntries` grants the allocation path one slot
   over the limit; it takes one for every new key (`session.go:84`, `277`, `320`).
3. `keystore_flush`: `Flush` of the key store returns nil while a timer callback
   that took the newest content has not written it (`keystore.go:811`, `834`, `842`);
   `main` calls it last, so the change is lost. The same property fails, a few steps
   further on, when a callback with older content writes after `Flush` did: nothing
   numbers the saves, as `persist.go` does for the pool.

4. `governance_dry_run`: the action's description (`action.yml:67`) and its `README.md:79` say that a
   dry run closes, creates and labels nothing. The code asks for `dryRun` in its governance only.
   The triage before it closes, locks and labels all the same (the run closes spam), and so does the
   catch of the handler, also after the governance has said in a comment that it will close nothing.
   `DryRunOnlyTalks` states what does hold: it is of the stage `govern`.

**Where comments say otherwise and the properties take the code.** A refill leaves a model's 6004 lock in
place, as `reviveCoolingLocked` means to (`transition.go:64-71`: the limit has nothing to do with the
balance). The comments at `state.go:208-210`, `state.go:358-359` and `transition.go:23-24` say that a
refill clears `modelCooldowns`. The model follows the code, and so does `RateLockStands`: read against
those three comments it fails, since a refill is not among the steps it lets remove a lock.

`ClosedHasAHome` is of that stage as well. An item the catch closes, because the provider refused its
content (`issueHandler.js:153`), has no home and is meant to have none.

`SoftLimits` bounds the overshoot of the highest limit by the number of other requests in
flight, and the bound is tight. The comment of `Validate` (`keystore.go:566`) speaks
of one or two; that holds when no more than two or three requests share the key,
since a request is counted only after the upstream has answered.

**What the panel does wrongly.** Modelling it showed six things that no run presents as a
counterexample; the first five are listed as hazards, and the model does what the code does.
`ViewIsOfKey` is of the cached hooks. What pages keep beside them does show late answers: the
addresses of a key after another was asked for (`IpsLand`), the tasks of an account (`Redetailed`), and
the playground's models of the realm before (`PlayModelsLand`).
After a save on the settings page `load` still holds the first render's `applyConfig`, so
edits of another group may be lost (`settings-context.tsx:177`, against its comment). Taking
another realm while the playground streams empties the conversation (`playground/page.tsx:206`; another
protocol leaves it as it is) and lets the handler of the abort read a message
that is gone, and the page fails (`playground/page.tsx:427`). After a save of the firewall's rules a
refetch that fails leaves no draft until the page is entered again (`security/page.tsx:167`).
Closing the dialog of a new account while its link is being asked for starts a poll nobody
stops (`AddAccountDialog.tsx:105`). A round of the dashboard waits for its slowest part, and one
that is overtaken puts its older status over the newer one until the next beat
(`dashboard/page.tsx:250`); `EventuallyFresh` holds because there is a next beat. And while a
failed first load of the logs is repeated at the user's request, the page says that there are no
logs: `retryRequests` takes the error away and a refresh never sets `loading` again, though the
comment (`logs/page.tsx:121`) wants the two cases kept apart.

## 4. What is proved

TLAPS proves these for every value of the constants.

* `LeaseProofs`. `Inv` is `TypeOK` and `LoopsLoaded`: a request in a loop has an entry
  in hand, and one about to swap has loaded a value that leaves the new one in range
  (below its cap, above zero). `Admitted` (`AdmittedInCap`) follows from it in one
  step. The refinement needs more, for an account that stays: every request works
  on its one entry, and the counter *is* the number of holders (`Counted`), as the
  loops see only the counter and the semaphore only the holders. `Refinement`
  (`IsSemaphore`) maps the compare-and-swap, and the load that finds the account
  full, to the semaphore's answer, and every other step of the loops to a stutter.
  `NoLeak` (`NothingLeaks`) holds for an account that comes and goes, where the counter is no
  longer the number of holders: `Balanced` says that the entry in the pool counts no more than
  the requests that will still take one back from it (`Owers`); less, when some came in under
  an older entry.
  Assumption: `Requests` is finite.
  The rows of the ledger are proved in the same module, of `MCLease`'s specification.
  `LedgerInv` adds to `TypeOK` that a request which is to change a counter has found one
  (`Pointed`), that the row counts no more than the requests which may still take one from it
  (`Covered`), and that a row at zero has somebody who is about to count or to delete it (`Kept`).
  It gives `NoneBelowZero` (`LedgerTypeOK`), `NoneTooMany` (`NeverTooMany`) and `RowsGone` (`RowsGoAway`).
  Assumptions: `Requests` is finite and `None` is no counter.
* `SessionProofs`. `Inv` is `TypeOK` and `InHand`: between two locks a request has its session in hand,
  and on the fast path an account. From it, in one step each: `NoneResurrected`
  (`NoResurrection`), `AffinityHolds` (`AffinityKept`), `BindEvicts` (`BindNeverOverfills`, which needs that
  the oldest entry of a nonempty finite map exists). Assumption: `Keys` is finite.
* `RotationProofs`. What a step does to one request is first described by itself, as a relation
  between its record before and after (`Moved`, one disjunct for each kind of step), so that
  thirty actions are looked at once. `Good` holds of every record: a lease is held from `Take` to the
  answer (`Leased`), and each hop and each retry with another body has allowed one call (`Paced`).
  With it the accounts' counters are the holders counted (`Counted`). It gives `LeasesBalance`
  (`LeasesMatch`) and `CallsBounded` (`CallBudget`). `NoneAskedTwice` (`NeverAsksTwice`) adds `Tidy`: a
  rewriting is never taken back (`Grown`), and who has been asked what would be asked now has
  been tried, and is not the sticky account (`Careful`). `RotationEnds` (`AlwaysNearer`) shows that the
  measure of a request falls: hops and free retries left, and the place within a hop. Assumption: `Requests` is finite.
* `PoolPersistProofs`. `Inv` adds to `TypeOK` that the order of sequence numbers is the
  order of versions (`JobsOrdered`), that a job that will not be skipped is not behind
  the file (`JobsBetween`), what the writer inside the lock has done (`WritingLast`),
  bounds of all versions (`Versions`), that a clean pool has its version in the file or
  in a job (`CleanMeansOnItsWay`, which is not inductive without the others), and
  where the version a waiting `Flush` asked for is (`FlushCovered`). From it:
  `NothingForgotten` (`CleanMeansOnItsWay`) and `FlushDurable` (`FlushIsDurable`). With
  `TimesInv`, for `Granularity = 1`: `Refinement` (`RegisterSpec`) and `RestartDurable`,
  which says in one step what the register says of a restart. `RestartDurable` is
  proved only: as a consequence of `RegisterSpec` no run repeats it. With coarser
  file times an older snapshot can be adopted, and both fail.
* `AccountPoolProofs`. `TypeCorrect`, by a lemma per operator of `Account`, and
  `GoodNewsOnly` (`OnlyGoodNewsFrees`) for any number of accounts and requests.
  Assumptions: `PolicyAssumption`, `BreakerAssumption`, `TrafficAssumption`, and
  `PowersAssumption`, which states what the provers have to know of powers of
  two; TLC evaluates it for the constants of each run. `WhatStepsDo` sorts the steps by what
  they do to one account; on it stand `OneBackoff` (`OneBackoffPerCooling`) and `RateLocksStand`
  (`RateLockStands`), the latter with `Plain`: a 6004 lock counts no hits, so that a reload,
  which forgets hits, leaves it as it is. That a request which owes its account a second step still
has that account in hand (`Owing`) makes the two critical sections of an answer provable.
* `KeystoreProofs`. `SaveInv` adds to `TypeOK` and `NothingForgotten` the order of the
  versions and two facts about the timer that make it inductive (`Versions`): the
  store is dirty only with `flushTimer` set, and `flushTimer` set means a callback to
  come. It gives `ChangesReachTheFile` (`NothingForgotten`). `LimitsAreSoft`
  (`SoftLimits`) counts the requests that may still add a use, as they passed the check
  or will pass it on their snapshot (`TokenHot`, `RateHot`): uses and such requests
  together stay below limit plus requests, where the limit is the highest any edit sets, so that
  a snapshot with a lower one lets nobody in whom this one would refuse. Below the limit there are at most as
  many as requests; from the limit on none joins, and every use takes one away.
  For the rate it is claimed of the current window only; the count of an old window
  starts anew. Assumption: `Requests` is finite.

* `GovernanceProofs`. None of the six invariants is inductive: whether a call may be made is decided
  steps before it is, and other runs change the repository in between. `IInv` says of the
  repository that whatever is cited, or is the source of another item, exists, and that no source is
  the action's own (`RepoOK`); and of each run what it may rely on (`RunOK`), in five parts:
  what is in its lists exists, and what it goes through beyond the start is a person's (`Sees`);
  the stage it is in, and what the deployment allows (`OnItsWay`); each call it still holds is about
  what exists, and may be made there (`Owed`); a run that has closed, or has let through, is about
  to end, and no call is left of which a failure would lead it elsewhere (`Settled`); and
  what it has closed has a home (`Founded`). `CitesWhatExists` follows from the checks and from what the code writes itself; of the
  words of the AI that no check reads nothing is claimed. Two ideas keep the proof small. Runs only ever
  add items, and take neither existence nor the canonical label away, so what a run relies on
  survives the steps of the others (`Grows`, `GrowsRunOK`). And a step
  of a run is one of few kinds: it goes on, holds some calls first, throws, retries, makes
  a call or creates an item (`GotoKeeps`, `PlanKeeps`, `RaiseKeeps`, `RetryKeeps`, `WriteKeeps`,
  `CreateKeeps`); each of the fifty places of the handlers is an application of one of these. From `IInv`:
  `Typed` (`TypeOK`), `HomesAreThere` (`ClosedHasAHome`), `LetThroughStaysOpen` (`LetThroughIsOpen`),
  `CascadesEnd` (`NoCascade`), `CitationsExist` (`CitesWhatExists`) and `DryRunsTalk`
  (`DryRunOnlyTalks`), for any numbers, runs, texts, deployments and retries.
  Assumption: `GovRepoAssumption`.
* `PanelProofs`. `ViewIsOfKey` alone is not inductive: a hook is filled from the caches, and a page is
  entered by its name. `IInv` adds that what either cache holds under a key was fetched for that key,
  and that the page, and wherever the bar leads, is one of the panel. As a handler maps a world to
  a world, `IInv` is a predicate of worlds (`Keyed`), and the proof has a lemma per handler: the few
  operators that touch the caches or the hooks establish it (`Backfilled`, `Cached`, `Enters`, `Fetches`,
  `LoadLandedOK`), and a page that is entered starts from hooks that are filled by them (`MountOK`);
  every other handler leaves them alone. The argument needs no bound on calls in flight, on their
  order, or on what the server answers: an answer carries the key it was asked for, and that is
  where it goes. Assumption: `StartsAssumption`, that what the browser has stored under a key was
  fetched for that key, which is what `putCache` writes.

Model-checked only: liveness (`EventuallySaved`, `EveryRunEnds`, `EventuallyFresh`), which is outside
the prover's reach, and two properties of the panel (`LockHasItsCall`, `IssuedStands`). What the
folds over a sequence of calls and the parsing of a text give for every input would need
induction over data.

## 5. What is not modelled

Times of day, balances, weights and costs are data the properties above do not
look at. Request parsing, prompts, JSON rewriting, header signatures, formats and
the lines of a log have no state. The scripts and the command-line tools are outside the server. Of the
panel the filters of the system's lines, the dashboard's card of expiring packages with the
preferences it stores, charts and sums are left out: they choose what is drawn of data that is
modelled, and ask for nothing. So are translations, themes, toasts, the drag of the bar and types. Of the
governance the sanitizer, the prompts and the parsing of inputs are left out, and of the
history it reads only which items may be found. The mirror's queue of eight and its timeouts are replaced by
"any order, or not at all", which is weaker. The remaining components are listed
with their reasons in `PROJECT.json`; those that keep state are in the plan.

## 6. Plan

Done, in order of weight: persistence, account state, leases, sessions, rotation,
keys; then the governance action and the web panel with all its pages; then the proofs of the rotation, the
router, the ledger, the two action properties of the pool, the governance and the panel's cache.

What is left:

1. `TokenRefresh`: snapshot, call, compare and store of a rotating refresh token
   by requests and the keepalive (`upstream/client.go:1421`), with the strikes of
   module `Account`; property: a session is declared dead only by an upstream that
   rejected its current token.
2. `DirWatch`: the poll against the panel's removal (`pool.go:521` claims no race).
3. `Gates`: windows of `wafip.go`, self-heal and degradation with their times.
4. `Shutdown`: flush, close of the mirror, drain, exit (`main.go:713`).
5. `SSE` and the front ends: the order of events and the end of a stream, as an
   automaton against an abstract "exactly one end".
6. `TaskQueue`: the server's tasks with lock, stop and sweep; missed runs of the scheduler.

Composition: `TokenRefresh` with `AccountPool`; `Lease` under `Rotation` (the
rotation's step `Take` is the semaphore's answer).

Theorems: `IssuedStands` and `LockHasItsCall` by strengthening `PanelProofs`'s `IInv`; that a governance run comes nearer to its end with each step;
then the refinements of the new modules.
