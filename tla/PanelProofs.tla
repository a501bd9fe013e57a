----------------------------- MODULE PanelProofs -----------------------------
(***************************************************************************)
(* Proof that no page shows what was fetched for another key, whatever     *)
(* lands late, fails or is clicked.                                        *)
(*                                                                         *)
(* A handler maps a world to a world, so the invariant is one of worlds:   *)
(* what the two caches hold under a key, and what a hook shows, was        *)
(* fetched for that key.  Few operators touch the caches and the hooks     *)
(* (Backfill, PutCache, Enter, Fetched, ClearAllCache); of every other     *)
(* handler the proof is that it leaves them alone.                         *)
(***************************************************************************)
EXTENDS Panel, TLAPS

(* What is stored under a key was fetched for it. *)
CacheOK(f) == \A k \in DOMAIN f : f[k] # None => f[k].key = k

(* The tab's caches, and where its bar may lead. *)
TabOK(t) == /\ {"mem", "store", "goes"} \subseteq DOMAIN t
            /\ CacheOK(t.mem) /\ CacheOK(t.store)
            /\ t.goes \subseteq Pages

(* A hook shows nothing, or what was fetched for its key. *)
HookOK(k) == /\ {"key", "data"} \subseteq DOMAIN k
             /\ k.data # None => k.data.key = k.key

(* A page with a name of N, and its hooks. *)
PageOK(N, p) == /\ {"name", "hooks"} \subseteq DOMAIN p
                /\ p.name \in N
                /\ \A h \in DOMAIN p.hooks : HookOK(p.hooks[h])

Keyed(N, w) == /\ {"tab", "page", "calls"} \subseteq DOMAIN w
               /\ TabOK(w.tab) /\ PageOK(N, w.page)

-----------------------------------------------------------------------------
(* The operators of Tab. *)
LEMMA SetTab ==
    ASSUME NEW N, NEW w, Keyed(N, w), NEW t, TabOK(t)
    PROVE  Keyed(N, [w EXCEPT !.tab = t])
BY DEF Keyed

LEMMA SetPage ==
    ASSUME NEW N, NEW M, NEW w, Keyed(M, w), NEW p, PageOK(N, p)
    PROVE  Keyed(N, [w EXCEPT !.page = p])
BY DEF Keyed

LEMMA SetCalls ==
    ASSUME NEW N, NEW w, Keyed(N, w), NEW c
    PROVE  Keyed(N, [w EXCEPT !.calls = c])
BY DEF Keyed

LEMMA TabField ==
    ASSUME NEW t, TabOK(t), NEW f, f \notin {"mem", "store", "goes"}, NEW v
    PROVE  TabOK([t EXCEPT ![f] = v])
BY DEF TabOK

LEMMA PageField ==
    ASSUME NEW N, NEW p, PageOK(N, p), NEW f, f \notin {"name", "hooks"}, NEW v
    PROVE  PageOK(N, [p EXCEPT ![f] = v])
BY DEF PageOK

LEMMA PutIn ==
    ASSUME NEW f, CacheOK(f), NEW k, NEW d, d.key = k
    PROVE  CacheOK(With(f, k, d))
BY DEF CacheOK, With

LEMMA HookField ==
    ASSUME NEW N, NEW p, PageOK(N, p), NEW h, NEW f, f \notin {"key", "data"}, NEW v
    PROVE  PageOK(N, [p EXCEPT !.hooks[h][f] = v])
BY DEF PageOK, HookOK

LEMMA Backfilled ==
    ASSUME NEW t, TabOK(t), NEW k
    PROVE  /\ TabOK(Backfill(t, k))
           /\ PeekCache(t, k) # None => PeekCache(t, k).key = k
<1>1. PeekCache(t, k) # None => PeekCache(t, k).key = k
  BY DEF TabOK, CacheOK, PeekCache
<1>2. PeekCache(t, k) # None => CacheOK(With(t.mem, k, PeekCache(t, k)))
  BY <1>1, PutIn DEF TabOK
<1> QED BY <1>1, <1>2 DEF TabOK, Backfill

LEMMA Cached ==
    ASSUME NEW t, TabOK(t), NEW k, NEW d, d.key = k
    PROVE  TabOK(PutCache(t, k, d))
<1>1. CacheOK(With(t.mem, k, d)) /\ CacheOK(With(t.store, k, d))
  BY PutIn DEF TabOK
<1> QED BY <1>1 DEF TabOK, PutCache

LEMMA Called ==
    ASSUME NEW N, NEW w, Keyed(N, w), NEW visit, NEW op, NEW arg, NEW then
    PROVE  Keyed(N, CallFor(w, visit, op, arg, then))
BY SetCalls DEF CallFor

LEMMA Refreshes ==
    ASSUME NEW N, NEW w, Keyed(N, w), NEW h, NEW then
    PROVE  Keyed(N, RefreshThen(w, h, then))
<1> DEFINE k == w.page.hooks[h].key
           p == [w.page EXCEPT !.hooks[h].busy = k]
           w1 == [w EXCEPT !.page.hooks[h].busy = k]
           w2 == [w1 EXCEPT !.page.hooks[h].refreshing = TRUE]
<1>1. PageOK(N, p)
  BY HookField DEF Keyed
<1>2. Keyed(N, w1)
  BY <1>1, SetPage DEF Keyed
<1>3. PageOK(N, [w1.page EXCEPT !.hooks[h].refreshing = TRUE])
  <2> HIDE DEF w1
  <2> QED BY <1>2, HookField DEF Keyed
<1>4. Keyed(N, w2)
  <2> HIDE DEF w1
  <2> QED BY <1>2, <1>3, SetPage DEF Keyed
<1>5. RefreshThen(w, h, then) = IF Idle(w, h) THEN CallFor(w2, w.page.visit, "load", <<h, k>>, then) ELSE w
  BY DEF RefreshThen
<1> HIDE DEF w2
<1> QED BY <1>4, <1>5, Called

-----------------------------------------------------------------------------
LEMMA Calls ==
    ASSUME NEW N, NEW w, Keyed(N, w), NEW op, NEW arg
    PROVE  Keyed(N, Call(w, op, arg))
BY Called DEF Call

LEMMA RefreshOK ==
    ASSUME NEW N, NEW w, Keyed(N, w), NEW h
    PROVE  Keyed(N, Refresh(w, h))
BY Refreshes DEF Refresh

LEMMA Reloads ==
    ASSUME NEW N, NEW w, Keyed(N, w), NEW c, NEW h, NEW k, NEW then
    PROVE  Keyed(N, Reload(c, w, h, k, then))
BY Refreshes, Called DEF Reload

LEMMA Enters ==
    ASSUME NEW N, NEW w, Keyed(N, w), NEW h, NEW k, NEW busy, NEW refreshing, NEW young
    PROVE  Keyed(N, Enter(w, h, k, busy, refreshing, young))
<1> DEFINE hit == PeekCache(w.tab, k)
           hook == [key |-> k, data |-> hit, loading |-> hit = None,
                    refreshing |-> refreshing, busy |-> busy]
           p == [w.page EXCEPT !.hooks = With(@, h, hook)]
           at == [w EXCEPT !.tab = Backfill(@, k), !.page.hooks = With(@, h, hook)]
<1>1. HookOK(hook)
  BY Backfilled DEF Keyed, HookOK
<1>2. PageOK(N, p)
  <2> HIDE DEF hook
  <2> QED BY <1>1 DEF Keyed, PageOK, With
<1>3. Keyed(N, at)
  BY <1>2, Backfilled DEF Keyed
<1>4. Enter(w, h, k, busy, refreshing, young) = IF hit # None /\ young THEN at ELSE Refresh(at, h)
  BY DEF Enter
<1> HIDE DEF hit, at
<1> QED BY <1>3, <1>4, RefreshOK

LEMMA Uses ==
    ASSUME NEW N, NEW w, Keyed(N, w), NEW h, NEW k, NEW young
    PROVE  Keyed(N, UseCached(w, h, k, young))
BY Enters DEF UseCached

LEMMA Rekeys ==
    ASSUME NEW N, NEW w, Keyed(N, w), NEW h, NEW k, NEW young
    PROVE  Keyed(N, Rekey(w, h, k, young))
BY Enters DEF Rekey

LEMMA Warms ==
    ASSUME NEW N, NEW w, Keyed(N, w), NEW K
    PROVE  Keyed(N, WarmCache(w, K))
BY SetCalls DEF WarmCache

LEMMA Cleared == ASSUME NEW t, TabOK(t) PROVE TabOK(ClearAllCache(t))
BY DEF TabOK, CacheOK, ClearAllCache

LEMMA Shows ==
    ASSUME NEW N, NEW w, Keyed(N, w), NEW c, NEW p, PageOK(N, p)
    PROVE  Keyed(N, Shown(c, w, p))
BY SetPage DEF Shown

-----------------------------------------------------------------------------
(* The inductive invariant, and the worlds the actions start from. *)
Screens == Pages \cup {"login"}
IInv == Keyed(Screens, World)

LEMMA Becomes == ASSUME NEW w, Keyed(Screens, w), Become(w) PROVE IInv'
BY DEF IInv, Keyed, World, Become

LEMMA IInvParts == ASSUME IInv PROVE TabOK(tab) /\ PageOK(Screens, page)
BY DEF IInv, Keyed, World

LEMMA ClickedOK == ASSUME IInv PROVE Keyed(Screens, Clicked)
BY TabField DEF IInv, Keyed, World, Clicked

LEMMA AfterOK ==
    ASSUME IInv, NEW c
    PROVE  Keyed(Screens, After(c)) /\ After(c).tab = tab /\ After(c).page = page
BY SetCalls DEF IInv, Keyed, World, After

LEMMA Fetches ==
    ASSUME NEW k, HookOK(k), NEW key, NEW ok, NEW d, d.key = key
    PROVE  HookOK(Fetched(k, key, ok, d))
BY DEF HookOK, Fetched

LEMMA LoadLandedOK == ASSUME IInv, NEW c PROVE Keyed(Screens, LoadLanded(c))
<1> DEFINE k == c.arg[2]
           h == c.arg[1]
           d == Data(c)
           w == IF Ok(c) THEN [After(c) EXCEPT !.tab = PutCache(@, k, d)] ELSE After(c)
           p == [w.page EXCEPT !.hooks[h] = Fetched(@, k, Ok(c), d)]
<1>1. d.key = k
  BY DEF Data
<1>2. Keyed(Screens, w)
  <2> HIDE DEF k, d
  <2>1. TabOK(PutCache(tab, k, d))
    BY <1>1, IInvParts, Cached
  <2> QED BY <2>1, AfterOK, SetTab
<1>3. PageOK(Screens, p)
  <2> HIDE DEF k, d, w, h
  <2>1. PageOK(Screens, w.page)
    BY <1>2 DEF Keyed
  <2> QED BY <1>1, <2>1, Fetches DEF PageOK
<1>4. Keyed(Screens, [w EXCEPT !.page.hooks[h] = Fetched(@, k, Ok(c), d)])
  <2> HIDE DEF k, d, w, h
  <2> QED BY <1>2, <1>3, SetPage
<1> QED BY <1>2, <1>4 DEF LoadLanded

LEMMA WarmLandsKeeps == ASSUME IInv, WarmLands PROVE IInv'
<1>1. PICK c \in Answered("warm") :
          Become(IF Ok(c) THEN [After(c) EXCEPT !.tab = PutCache(@, c.arg[2], Data(c))]
                          ELSE After(c))
  BY DEF WarmLands
<1>2. Data(c).key = c.arg[2]
  BY DEF Data
<1>3. TabOK(PutCache(tab, c.arg[2], Data(c)))
  BY <1>2, IInvParts, Cached
<1>4. Keyed(Screens, [After(c) EXCEPT !.tab = PutCache(@, c.arg[2], Data(c))])
  BY <1>3, AfterOK, SetTab
<1> QED BY <1>1, <1>4, AfterOK, Becomes

-----------------------------------------------------------------------------
(* The shell. *)
LEMMA ReloadedOK ==
    ASSUME NEW N, NEW w, Keyed(N, w)
    PROVE  Keyed(N, Reloaded(w))
<1>1. CacheOK(<<>>)
  BY DEF CacheOK
<1> QED BY <1>1 DEF Reloaded, Keyed, TabOK

LEMMA HydrateOK ==
    ASSUME NEW N, NEW w, Keyed(N, w)
    PROVE  Keyed(N, Hydrate(w))
<1>1. Keyed(N, Call(w, "me", <<None, None>>))
  BY Calls
<1>2. ASSUME NEW v, Keyed(N, v), NEW x
      PROVE  Keyed(N, [v EXCEPT !.tab.me = x, !.tab.loading = FALSE])
  BY <1>2 DEF Keyed, TabOK
<1>3. Keyed(N, [Call(w, "me", <<None, None>>) EXCEPT !.tab.me = w.tab.stored,
                                                     !.tab.loading = FALSE])
  BY <1>1, <1>2
<1> QED BY <1>1, <1>3, Warms DEF Hydrate

LEMMA LoginMountOK ==
    ASSUME NEW N, NEW w, Keyed(N, w)
    PROVE  Keyed(Screens, LoginMount(w))
<1>1. PageOK(Screens, [name |-> "login", visit |-> w.page.visit, hooks |-> <<>>,
                       busy |-> FALSE, error |-> FALSE])
  BY DEF PageOK, Screens
<1> QED BY <1>1, SetPage DEF LoginMount

LEMMA CountsOK ==
    ASSUME NEW N, NEW w, Keyed(N, w)
    PROVE  Keyed(N, FetchCount(w)) /\ Keyed(N, AccountsChanged(w))
<1>1. ASSUME NEW x PROVE Keyed(N, [w EXCEPT !.tab = [Backfill(@, "overview") EXCEPT !.count = x]])
  BY Backfilled, TabField, SetTab DEF Keyed
<1> QED BY <1>1, Calls DEF FetchCount, AccountsChanged

LEMMA MeLandsKeeps == ASSUME IInv, MeLands PROVE IInv'
<1>1. ASSUME NEW c, NEW me
      PROVE  Keyed(Screens, [After(c) EXCEPT !.tab.me = me, !.tab.stored = me, !.tab.loading = FALSE])
  BY AfterOK DEF Keyed, TabOK
<1> QED BY <1>1, Becomes DEF MeLands, Refreshed

LEMMA SubmitLoginKeeps == ASSUME IInv, SubmitLogin PROVE IInv'
<1>1. /\ Keyed(Screens, [Clicked EXCEPT !.page.error = TRUE])
      /\ Keyed(Screens, [Clicked EXCEPT !.page.error = FALSE, !.page.busy = TRUE])
  BY ClickedOK DEF Keyed, PageOK
<1> QED BY <1>1, Calls, Becomes DEF SubmitLogin

LEMMA LoginLandsKeeps == ASSUME IInv, LoginLands PROVE IInv'
<1>1. /\ PageOK(Screens, [page EXCEPT !.busy = FALSE])
      /\ PageOK(Screens, [page EXCEPT !.busy = FALSE, !.error = TRUE])
  BY IInvParts DEF PageOK
<1>2. ASSUME NEW me PROVE TabOK([tab EXCEPT !.me = me, !.stored = me, !.loading = FALSE])
  BY IInvParts DEF TabOK
<1>3. ASSUME NEW c
      PROVE  Keyed(Screens, LoggedIn(c))
  <2> DEFINE me == c.ans.val.role
             in == [After(c) EXCEPT !.tab = ClearAllCache([@ EXCEPT !.me = me, !.stored = me,
                                                                   !.loading = FALSE])]
  <2>1. Keyed(Screens, in)
    BY <1>2, AfterOK, Cleared, SetTab
  <2> HIDE DEF in
  <2>2. LoggedIn(c) = WarmCache(Shown(c, in, [page EXCEPT !.busy = FALSE]), WarmTargets)
    BY DEF LoggedIn, in
  <2> QED BY <1>1, <2>1, <2>2, Shows, Warms
<1>4. ASSUME NEW c
      PROVE  Keyed(Screens, Shown(c, After(c), [page EXCEPT !.busy = FALSE, !.error = TRUE]))
  BY <1>1, AfterOK, Shows
<1> QED BY <1>3, <1>4, Becomes DEF LoginLands

LEMMA LogoutKeeps == ASSUME IInv, Logout PROVE IInv'
BY ClickedOK, Calls, Becomes DEF Logout

LEMMA LoggedOutOK == ASSUME IInv, NEW c PROVE Keyed(Screens, LoggedOut(c))
<1>1. TabOK([tab EXCEPT !.me = None, !.stored = None])
  BY IInvParts DEF TabOK
<1> QED BY <1>1, AfterOK, Cleared, SetTab DEF LoggedOut

LEMMA ExpelledOK ==
    ASSUME NEW N, NEW w, Keyed(N, w)
    PROVE  Keyed(N, Expelled(w))
BY DEF Expelled, Keyed, TabOK

LEMMA SwitchRealmOK == ASSUME IInv, NEW r PROVE Keyed(Screens, SwitchRealm(r))
BY ClickedOK DEF SwitchRealm, Keyed, TabOK

LEMMA CountLandsKeeps == ASSUME IInv, CountLands PROVE IInv'
<1>1. ASSUME NEW c, NEW x PROVE Keyed(Screens, [After(c) EXCEPT !.tab.count = x])
  BY AfterOK DEF Keyed, TabOK
<1> QED BY <1>1, Becomes DEF CountLands

LEMMA PaletteKeeps == ASSUME IInv, TogglePalette \/ RefreshBalances PROVE IInv'
<1>1. /\ Keyed(Screens, [Clicked EXCEPT !.tab.palette = ~@])
      /\ Keyed(Screens, [Clicked EXCEPT !.tab.palette = FALSE])
  BY ClickedOK DEF Keyed, TabOK
<1> QED BY <1>1, Calls, Becomes DEF TogglePalette, RefreshBalances

LEMMA BalancesLandKeeps == ASSUME IInv, BalancesLand PROVE IInv'
BY AfterOK, CountsOK, Becomes DEF BalancesLand

-----------------------------------------------------------------------------
(* The accounts. *)
LEMMA AccountsMountOK ==
    ASSUME NEW N, NEW w, Keyed(N, w), NEW young
    PROVE  Keyed(Screens, AccountsMount(w, young))
<1> DEFINE bare == [name |-> "accounts", visit |-> w.page.visit, hooks |-> <<>>,
                    busyUid |-> None, bulk |-> {}, checkedIn |-> {}, loadError |-> FALSE,
                    migrated |-> FALSE, notes |-> w.tab.notes, sort |-> w.tab.sort,
                    query |-> None, no |-> 1, size |-> w.tab.size, asking |-> None, removing |-> {},
                    popover |-> None, weight |-> NoWeight, import |-> NoImport,
                    exporting |-> FALSE]
<1>1. PageOK(Screens, bare)
  BY DEF PageOK, Screens, Pages
<1>2. Keyed(Screens, [w EXCEPT !.page = bare])
  <2> HIDE DEF bare
  <2> QED BY <1>1, SetPage
<1>3. AccountsMount(w, young) =
        UseCached(UseCached(UseCached([w EXCEPT !.page = bare], "routes", "proxy_routes", young),
                            "overview", "overview", young), "packages", "packages", young)
  BY DEF AccountsMount
<1> HIDE DEF bare
<1> QED BY <1>2, <1>3, Uses

LEMMA MigrateOK ==
    ASSUME NEW N, NEW w, Keyed(N, w)
    PROVE  Keyed(N, MigrateNotes(w))
<1>1. ASSUME NEW x, NEW y, NEW z
      PROVE  Keyed(N, [w EXCEPT !.page.migrated = x, !.tab.moving = y, !.calls = z])
  BY DEF Keyed, PageOK, TabOK
<1>2. ASSUME NEW x, NEW y, NEW z
      PROVE  Keyed(N, [w EXCEPT !.page.migrated = x, !.page.notes = y, !.tab.notes = z])
  BY DEF Keyed, PageOK, TabOK
<1> QED BY <1>1, <1>2 DEF MigrateNotes

LEMMA SyncOK ==
    ASSUME IInv, NEW w, Keyed(Screens, w), NEW c, NEW u, NEW text
    PROVE  Keyed(Screens, SyncLocalNote(c, w, u, text))
<1>1. ASSUME NEW x PROVE Keyed(Screens, [w EXCEPT !.tab.notes = x])
  BY DEF Keyed, TabOK
<1>2. ASSUME NEW x PROVE PageOK(Screens, [w.page EXCEPT !.notes = x])
  BY DEF Keyed, PageOK
<1> QED BY <1>1, <1>2, Shows DEF SyncLocalNote

LEMMA SavedOK ==
    ASSUME NEW N, NEW p, PageOK(N, p), NEW i
    PROVE  PageOK(N, Saved(p, i))
BY DEF Saved, PageOK

LEMMA NotesLandKeep == ASSUME IInv, NoteMoved \/ NoteSaved PROVE IInv'
<1>1. CASE NoteMoved
  <2>1. ASSUME NEW c, NEW x, NEW y
        PROVE  /\ Keyed(Screens, [After(c) EXCEPT !.tab.moving = x])
               /\ Keyed(Screens, [[After(c) EXCEPT !.tab.moving = x] EXCEPT !.tab.notes = y])
    BY AfterOK DEF Keyed, TabOK
  <2>2. PageOK(Screens, [page EXCEPT !.notes = <<>>])
    BY IInvParts DEF PageOK
  <2> QED BY <1>1, <2>1, <2>2, Shows, Becomes DEF NoteMoved
<1>2. CASE NoteSaved
  <2>1. PICK c \in Answered("setNote"), runs \in BOOLEAN :
            LET w == IF runs THEN SyncLocalNote(c, After(c), c.arg[1], c.arg[2]) ELSE After(c)
            IN  Become(IF Mounted(c) THEN [w EXCEPT !.page = Saved(@, c.arg[3])] ELSE w)
    BY <1>2 DEF NoteSaved
  <2> DEFINE w == IF runs THEN SyncLocalNote(c, After(c), c.arg[1], c.arg[2]) ELSE After(c)
  <2>2. Keyed(Screens, w)
    BY AfterOK, SyncOK
  <2> HIDE DEF w
  <2>3. PageOK(Screens, Saved(w.page, c.arg[3]))
    BY <2>2, SavedOK DEF Keyed
  <2>4. Keyed(Screens, [w EXCEPT !.page = Saved(@, c.arg[3])])
    BY <2>2, <2>3, SetPage
  <2> QED BY <2>1, <2>2, <2>4, Becomes DEF w
<1> QED BY <1>1, <1>2, SMTT(40)

LEMMA RowDoneOK ==
    ASSUME IInv, NEW w, Keyed(Screens, w), NEW c, NEW u, NEW op, NEW ok
    PROVE  Keyed(Screens, RowDone(c, w, u, op, ok))
<1>1. ASSUME NEW x, NEW y
      PROVE  Keyed(Screens, [w EXCEPT !.page.busyUid = None, !.page.asking = x, !.page.removing = y])
  BY DEF Keyed, PageOK
<1>2. Keyed(Screens, Ran(w, u, op, ok))
  BY <1>1, CountsOK DEF Ran
<1> QED BY <1>2, CountsOK DEF RowDone

LEMMA BulkDoneOK ==
    ASSUME IInv, NEW w, Keyed(Screens, w), NEW c, NEW op
    PROVE  Keyed(Screens, BulkDone(c, w, op))
<1>1. PageOK(Screens, [w.page EXCEPT !.bulk = @ \ {op}])
  BY DEF Keyed, PageOK
<1> QED BY <1>1, Shows DEF BulkDone

LEMMA AccountsLandKeeps == ASSUME IInv, AccountsLand PROVE IInv'
<1>1. CASE RowLands
  <2>1. ASSUME NEW x PROVE PageOK(Screens, [page EXCEPT !.busyUid = None, !.checkedIn = x])
    BY IInvParts DEF PageOK
  <2> QED BY <1>1, <2>1, AfterOK, RowDoneOK, Shows, Reloads, Becomes DEF RowLands
<1>2. CASE BulkLands
  BY <1>2, AfterOK, BulkDoneOK, Reloads, Becomes DEF BulkLands
<1>3. CASE RouteSet
  BY <1>3, AfterOK, IInvParts, SavedOK, Shows, Reloads, Becomes DEF RouteSet
<1>4. CASE WeightSet
  <2>1. ASSUME NEW x
        PROVE  PageOK(Screens, [page EXCEPT !.weight.busy = FALSE, !.weight.open = x])
    BY IInvParts DEF PageOK
  <2>2. ASSUME NEW c
        PROVE  Keyed(Screens, Shown(c, After(c), [page EXCEPT !.weight.busy = FALSE,
                                                              !.weight.open = @ /\ ~Ok(c)]))
    BY IInvParts, AfterOK, Shows DEF PageOK
  <2> QED BY <1>4, <2>2, Reloads, Becomes DEF WeightSet
<1>5. CASE FileRead
  <2>1. ASSUME NEW x PROVE PageOK(Screens, [page EXCEPT !.import.raw = x])
    BY IInvParts DEF PageOK
  <2> QED BY <1>5, <2>1, AfterOK, Shows, Becomes DEF FileRead
<1>6. CASE Imported
  <2>1. ASSUME NEW c
        PROVE  Keyed(Screens, Shown(c, After(c), [page EXCEPT !.import.busy = FALSE,
                                                              !.import.done = @ \/ Ok(c)]))
    BY IInvParts, AfterOK, Shows DEF PageOK
  <2> QED BY <1>6, <2>1, CountsOK, Reloads, Becomes DEF Imported
<1>7. CASE Exported
  <2>1. PageOK(Screens, [page EXCEPT !.exporting = FALSE])
    BY IInvParts DEF PageOK
  <2> QED BY <1>7, <2>1, AfterOK, Shows, Becomes DEF Exported
<1> QED BY <1>1, <1>2, <1>3, <1>4, <1>5, <1>6, <1>7, NotesLandKeep DEF AccountsLand

LEMMA AccountsThenOK ==
    ASSUME IInv, NEW w, Keyed(Screens, w), NEW c,
           c.then = None \/ c.then[1] \in {"row", "bulk", "route"}
    PROVE  Keyed(Screens, AccountsThen(c, w))
<1>1. Keyed(Screens, Shown(c, w, Saved(w.page, c.then[2])))
  BY SavedOK, Shows DEF Keyed
<1> QED BY <1>1, RowDoneOK, BulkDoneOK DEF AccountsThen

LEMMA AccountsLoadedOK ==
    ASSUME IInv, NEW w, Keyed(Screens, w), NEW c
    PROVE  Keyed(Screens, AccountsLoaded(c, w))
<1>1. ASSUME NEW x PROVE Keyed(Screens, [w EXCEPT !.page.loadError = x])
  BY DEF Keyed, PageOK
<1> QED BY <1>1, MigrateOK DEF AccountsLoaded

LEMMA AccountsClickKeeps == ASSUME IInv, AccountsClick PROVE IInv'
<1>1. ASSUME NEW u, NEW op, Run(u, op) PROVE IInv'
  <2>1. ASSUME NEW x, NEW y
        PROVE  Keyed(Screens, [Clicked EXCEPT !.page.busyUid = u, !.page.asking = x,
                                              !.page.removing = y])
    BY ClickedOK DEF Keyed, PageOK
  <2> QED BY <1>1, <2>1, Calls, Becomes DEF Run
<1>2. ASSUME NEW x PROVE Keyed(Screens, [Clicked EXCEPT !.page.popover = x])
  BY ClickedOK DEF Keyed, PageOK
<1>3. ASSUME NEW u, OpenNote(u) \/ OpenRoutes(u) PROVE IInv'
  BY <1>2, <1>3, Becomes DEF OpenNote, OpenRoutes
<1>4. ASSUME NEW x PROVE Keyed(Screens, [Clicked EXCEPT !.page.weight = x])
  BY ClickedOK DEF Keyed, PageOK
<1>5. ASSUME NEW u, OpenWeight(u) PROVE IInv'
  BY <1>4, <1>5, Becomes DEF OpenWeight
<1>6. ASSUME NEW op, StartBulk(op) PROVE IInv'
  <2>1. ASSUME NEW x PROVE Keyed(Screens, [Clicked EXCEPT !.page.bulk = x])
    BY ClickedOK DEF Keyed, PageOK
  <2> QED BY <1>6, <2>1, Calls, Becomes DEF StartBulk
<1>7. ASSUME NEW k, ToggleSort(k) PROVE IInv'
  <2>1. ASSUME NEW x PROVE Keyed(Screens, [Clicked EXCEPT !.page.sort = x, !.tab.sort = x])
    BY ClickedOK, SMTT(40) DEF Keyed, PageOK, TabOK
  <2> QED BY <1>7, <2>1, Becomes DEF ToggleSort
<1>8. CASE Toolbar
  <2>1. ASSUME NEW x, NEW y
        PROVE  /\ Keyed(Screens, [Clicked EXCEPT !.page.query = x, !.page.no = y])
               /\ Keyed(Screens, [Clicked EXCEPT !.page.size = x, !.page.no = y, !.tab.size = x])
               /\ Keyed(Screens, [Clicked EXCEPT !.page.no = y])
    BY ClickedOK DEF Keyed, PageOK, TabOK
  <2> QED BY <1>8, <2>1, Becomes DEF Toolbar
<1>9. CASE ClearLoadError
  <2>1. Keyed(Screens, [Clicked EXCEPT !.page.loadError = FALSE])
    BY ClickedOK DEF Keyed, PageOK
  <2> QED BY <1>9, <2>1, RefreshOK, MigrateOK, Becomes DEF ClearLoadError
<1>10. CASE SaveNote
  <2>1. ASSUME NEW x
        PROVE  Keyed(Screens, [Clicked EXCEPT !.page.popover.saving = TRUE, !.page.popover.draft = x])
    BY ClickedOK DEF Keyed, PageOK
  <2> QED BY <1>10, <2>1, Calls, Becomes DEF SaveNote
<1>11. CASE ClosePopover
  BY <1>2, <1>11, Becomes DEF ClosePopover
<1>12. CASE SelectRoute
  <2>1. Keyed(Screens, [Clicked EXCEPT !.page.popover.saving = TRUE])
    BY ClickedOK DEF Keyed, PageOK
  <2> QED BY <1>12, <2>1, Calls, Becomes DEF SelectRoute
<1>13. ASSUME NEW x, NEW y
       PROVE  /\ Keyed(Screens, [Clicked EXCEPT !.page.import = x])
              /\ Keyed(Screens, [Clicked EXCEPT !.page.import.open = TRUE])
              /\ Keyed(Screens, [Clicked EXCEPT !.page.import.busy = TRUE])
              /\ Keyed(Screens, [Clicked EXCEPT !.page.exporting = TRUE])
              /\ Keyed(Screens, [Clicked EXCEPT !.page.asking = None])
              /\ Keyed(Screens, [Clicked EXCEPT !.page.weight.open = FALSE])
              /\ Keyed(Screens, [Clicked EXCEPT !.page.weight.busy = TRUE])
  BY ClickedOK DEF Keyed, PageOK
<1>14. CASE OpenImport \/ Export
  BY <1>13, <1>14, Calls, Becomes DEF OpenImport, Export
<1>15. CASE CloseDialogs
  BY <1>13, <1>15, Becomes DEF CloseDialogs
<1>16. CASE SaveWeight \/ PickFile \/ SubmitImport
  BY <1>13, <1>16, Calls, Becomes DEF SaveWeight, PickFile, SubmitImport
<1> QED BY <1>1, <1>3, <1>5, <1>6, <1>7, <1>8, <1>9, <1>10, <1>11, <1>12, <1>14, <1>15, <1>16
        DEF AccountsClick

-----------------------------------------------------------------------------
(* The dialog of a new account. *)
LEMMA StopPollOK ==
    ASSUME NEW N, NEW w, Keyed(N, w)
    PROVE  Keyed(N, StopPoll(w))
BY DEF StopPoll, Keyed, TabOK

LEMMA AddField ==
    ASSUME NEW N, NEW w, Keyed(N, w), NEW f, NEW v
    PROVE  Keyed(N, [w EXCEPT !.tab.add[f] = v])
BY DEF Keyed, TabOK

LEMMA StartAddOK ==
    ASSUME NEW N, NEW w, Keyed(N, w)
    PROVE  Keyed(N, StartAdd(w))
<1>1. Keyed(N, [StopPoll(w) EXCEPT !.tab.add.fails = 0, !.tab.add.phase = "loading"])
  BY StopPollOK DEF Keyed, TabOK
<1> QED BY <1>1, Calls DEF StartAdd

LEMMA AddClickKeeps == ASSUME IInv, AddClick PROVE IInv'
<1>1. /\ Keyed(Screens, [Clicked EXCEPT !.tab.add.open = TRUE])
      /\ Keyed(Screens, [Clicked EXCEPT !.tab.add.open = FALSE])
      /\ \A r : Keyed(Screens, [Clicked EXCEPT !.tab.add.region = r])
  BY ClickedOK, SMTT(40) DEF Keyed, TabOK
<1> QED BY <1>1, ClickedOK, StopPollOK, StartAddOK, Becomes DEF AddClick

LEMMA AddStartedKeeps == ASSUME IInv, AddStarted PROVE IInv'
<1>1. ASSUME NEW c, NEW x, NEW y, NEW z
      PROVE  /\ Keyed(Screens, [After(c) EXCEPT !.tab.add.phase = "waiting", !.tab.add.state = x,
                                                !.tab.add.ticks = y, !.tab.add.timer = z])
             /\ Keyed(Screens, [After(c) EXCEPT !.tab.add.phase = "error"])
  BY AfterOK DEF Keyed, TabOK
<1> QED BY <1>1, Becomes DEF AddStarted

LEMMA TickKeeps == ASSUME IInv, Tick PROVE IInv'
<1>1. ASSUME NEW x PROVE Keyed(Screens, [World EXCEPT !.tab.add.polling = TRUE, !.tab.beats = x])
  BY DEF IInv, Keyed, TabOK
<1> QED BY <1>1, Calls, Becomes DEF Tick

LEMMA PolledKeeps == ASSUME IInv, Polled PROVE IInv'
<1>1. ASSUME NEW v, Keyed(Screens, v), NEW phase
      PROVE  /\ Keyed(Screens, [StopPoll(v) EXCEPT !.tab.add.phase = phase])
             /\ \A x : Keyed(Screens, [v EXCEPT !.tab.add.fails = x])
             /\ Keyed(Screens, [v EXCEPT !.tab.add.closing = TRUE])
             /\ Keyed(Screens, [v EXCEPT !.tab.add.polling = FALSE])
  <2>1. Keyed(Screens, StopPoll(v))
    BY <1>1, StopPollOK
  <2> QED BY <1>1, <2>1, AddField
<1>2. PICK c \in Answered("addPoll") :
          LET w == After(c)
              good == [w EXCEPT !.tab.add.fails = 0]
              bad == [w EXCEPT !.tab.add.fails = @ + 1]
              end(v, phase) == [StopPoll(v) EXCEPT !.tab.add.phase = phase]
              then == CASE Ok(c) /\ c.ans.val.done = "added" ->
                               AccountsChanged([end(good, "success") EXCEPT !.tab.add.closing = TRUE])
                        [] Ok(c) /\ c.ans.val.done # "added" -> good
                        [] OTHER -> IF bad.tab.add.fails >= PollFailLimit THEN end(bad, "error") ELSE bad
          IN  Become([then EXCEPT !.tab.add.polling = FALSE])
  BY DEF Polled
<1> DEFINE good == [After(c) EXCEPT !.tab.add.fails = 0]
           bad == [After(c) EXCEPT !.tab.add.fails = @ + 1]
           added == AccountsChanged([[StopPoll(good) EXCEPT !.tab.add.phase = "success"]
                                        EXCEPT !.tab.add.closing = TRUE])
           failed == IF bad.tab.add.fails >= PollFailLimit
                     THEN [StopPoll(bad) EXCEPT !.tab.add.phase = "error"] ELSE bad
           then == CASE Ok(c) /\ c.ans.val.done = "added" -> added
                     [] Ok(c) /\ c.ans.val.done # "added" -> good
                     [] OTHER -> failed
<1>3. Keyed(Screens, good) /\ Keyed(Screens, bad)
  BY <1>1, AfterOK
<1>4. Keyed(Screens, added)
  <2> HIDE DEF good
  <2> QED BY <1>1, <1>3, CountsOK
<1>5. Keyed(Screens, failed)
  <2> HIDE DEF bad
  <2> QED BY <1>1, <1>3
<1>6. Keyed(Screens, then)
  <2> HIDE DEF good, added, failed
  <2> QED BY <1>3, <1>4, <1>5
<1>7. Become([then EXCEPT !.tab.add.polling = FALSE])
  BY <1>2
<1> HIDE DEF then
<1> QED BY <1>1, <1>6, <1>7, Becomes

LEMMA AddClosesKeeps == ASSUME IInv, AddCloses PROVE IInv'
<1>1. Keyed(Screens, [World EXCEPT !.tab.add.closing = FALSE, !.tab.add.open = FALSE])
  BY DEF IInv, Keyed, TabOK
<1> QED BY <1>1, StopPollOK, Becomes DEF AddCloses

-----------------------------------------------------------------------------
(* The keys. *)
LEMMA KeysMountOK ==
    ASSUME NEW N, NEW w, Keyed(N, w), NEW young
    PROVE  Keyed(Screens, KeysMount(w, young))
<1> DEFINE bare == [name |-> "keys", visit |-> w.page.visit, hooks |-> <<>>, loadError |-> FALSE,
                    formOpen |-> FALSE, editing |-> None, form |-> NewKeyForm("cn"),
                    submitting |-> FALSE, issued |-> None, format |-> "claude_settings",
                    address |-> <<"origin">>, ipsFor |-> None, ips |-> None, ipsLoading |-> FALSE,
                    confirming |-> None, confirmed |-> {}]
<1>1. PageOK(Screens, bare)
  BY DEF PageOK, Screens, Pages
<1>2. KeysMount(w, young) = UseCached([w EXCEPT !.page = bare], "keys", "keys", FALSE)
  BY DEF KeysMount
<1> HIDE DEF bare
<1>3. Keyed(Screens, [w EXCEPT !.page = bare])
  BY <1>1, SetPage
<1> QED BY <1>2, <1>3, Uses

LEMMA KeysLoadedOK ==
    ASSUME NEW N, NEW w, Keyed(N, w), NEW c
    PROVE  Keyed(N, KeysLoaded(c, w))
BY DEF KeysLoaded, Keyed, PageOK

LEMMA KeysLandKeeps == ASSUME IInv, KeysLand PROVE IInv'
<1>1. CASE Submitted
  <2>1. ASSUME NEW c
        PROVE  Keyed(Screens, Shown(c, After(c), [page EXCEPT
                    !.submitting = FALSE, !.formOpen = @ /\ ~Ok(c),
                    !.issued = IF Ok(c) /\ c.op = "keyCreate" THEN c.ans.val.plaintext ELSE @]))
    BY IInvParts, AfterOK, Shows DEF PageOK
  <2> QED BY <1>1, <2>1, Reloads, Becomes DEF Submitted
<1>2. CASE KeyChanged
  <2>1. ASSUME NEW c, NEW it
        PROVE  Keyed(Screens, Shown(c, After(c), [page EXCEPT !.confirmed = @ \ {it},
                                                !.confirming = IF @ = it THEN None ELSE @]))
    BY IInvParts, AfterOK, Shows DEF PageOK
  <2> QED BY <1>2, <2>1, Reloads, Becomes DEF KeyChanged
<1>3. CASE IpsLand
  <2>1. ASSUME NEW x
        PROVE  /\ PageOK(Screens, [page EXCEPT !.ips = x, !.ipsLoading = FALSE])
               /\ PageOK(Screens, [page EXCEPT !.ipsFor = x, !.ipsLoading = FALSE])
    BY IInvParts DEF PageOK
  <2> QED BY <1>3, <2>1, AfterOK, Shows, Becomes DEF IpsLand
<1> QED BY <1>1, <1>2, <1>3 DEF KeysLand

LEMMA KeysClickKeeps == ASSUME IInv, KeysClick PROVE IInv'
<1>1. CASE OpenCreate
  BY <1>1, ClickedOK, Becomes DEF OpenCreate, Keyed, PageOK
<1>2. CASE RetryKeys
  <2>1. Keyed(Screens, [Clicked EXCEPT !.page.loadError = FALSE])
    BY ClickedOK DEF Keyed, PageOK
  <2> QED BY <1>2, <2>1, RefreshOK, Becomes DEF RetryKeys
<1>3. ASSUME NEW k, OpenEdit(k) PROVE IInv'
  <2>1. ASSUME NEW x
        PROVE  Keyed(Screens, [Clicked EXCEPT !.page.formOpen = TRUE, !.page.editing = k,
                                              !.page.form = x])
    BY ClickedOK DEF Keyed, PageOK
  <2> QED BY <1>3, <2>1, Becomes DEF OpenEdit
<1>4. ASSUME NEW k, OpenIps(k) \/ Toggle(k) PROVE IInv'
  <2>1. Keyed(Screens, [Clicked EXCEPT !.page.ipsFor = k, !.page.ips = None,
                                       !.page.ipsLoading = TRUE])
    BY ClickedOK DEF Keyed, PageOK
  <2> QED BY <1>4, <2>1, ClickedOK, Calls, Becomes DEF OpenIps, Toggle
<1>5. ASSUME NEW k, NEW op, Confirm(k, op) PROVE IInv'
  <2>1. ASSUME NEW x, NEW y
        PROVE  Keyed(Screens, [Clicked EXCEPT !.page.confirming = x, !.page.confirmed = y])
    BY ClickedOK DEF Keyed, PageOK
  <2> QED BY <1>5, <2>1, Calls, Becomes DEF Confirm
<1>6. CASE Submit
  <2>1. ASSUME NEW f
        PROVE  /\ Keyed(Screens, [Clicked EXCEPT !.page.form = f])
               /\ Keyed(Screens, [[Clicked EXCEPT !.page.form = f] EXCEPT !.page.submitting = TRUE])
    BY ClickedOK DEF Keyed, PageOK
  <2>2. PICK name \in {"", "new"}, day \in {None, "", "later"}, number \in Typed :
          LET f == [page.form EXCEPT !.name = name, !.number = number,
                                     !.expiryMode = IF day = None THEN "never" ELSE "date",
                                     !.expiryDate = IF day = None THEN @ ELSE day]
              typed == [Clicked EXCEPT !.page.form = f]
          IN  Become(IF ~Sendable(f) THEN typed
                     ELSE Call([typed EXCEPT !.page.submitting = TRUE],
                               IF page.editing = None THEN "keyCreate" ELSE "keyUpdate",
                               <<page.editing, Payload(f)>>))
    BY <1>6, Zenon DEF Submit
  <2> DEFINE f == [page.form EXCEPT !.name = name, !.number = number,
                                    !.expiryMode = IF day = None THEN "never" ELSE "date",
                                    !.expiryDate = IF day = None THEN @ ELSE day]
         typed == [Clicked EXCEPT !.page.form = f]
         sent == [typed EXCEPT !.page.submitting = TRUE]
  <2>3. Keyed(Screens, typed) /\ Keyed(Screens, sent)
    BY <2>1
  <2>4. Become(IF ~Sendable(f) THEN typed
               ELSE Call(sent, IF page.editing = None THEN "keyCreate" ELSE "keyUpdate",
                         <<page.editing, Payload(f)>>))
    BY <2>2
  <2> HIDE DEF f, typed, sent
  <2> QED BY <2>3, <2>4, Calls, Becomes
<1>7. ASSUME NEW x
      PROVE  /\ Keyed(Screens, [Clicked EXCEPT !.page.format = x])
             /\ Keyed(Screens, [Clicked EXCEPT !.page.address = x])
             /\ Keyed(Screens, [Clicked EXCEPT !.page.issued = x])
             /\ Keyed(Screens, [Clicked EXCEPT !.page.formOpen = x])
             /\ Keyed(Screens, [Clicked EXCEPT !.page.ipsFor = x])
             /\ Keyed(Screens, [Clicked EXCEPT !.page.confirming = x])
  BY ClickedOK DEF Keyed, PageOK
<1>8. CASE IssuedClick
  BY <1>7, <1>8, Becomes DEF IssuedClick
<1>9. ASSUME \/ Become([Clicked EXCEPT !.page.formOpen = FALSE])
             \/ Become([Clicked EXCEPT !.page.ipsFor = None])
             \/ Become([Clicked EXCEPT !.page.confirming = None])
      PROVE  IInv'
  BY <1>7, <1>9, Becomes
<1> QED BY <1>1, <1>2, <1>3, <1>4, <1>5, <1>6, <1>8, <1>9 DEF KeysClick

-----------------------------------------------------------------------------
(* The tasks and the compensation. *)
LEMMA LoadTasksOK ==
    ASSUME NEW N, NEW w, Keyed(N, w)
    PROVE  /\ Keyed(N, LoadTasks(w)) /\ Keyed(N, LoadRecords(w))
           /\ \A visit, then : Keyed(N, LoadQueue(w, visit, then))
<1>1. ASSUME NEW v, Keyed(N, v), NEW visit, NEW then
      PROVE  Keyed(N, LoadQueue(v, visit, then))
  BY <1>1, Called DEF LoadQueue
<1>2. ASSUME NEW v, Keyed(N, v)
      PROVE  Keyed(N, LoadRecords(v))
  <2>1. Keyed(N, [v EXCEPT !.page.unavailable = FALSE])
    BY <1>2 DEF Keyed, PageOK
  <2> QED BY <2>1, RefreshOK DEF LoadRecords
<1> QED BY <1>1, <1>2, RefreshOK DEF LoadTasks

LEMMA TasksMountOK ==
    ASSUME NEW N, NEW w, Keyed(N, w), NEW young
    PROVE  Keyed(Screens, TasksMount(w, young))
<1> DEFINE bare == [name |-> "tasks", visit |-> w.page.visit, hooks |-> <<>>,
                    selected |-> "all", epoch |-> 0, detail |-> <<>>, detailBusy |-> FALSE,
                    queue |-> None, queueBusy |-> FALSE, cancelBusy |-> FALSE, asking |-> None,
                    autoAll |-> None, recordsUid |-> "all", unavailable |-> FALSE,
                    polling |-> FALSE, hours |-> None, comp |-> None]
           scan == UseCached([w EXCEPT !.page = bare], "scan", "tasks:scan", young)
           records == UseCached(scan, "records", RecordsKey("all"), young)
           overview == UseCached(records, "overview", "overview", young)
<1>1. PageOK(Screens, bare)
  BY DEF PageOK, Screens, Pages
<1>2. TasksMount(w, young) = UseCached(LoadTasks(overview), "config", "settings:config", young)
  BY DEF TasksMount
<1>3. Keyed(Screens, overview)
  <2> HIDE DEF bare
  <2> QED BY <1>1, SetPage, Uses
<1> HIDE DEF overview
<1> QED BY <1>2, <1>3, LoadTasksOK, Uses

LEMMA TasksBeatOK ==
    ASSUME NEW N, NEW w, Keyed(N, w)
    PROVE  Keyed(N, TasksBeat(w))
<1>1. Keyed(N, [w EXCEPT !.page.polling = TRUE])
  BY DEF Keyed, PageOK
<1> QED BY <1>1, LoadTasksOK DEF TasksBeat

LEMMA TasksLoadedOK ==
    ASSUME NEW N, NEW w, Keyed(N, w), NEW c
    PROVE  Keyed(N, TasksLoaded(c, w))
BY DEF TasksLoaded, Keyed, PageOK

LEMMA TasksLandKeeps == ASSUME IInv, TasksLand PROVE IInv'
<1>1. CASE QueueLands
  <2>1. ASSUME NEW c, NEW q, NEW tag
        PROVE  /\ PageOK(Screens, [page EXCEPT !.queue = q])
               /\ \A p : PageOK(Screens, p) =>
                    PageOK(Screens, [p EXCEPT !.polling = IF tag = "poll" THEN FALSE ELSE @,
                                      !.queueBusy = IF tag = "start" THEN FALSE ELSE @,
                                      !.cancelBusy = IF tag = "cancel" THEN FALSE ELSE @,
                                      !.asking = IF @ = tag THEN None ELSE @])
    <3>1. PageOK(Screens, [page EXCEPT !.queue = q])
      BY IInvParts DEF PageOK
    <3>2. ASSUME NEW p, PageOK(Screens, p)
          PROVE  PageOK(Screens, [p EXCEPT !.polling = IF tag = "poll" THEN FALSE ELSE @,
                                      !.queueBusy = IF tag = "start" THEN FALSE ELSE @,
                                      !.cancelBusy = IF tag = "cancel" THEN FALSE ELSE @,
                                      !.asking = IF @ = tag THEN None ELSE @])
      BY <3>2 DEF PageOK
    <3> QED BY <3>1, <3>2
  <2>2. PICK c \in Answered("queue") :
            LET shown == IF Ok(c) THEN [page EXCEPT !.queue = c.ans.val.queue] ELSE page
                tag == IF c.then = None THEN None ELSE c.then[1]
            IN  Become(Shown(c, After(c),
                    [shown EXCEPT !.polling = IF tag = "poll" THEN FALSE ELSE @,
                                  !.queueBusy = IF tag = "start" THEN FALSE ELSE @,
                                  !.cancelBusy = IF tag = "cancel" THEN FALSE ELSE @,
                                  !.asking = IF @ = tag THEN None ELSE @]))
    BY <1>1 DEF QueueLands
  <2> DEFINE shown == IF Ok(c) THEN [page EXCEPT !.queue = c.ans.val.queue] ELSE page
             tag == IF c.then = None THEN None ELSE c.then[1]
             p == [shown EXCEPT !.polling = IF tag = "poll" THEN FALSE ELSE @,
                                !.queueBusy = IF tag = "start" THEN FALSE ELSE @,
                                !.cancelBusy = IF tag = "cancel" THEN FALSE ELSE @,
                                !.asking = IF @ = tag THEN None ELSE @]
  <2>3. PageOK(Screens, shown)
    BY <2>1, IInvParts
  <2>4. PageOK(Screens, p)
    <3> HIDE DEF shown, tag
    <3> QED BY <2>1, <2>3
  <2>5. Become(Shown(c, After(c), p))
    BY <2>2
  <2> HIDE DEF p
  <2> QED BY <2>4, <2>5, AfterOK, Shows, Becomes
<1>2. CASE DetailLands
  <2>1. ASSUME NEW x PROVE PageOK(Screens, [page EXCEPT !.detailBusy = FALSE, !.detail = x])
    BY IInvParts DEF PageOK
  <2> QED BY <1>2, <2>1, IInvParts, AfterOK, Shows, Becomes DEF DetailLands
<1>3. CASE TaskDone
  BY <1>3, AfterOK, Called, Reloads, Becomes DEF TaskDone
<1>4. CASE Redetailed
  <2>1. ASSUME NEW x PROVE PageOK(Screens, [page EXCEPT !.detail = x])
    BY IInvParts DEF PageOK
  <2> QED BY <1>4, <2>1, AfterOK, Shows, Reloads, Becomes DEF Redetailed
<1>5. CASE QueueAsked
  <2>1. ASSUME NEW tag
        PROVE  PageOK(Screens, [page EXCEPT !.queueBusy = IF tag = "start" THEN FALSE ELSE @,
                                            !.cancelBusy = IF tag = "cancel" THEN FALSE ELSE @,
                                            !.asking = IF @ = tag THEN None ELSE @])
    BY IInvParts DEF PageOK
  <2> QED BY <1>5, <2>1, AfterOK, Shows, LoadTasksOK, Becomes DEF QueueAsked
<1>6. CASE AutoAllDone
  <2>1. PageOK(Screens, [page EXCEPT !.autoAll = None])
    BY IInvParts DEF PageOK
  <2> QED BY <1>6, <2>1, AfterOK, Shows, Reloads, LoadTasksOK, Becomes DEF AutoAllDone
<1> QED BY <1>1, <1>2, <1>3, <1>4, <1>5, <1>6 DEF TasksLand

LEMMA SelectOK ==
    ASSUME NEW N, NEW w, Keyed(N, w), NEW u
    PROVE  Keyed(N, Select(w, u))
<1> DEFINE at == [w EXCEPT !.page.selected = u, !.page.epoch = tab.clicks]
<1>1. Keyed(N, at)
  BY DEF Keyed, PageOK
<1>2. Select(w, u) = IF u = "all" THEN [at EXCEPT !.page.detail = <<>>]
                     ELSE Call([at EXCEPT !.page.detailBusy = TRUE], "detail", <<u, at.page.epoch>>)
  BY DEF Select
<1> HIDE DEF at
<1>3. Keyed(N, [at EXCEPT !.page.detail = <<>>]) /\ Keyed(N, [at EXCEPT !.page.detailBusy = TRUE])
  BY <1>1 DEF Keyed, PageOK
<1> QED BY <1>2, <1>3, Calls

LEMMA TasksClickKeeps == ASSUME IInv, TasksClick PROVE IInv'
<1>1. ASSUME NEW x
      PROVE  /\ Keyed(Screens, [Clicked EXCEPT !.page.queueBusy = TRUE, !.page.asking = x])
             /\ Keyed(Screens, [Clicked EXCEPT !.page.cancelBusy = TRUE, !.page.asking = x])
             /\ Keyed(Screens, [Clicked EXCEPT !.page.autoAll = x])
             /\ Keyed(Screens, [Clicked EXCEPT !.page.asking = x])
             /\ Keyed(Screens, [Clicked EXCEPT !.page.recordsUid = x, !.page.unavailable = FALSE])
  BY ClickedOK, ZenonT(60) DEF Keyed, PageOK
<1>2. CASE StartQueue \/ CancelQueue
  BY <1>1, <1>2, Calls, Becomes DEF StartQueue, CancelQueue
<1>3. ASSUME NEW u, AutoAll(u) PROVE IInv'
  BY <1>1, <1>3, Calls, Becomes DEF AutoAll
<1>4. ASSUME NEW u, NEW op, OnTask(u, op) PROVE IInv'
  BY <1>4, ClickedOK, Calls, Becomes, SMTT(40) DEF OnTask
<1>5. ASSUME NEW u, PickRecords(u) PROVE IInv'
  BY <1>1, <1>5, Rekeys, LoadTasksOK, Becomes DEF PickRecords
<1>6. ASSUME NEW u, Become(Select(Clicked, u)) PROVE IInv'
  BY <1>6, ClickedOK, SelectOK, Becomes
<1>7. ASSUME Become(Refresh(Clicked, "scan")) \/ Become(LoadRecords(Clicked)) PROVE IInv'
  BY <1>7, ClickedOK, RefreshOK, LoadTasksOK, Becomes, SMTT(40)
<1>8. ASSUME Become([Clicked EXCEPT !.page.asking = None]) PROVE IInv'
  BY <1>1, <1>8, Becomes
<1> QED BY <1>2, <1>3, <1>4, <1>5, <1>6, <1>7, <1>8 DEF TasksClick

LEMMA CompOff ==
    ASSUME NEW w, Keyed(Screens, w), NEW c
    PROVE  Keyed(Screens, Shown(c, w, [w.page EXCEPT !.comp = None]))
<1>1. PageOK(Screens, [w.page EXCEPT !.comp = None])
  BY DEF Keyed, PageOK
<1> QED BY <1>1, Shows

LEMMA CompKeeps == ASSUME IInv, CompLand \/ CompClick PROVE IInv'
<1>1. PageOK(Screens, [page EXCEPT !.hours = None]) /\ PageOK(Screens, [page EXCEPT !.comp = None])
  BY IInvParts DEF PageOK
<1>2. CASE CompSaved
  BY <1>1, <1>2, AfterOK, Shows, Reloads, CompOff, Becomes DEF CompSaved
<1>3. CASE CompRan
  BY <1>1, <1>3, AfterOK, Shows, Becomes DEF CompRan
<1>4. ASSUME NEW x
      PROVE  /\ Keyed(Screens, [Clicked EXCEPT !.page.comp = x])
             /\ Keyed(Screens, [Clicked EXCEPT !.page.hours = x])
  BY ClickedOK DEF Keyed, PageOK
<1>5. ASSUME NEW field, NEW value, NEW kind, SaveComp(field, value, kind) PROVE IInv'
  BY <1>4, <1>5, Calls, Becomes DEF SaveComp
<1>6. CASE CompClick
  BY <1>4, <1>5, <1>6, Calls, Becomes DEF CompClick
<1> QED BY <1>2, <1>3, <1>6 DEF CompLand

LEMMA CompThenOK ==
    ASSUME NEW w, Keyed(Screens, w), NEW c
    PROVE  Keyed(Screens, CompThen(c, w))
BY CompOff DEF CompThen

-----------------------------------------------------------------------------
(* The settings. *)
LEMMA LoadModelsOK ==
    ASSUME NEW N, NEW w, Keyed(N, w), NEW visit, NEW reload, NEW then
    PROVE  Keyed(N, LoadModels(w, visit, reload, then))
<1>1. ASSUME NEW x PROVE Keyed(N, [w EXCEPT !.page.models = x])
  BY DEF Keyed, PageOK
<1> QED BY <1>1, Called DEF LoadModels

LEMMA AppliedOK ==
    ASSUME NEW N, NEW p, PageOK(N, p), NEW config, NEW seen
    PROVE  PageOK(N, ApplyConfig(p, config, seen))
<1>1. ASSUME NEW a, NEW b, NEW d, NEW e, NEW u
      PROVE  PageOK(N, [p EXCEPT !.cfg = config, !.original = a, !.raw = None, !.form = b,
                                 !.upstash = d, !.upstashUrl = u])
  BY DEF PageOK
<1> QED BY <1>1 DEF ApplyConfig

LEMMA ReleasedOK ==
    ASSUME NEW N, NEW p, PageOK(N, p), NEW then
    PROVE  PageOK(N, Release(p, then))
BY DEF PageOK, Release

LEMMA LoadedOK ==
    ASSUME NEW N, NEW w, Keyed(N, w), NEW got, NEW then
    PROVE  Keyed(N, Loaded(w, got, then))
<1> DEFINE applied == IF got.config = None THEN w.page
                      ELSE ApplyConfig(w.page, got.config.val.config, EmptyForm(Groups))
           q == [applied EXCEPT !.modelMap = IF got.map = None THEN @ ELSE got.map.val.map,
                                !.update = IF got.update = None THEN @ ELSE got.update.val.latest]
<1>1. PageOK(N, applied)
  BY AppliedOK DEF Keyed
<1>2. PageOK(N, q)
  <2> HIDE DEF applied
  <2> QED BY <1>1 DEF PageOK
<1>3. Loaded(w, got, then) = [w EXCEPT !.page = Release(q, then)]
  BY DEF Loaded
<1> HIDE DEF q
<1> QED BY <1>2, <1>3, ReleasedOK, SetPage

LEMMA LoadSettingsOK ==
    ASSUME NEW N, NEW w, Keyed(N, w), NEW then
    PROVE  Keyed(N, LoadSettings(w, then))
<1> DEFINE sent == {h \in Sources : Idle(w, h)}
           id == CHOOSE i \in 0..Cardinality(DOMAIN w.page.loads) : i \notin DOMAIN w.page.loads
           at == [w EXCEPT !.page.loads =
                     With(@, id, [left |-> Cardinality(sent), got |-> Nothing, then |-> then])]
           ask(v, h) == IF h \in sent THEN RefreshThen(v, h, <<"settings", id>>) ELSE v
<1>1. LoadSettings(w, then) = IF sent = {} THEN Loaded(w, Nothing, then)
                              ELSE ask(ask(ask(at, "config"), "map"), "update")
  BY DEF LoadSettings
<1>2. Keyed(N, at)
  <2> HIDE DEF sent, id
  <2> QED BY DEF Keyed, PageOK
<1>3. ASSUME NEW v, Keyed(N, v), NEW h PROVE Keyed(N, ask(v, h))
  <2> HIDE DEF sent, id
  <2> QED BY <1>3, Refreshes
<1> HIDE DEF at, ask, sent
<1>4. Keyed(N, ask(ask(ask(at, "config"), "map"), "update"))
  BY <1>2, <1>3
<1> QED BY <1>1, <1>4, LoadedOK

LEMMA ShowsHooks ==
    ASSUME NEW N, NEW w, Keyed(N, w)
    PROVE  /\ Keyed(N, ShowConfig(w)) /\ Keyed(N, ShowMap(w)) /\ Keyed(N, ShowUpdate(w))
           /\ Keyed(N, ShowHooks(w))
<1>1. ASSUME NEW v, Keyed(N, v) PROVE Keyed(N, ShowConfig(v))
  BY <1>1, AppliedOK, SetPage DEF ShowConfig, Keyed
<1>2. ASSUME NEW v, Keyed(N, v) PROVE Keyed(N, ShowMap(v)) /\ Keyed(N, ShowUpdate(v))
  BY <1>2 DEF ShowMap, ShowUpdate, Keyed, PageOK
<1> QED BY <1>1, <1>2 DEF ShowHooks

LEMMA SettingsMountOK ==
    ASSUME NEW N, NEW w, Keyed(N, w), NEW young, NEW slug
    PROVE  Keyed(Screens, SettingsMount(w, young, slug))
<1> DEFINE bare == [name |-> "settings", visit |-> w.page.visit, hooks |-> <<>>,
                 slug |-> TabFromSearch(slug), cfg |-> None, form |-> EmptyForm(Groups),
                 original |-> EmptyForm(Groups), advanced |-> FALSE, raw |-> None,
                 upstash |-> [url |-> "", token |-> ""], upstashUrl |-> "",
                 upstashBusy |-> FALSE, busy |-> FALSE, reloading |-> 0, loads |-> <<>>,
                 modelMap |-> <<>>, models |-> {}, update |-> None, updateBusy |-> FALSE,
                 toast |-> None, tokens |-> None]
           use(v, h) == UseCached(v, h, SettingsKey[h], young)
           at == use(use(use([w EXCEPT !.page = bare], "config"), "map"), "update")
<1>1. PageOK(Screens, bare)
  BY DEF PageOK, Screens, Pages
<1>2. SettingsMount(w, young, slug) =
        LoadModels(LoadSettings(ShowHooks(at), None), w.page.visit, FALSE, None)
  BY DEF SettingsMount
<1>3. Keyed(Screens, at)
  <2> HIDE DEF bare
  <2> QED BY <1>1, SetPage, Uses
<1> HIDE DEF at
<1> QED BY <1>2, <1>3, ShowsHooks, LoadSettingsOK, LoadModelsOK

LEMMA SettingsRealmOK ==
    ASSUME NEW N, NEW w, Keyed(N, w)
    PROVE  Keyed(N, SettingsRealm(w))
BY LoadSettingsOK, LoadModelsOK DEF SettingsRealm

LEMMA SettingsLoadedOK ==
    ASSUME NEW N, NEW w, Keyed(N, w), NEW c
    PROVE  Keyed(N, SettingsLoaded(c, w))
<1> DEFINE h == c.arg[1]
           shown == IF ~Ok(c) THEN w
                    ELSE CASE h = "config" -> ShowConfig(w)
                           [] h = "map" -> ShowMap(w)
                           [] OTHER -> ShowUpdate(w)
           id == c.then[2]
           load == [w.page.loads[id] EXCEPT !.left = @ - 1,
                                            !.got[h] = IF Ok(c) THEN Data(c) ELSE None]
<1>1. SettingsLoaded(c, w) =
          IF ~Mounted(c) THEN w
          ELSE IF c.then = None THEN shown
          ELSE IF load.left > 0 THEN [shown EXCEPT !.page.loads[id] = load]
          ELSE Loaded([shown EXCEPT !.page.loads = Without(@, id)], load.got, load.then)
  BY DEF SettingsLoaded
<1>2. Keyed(N, shown)
  BY ShowsHooks
<1> HIDE DEF shown, load, id
<1>3. /\ Keyed(N, [shown EXCEPT !.page.loads[id] = load])
      /\ Keyed(N, [shown EXCEPT !.page.loads = Without(@, id)])
  BY <1>2 DEF Keyed, PageOK
<1> QED BY <1>1, <1>2, <1>3, LoadedOK

LEMMA LoadAgainOK ==
    ASSUME NEW N, NEW w, Keyed(N, w), NEW c, NEW then
    PROVE  Keyed(N, LoadAgain(c, w, then))
BY LoadSettingsOK, Reloads DEF LoadAgain

LEMMA SettingsLandKeeps == ASSUME IInv, SettingsLand PROVE IInv'
<1>1. CASE UpstashTested
  <2>1. PageOK(Screens, [page EXCEPT !.upstashBusy = FALSE])
    BY IInvParts DEF PageOK
  <2> QED BY <1>1, <2>1, AfterOK, Shows, Becomes DEF UpstashTested
<1>2. CASE ConfigSaved
  <2>1. PICK c, restart :
            LET kind == c.arg[2]
                said == [page EXCEPT !.toast = IF restart THEN "restart" ELSE "saved",
                                     !.upstash.token = IF kind = "upstash" THEN "" ELSE @]
                failed == [Release(page, kind) EXCEPT !.toast = "failed"]
            IN  Become(IF Ok(c) THEN LoadAgain(c, Shown(c, After(c), said), kind)
                       ELSE Shown(c, After(c), failed))
    BY <1>2 DEF ConfigSaved
  <2> DEFINE kind == c.arg[2]
             said == [page EXCEPT !.toast = IF restart THEN "restart" ELSE "saved",
                                  !.upstash.token = IF kind = "upstash" THEN "" ELSE @]
             failed == [Release(page, kind) EXCEPT !.toast = "failed"]
  <2>2. PageOK(Screens, said)
    BY IInvParts DEF PageOK
  <2>3. PageOK(Screens, Release(page, kind))
    BY IInvParts, ReleasedOK
  <2>4. PageOK(Screens, failed)
    <3> HIDE DEF kind
    <3> QED BY <2>3 DEF PageOK
  <2>5. Become(IF Ok(c) THEN LoadAgain(c, Shown(c, After(c), said), kind)
               ELSE Shown(c, After(c), failed))
    BY <2>1
  <2> HIDE DEF kind, said, failed
  <2> QED BY <2>2, <2>4, <2>5, AfterOK, Shows, LoadAgainOK, Becomes
<1>3. CASE ModelMapSaved
  <2>1. PICK c \in Answered("saveMap") :
            Become(IF Ok(c)
              THEN Shown(c, [After(c) EXCEPT !.tab = PutCache(@, c.arg[2], Data(c))],
                         [page EXCEPT !.modelMap = c.ans.val.map])
              ELSE After(c))
    BY <1>3 DEF ModelMapSaved
  <2>2. Data(c).key = c.arg[2]
    BY DEF Data
  <2>3. TabOK(PutCache(tab, c.arg[2], Data(c)))
    BY <2>2, IInvParts, Cached
  <2>4. Keyed(Screens, [After(c) EXCEPT !.tab = PutCache(@, c.arg[2], Data(c))])
    BY <2>3, AfterOK, SetTab
  <2>5. PageOK(Screens, [page EXCEPT !.modelMap = c.ans.val.map])
    BY IInvParts DEF PageOK
  <2> QED BY <2>1, <2>4, <2>5, AfterOK, Shows, Becomes
<1>4. CASE ModelNamesLand
  <2>1. ASSUME NEW x, NEW then PROVE PageOK(Screens, Release([page EXCEPT !.models = x], then))
    <3>1. PageOK(Screens, [page EXCEPT !.models = x])
      BY IInvParts DEF PageOK
    <3> QED BY <3>1, ReleasedOK
  <2> QED BY <1>4, <2>1, AfterOK, Shows, Becomes DEF ModelNamesLand
<1>5. CASE Rechecked
  <2>1. ASSUME NEW c
        PROVE  PageOK(Screens, [page EXCEPT !.updateBusy = FALSE,
                                            !.update = IF Ok(c) THEN c.ans.val.latest ELSE @])
    BY IInvParts DEF PageOK
  <2> QED BY <1>5, <2>1, AfterOK, Shows, Becomes DEF Rechecked
<1> QED BY <1>1, <1>2, <1>3, <1>4, <1>5 DEF SettingsLand

LEMMA SettingsClickKeeps == ASSUME IInv, SettingsClick PROVE IInv'
<1>1. ASSUME NEW x, NEW y, NEW z
      PROVE  /\ Keyed(Screens, [Clicked EXCEPT !.page.form[x] = z])
             /\ Keyed(Screens, [Clicked EXCEPT !.page.form[x][y] = z])
             /\ Keyed(Screens, [Clicked EXCEPT !.page.busy = TRUE])
             /\ Keyed(Screens, [Clicked EXCEPT !.page.toast = z])
             /\ Keyed(Screens, [Clicked EXCEPT !.page.raw = z])
             /\ Keyed(Screens, [Clicked EXCEPT !.page.upstash.url = z])
             /\ Keyed(Screens, [Clicked EXCEPT !.page.upstash.token = z])
             /\ Keyed(Screens, [Clicked EXCEPT !.page.upstashBusy = TRUE])
             /\ Keyed(Screens, [Clicked EXCEPT !.page.updateBusy = TRUE])
             /\ Keyed(Screens, [Clicked EXCEPT !.page.busy = TRUE, !.page.reloading = z])
  BY ClickedOK DEF Keyed, PageOK
<1>2. CASE SetField \/ EditRaw \/ EditUpstash
  BY <1>1, <1>2, Becomes DEF SetField, EditRaw, EditUpstash
<1>3. CASE SaveJson
  BY <1>1, <1>3, Calls, Becomes DEF SaveJson
<1>4. ASSUME NEW g, ResetGroup(g) \/ SaveGroup(g) PROVE IInv'
  BY <1>1, <1>4, Calls, Becomes DEF ResetGroup, SaveGroup
<1>5. CASE TestUpstash \/ SaveUpstash
  BY <1>1, <1>5, Calls, Becomes DEF TestUpstash, SaveUpstash
<1>6. CASE SaveModelMap
  BY <1>6, ClickedOK, Calls, Becomes DEF SaveModelMap
<1>7. CASE Recheck
  BY <1>1, <1>7, Calls, Becomes DEF Recheck
<1>8. CASE ReloadAll
  BY <1>1, <1>8, LoadSettingsOK, LoadModelsOK, Becomes DEF ReloadAll
<1> QED BY <1>2, <1>3, <1>4, <1>5, <1>6, <1>7, <1>8 DEF SettingsClick

-----------------------------------------------------------------------------
(* The tokens. *)
LEMMA TokensField ==
    ASSUME NEW N, NEW w, Keyed(N, w), NEW f, NEW v
    PROVE  /\ Keyed(N, [w EXCEPT !.page.tokens = v])
           /\ Keyed(N, [w EXCEPT !.page.tokens[f] = v])
BY DEF Keyed, PageOK

LEMMA LoadTokensOK ==
    ASSUME NEW N, NEW w, Keyed(N, w), NEW visit, NEW inst, NEW then
    PROVE  Keyed(N, LoadTokens(w, visit, inst, then))
BY TokensField, Called DEF LoadTokens

LEMMA TokensMountOK ==
    ASSUME NEW N, NEW w, Keyed(N, w)
    PROVE  Keyed(N, TokensMount(w)) /\ Keyed(N, TokensTab(w))
BY TokensField, LoadTokensOK DEF TokensMount, TokensTab

LEMMA TabShowsOK ==
    ASSUME NEW N, NEW w, Keyed(N, w), NEW c, NEW new
    PROVE  Keyed(N, TabShows(c, w, new))
BY TokensField DEF TabShows

LEMMA TokensLandsKeep == ASSUME IInv, TokensLands PROVE IInv'
<1>1. CASE TokensLand
  BY <1>1, AfterOK, TabShowsOK, Becomes DEF TokensLand
<1>2. CASE TokenCreated
  BY <1>2, AfterOK, TabShowsOK, LoadTokensOK, Becomes DEF TokenCreated
<1>3. CASE TokenChanged
  BY <1>3, AfterOK, TabShowsOK, LoadTokensOK, Becomes DEF TokenChanged
<1> QED BY <1>1, <1>2, <1>3 DEF TokensLands

LEMMA SwitchTabKeeps == ASSUME IInv, SwitchTab PROVE IInv'
<1>1. ASSUME NEW x
      PROVE  Keyed(Screens, [Clicked EXCEPT !.page.slug = x, !.tab.slug = x, !.page.tokens = None])
  BY ClickedOK DEF Keyed, PageOK, TabOK
<1> QED BY <1>1, TokensMountOK, Becomes DEF SwitchTab

LEMMA TokensClickKeeps == ASSUME IInv, TokensClick PROVE IInv'
<1>1. CASE CreateToken
  <2>1. ASSUME NEW x
        PROVE  Keyed(Screens, [Clicked EXCEPT !.page.tokens.name = "new", !.page.tokens.scope = x,
                                              !.page.tokens.busy = TRUE])
    BY ClickedOK DEF Keyed, PageOK
  <2> QED BY <1>1, <2>1, Calls, Becomes DEF CreateToken
<1>2. ASSUME NEW i, ToggleToken(i) \/ RemoveToken(i) PROVE IInv'
  BY <1>2, ClickedOK, TokensField, Calls, Becomes DEF ToggleToken, RemoveToken
<1>3. ASSUME NEW f, NEW v, Become([Clicked EXCEPT !.page.tokens[f] = v]) PROVE IInv'
  BY <1>3, ClickedOK, TokensField, Becomes
<1>4. ASSUME NEW inst, Become(LoadTokens(Clicked, page.visit, inst, None)) PROVE IInv'
  BY <1>4, ClickedOK, LoadTokensOK, Becomes
<1> QED BY <1>1, <1>2, <1>3, <1>4 DEF TokensClick

-----------------------------------------------------------------------------
(* The playground. *)
LEMMA AbortOK ==
    ASSUME NEW N, NEW w, Keyed(N, w)
    PROVE  Keyed(N, Abort(w)) /\ Keyed(N, Left(w))
<1>1. ASSUME NEW x, NEW y PROVE Keyed(N, [w EXCEPT !.page.aborted = x, !.calls = y])
  BY DEF Keyed, PageOK
<1> QED BY <1>1, SetCalls DEF Abort, Left

LEMMA PlayModelsOK ==
    ASSUME NEW N, NEW w, Keyed(N, w)
    PROVE  Keyed(N, PlayModels(w))
BY Calls DEF PlayModels

LEMMA PlaygroundMountOK ==
    ASSUME NEW N, NEW w, Keyed(N, w)
    PROVE  Keyed(Screens, PlaygroundMount(w))
<1> DEFINE bare == [name |-> "playground", visit |-> w.page.visit, hooks |-> <<>>, models |-> <<>>,
                    model |-> None, effort |-> None, msgs |-> <<>>, streaming |-> FALSE,
                    aborted |-> FALSE, spent |-> 0, hasCredit |-> FALSE, protocol |-> "chat",
                    crashed |-> FALSE]
<1>1. PageOK(Screens, bare)
  BY DEF PageOK, Screens, Pages
<1>2. PlaygroundMount(w) = PlayModels([w EXCEPT !.page = bare])
  BY DEF PlaygroundMount
<1> HIDE DEF bare
<1>3. Keyed(Screens, [w EXCEPT !.page = bare])
  BY <1>1, SetPage
<1> QED BY <1>2, <1>3, PlayModelsOK

LEMMA PlayedOK ==
    ASSUME NEW N, NEW p, PageOK(N, p), NEW got
    PROVE  /\ PageOK(N, Stopped(p)) /\ PageOK(N, Failed(p))
           /\ PageOK(N, Showing(p, got)) /\ PageOK(N, Answer(p, got))
<1>1. ASSUME NEW q, PageOK(N, q), NEW m PROVE PageOK(N, Replace(q, m))
  BY <1>1 DEF Replace, PageOK
<1>2. ASSUME NEW q, PageOK(N, q) PROVE PageOK(N, Finish(q))
  BY <1>2 DEF Finish, PageOK
<1>3. PageOK(N, [p EXCEPT !.crashed = TRUE])
  BY DEF PageOK
<1>4. ASSUME NEW q, PageOK(N, q), NEW x
      PROVE  PageOK(N, [q EXCEPT !.spent = x, !.hasCredit = TRUE])
  BY <1>4 DEF PageOK
<1>5. PageOK(N, Stopped(p)) /\ PageOK(N, Failed(p)) /\ PageOK(N, Showing(p, got))
  BY <1>1, <1>2, <1>3 DEF Stopped, Failed, Showing
<1>6. PageOK(N, Answer(p, got))
  BY <1>1, <1>2, <1>4 DEF Answer
<1> QED BY <1>5, <1>6

LEMMA ReadOnOK ==
    ASSUME NEW N, NEW w, Keyed(N, w), NEW got
    PROVE  Keyed(N, ReadOn(w, got))
BY AbortOK, Called DEF ReadOn

LEMMA PlaygroundLandKeeps == ASSUME IInv, PlaygroundLand PROVE IInv'
<1>1. CASE PlayModelsLand
  <2>1. ASSUME NEW x, NEW y
        PROVE  PageOK(Screens, [page EXCEPT !.models = x, !.effort = None, !.model = y])
    BY IInvParts DEF PageOK
  <2> QED BY <1>1, <2>1, AfterOK, Shows, Becomes DEF PlayModelsLand
<1>2. CASE ChatLands
  BY <1>2, IInvParts, AfterOK, PlayedOK, ReadOnOK, Shows, Becomes DEF ChatLands
<1>3. CASE ReadLands
  <2>1. PICK c, got :
            LET w == After(c)
            IN  Become(CASE c.ans.is = "aborted" -> [w EXCEPT !.page = Stopped(page)]
                    [] c.ans.is = "fail" -> [w EXCEPT !.page = Failed(page)]
                    [] Ok(c) /\ c.ans.val.chunk = "end" -> [w EXCEPT !.page = Answer(page, c.arg)]
                    [] OTHER -> IF page.msgs = <<>> THEN [w EXCEPT !.page = Showing(page, got)]
                                ELSE ReadOn([w EXCEPT !.page = Showing(page, got)], got))
    BY <1>3 DEF ReadLands
  <2>2. /\ Keyed(Screens, [After(c) EXCEPT !.page = Stopped(page)])
        /\ Keyed(Screens, [After(c) EXCEPT !.page = Failed(page)])
        /\ Keyed(Screens, [After(c) EXCEPT !.page = Answer(page, c.arg)])
        /\ Keyed(Screens, [After(c) EXCEPT !.page = Showing(page, got)])
    BY IInvParts, AfterOK, PlayedOK, SetPage
  <2>3. Keyed(Screens, ReadOn([After(c) EXCEPT !.page = Showing(page, got)], got))
    BY <2>2, ReadOnOK
  <2> QED BY <2>1, <2>2, <2>3, Becomes
<1> QED BY <1>1, <1>2, <1>3 DEF PlaygroundLand

LEMMA Emptying ==
    ASSUME NEW N, NEW w, Keyed(N, w)
    PROVE  Keyed(N, [w EXCEPT !.page.msgs = <<>>, !.page.spent = 0, !.page.hasCredit = FALSE])
BY DEF Keyed, PageOK

LEMMA PlaygroundRealmOK ==
    ASSUME NEW N, NEW w, Keyed(N, w)
    PROVE  Keyed(N, PlaygroundRealm(w))
BY PlayModelsOK, AbortOK, Emptying DEF PlaygroundRealm

LEMMA PlaygroundClickKeeps == ASSUME IInv, PlaygroundClick PROVE IInv'
<1>1. CASE ClearChat
  BY <1>1, ClickedOK, Emptying, Becomes DEF ClearChat
<1>2. CASE Send
  <2>1. ASSUME NEW x PROVE Keyed(Screens, [Clicked EXCEPT !.page.msgs = x, !.page.streaming = TRUE])
    BY ClickedOK DEF Keyed, PageOK
  <2> QED BY <1>2, <2>1, Calls, Becomes DEF Send
<1>3. ASSUME NEW q, Become(SwitchProtocol(q)) PROVE IInv'
  <2>1. ASSUME NEW w, Keyed(Screens, w), NEW x
        PROVE  Keyed(Screens, [w EXCEPT !.page.protocol = q, !.page.hasCredit = FALSE,
                                        !.page.msgs = x])
    BY <2>1 DEF Keyed, PageOK
  <2>2. Keyed(Screens, Abort(Clicked))
    BY ClickedOK, AbortOK
  <2>3. Keyed(Screens, SwitchProtocol(q))
    BY <2>1, <2>2 DEF SwitchProtocol
  <2> QED BY <1>3, <2>3, Becomes
<1>4. ASSUME NEW m, PickModel(m) PROVE IInv'
  <2>1. ASSUME NEW x PROVE Keyed(Screens, [Clicked EXCEPT !.page.model = m, !.page.effort = x])
    BY ClickedOK DEF Keyed, PageOK
  <2> QED BY <1>4, <2>1, Becomes DEF PickModel
<1>5. CASE PickEffort
  <2>1. ASSUME NEW x PROVE Keyed(Screens, [Clicked EXCEPT !.page.effort = x])
    BY ClickedOK DEF Keyed, PageOK
  <2> QED BY <1>5, <2>1, Becomes DEF PickEffort
<1>6. CASE Fold
  <2>1. ASSUME NEW i, NEW x PROVE Keyed(Screens, [Clicked EXCEPT !.page.msgs[i].collapsed = x])
    BY ClickedOK DEF Keyed, PageOK
  <2> QED BY <1>6, <2>1, Becomes DEF Fold
<1>7. ASSUME Become(PlayModels(Clicked)) \/ Become(Abort(Clicked)) PROVE IInv'
  BY <1>7, ClickedOK, PlayModelsOK, AbortOK, Becomes
<1> QED BY <1>1, <1>2, <1>3, <1>4, <1>5, <1>6, <1>7 DEF PlaygroundClick

-----------------------------------------------------------------------------
(* The models. *)
LEMMA ModelsMountOK ==
    ASSUME NEW N, NEW w, Keyed(N, w), NEW young
    PROVE  Keyed(Screens, ModelsMount(w, young))
<1> DEFINE bare == [name |-> "models", visit |-> w.page.visit, hooks |-> <<>>, refreshing |-> FALSE,
                    error |-> FALSE, q |-> None, series |-> "all", cap |-> "all",
                    sort |-> "default"]
<1>1. PageOK(Screens, bare)
  BY DEF PageOK, Screens, Pages
<1>2. ModelsMount(w, young) =
        UseCached(UseCached([w EXCEPT !.page = bare], "models", ModelsKey(w.tab.realm), young),
                  "probes", "models:probes", young)
  BY DEF ModelsMount
<1> HIDE DEF bare
<1>3. Keyed(Screens, [w EXCEPT !.page = bare])
  BY <1>1, SetPage
<1> QED BY <1>2, <1>3, Uses

LEMMA ModelsRealmOK ==
    ASSUME NEW N, NEW w, Keyed(N, w), NEW young
    PROVE  Keyed(N, ModelsRealm(w, young))
<1>1. ASSUME NEW v, Keyed(N, v)
      PROVE  Keyed(N, [v EXCEPT !.page.q = None, !.page.series = "all", !.page.cap = "all"])
  BY <1>1 DEF Keyed, PageOK
<1> QED BY <1>1, Rekeys DEF ModelsRealm

LEMMA ProbeOK ==
    ASSUME NEW w, Keyed(Screens, w), NEW c, NEW k
    PROVE  Keyed(Screens, Probe(c, w, k))
<1>1. ASSUME NEW v, Keyed(Screens, v)
      PROVE  Keyed(Screens, Shown(c, v, [v.page EXCEPT !.refreshing = FALSE]))
  <2>1. PageOK(Screens, [v.page EXCEPT !.refreshing = FALSE])
    BY <1>1 DEF Keyed, PageOK
  <2> QED BY <1>1, <2>1, Shows
<1>2. Keyed(Screens, Reload(c, w, "probes", "models:probes", <<"probes", None>>))
  BY Reloads
<1> QED BY <1>1, <1>2 DEF Probe

LEMMA ModelsThenOK ==
    ASSUME NEW w, Keyed(Screens, w), NEW c
    PROVE  Keyed(Screens, ModelsThen(c, w))
<1>1. PageOK(Screens, [w.page EXCEPT !.refreshing = FALSE, !.error = FALSE])
  BY DEF Keyed, PageOK
<1> QED BY <1>1, Shows, ProbeOK DEF ModelsThen

LEMMA ModelsClickKeeps == ASSUME IInv, ModelsClick PROVE IInv'
<1>1. ASSUME NEW x
      PROVE  /\ Keyed(Screens, [Clicked EXCEPT !.page.refreshing = TRUE])
             /\ Keyed(Screens, [Clicked EXCEPT !.page.q = x])
             /\ Keyed(Screens, [Clicked EXCEPT !.page.series = x])
             /\ Keyed(Screens, [Clicked EXCEPT !.page.cap = x])
             /\ Keyed(Screens, [Clicked EXCEPT !.page.sort = IF @ = "credits" THEN "default" ELSE "credits"])
  BY ClickedOK DEF Keyed, PageOK
<1>2. CASE ReloadModels
  <2>1. ASSUME NEW self
        PROVE  /\ Keyed(Screens, RefreshThen([Clicked EXCEPT !.page.refreshing = TRUE], "models",
                                             <<"models", None>>))
               /\ Keyed(Screens, Probe(self, [Clicked EXCEPT !.page.refreshing = TRUE],
                                       "models:probes"))
    BY <1>1, Refreshes, ProbeOK
  <2> QED BY <1>2, <2>1, Becomes DEF ReloadModels
<1>3. ASSUME NEW x, \/ Become([Clicked EXCEPT !.page.q = x])
                    \/ Become([Clicked EXCEPT !.page.series = x])
                    \/ Become([Clicked EXCEPT !.page.cap = x])
      PROVE  IInv'
  BY <1>1, <1>3, Becomes
<1>4. ASSUME Become([Clicked EXCEPT !.page.sort = IF @ = "credits" THEN "default" ELSE "credits"])
      PROVE  IInv'
  BY <1>1, <1>4, Becomes
<1> QED BY <1>2, <1>3, <1>4 DEF ModelsClick

-----------------------------------------------------------------------------
(* The firewall. *)
LEMMA DraftedOK ==
    ASSUME NEW N, NEW w, Keyed(N, w)
    PROVE  Keyed(N, Drafted(w))
BY DEF Drafted, Keyed, PageOK

LEMMA SecurityMountOK ==
    ASSUME NEW N, NEW w, Keyed(N, w), NEW young
    PROVE  Keyed(Screens, SecurityMount(w, young))
<1> DEFINE bare == [name |-> "security", visit |-> w.page.visit, hooks |-> <<>>, loadError |-> FALSE,
                    draft |-> None, saving |-> FALSE, errs |-> FALSE]
<1>1. PageOK(Screens, bare)
  BY DEF PageOK, Screens, Pages
<1>2. SecurityMount(w, young) =
        Drafted(UseCached(UseCached([w EXCEPT !.page = bare], "security", "security", young),
                          "locks", "security-model-locks", young))
  BY DEF SecurityMount
<1> HIDE DEF bare
<1>3. Keyed(Screens, [w EXCEPT !.page = bare])
  BY <1>1, SetPage
<1> QED BY <1>2, <1>3, Uses, DraftedOK

LEMMA SecurityLoadedOK ==
    ASSUME NEW N, NEW w, Keyed(N, w), NEW c
    PROVE  Keyed(N, SecurityLoaded(c, w))
<1>1. Keyed(N, [w EXCEPT !.page.loadError = TRUE])
  BY DEF Keyed, PageOK
<1> QED BY <1>1, DraftedOK DEF SecurityLoaded

LEMMA SaveRulesLandsKeeps == ASSUME IInv, SaveRulesLands PROVE IInv'
<1>1. /\ PageOK(Screens, [page EXCEPT !.saving = FALSE])
      /\ PageOK(Screens, [[page EXCEPT !.saving = FALSE] EXCEPT !.errs = TRUE])
      /\ PageOK(Screens, [[page EXCEPT !.saving = FALSE] EXCEPT !.draft = None])
  BY IInvParts DEF PageOK
<1> QED BY <1>1, AfterOK, Shows, Reloads, Becomes DEF SaveRulesLands

LEMMA SecurityClickKeeps == ASSUME IInv, SecurityClick PROVE IInv'
<1>1. ASSUME NEW f, NEW x
      PROVE  /\ Keyed(Screens, [Clicked EXCEPT !.page.loadError = FALSE])
             /\ Keyed(Screens, [Clicked EXCEPT !.page.saving = TRUE, !.page.errs = FALSE])
             /\ Keyed(Screens, [Clicked EXCEPT !.page.draft[f] = x])
  BY ClickedOK DEF Keyed, PageOK
<1>2. CASE RetryRules
  BY <1>1, <1>2, RefreshOK, Becomes DEF RetryRules
<1>3. CASE SaveRules
  BY <1>1, <1>3, Calls, Becomes DEF SaveRules
<1>4. ASSUME NEW f, NEW x, Become([Clicked EXCEPT !.page.draft[f] = x]) PROVE IInv'
  BY <1>1, <1>4, Becomes
<1> QED BY <1>2, <1>3, <1>4 DEF SecurityClick

-----------------------------------------------------------------------------
(* The logs and the statistics. *)
LEMMA RequeryOK ==
    ASSUME NEW N, NEW w, Keyed(N, w), NEW young
    PROVE  Keyed(N, Requery(w, young)) /\ Keyed(N, Refetch(w)) /\ Keyed(N, LogsBeat(w))
BY Rekeys, RefreshOK DEF Requery, Refetch, LogsBeat

LEMMA LogsMountOK ==
    ASSUME NEW N, NEW w, Keyed(N, w), NEW young
    PROVE  Keyed(Screens, LogsMount(w, young))
<1> DEFINE bare == [name |-> "logs", visit |-> w.page.visit, hooks |-> <<>>, list |-> "requests",
                    live |-> TRUE, limit |-> 200, typed |-> NoInput,
                    settled |-> [ip |-> None, ua |-> None], model |-> None, status |-> "all",
                    query |-> None, detail |-> None,
                    errors |-> [requests |-> FALSE, system |-> FALSE]]
<1>1. PageOK(Screens, bare)
  BY DEF PageOK, Screens, Pages
<1>2. LogsMount(w, young) =
        Refetch(UseCached(UseCached([w EXCEPT !.page = bare], "requests", LogsKey(Query(bare)), young),
                          "system", "logs:system", young))
  BY DEF LogsMount
<1> HIDE DEF bare
<1>3. Keyed(Screens, [w EXCEPT !.page = bare])
  BY <1>1, SetPage
<1> QED BY <1>2, <1>3, Uses, RequeryOK

LEMMA LogsLoadedOK ==
    ASSUME NEW N, NEW w, Keyed(N, w), NEW c
    PROVE  Keyed(N, LogsLoaded(c, w))
BY DEF LogsLoaded, Keyed, PageOK

LEMMA LogsClickKeeps == ASSUME IInv, LogsClick \/ Settle PROVE IInv'
<1>1. ASSUME NEW f, NEW x
      PROVE  /\ Keyed(Screens, [Clicked EXCEPT !.page.list = x])
             /\ Keyed(Screens, [Clicked EXCEPT !.page.live = ~@])
             /\ Keyed(Screens, [Clicked EXCEPT !.page.limit = x])
             /\ Keyed(Screens, [Clicked EXCEPT !.page.errors[f] = FALSE])
             /\ Keyed(Screens, [Clicked EXCEPT !.page.typed[f] = x])
             /\ Keyed(Screens, [Clicked EXCEPT !.page.typed = x])
             /\ Keyed(Screens, [Clicked EXCEPT !.page.model = x])
             /\ Keyed(Screens, [Clicked EXCEPT !.page.status = x])
             /\ Keyed(Screens, [Clicked EXCEPT !.page.query = x])
             /\ Keyed(Screens, [Clicked EXCEPT !.page.detail = x])
  BY ClickedOK DEF Keyed, PageOK
<1>2. CASE ChooseList \/ ChooseLimit
  BY <1>1, <1>2, RequeryOK, Becomes DEF ChooseList, ChooseLimit
<1>3. CASE RetryLogs
  BY <1>1, <1>3, RequeryOK, Becomes DEF RetryLogs
<1>4. CASE TypeFilter \/ ClearFilters
  BY <1>1, <1>4, RequeryOK, Becomes DEF TypeFilter, ClearFilters
<1>5. CASE Settle
  <2>1. ASSUME NEW f, NEW x PROVE Keyed(Screens, [World EXCEPT !.page.settled[f] = x])
    BY DEF IInv, Keyed, PageOK
  <2> QED BY <1>5, <2>1, RequeryOK, Becomes DEF Settle
<1>6. ASSUME NEW x, \/ Become([Clicked EXCEPT !.page.model = x])
                    \/ Become([Clicked EXCEPT !.page.status = x])
                    \/ Become([Clicked EXCEPT !.page.query = x])
                    \/ Become([Clicked EXCEPT !.page.detail = x])
                    \/ Become([Clicked EXCEPT !.page.live = ~@])
      PROVE  IInv'
  BY <1>1, <1>6, Becomes
<1> QED BY <1>2, <1>3, <1>4, <1>5, <1>6 DEF LogsClick

LEMMA StatsMountOK ==
    ASSUME NEW N, NEW w, Keyed(N, w), NEW young
    PROVE  Keyed(Screens, StatsMount(w, young))
<1> DEFINE bare == [name |-> "stats", visit |-> w.page.visit, hooks |-> <<>>, hours |-> "72",
                    from |-> None, to |-> None, applied |-> None, saving |-> FALSE]
<1>1. PageOK(Screens, bare)
  BY DEF PageOK, Screens, Pages
<1>2. StatsMount(w, young) =
        UseCached(UseCached(UseCached([w EXCEPT !.page = bare], "usage", UsageKey(bare), young),
                            "native", "stats:native", young), "today", "stats:usage:today", young)
  BY DEF StatsMount
<1> HIDE DEF bare
<1>3. Keyed(Screens, [w EXCEPT !.page = bare])
  BY <1>1, SetPage
<1> QED BY <1>2, <1>3, Uses

LEMMA RewindowOK ==
    ASSUME NEW N, NEW w, Keyed(N, w), NEW young
    PROVE  Keyed(N, Rewindow(w, young))
<1>1. ASSUME NEW x PROVE Keyed(N, [w EXCEPT !.page.applied = x])
  BY DEF Keyed, PageOK
<1> QED BY <1>1, Rekeys DEF Rewindow

LEMMA StatsKeeps == ASSUME IInv, StatsClick \/ SavedNow PROVE IInv'
<1>1. ASSUME NEW x, NEW y, NEW z
      PROVE  /\ Keyed(Screens, [Clicked EXCEPT !.page.hours = x])
             /\ Keyed(Screens, [[Clicked EXCEPT !.page.hours = x]
                                   EXCEPT !.page.from = y, !.page.to = z])
             /\ Keyed(Screens, [Clicked EXCEPT !.page.from = x])
             /\ Keyed(Screens, [Clicked EXCEPT !.page.to = x])
             /\ Keyed(Screens, [Clicked EXCEPT !.page.saving = TRUE])
  BY ClickedOK DEF Keyed, PageOK
<1>2. CASE PickWindow
  <2>1. PICK h, from, to, fill, young :
            Become(Rewindow(IF fill THEN [[Clicked EXCEPT !.page.hours = h]
                                             EXCEPT !.page.from = from, !.page.to = to]
                            ELSE [Clicked EXCEPT !.page.hours = h], young))
    BY <1>2 DEF PickWindow
  <2> QED BY <1>1, <2>1, RewindowOK, Becomes
<1>3. CASE TypeRange
  BY <1>1, <1>3, RewindowOK, Becomes DEF TypeRange
<1>4. CASE SaveNow
  BY <1>1, <1>4, Calls, Becomes DEF SaveNow
<1>5. CASE SavedNow
  <2>1. PageOK(Screens, [page EXCEPT !.saving = FALSE])
    BY IInvParts DEF PageOK
  <2> QED BY <1>5, <2>1, AfterOK, Shows, Becomes DEF SavedNow
<1> QED BY <1>2, <1>3, <1>4, <1>5 DEF StatsClick

-----------------------------------------------------------------------------
(* The dashboard and the activity. *)
LEMMA LoadRoundOK ==
    ASSUME NEW N, NEW w, Keyed(N, w)
    PROVE  Keyed(N, LoadRound(w))
<1>1. ASSUME NEW v, Keyed(N, v), NEW x, NEW y
      PROVE  Keyed(N, [v EXCEPT !.calls = x, !.page.rounds = y])
  BY <1>1 DEF Keyed, PageOK
<1>2. ASSUME NEW x, NEW y
      PROVE  Keyed(N, RefreshThen(RefreshThen(w, "overview", x), "packages", y))
  BY Refreshes
<1> QED BY <1>1, <1>2 DEF LoadRound

LEMMA DashboardMountOK ==
    ASSUME NEW N, NEW w, Keyed(N, w), NEW young
    PROVE  Keyed(Screens, DashboardMount(w, young))
<1> DEFINE bare == [name |-> "dashboard", visit |-> w.page.visit, hooks |-> <<>>, loadError |-> FALSE,
                    rounds |-> <<>>, status |-> None, usageAll |-> None]
<1>1. PageOK(Screens, bare)
  BY DEF PageOK, Screens, Pages
<1>2. DashboardMount(w, young) =
        LoadRound(UseCached(UseCached([w EXCEPT !.page = bare], "overview", "overview", young),
                            "packages", "packages", young))
  BY DEF DashboardMount
<1> HIDE DEF bare
<1>3. Keyed(Screens, [w EXCEPT !.page = bare])
  BY <1>1, SetPage
<1> QED BY <1>2, <1>3, Uses, LoadRoundOK

LEMMA SettledOK ==
    ASSUME NEW N, NEW w, Keyed(N, w), NEW c, NEW n, NEW part
    PROVE  Keyed(N, Settled(c, w, n, part))
<1> DEFINE was == w.page.rounds[n]
           left == was.left \ {part}
           now == IF Ok(c) /\ part \in {"status", "usageAll"}
                  THEN [was EXCEPT !.left = left, ![part] = c.ans.ver]
                  ELSE [was EXCEPT !.left = left]
           shown(old, new) == IF new = None THEN old ELSE new
<1>1. ASSUME NEW x, NEW y, NEW z
      PROVE  /\ Keyed(N, [w EXCEPT !.page.rounds[n] = x])
             /\ Keyed(N, [w EXCEPT !.page.rounds = x, !.page.status = y, !.page.usageAll = z])
  BY DEF Keyed, PageOK
<1> DEFINE some == [w EXCEPT !.page.rounds[n] = now]
           all == [w EXCEPT !.page.rounds = Without(w.page.rounds, n),
                            !.page.status = shown(w.page.status, now.status),
                            !.page.usageAll = shown(w.page.usageAll, now.usageAll)]
<1>2. Settled(c, w, n, part) = IF left # {} THEN some ELSE all
  BY DEF Settled
<1>3. Keyed(N, some)
  <2> HIDE DEF now
  <2> QED BY <1>1
<1>4. Keyed(N, all)
  <2> DEFINE x == Without(w.page.rounds, n)
             y == shown(w.page.status, now.status)
             z == shown(w.page.usageAll, now.usageAll)
  <2>1. all = [w EXCEPT !.page.rounds = x, !.page.status = y, !.page.usageAll = z]
    OBVIOUS
  <2> HIDE DEF x, y, z, all
  <2> QED BY <1>1, <2>1
<1> HIDE DEF some, all, left
<1> QED BY <1>2, <1>3, <1>4

LEMMA RoundLandsKeeps == ASSUME IInv, RoundLands PROVE IInv'
BY AfterOK, SettledOK, Becomes DEF RoundLands

LEMMA DashboardOK ==
    ASSUME NEW N, NEW w, Keyed(N, w), NEW c
    PROVE  /\ Keyed(N, DashboardThen(c, w)) /\ Keyed(N, DashboardLoaded(c, w))
           /\ Keyed(N, DashboardBeat(w))
<1>1. Keyed(N, [w EXCEPT !.page.loadError = TRUE])
  BY DEF Keyed, PageOK
<1> QED BY <1>1, SettledOK, RefreshOK, LoadRoundOK
        DEF DashboardThen, DashboardLoaded, DashboardBeat

LEMMA DashboardClickKeeps == ASSUME IInv, DashboardClick PROVE IInv'
<1>1. Keyed(Screens, [Clicked EXCEPT !.page.loadError = FALSE])
  BY ClickedOK DEF Keyed, PageOK
<1> QED BY <1>1, RefreshOK, Becomes DEF DashboardClick

LEMMA ActivityMountOK ==
    ASSUME NEW N, NEW w, Keyed(N, w)
    PROVE  Keyed(Screens, ActivityMount(w))
<1>1. PageOK(Screens, [name |-> "activity", visit |-> w.page.visit, hooks |-> <<>>,
                       open |-> FALSE, busy |-> FALSE, vouchers |-> None])
  BY DEF PageOK, Screens, Pages
<1> QED BY <1>1, SetPage DEF ActivityMount

LEMMA ActivityKeeps == ASSUME IInv, ActivityClick \/ VouchersLand PROVE IInv'
<1>1. CASE OpenVouchers
  <2>1. Keyed(Screens, [Clicked EXCEPT !.page.open = TRUE, !.page.busy = TRUE])
    BY ClickedOK DEF Keyed, PageOK
  <2> QED BY <1>1, <2>1, Calls, Becomes DEF OpenVouchers
<1>2. CASE page.open /\ Become([Clicked EXCEPT !.page.open = FALSE])
  <2>1. Keyed(Screens, [Clicked EXCEPT !.page.open = FALSE])
    BY ClickedOK DEF Keyed, PageOK
  <2> QED BY <1>2, <2>1, Becomes
<1>3. CASE VouchersLand
  <2>1. ASSUME NEW c
        PROVE  PageOK(Screens, [page EXCEPT !.busy = FALSE,
                                            !.vouchers = IF Ok(c) THEN c.ans.ver ELSE @])
    BY IInvParts DEF PageOK
  <2> QED BY <1>3, <2>1, AfterOK, Shows, Becomes DEF VouchersLand
<1> QED BY <1>1, <1>2, <1>3 DEF ActivityClick

-----------------------------------------------------------------------------
(* The panel: from one page to another, and what lands on any of them. *)

(* Whatever page is entered has its hooks filled from the cache, each with what its key holds. *)
LEMMA MountOK ==
    ASSUME NEW N, NEW w, Keyed(N, w), NEW name \in Pages, NEW young
    PROVE  Keyed(Screens, Mount(w, name, young))
<1>1. CASE name = "accounts"
  <2>1. Keyed(Screens, MigrateNotes(AccountsMount(w, young)))
    BY AccountsMountOK, MigrateOK
  <2> QED BY <1>1, <2>1 DEF Mount
<1>2. CASE name = "keys"
  BY <1>2, KeysMountOK DEF Mount
<1>3. CASE name = "tasks"
  BY <1>3, TasksMountOK DEF Mount
<1>4. CASE name = "settings"
  <2>1. Keyed(Screens, TokensTab(SettingsMount(w, young, w.tab.slug)))
    BY SettingsMountOK, TokensMountOK
  <2> QED BY <1>4, <2>1 DEF Mount
<1>5. CASE name = "models"
  BY <1>5, ModelsMountOK DEF Mount
<1>6. CASE name = "playground"
  BY <1>6, PlaygroundMountOK DEF Mount
<1>7. CASE name = "security"
  BY <1>7, SecurityMountOK DEF Mount
<1>8. CASE name = "logs"
  BY <1>8, LogsMountOK DEF Mount
<1>9. CASE name = "stats"
  BY <1>9, StatsMountOK DEF Mount
<1>10. CASE name = "dashboard"
  BY <1>10, DashboardMountOK DEF Mount
<1>11. CASE name = "activity"
  BY <1>11, ActivityMountOK DEF Mount
<1> QED BY <1>1, <1>2, <1>3, <1>4, <1>5, <1>6, <1>7, <1>8, <1>9, <1>10, <1>11 DEF Pages

LEMMA LeavingOK ==
    ASSUME NEW N, NEW w, Keyed(N, w)
    PROVE  Keyed(N, Leaving(w)) /\ Keyed(N, WithBar(w))
<1>1. ASSUME NEW v, Keyed(N, v), NEW x
      PROVE  Keyed(N, [v EXCEPT !.page.visit = x])
  BY <1>1 DEF Keyed, PageOK
<1>2. Keyed(N, Left(w))
  BY AbortOK
<1>3. Keyed(N, Leaving(w))
  BY <1>1, <1>2 DEF Leaving
<1> QED BY <1>3, CountsOK DEF WithBar

LEMMA ArriveOK ==
    ASSUME NEW N, NEW w, Keyed(N, w), NEW name \in Pages, NEW young
    PROVE  Keyed(Screens, Arrive(w, name, young))
BY LeavingOK, MountOK DEF Arrive

LEMMA ToLoginOK ==
    ASSUME NEW N, NEW w, Keyed(N, w)
    PROVE  Keyed(Screens, ToLogin(w))
BY LeavingOK, StopPollOK, LoginMountOK DEF ToLogin

LEMMA EmptiedOK ==
    ASSUME NEW N, NEW w, Keyed(N, w)
    PROVE  Keyed(Screens, Emptied(w))
<1>1. ASSUME NEW v, Keyed(N, v)
      PROVE  Keyed(Screens, [v EXCEPT !.page.name = "login", !.tab.add = NoAdd])
  BY <1>1 DEF Keyed, PageOK, TabOK, Screens
<1> QED BY <1>1, ReloadedOK DEF Emptied

(* A tab that is opened finds in its storage what was fetched under each key. *)
LEMMA InitKeyed == Init => IInv
<1> SUFFICES ASSUME NEW s \in Starts, NEW young,
                    LET at == Arrive(IF s.anew THEN Emptied(Blank(s)) ELSE Blank(s), s.page, young)
                        w == IF s.anew THEN Hydrate(at) ELSE at
                    IN  tab = w.tab /\ page = w.page /\ calls = w.calls
             PROVE  IInv
  BY DEF Init
<1> DEFINE at == Arrive(IF s.anew THEN Emptied(Blank(s)) ELSE Blank(s), s.page, young)
           w == IF s.anew THEN Hydrate(at) ELSE at
<1>1. Keyed({"another"}, Blank(s))
  <2>1. CacheOK(s.store) /\ CacheOK(<<>>) /\ s.goes \subseteq Pages
    BY StartsAssumption DEF CacheOK
  <2>2. TabOK(Blank(s).tab)
    BY <2>1 DEF Blank, TabOK
  <2>3. PageOK({"another"}, Blank(s).page)
    BY DEF Blank, PageOK
  <2>4. {"tab", "page", "calls"} \subseteq DOMAIN Blank(s)
    BY DEF Blank
  <2> QED BY <2>2, <2>3, <2>4 DEF Keyed
<1>2. Keyed(Screens, at)
  BY <1>1, StartsAssumption, EmptiedOK, ArriveOK
<1>3. Keyed(Screens, w)
  <2> HIDE DEF at
  <2> QED BY <1>2, HydrateOK
<1>4. tab = w.tab /\ page = w.page
  OBVIOUS
<1> QED
  <2> HIDE DEF w, at
  <2> QED BY <1>3, <1>4 DEF IInv, Keyed, World

(* The server's steps change nothing in the tab. *)
LEMMA ServerKeeps == ASSUME IInv, Serve \/ Fail \/ Outside \/ QueueEnds PROVE IInv'
<1>1. UNCHANGED <<tab, page>>
  BY DEF Serve, Fail, Outside, QueueEnds
<1> QED BY <1>1 DEF IInv, Keyed, World

LEMMA DeniedKeeps == ASSUME IInv, Denied PROVE IInv'
<1>1. Keyed(Screens, Expelled(World))
  BY ExpelledOK DEF IInv
<1>2. ASSUME NEW x PROVE Keyed(Screens, [Expelled(World) EXCEPT !.calls = x])
  BY <1>1, SetCalls
<1>3. Keyed(Screens, Hydrate(ToLogin(Emptied(Expelled(World)))))
  BY <1>1, EmptiedOK, ToLoginOK, HydrateOK
<1> QED BY <1>2, <1>3, Becomes DEF Denied

LEMMA RedirectKeeps == ASSUME IInv, Redirect PROVE IInv'
<1>1. Keyed(Screens, ToLogin(World))
  BY ToLoginOK DEF IInv
<1>2. Keyed(Screens, Mount(WithBar(Leaving(World)), "dashboard", FALSE))
  BY LeavingOK, MountOK DEF IInv, Pages
<1> QED BY <1>1, <1>2, Becomes DEF Redirect

LEMMA LogoutLandsKeeps == ASSUME IInv, LogoutLands PROVE IInv'
<1>1. ASSUME NEW c
      PROVE  Keyed(Screens, Hydrate(ToLogin(Emptied(LoggedOut(c)))))
  BY LoggedOutOK, EmptiedOK, ToLoginOK, HydrateOK
<1> QED BY <1>1, Becomes DEF LogoutLands

LEMMA PageLoadedOK ==
    ASSUME IInv, NEW w, Keyed(Screens, w), NEW c
    PROVE  Keyed(Screens, PageLoaded(c, w))
<1>1. /\ Keyed(Screens, AccountsLoaded(c, w)) /\ Keyed(Screens, KeysLoaded(c, w))
      /\ Keyed(Screens, TasksLoaded(c, w)) /\ Keyed(Screens, SettingsLoaded(c, w))
      /\ Keyed(Screens, SecurityLoaded(c, w)) /\ Keyed(Screens, LogsLoaded(c, w))
      /\ Keyed(Screens, DashboardLoaded(c, w))
  BY AccountsLoadedOK, KeysLoadedOK, TasksLoadedOK, SettingsLoadedOK, SecurityLoadedOK,
     LogsLoadedOK, DashboardOK
<1> QED BY <1>1 DEF PageLoaded

LEMMA LoadLandsKeeps == ASSUME IInv, LoadLands PROVE IInv'
<1> DEFINE w(c) == PageLoaded(c, LoadLanded(c))
           tag(c) == IF c.then = None THEN None ELSE c.then[1]
           next(c) == CASE tag(c) \in {"row", "bulk", "route"} -> AccountsThen(c, w(c))
                        [] tag(c) = "comp" -> CompThen(c, w(c))
                        [] tag(c) \in {"models", "probes"} -> ModelsThen(c, w(c))
                        [] tag(c) = "round" -> DashboardThen(c, w(c))
                        [] OTHER -> w(c)
<1>1. PICK c \in Answered("load") : Become(next(c))
  BY DEF LoadLands
<1>2. Keyed(Screens, w(c))
  BY LoadLandedOK, PageLoadedOK
<1>3. /\ tag(c) \in {"row", "bulk", "route"} => Keyed(Screens, AccountsThen(c, w(c)))
      /\ Keyed(Screens, CompThen(c, w(c))) /\ Keyed(Screens, ModelsThen(c, w(c)))
      /\ Keyed(Screens, DashboardThen(c, w(c)))
  <2> HIDE DEF w
  <2> QED BY <1>2, AccountsThenOK, CompThenOK, ModelsThenOK, DashboardOK
<1>4. Keyed(Screens, next(c))
  <2> HIDE DEF w, tag
  <2> QED BY <1>2, <1>3
<1> QED BY <1>1, <1>4, Becomes

LEMMA LandKeeps == ASSUME IInv, Land PROVE IInv'
<1>1. CASE LoadLands \/ WarmLands \/ MeLands \/ LoginLands \/ LogoutLands \/ CountLands
           \/ BalancesLand \/ Denied \/ Redirect
  BY <1>1, LoadLandsKeeps, WarmLandsKeeps, MeLandsKeeps, LoginLandsKeeps, LogoutLandsKeeps,
     CountLandsKeeps, BalancesLandKeeps, DeniedKeeps, RedirectKeeps
<1>2. CASE AccountsLand \/ AddStarted \/ Polled \/ AddCloses \/ KeysLand
  BY <1>2, AccountsLandKeeps, AddStartedKeeps, PolledKeeps, AddClosesKeeps, KeysLandKeeps
<1>3. CASE TasksLand \/ CompLand \/ SettingsLand \/ TokensLands \/ PlaygroundLand \/ SaveRulesLands
  BY <1>3, TasksLandKeeps, CompKeeps, SettingsLandKeeps, TokensLandsKeep, PlaygroundLandKeeps,
     SaveRulesLandsKeeps
<1>4. CASE Settle \/ SavedNow \/ RoundLands \/ VouchersLand
  BY <1>4, LogsClickKeeps, StatsKeeps, RoundLandsKeeps, ActivityKeeps
<1> QED BY <1>1, <1>2, <1>3, <1>4 DEF Land

LEMMA BeatsOK ==
    ASSUME NEW w, Keyed(Screens, w)
    PROVE  Keyed(Screens, Beats(w))
<1>1. /\ Keyed(Screens, AccountsBeat(w)) /\ Keyed(Screens, KeysBeat(w))
      /\ Keyed(Screens, SecurityBeat(w)) /\ Keyed(Screens, StatsBeat(w))
  BY RefreshOK DEF AccountsBeat, KeysBeat, SecurityBeat, StatsBeat
<1>2. /\ Keyed(Screens, TasksBeat(w)) /\ Keyed(Screens, LogsBeat(w))
      /\ Keyed(Screens, DashboardBeat(w))
  BY TasksBeatOK, RequeryOK, DashboardOK
<1> QED BY <1>1, <1>2 DEF Beats

LEMMA BeatKeeps == ASSUME IInv, Beat \/ Hide PROVE IInv'
<1>1. ASSUME NEW x PROVE Keyed(Screens, [World EXCEPT !.tab.beats = x])
  BY DEF IInv, Keyed, TabOK
<1>2. ASSUME NEW x PROVE Keyed(Screens, [Clicked EXCEPT !.tab.hidden = x])
  BY ClickedOK DEF Keyed, TabOK
<1>3. CASE Beat
  <2> DEFINE w == [World EXCEPT !.tab.beats = IF calls = {} THEN @ ELSE @ - 1]
  <2>1. Keyed(Screens, w)
    BY <1>1
  <2>2. Become(Beats(w))
    BY <1>3 DEF Beat
  <2> HIDE DEF w
  <2> QED BY <2>1, <2>2, BeatsOK, Becomes
<1>4. CASE Hide
  <2>1. Keyed(Screens, Beats([Clicked EXCEPT !.tab.hidden = FALSE]))
    BY <1>2, BeatsOK
  <2> QED BY <1>2, <1>4, <2>1, Becomes DEF Hide
<1> QED BY <1>3, <1>4

LEMMA RetryKeeps == ASSUME IInv, Retry PROVE IInv'
<1>1. Keyed(Screens, [Clicked EXCEPT !.tab.palette = FALSE, !.tab.add = NoAdd])
  BY ClickedOK DEF Keyed, TabOK
<1> QED BY <1>1, LeavingOK, CountsOK, PlaygroundMountOK, Becomes DEF Retry

LEMMA NavigateKeeps == ASSUME IInv, Navigate PROVE IInv'
<1>1. PICK young \in BOOLEAN, name \in tab.goes \cup {page.name} :
          /\ page.name # "login"
          /\ LET anew == name = page.name
                 left == IF anew THEN Emptied(Clicked)
                         ELSE [Clicked EXCEPT !.tab.palette = FALSE, !.tab.slug = None]
                 there == Arrive(left, name, young)
             IN  Become(IF anew THEN Hydrate(there) ELSE there)
  BY DEF Navigate
<1> DEFINE anew == name = page.name
           left == IF anew THEN Emptied(Clicked)
                   ELSE [Clicked EXCEPT !.tab.palette = FALSE, !.tab.slug = None]
           there == Arrive(left, name, young)
<1>2. name \in Pages
  BY <1>1, IInvParts DEF TabOK, PageOK, Screens
<1>3. Keyed(Screens, left)
  <2>1. Keyed(Screens, [Clicked EXCEPT !.tab.palette = FALSE, !.tab.slug = None])
    BY ClickedOK DEF Keyed, TabOK
  <2> QED BY <2>1, ClickedOK, EmptiedOK
<1>4. Keyed(Screens, there) /\ Keyed(Screens, Hydrate(there))
  <2> HIDE DEF left
  <2> QED BY <1>2, <1>3, ArriveOK, HydrateOK
<1>5. Become(IF anew THEN Hydrate(there) ELSE there)
  BY <1>1
<1> HIDE DEF anew, there
<1> QED BY <1>4, <1>5, Becomes

LEMMA PickRealmKeeps == ASSUME IInv, PickRealm PROVE IInv'
<1>1. PICK r, young :
          Become(CASE page.name = "settings" -> SettingsRealm(SwitchRealm(r))
                   [] page.name = "models" -> ModelsRealm(SwitchRealm(r), young)
                   [] page.name = "playground" -> PlaygroundRealm(SwitchRealm(r))
                   [] OTHER -> SwitchRealm(r))
  BY DEF PickRealm
<1>2. Keyed(Screens, SwitchRealm(r))
  BY SwitchRealmOK
<1>3. /\ Keyed(Screens, SettingsRealm(SwitchRealm(r)))
      /\ Keyed(Screens, ModelsRealm(SwitchRealm(r), young))
      /\ Keyed(Screens, PlaygroundRealm(SwitchRealm(r)))
  BY <1>2, SettingsRealmOK, ModelsRealmOK, PlaygroundRealmOK
<1> QED BY <1>1, <1>2, <1>3, Becomes

LEMMA PageClickKeeps == ASSUME IInv, PageClick PROVE IInv'
<1>1. \/ AddClick \/ AccountsClick \/ KeysClick \/ TasksClick \/ CompClick \/ ModelsClick
      \/ PlaygroundClick \/ SecurityClick \/ LogsClick \/ StatsClick \/ DashboardClick
      \/ ActivityClick \/ TokensClick \/ SwitchTab \/ SettingsClick
  BY DEF PageClick
<1> QED BY <1>1, AddClickKeeps, AccountsClickKeeps, KeysClickKeeps, TasksClickKeeps, CompKeeps,
           ModelsClickKeeps, PlaygroundClickKeeps, SecurityClickKeeps, LogsClickKeeps,
           StatsKeeps, DashboardClickKeeps, ActivityKeeps, TokensClickKeeps, SwitchTabKeeps,
           SettingsClickKeeps

LEMMA UserKeeps == ASSUME IInv, User PROVE IInv'
BY SubmitLoginKeeps, BeatKeeps, NavigateKeeps, PickRealmKeeps, PageClickKeeps, RetryKeeps,
   LogoutKeeps, PaletteKeeps DEF User

LEMMA NextKeeps == IInv /\ [Next]_vars => IInv'
<1> SUFFICES ASSUME IInv, [Next]_vars PROVE IInv'
  OBVIOUS
<1>1. CASE Next
  BY <1>1, ServerKeeps, LandKeeps, BeatKeeps, TickKeeps, UserKeeps DEF Next
<1>2. CASE UNCHANGED vars
  BY <1>2 DEF vars, IInv, Keyed, World
<1> QED BY <1>1, <1>2

-----------------------------------------------------------------------------
(* The invariant of the caches and the hooks (web/lib/data-cache.ts). *)
THEOREM CacheIsKeyed == Spec => []IInv
BY InitKeyed, NextKeeps, PTL DEF Spec

(* What a page shows through a cached hook is of the realm, the account or the view it is *)
(* about now (useCachedAsync). *)
THEOREM ViewsAreOfTheirKeys == Spec => []ViewIsOfKey
<1>1. IInv => ViewIsOfKey
  BY DEF IInv, Keyed, PageOK, HookOK, World, ViewIsOfKey
<1> QED BY <1>1, CacheIsKeyed, PTL
=============================================================================
