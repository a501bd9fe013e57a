-------------------------------- MODULE Panel --------------------------------
(***************************************************************************)
(* The web panel in one tab of a browser: its pages one at a time over the *)
(* shell they share, and the server that answers their calls.              *)
(***************************************************************************)
EXTENDS AddAccount, Keys, Tasks, Tokens, Models, Security, Stats, Dashboard

CONSTANT
    Starts    \* where a run begins, the pages it goes to, and what it may spend: clicks,
              \* failures, changes from outside, and heartbeats while a call is in flight

Pages == {"accounts", "keys", "tasks", "settings", "models", "playground", "security",
          "logs", "stats", "dashboard", "activity"}

(* What the browser stored under a key is what was fetched for that key. *)
ASSUME StartsAssumption == \A s \in Starts :
    /\ s.page \in Pages /\ s.goes \subseteq Pages
    /\ \A k \in DOMAIN s.store : s.store[k].key = k

(* A page that is entered fetches what it shows. *)
Mount(w, name, young) ==
    CASE name = "accounts" -> MigrateNotes(AccountsMount(w, young))
      [] name = "keys" -> KeysMount(w, young)
      [] name = "tasks" -> TasksMount(w, young)
      [] name = "settings" -> TokensTab(SettingsMount(w, young, w.tab.slug))
      [] name = "models" -> ModelsMount(w, young)
      [] name = "playground" -> PlaygroundMount(w)
      [] name = "security" -> SecurityMount(w, young)
      [] name = "logs" -> LogsMount(w, young)
      [] name = "stats" -> StatsMount(w, young)
      [] name = "dashboard" -> DashboardMount(w, young)
      [] name = "activity" -> ActivityMount(w)

(* What is left behind, and the bar that appears with the first page       *)
(* behind the login, before the page.                                      *)
Leaving(w) == [Left(w) EXCEPT !.page.visit = @ + 1]
WithBar(w) == IF w.page.name = "login" THEN FetchCount(w) ELSE w
Arrive(w, name, young) == Mount(WithBar(Leaving(w)), name, young)
ToLogin(w) == LoginMount(StopPoll(Leaving(w)))

(* A full load: nothing is there, then the page, and then the check of the *)
(* login.                                                                  *)
Emptied(w) == [Reloaded(w) EXCEPT !.page.name = "login", !.tab.add = NoAdd]

(* A tab that is opened anew has only what the browser stored; one that    *)
(* was used before knows its login and has a cache.                        *)
Blank(s) ==
    [tab |-> [mem |-> IF s.anew THEN <<>> ELSE s.store, store |-> s.store, private |-> s.private,
              me |-> IF s.anew THEN None ELSE s.stored, stored |-> s.stored, loading |-> s.anew,
              realm |-> "cn", saved |-> "cn", hidden |-> FALSE, notes |-> s.notes,
              sort |-> <<"credits", "desc">>, size |-> s.size, moving |-> <<>>, slug |-> s.slug,
              count |-> None, palette |-> FALSE, add |-> NoAdd, clicks |-> s.clicks,
              beats |-> s.beats, goes |-> s.goes],
     page |-> [name |-> "another", visit |-> 0, hooks |-> <<>>],
     calls |-> {}]

Init == \E s \in Starts, young \in BOOLEAN :
    LET at == Arrive(IF s.anew THEN Emptied(Blank(s)) ELSE Blank(s), s.page, young)
        w == IF s.anew THEN Hydrate(at) ELSE at
    IN  /\ server = [session |-> s.role, ver |-> 1, fails |-> s.fails, changes |-> s.changes]
                    @@ s.holds
        /\ tab = w.tab /\ page = w.page /\ calls = w.calls
-----------------------------------------------------------------------------
(* The calls that are answered without a login. *)
Open == {"login", "readFile", "chat", "read"}

Val(k) ==
    CASE k \in {"overview", "packages", "proxy_routes"} -> AccountsVal(k)
      [] k = "keys" -> [keys |-> server.keys]
      [] k \in {"settings:config", "settings:modelMap", "settings:update"} -> SettingsVal(k)
      [] k \in {"security", "security-model-locks"} -> SecurityVal(k)
      [] k \in {"models:probes"} \cup {ModelsKey(r) : r \in Realms} -> ModelsVal(k)
      [] k = "tasks:scan" \/ k \in {RecordsKey(u) : u \in {"all"} \cup Names} -> TasksVal(k)
      [] OTHER -> LogsVal(k)

Serves(c) ==
    CASE c.op \in {"load", "warm"} ->
           Reads(IF c.arg[1] \in {"usage", "native", "today"} THEN None ELSE Val(c.arg[2]))
      [] c.op \in {"me", "login", "logout", "count"} -> ShellServes(c)
      [] c.op = "balanceAll" /\ c.arg[2] = "palette" -> ShellServes(c)
      [] c.op \in {"addStart", "addPoll"} -> AddServes(c)
      [] c.op \in {"keyCreate", "keyUpdate", "keyToggle", "keyReset", "keyRemove", "keyIps"} ->
           KeysServes(c)
      [] c.op \in {"queue", "runQueue", "cancelQueue", "detail", "redetail", "claim", "auto",
                   "autoAll"} -> TasksServes(c)
      [] c.op \in {"saveComp", "compRun"} -> CompServes(c)
      [] c.op \in {"saveConfig", "testUpstash", "saveMap", "modelNames", "recheck"} ->
           SettingsServes(c)
      [] c.op \in {"tokens", "tokenCreate", "tokenToggle", "tokenRemove"} -> TokensServes(c)
      [] c.op \in {"playModels"} \cup StreamOps -> PlaygroundServes(c)
      [] c.op = "saveRules" -> SecurityServes(c)
      [] c.op \in {"status", "usageAll", "saveUsage", "vouchers"} -> Reads(None)
      [] OTHER -> AccountsServes(c)

(***************************************************************************)
(* The server answers a call.  A failure may come after its effect, when   *)
(* it is the answer that is lost.                                          *)
(***************************************************************************)
Serve == \E c \in calls :
    /\ c.ans = None
    /\ \/ /\ server.session = None /\ c.op \notin Open
          /\ calls' = (calls \ {c}) \cup {[c EXCEPT !.ans = [is |-> "denied", ver |-> 0, val |-> None]]}
          /\ UNCHANGED server
       \/ /\ server.session # None \/ c.op \in Open
          /\ \E r \in Serves(c), lost \in BOOLEAN :
               /\ lost => server.fails > 0 /\ r.server # server
               /\ server' = IF lost THEN [r.server EXCEPT !.fails = @ - 1] ELSE r.server
               /\ calls' = (calls \ {c}) \cup
                    {[c EXCEPT !.ans = IF lost THEN [is |-> "fail", ver |-> 0, val |-> None]
                                       ELSE [is |-> r.is, ver |-> r.server.ver, val |-> r.val]]}
    /\ UNCHANGED <<tab, page>>

(* A call that never reached the server. *)
Fail == \E c \in calls :
    /\ c.ans = None /\ server.fails > 0
    /\ server' = [server EXCEPT !.fails = @ - 1]
    /\ calls' = (calls \ {c}) \cup {[c EXCEPT !.ans = [is |-> "fail", ver |-> 0, val |-> None]]}
    /\ UNCHANGED <<tab, page>>

(* Somebody else writes, or the login ends. *)
Outside ==
    /\ server.changes > 0
    /\ LET left == [server EXCEPT !.changes = @ - 1]
       IN  server' \in {Wrote(left), [left EXCEPT !.session = None]}
    /\ UNCHANGED <<tab, page, calls>>
-----------------------------------------------------------------------------
(* An answer 401 forgets the login and, outside the login page, goes there. *)
Denied == \E c \in calls :
    /\ c.ans # None /\ c.ans.is = "denied"
    /\ Become(IF page.name = "login"
              THEN [Expelled(World) EXCEPT
                       !.calls = (@ \ {c}) \cup {[c EXCEPT !.ans.is = "fail"]}]
              ELSE Hydrate(ToLogin(Emptied(Expelled(World)))))
    /\ UNCHANGED server

(* Who is not logged in is sent to the login page, and who is, away. *)
Redirect ==
    /\ ~tab.loading
    /\ \/ tab.me = None /\ page.name # "login" /\ Become(ToLogin(World))
       \/ tab.me # None /\ page.name = "login"
          /\ \E at \in {WithBar(Leaving(World))} : Become(Mount(at, "dashboard", FALSE))
    /\ UNCHANGED server

LogoutLands == \E c \in Answered("logout") :
    /\ Become(Hydrate(ToLogin(Emptied(LoggedOut(c))))) /\ UNCHANGED server

(* What the page makes of what a hook has got, and then who waited for it. *)
PageLoaded(c, w) ==
    CASE page.name = "accounts" -> AccountsLoaded(c, w)
      [] page.name = "keys" -> KeysLoaded(c, w)
      [] page.name = "tasks" -> TasksLoaded(c, w)
      [] page.name = "settings" -> SettingsLoaded(c, w)
      [] page.name = "security" -> SecurityLoaded(c, w)
      [] page.name = "logs" -> LogsLoaded(c, w)
      [] page.name = "dashboard" -> DashboardLoaded(c, w)
      [] OTHER -> w

LoadLands == \E c \in Answered("load") :
    LET w == PageLoaded(c, LoadLanded(c))
        tag == IF c.then = None THEN None ELSE c.then[1]
    IN  /\ Become(CASE tag \in {"row", "bulk", "route"} -> AccountsThen(c, w)
                    [] tag = "comp" -> CompThen(c, w)
                    [] tag \in {"models", "probes"} -> ModelsThen(c, w)
                    [] tag = "round" -> DashboardThen(c, w)
                    [] OTHER -> w)
        /\ UNCHANGED server

Land == \/ LoadLands \/ WarmLands \/ MeLands \/ LoginLands \/ LogoutLands \/ CountLands
        \/ BalancesLand \/ Denied \/ Redirect
        \/ AccountsLand \/ AddStarted \/ Polled \/ AddCloses \/ KeysLand
        \/ TasksLand \/ CompLand \/ SettingsLand \/ TokensLands \/ PlaygroundLand \/ SaveRulesLands
        \/ Settle \/ SavedNow \/ RoundLands \/ VouchersLand
-----------------------------------------------------------------------------
Beats(w) == CASE w.page.name = "accounts" -> AccountsBeat(w)
              [] w.page.name = "keys" -> KeysBeat(w)
              [] w.page.name = "tasks" -> TasksBeat(w)
              [] w.page.name = "security" -> SecurityBeat(w)
              [] w.page.name = "logs" -> LogsBeat(w)
              [] w.page.name = "stats" -> StatsBeat(w)
              [] w.page.name = "dashboard" -> DashboardBeat(w)
              [] OTHER -> w

(* Every page that has one asks again at intervals, when it can be seen. *)
Beat ==
    /\ ~tab.hidden /\ page.name # "login"
    /\ calls = {} \/ tab.beats > 0
    /\ Become(Beats([World EXCEPT !.tab.beats = IF calls = {} THEN @ ELSE @ - 1]))
    /\ UNCHANGED server

(* A tab that is seen again asks at once. *)
Hide ==
    /\ CanClick
    /\ Become(IF tab.hidden THEN Beats([Clicked EXCEPT !.tab.hidden = FALSE])
              ELSE [Clicked EXCEPT !.tab.hidden = TRUE])
    /\ UNCHANGED server

(* What fails to be drawn takes the page and the bar with it, until the    *)
(* user tries again.                                                       *)
Crashed == page.name = "playground" /\ page.crashed
Retry ==
    /\ Crashed /\ CanClick
    /\ Become(PlaygroundMount(FetchCount(Leaving([Clicked EXCEPT !.tab.palette = FALSE,
                                                                 !.tab.add = NoAdd]))))
    /\ UNCHANGED server

Modal == \/ tab.add.open
         \/ page.name = "accounts" /\ AccountsModal
         \/ page.name = "keys" /\ KeysModal
         \/ page.name = "tasks" /\ TasksModal
         \/ page.name = "settings" /\ TokensModal
         \/ page.name = "logs" /\ LogsModal
         \/ page.name = "activity" /\ page.open
         \/ Crashed

(* The bar leads to another page; the browser, to this one once more. *)
Navigate == \E young \in BOOLEAN :
    /\ CanClick /\ page.name # "login"
    /\ \E name \in tab.goes \cup {page.name} :
          LET anew == name = page.name
              left == IF anew THEN Emptied(Clicked)
                      ELSE [Clicked EXCEPT !.tab.palette = FALSE, !.tab.slug = None]
              there == Arrive(left, name, young)
          IN  /\ anew \/ ~Modal
              /\ Become(IF anew THEN Hydrate(there) ELSE there)
    /\ UNCHANGED server

PickRealm ==
    /\ CanClick /\ page.name # "login" /\ ~Modal /\ ~tab.palette
    /\ \E r \in Realms \ {tab.realm}, young \in BOOLEAN :
          Become(CASE page.name = "settings" -> SettingsRealm(SwitchRealm(r))
                   [] page.name = "models" -> ModelsRealm(SwitchRealm(r), young)
                   [] page.name = "playground" -> PlaygroundRealm(SwitchRealm(r))
                   [] OTHER -> SwitchRealm(r))
    /\ UNCHANGED server

PageClick ==
    /\ CanClick /\ ~tab.palette /\ page.name # "login"
    /\ \/ (tab.add.open \/ ~Modal) /\ AddClick
       \/ /\ ~tab.add.open
          /\ \/ page.name = "accounts" /\ AccountsClick
             \/ page.name = "keys" /\ KeysClick
             \/ page.name = "tasks" /\ (TasksClick \/ CompClick)
             \/ page.name = "models" /\ ModelsClick
             \/ page.name = "playground" /\ PlaygroundClick
             \/ page.name = "security" /\ SecurityClick
             \/ page.name = "logs" /\ LogsClick
             \/ page.name = "stats" /\ StatsClick
             \/ page.name = "dashboard" /\ DashboardClick
             \/ page.name = "activity" /\ ActivityClick
             \/ /\ page.name = "settings"
                /\ TokensClick \/ (~TokensModal /\ (SwitchTab \/ SettingsClick))
    /\ UNCHANGED server

User == \/ SubmitLogin \/ Hide \/ Navigate \/ PickRealm \/ PageClick \/ Retry
        \/ ~Crashed /\ (Logout \/ TogglePalette \/ RefreshBalances)

Next == Serve \/ Fail \/ Outside \/ QueueEnds \/ Land \/ Beat \/ Tick \/ User

(* The server answers, its answers are taken up, and the heart beats, one  *)
(* of them after the other in some order.                                  *)
Spec == Init /\ [][Next]_vars /\ WF_vars(Serve \/ Land \/ Beat)
-----------------------------------------------------------------------------
(***************************************************************************)
(* Properties.                                                             *)
(***************************************************************************)

(***************************************************************************)
(* What a page shows through a cached hook (useCachedAsync of              *)
(* web/lib/data-cache.ts) is of the realm, the account or the view it is   *)
(* about now, and never a late answer for the one it was about before.  It *)
(* says nothing of what pages keep beside the hooks, which does take late  *)
(* answers (Keys.IpsLand, Tasks.Redetailed, Playground.PlayModelsLand).    *)
(***************************************************************************)
ViewIsOfKey == \A h \in DOMAIN page.hooks :
    page.hooks[h].data # None => page.hooks[h].data.key = page.hooks[h].key

(***************************************************************************)
(* Nothing stays locked: a button or a field that is closed because of a   *)
(* call has that call, or what follows it, still under way.                *)
(***************************************************************************)
LockHasItsCall ==
    CASE page.name = "login" -> page.busy => Pending({"login"})
      [] page.name = "accounts" -> AccountsLocks
      [] page.name = "keys" -> KeysLocks
      [] page.name = "tasks" -> TasksLocks /\ CompLocks
      [] page.name = "settings" -> SettingsLocks /\ TokensLocks
      [] page.name = "models" -> ModelsLocks
      [] page.name = "playground" -> PlaygroundLocks
      [] page.name = "security" -> SecurityLocks
      [] page.name = "logs" -> LogsLocks
      [] page.name = "stats" -> StatsLocks
      [] page.name = "dashboard" -> DashboardLocks
      [] page.name = "activity" -> ActivityLocks
      [] OTHER -> TRUE

(***************************************************************************)
(* A page that asks again by itself shows in the end what the server has,  *)
(* if it stays in view, whatever was lost on the way.                      *)
(***************************************************************************)
BeatHooks(p) ==
    CASE p.name \in {"accounts", "dashboard"} -> {"overview", "packages"}
      [] p.name = "keys" -> {"keys"}
      [] p.name = "security" -> {"locks"}
      [] p.name = "stats" -> {"usage", "native", "today"}
      [] p.name = "logs" /\ Follows(p) -> {p.list}
      [] OTHER -> {}
Watched == /\ BeatHooks(page) # {} /\ ~tab.hidden /\ tab.me # None /\ server.session # None
           /\ server.fails = 0
Fresh == /\ \A h \in BeatHooks(page) :
               page.hooks[h].data # None /\ page.hooks[h].data.ver = server.ver
         /\ page.name = "dashboard" => page.status = server.ver /\ page.usageAll = server.ver
EventuallyFresh == <>[]Watched => <>[]Fresh
=============================================================================
