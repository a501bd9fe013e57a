------------------------------- MODULE Settings ------------------------------
(***************************************************************************)
(* The settings page of the panel (components/settings/settings-context.tsx*)
(* and the tabs over it): a form in groups over one configuration, each    *)
(* group saved on its own, the same configuration as a text, the mirror's  *)
(* address, the map of models, and the check for a new version.            *)
(***************************************************************************)
EXTENDS Shell, SettingsFields

CONSTANTS
    Groups,     \* the groups of the form
    Edits,      \* what is typed: a group, a field, a text
    Aliases     \* the names a model may be given

SettingsTabs == {"config", "models", "tokens", "system", "about"}

(* What an address names, and what is shown if it names nothing. *)
TabFromSearch(slug) == IF slug \in SettingsTabs THEN slug ELSE "config"

LoadModels(w, visit, reload, then) ==
    LET hit == PeekCache(w.tab, "models:" \o w.tab.realm)
    IN  IF ~reload /\ hit # None /\ hit.val.models # {}
        THEN [w EXCEPT !.page.models = hit.val.models]
        ELSE CallFor(w, visit, "modelNames", <<None, None>>, then)
-----------------------------------------------------------------------------
(***************************************************************************)
(* A configuration that arrives is laid over the form, except the groups   *)
(* that differ from what was there before: "seen" is the form they are     *)
(* told by.                                                                *)
(***************************************************************************)
ApplyConfig(p, config, seen) ==
    LET picked == [g \in Groups |-> PickValues(g, ConfigAtPath(config, PathOf(g)))]
        dirty == {g \in Groups : seen[g] # p.original[g]}
        url == ConfigAtPath(config, <<"upstash">>)["url"]
    IN  [p EXCEPT !.cfg = config, !.original = picked, !.raw = None,
                  !.form = [g \in Groups |-> IF g \in dirty THEN p.form[g] ELSE picked[g]],
                  !.upstash = [url |-> url, token |-> ""], !.upstashUrl = url]

(* What waits for a load is let go. *)
Release(p, then) ==
    CASE then = None -> p
      [] then \in {"save", "json"} -> [p EXCEPT !.busy = FALSE]
      [] then = "upstash" -> [p EXCEPT !.upstashBusy = FALSE]
      [] OTHER -> [p EXCEPT !.reloading = @ - 1, !.busy = p.reloading > 1]

(* The form that load compares with is the one of the page's first sight.  *)
Loaded(w, got, then) ==
    LET applied == IF got.config = None THEN w.page
                   ELSE ApplyConfig(w.page, got.config.val.config, EmptyForm(Groups))
    IN  [w EXCEPT !.page =
            Release([applied EXCEPT !.modelMap = IF got.map = None THEN @ ELSE got.map.val.map,
                                    !.update = IF got.update = None THEN @ ELSE got.update.val.latest],
                    then)]

Nothing == [config |-> None, map |-> None, update |-> None]
Sources == {"config", "map", "update"}
SettingsKey == [config |-> "settings:config", map |-> "settings:modelMap",
                update |-> "settings:update"]

(* All three are asked for, except the ones that are being fetched already,*)
(* and it goes on when all have come.                                      *)
LoadSettings(w, then) ==
    LET sent == {h \in Sources : Idle(w, h)}
        id == CHOOSE i \in 0..Cardinality(DOMAIN w.page.loads) : i \notin DOMAIN w.page.loads
        at == [w EXCEPT !.page.loads =
                   With(@, id, [left |-> Cardinality(sent), got |-> Nothing, then |-> then])]
    IN  IF sent = {} THEN Loaded(w, Nothing, then)
        ELSE LET ask(v, h) == IF h \in sent THEN RefreshThen(v, h, <<"settings", id>>) ELSE v
             IN  ask(ask(ask(at, "config"), "map"), "update")

(* What a hook has got is shown: the configuration once, the others each   *)
(* time.                                                                   *)
Has(w, h) == w.page.hooks[h].data # None
ShowConfig(w) ==
    IF Has(w, "config") /\ w.page.cfg = None
    THEN [w EXCEPT !.page = ApplyConfig(@, @.hooks["config"].data.val.config, @.form)] ELSE w
ShowMap(w) ==
    IF Has(w, "map") THEN [w EXCEPT !.page.modelMap = w.page.hooks["map"].data.val.map] ELSE w
ShowUpdate(w) ==
    IF Has(w, "update") THEN [w EXCEPT !.page.update = w.page.hooks["update"].data.val.latest] ELSE w
ShowHooks(w) == ShowUpdate(ShowMap(ShowConfig(w)))

SettingsMount(w, young, slug) ==
    LET bare == [name |-> "settings", visit |-> w.page.visit, hooks |-> <<>>,
                 slug |-> TabFromSearch(slug), cfg |-> None, form |-> EmptyForm(Groups),
                 original |-> EmptyForm(Groups), advanced |-> FALSE, raw |-> None,
                 upstash |-> [url |-> "", token |-> ""], upstashUrl |-> "",
                 upstashBusy |-> FALSE, busy |-> FALSE, reloading |-> 0, loads |-> <<>>,
                 modelMap |-> <<>>, models |-> {}, update |-> None, updateBusy |-> FALSE,
                 toast |-> None, tokens |-> None]
        use(v, h) == UseCached(v, h, SettingsKey[h], young)
    IN  LoadModels(LoadSettings(ShowHooks(use(use(use([w EXCEPT !.page = bare],
                        "config"), "map"), "update")), None), w.page.visit, FALSE, None)

(* Another realm has other models, and everything is asked for again. *)
SettingsRealm(w) == LoadModels(LoadSettings(w, None), w.page.visit, FALSE, None)

SettingsLoaded(c, w) ==
    LET h == c.arg[1]
        shown == IF ~Ok(c) THEN w
                 ELSE CASE h = "config" -> ShowConfig(w)
                        [] h = "map" -> ShowMap(w)
                        [] OTHER -> ShowUpdate(w)
        id == c.then[2]
        load == [w.page.loads[id] EXCEPT !.left = @ - 1,
                                         !.got[h] = IF Ok(c) THEN Data(c) ELSE None]
    IN  IF ~Mounted(c) THEN w
        ELSE IF c.then = None THEN shown
        ELSE IF load.left > 0 THEN [shown EXCEPT !.page.loads[id] = load]
        ELSE Loaded([shown EXCEPT !.page.loads = Without(@, id)], load.got, load.then)

(* A page that is gone still asks for what it would have shown. *)
LoadAgain(c, w, then) ==
    IF Mounted(c) THEN LoadSettings(w, then)
    ELSE LET ask(v, h) == Reload(c, v, h, SettingsKey[h], None)
         IN  ask(ask(ask(w, "config"), "map"), "update")
-----------------------------------------------------------------------------
CfgReady == page.cfg # None
IsDirty(g) == page.form[g] # page.original[g]
MayEdit == IsAdmin /\ CfgReady /\ page.slug = "config"

SetField == \E e \in Edits :
    /\ page.form[e[1]][e[2]] # e[3]
    /\ Become([Clicked EXCEPT !.page.form[e[1]][e[2]] = e[3]])

ResetGroup(g) == Become([Clicked EXCEPT !.page.form[g] = page.original[g]])

(* Only what was changed is sent, and nothing if any of it is out of form. *)
Changed(g) == {k \in KeysOf(g) : page.form[g][k] # page.original[g][k]}
GroupOk(g) == \A k \in Changed(g) :
    LET f == FieldOf(g, k) IN FieldOk(f, page.form[g][k]) /\ PairOk(f, page.form[g])

SaveGroup(g) ==
    LET patch == [k \in Changed(g) |-> ToWire(FieldOf(g, k), page.form[g][k])]
    IN  Become(IF GroupOk(g)
               THEN Call([Clicked EXCEPT !.page.busy = TRUE], "saveConfig",
                         <<NestPatch(PathOf(g), patch), "save">>)
               ELSE [Clicked EXCEPT !.page.toast = "invalid"])

(* The configuration as a text: a change somewhere in it, or no text of a  *)
(* configuration at all.                                                   *)
EditRaw == /\ page.raw = None
           /\ \E e \in Edits \cup {<<>>} : Become([Clicked EXCEPT !.page.raw = e])

SaveJson ==
    /\ page.raw # None
    /\ LET e == page.raw
           path == PathOf(e[1])
           whole == [page.cfg EXCEPT ![path] = With(@, e[2], e[3])]
       IN  Become(IF e = <<>> THEN [Clicked EXCEPT !.page.toast = "invalid"]
                  ELSE Call([Clicked EXCEPT !.page.busy = TRUE], "saveConfig", <<whole, "json">>))

(* The mirror's address, and a token that is never shown. *)
UpstashDirty == page.upstash.url # page.upstashUrl \/ page.upstash.token # ""

EditUpstash ==
    \/ \E url \in {"", "elsewhere"} \ {page.upstash.url} : Become([Clicked EXCEPT !.page.upstash.url = url])
    \/ page.upstash.token = "" /\ Become([Clicked EXCEPT !.page.upstash.token = "secret"])

SaveUpstash ==
    LET form == page.upstash
        patch == ("url" :> form.url) @@ (IF form.token = "" THEN <<>> ELSE "token" :> form.token)
    IN  Become(IF form.url = "" THEN [Clicked EXCEPT !.page.toast = "invalid"]
               ELSE Call([Clicked EXCEPT !.page.upstashBusy = TRUE], "saveConfig",
                         <<NestPatch(<<"upstash">>, patch), "upstash">>))

TestUpstash ==
    Become(Call([Clicked EXCEPT !.page.upstashBusy = TRUE], "testUpstash", <<page.upstash, None>>))

UpstashTested == \E c \in Answered("testUpstash") :
    Become(Shown(c, After(c), [page EXCEPT !.upstashBusy = FALSE])) /\ UNCHANGED server

(* Saved: what was said of it, and everything is fetched again.  The lock  *)
(* is held until it is there.                                              *)
ConfigSaved == \E c \in Answered("saveConfig") :
    LET kind == c.arg[2]
        restart == CASE kind = "save" -> NeedsRestartBySection(c.ans.val.restart)
                     [] kind = "json" -> c.ans.val.restart # {}
                     [] kind = "upstash" -> <<"upstash">> \in c.ans.val.restart
        said == [page EXCEPT !.toast = IF restart THEN "restart" ELSE "saved",
                             !.upstash.token = IF kind = "upstash" THEN "" ELSE @]
        failed == [Release(page, kind) EXCEPT !.toast = "failed"]
    IN  /\ Become(IF Ok(c) THEN LoadAgain(c, Shown(c, After(c), said), kind)
                  ELSE Shown(c, After(c), failed))
        /\ UNCHANGED server
-----------------------------------------------------------------------------
(* The whole map is sent, as it is here with one entry more or less. *)
SaveModelMap ==
    /\ IsAdmin /\ page.slug = "models"
    /\ \E next \in {With(page.modelMap, a, m) : a \in Aliases, m \in page.models}
                    \cup {Without(page.modelMap, a) : a \in DOMAIN page.modelMap} :
          Become(Call(Clicked, "saveMap", <<next, "settings:modelMap">>))

(* The map as the server has it by now is what the cache keeps of it. *)
ModelMapSaved == \E c \in Answered("saveMap") :
    /\ Become(IF Ok(c)
              THEN Shown(c, [After(c) EXCEPT !.tab = PutCache(@, c.arg[2], Data(c))],
                         [page EXCEPT !.modelMap = c.ans.val.map])
              ELSE After(c))
    /\ UNCHANGED server

ModelNamesLand == \E c \in Answered("modelNames") :
    LET names == IF Ok(c) THEN c.ans.val.models ELSE {}
    IN  /\ Become(Shown(c, After(c), Release([page EXCEPT !.models = names], c.then)))
        /\ UNCHANGED server

Recheck ==
    /\ page.slug = "system" /\ ~page.updateBusy
    /\ Become(Call([Clicked EXCEPT !.page.updateBusy = TRUE], "recheck", <<None, None>>))

Rechecked == \E c \in Answered("recheck") :
    /\ Become(Shown(c, After(c), [page EXCEPT !.updateBusy = FALSE,
                                              !.update = IF Ok(c) THEN c.ans.val.latest ELSE @]))
    /\ UNCHANGED server

ReloadAll ==
    /\ ~page.busy
    /\ LET at == [Clicked EXCEPT !.page.busy = TRUE, !.page.reloading = 2]
       IN  Become(LoadModels(LoadSettings(at, "reload"), page.visit, TRUE, "reload"))

SettingsClick ==
    \/ MayEdit /\ (SetField \/ EditRaw \/ EditUpstash)
    \/ /\ MayEdit /\ ~page.busy
       /\ SaveJson \/ \E g \in Groups : IsDirty(g) /\ (ResetGroup(g) \/ SaveGroup(g))
    \/ /\ IsAdmin /\ page.slug = "config" /\ ~page.upstashBusy
       /\ TestUpstash \/ (CfgReady /\ UpstashDirty /\ SaveUpstash)
    \/ SaveModelMap \/ Recheck \/ ReloadAll

SettingsLand == UpstashTested \/ ConfigSaved \/ ModelMapSaved \/ ModelNamesLand \/ Rechecked

SettingsLocks ==
    /\ page.busy => \/ Pending({"saveConfig", "modelNames"})
                    \/ \E id \in DOMAIN page.loads : page.loads[id].then \in {"save", "json", "reload"}
    /\ page.upstashBusy => \/ Pending({"saveConfig", "testUpstash"})
                           \/ \E id \in DOMAIN page.loads : page.loads[id].then = "upstash"
    /\ page.updateBusy => Pending({"recheck"})
    /\ \A id \in DOMAIN page.loads :
          page.loads[id].left = Cardinality({c \in calls :
              c.op = "load" /\ Mounted(c) /\ c.then = <<"settings", id>>})
-----------------------------------------------------------------------------
(* The server merges what it is sent into what it has, part by part, and   *)
(* lists what it only reads when it starts: always all of it.              *)
RestartRequired ==
    {<<"upstream", "timeout_seconds">>, <<"session_sticky", "ttl">>, <<"global", "enabled">>,
     <<"prompt", "mode">>, <<"schedule", "random_delay_minutes">>, <<"logging", "request_archive">>}

Merged(config, patch) ==
    [path \in DOMAIN config \cup DOMAIN patch |->
        IF path \in DOMAIN patch THEN patch[path] @@ ConfigAtPath(config, path) ELSE config[path]]

SettingsServes(c) ==
    CASE c.op = "saveConfig" ->
           {Reply([Wrote(server) EXCEPT !.config = Merged(@, c.arg[1])], "ok",
                  [restart |-> RestartRequired \cup {<<"upstash">>}])} \cup Refuses
      [] c.op = "testUpstash" -> Reads(None) \cup Refuses
      [] c.op = "saveMap" -> {Reply([Wrote(server) EXCEPT !.map = c.arg[1]], "ok", [map |-> c.arg[1]])}
      [] c.op = "modelNames" -> Reads([models |-> UNION {{server.models[r][i] : i \in DOMAIN server.models[r]} : r \in Realms}])
      [] c.op = "recheck" -> Reads([latest |-> "v2"])

SettingsVal(k) ==
    CASE k = "settings:config" -> [config |-> server.config]
      [] k = "settings:modelMap" -> [map |-> server.map]
      [] k = "settings:update" -> [latest |-> "v1"]
=============================================================================
