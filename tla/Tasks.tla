-------------------------------- MODULE Tasks --------------------------------
(***************************************************************************)
(* The tasks page of the panel (web/app/(main)/tasks/page.tsx): what the   *)
(* accounts have left to do, the queue that does it, which is polled, one  *)
(* account's tasks, the records of what came in, and the card of the daily *)
(* compensation (components/common/tasks/CompensationCard.tsx).            *)
(***************************************************************************)
EXTENDS Shell, SettingsFields

(* Of what a task says of itself, the first that holds is shown. *)
Task(s) == [claimed |-> s = "claimed", claimable |-> s = "claimable", locked |-> s = "locked"]
StatusLabel(t) == CASE t.claimed -> "claimed"
                    [] ~t.claimed /\ t.claimable -> "claimable"
                    [] ~t.claimed /\ ~t.claimable /\ t.locked -> "locked"
                    [] OTHER -> "pending"
TaskOffers(t) == (IF t.claimable THEN {"claim"} ELSE {})
                 \cup (IF ~t.claimed /\ ~t.locked THEN {"auto"} ELSE {})

RecordsKey(u) == "tasks:records:" \o u

(* The state of the queue, for whoever waits for it. *)
LoadQueue(w, visit, then) == CallFor(w, visit, "queue", <<None, None>>, then)

LoadRecords(w) == Refresh([w EXCEPT !.page.unavailable = FALSE], "records")

LoadTasks(w) == LoadRecords(LoadQueue(Refresh(w, "scan"), w.page.visit, None))

TasksMount(w, young) ==
    LET bare == [name |-> "tasks", visit |-> w.page.visit, hooks |-> <<>>,
                 selected |-> "all", epoch |-> 0, detail |-> <<>>, detailBusy |-> FALSE,
                 queue |-> None, queueBusy |-> FALSE, cancelBusy |-> FALSE, asking |-> None,
                 autoAll |-> None, recordsUid |-> "all", unavailable |-> FALSE,
                 polling |-> FALSE, hours |-> None, comp |-> None]
        scan == UseCached([w EXCEPT !.page = bare], "scan", "tasks:scan", young)
        records == UseCached(scan, "records", RecordsKey("all"), young)
        overview == UseCached(records, "overview", "overview", young)
    IN  UseCached(LoadTasks(overview), "config", "settings:config", young)

Growth(p) == HookVal(p, "scan", "growth")

(* The queue is polled for ever; when nobody looks, a turn is skipped. *)
TasksBeat(w) ==
    IF w.page.polling THEN w
    ELSE LoadQueue([w EXCEPT !.page.polling = TRUE], w.page.visit, <<"poll">>)

(* A fetch of the queue that failed leaves what is shown as it is. *)
QueueLands == \E c \in Answered("queue") :
    LET shown == IF Ok(c) THEN [page EXCEPT !.queue = c.ans.val.queue] ELSE page
        tag == IF c.then = None THEN None ELSE c.then[1]
    IN  /\ Become(Shown(c, After(c),
              [shown EXCEPT !.polling = IF tag = "poll" THEN FALSE ELSE @,
                            !.queueBusy = IF tag = "start" THEN FALSE ELSE @,
                            !.cancelBusy = IF tag = "cancel" THEN FALSE ELSE @,
                            !.asking = IF @ = tag THEN None ELSE @]))
        /\ UNCHANGED server
-----------------------------------------------------------------------------
(* One account's tasks are fetched when it is selected, and the answer is  *)
(* dropped when another one is by then.                                    *)
Select(w, u) ==
    LET at == [w EXCEPT !.page.selected = u, !.page.epoch = tab.clicks]
    IN  IF u = "all" THEN [at EXCEPT !.page.detail = <<>>]
        ELSE Call([at EXCEPT !.page.detailBusy = TRUE], "detail", <<u, at.page.epoch>>)

DetailLands == \E c \in Answered("detail") :
    /\ Become(Shown(c, After(c),
          IF c.arg[2] # page.epoch THEN page
          ELSE [page EXCEPT !.detailBusy = FALSE,
                            !.detail = IF Ok(c) THEN c.ans.val.tasks ELSE <<>>]))
    /\ UNCHANGED server

(* What is done to one task, and then its account's tasks are fetched if   *)
(* the account was selected when it was asked for.                         *)
OnTask(u, op) == Become(Call(Clicked, op, <<u, page.selected = u>>))

TaskDone == \E c \in Answered("claim") \cup Answered("auto") :
    LET w == After(c)
    IN  /\ Become(IF ~Ok(c) THEN w
                  ELSE IF c.arg[2] THEN CallFor(w, c.visit, "redetail", <<c.arg[1], None>>, None)
                  ELSE Reload(c, w, "scan", "tasks:scan", None))
        /\ UNCHANGED server

(* The list is replaced, whoever is selected by now. *)
Redetailed == \E c \in Answered("redetail") :
    LET w == After(c)
    IN  /\ Become(IF Ok(c)
                  THEN Reload(c, Shown(c, w, [page EXCEPT !.detail = c.ans.val.tasks]),
                              "scan", "tasks:scan", None)
                  ELSE w)
        /\ UNCHANGED server
-----------------------------------------------------------------------------
(* The queue is started and stopped from a dialog, once it is confirmed. *)
StartQueue ==
    /\ IsAdmin /\ tab.realm = "cn" /\ ~page.queueBusy
    /\ page.queue # None => page.queue = "idle"
    /\ Become(Call([Clicked EXCEPT !.page.queueBusy = TRUE, !.page.asking = "start"],
                   "runQueue", <<None, None>>))

CancelQueue ==
    /\ IsAdmin /\ page.queue = "running" /\ ~page.cancelBusy
    /\ Become(Call([Clicked EXCEPT !.page.cancelBusy = TRUE, !.page.asking = "cancel"],
                   "cancelQueue", <<None, None>>))

QueueAsked == \E c \in Answered("runQueue") \cup Answered("cancelQueue") :
    LET tag == IF c.op = "runQueue" THEN "start" ELSE "cancel"
        free == [page EXCEPT !.queueBusy = IF tag = "start" THEN FALSE ELSE @,
                             !.cancelBusy = IF tag = "cancel" THEN FALSE ELSE @,
                             !.asking = IF @ = tag THEN None ELSE @]
    IN  /\ Become(IF Ok(c) THEN LoadQueue(After(c), c.visit, <<tag>>)
                  ELSE Shown(c, After(c), free))
        /\ UNCHANGED server

(* Everything one account can do by itself, one account at a time. *)
AutoAll(u) ==
    /\ page.autoAll = None
    /\ Become(Call([Clicked EXCEPT !.page.autoAll = u], "autoAll", <<u, None>>))

AutoAllDone == \E c \in Answered("autoAll") :
    LET free == Shown(c, After(c), [page EXCEPT !.autoAll = None])
    IN  /\ Become(LoadQueue(Reload(c, free, "scan", "tasks:scan", None), c.visit, None))
        /\ UNCHANGED server

(* Where the server keeps no records, that is what is shown. *)
TasksLoaded(c, w) ==
    IF Mounted(c) /\ c.arg[1] = "records" /\ Ok(c) /\ c.ans.val.records = "off"
    THEN [w EXCEPT !.page.unavailable = TRUE] ELSE w

(* Records of another account: everything that is shown is fetched again. *)
PickRecords(u) ==
    LET at == [Clicked EXCEPT !.page.recordsUid = u, !.page.unavailable = FALSE]
    IN  \E young \in BOOLEAN : Become(LoadTasks(Rekey(at, "records", RecordsKey(u), young)))
-----------------------------------------------------------------------------
TasksModal == page.asking # None

ScanBusy == page.hooks["scan"].loading \/ page.hooks["scan"].refreshing
RecordsBusy == page.hooks["records"].loading \/ page.hooks["records"].refreshing

(* An account is listed if it has something to do. *)
ScanOptions == {u \in DOMAIN Growth(page) : Growth(page)[u] # "claimed"}
FilteredScan == IF page.selected = "all" THEN ScanOptions ELSE ScanOptions \cap {page.selected}

TasksClick ==
    \/ /\ ~TasksModal
       /\ \/ ~ScanBusy /\ IsAdmin /\ tab.realm = "cn" /\ Become(Refresh(Clicked, "scan"))
          \/ StartQueue \/ CancelQueue
          \/ \E u \in {"all"} \cup ScanOptions : u # page.selected /\ Become(Select(Clicked, u))
          \/ IsAdmin /\ \E u \in FilteredScan :
                \/ AutoAll(u)
                \/ u = page.selected /\ Become(Select(Clicked, "all"))
          \/ /\ IsAdmin /\ page.selected # "all" /\ ~page.detailBusy
             /\ \E u \in DOMAIN page.detail : \E op \in TaskOffers(Task(page.detail[u])) :
                   OnTask(page.selected, op)
          \/ \E u \in ({"all"} \cup DOMAIN HookVal(page, "overview", "acct")) \ {page.recordsUid} :
                PickRecords(u)
          \/ ~RecordsBusy /\ ~page.unavailable /\ Become(LoadRecords(Clicked))
    \/ TasksModal /\ Become([Clicked EXCEPT !.page.asking = None])

TasksLand == QueueLands \/ DetailLands \/ TaskDone \/ Redetailed \/ QueueAsked \/ AutoAllDone

(* What keeps something of the page locked. *)
TasksLocks ==
    /\ page.queueBusy => Pending({"runQueue"}) \/ Awaited("start")
    /\ page.cancelBusy => Pending({"cancelQueue"}) \/ Awaited("cancel")
    /\ page.polling => Awaited("poll")
    /\ page.autoAll # None => Pending({"autoAll"})
    /\ page.detailBusy /\ page.selected # "all" => Pending({"detail"})
-----------------------------------------------------------------------------
(* The server: every account of the Chinese edition has a task. *)
TasksServes(c) ==
    LET u == c.arg[1]
        known == u \in DOMAIN server.task
        done(s) == Does([server EXCEPT !.task[u] = s])
    IN  CASE c.op = "queue" -> Reads([queue |-> server.queue])
          [] c.op = "runQueue" ->
               IF server.queue = "running" \/ \A v \in DOMAIN server.task : server.task[v] = "claimed"
               THEN Reads(None) ELSE Does([server EXCEPT !.queue = "running"])
          [] c.op = "cancelQueue" -> Does([server EXCEPT !.queue = "idle"])
          [] c.op \in {"detail", "redetail", "auto", "claim", "autoAll"} /\ ~known -> Refuses
          [] c.op \in {"detail", "redetail"} -> Reads([tasks |-> [v \in {u} |-> server.task[v]]])
          [] c.op = "claim" -> done("claimed")
          [] c.op = "auto" -> Reads(None) \cup done("claimable")
          [] c.op = "autoAll" -> done("claimed")

(* The queue goes on by itself and comes to its end. *)
QueueEnds ==
    /\ server.queue = "running"
    /\ server' = [Wrote(server) EXCEPT !.queue = "idle",
                                       !.task = [u \in DOMAIN @ |-> "claimed"]]
    /\ UNCHANGED <<tab, page, calls>>

TasksVal(k) ==
    IF k = "tasks:scan" THEN [growth |-> server.task]
    ELSE [records |-> IF server.records THEN "on" ELSE "off"]
-----------------------------------------------------------------------------
(***************************************************************************)
(* The compensation: a switch, the hours, and a run at once.  It shares    *)
(* the settings' copy of the configuration.                                *)
(***************************************************************************)
HoursTyped == {"9", "x"}

Schedule(p) == ConfigAtPath(p.hooks["config"].data.val.config, <<"schedule">>)
ServerHours == Schedule(page)["compensation_hours"]
ShownHours == IF page.hours = None THEN ServerHours ELSE page.hours
HoursDirty == page.hours # None /\ page.hours # ServerHours

(* One thing at a time, and none before the configuration is there. *)
CanEdit == IsAdmin /\ page.hooks["config"].data # None /\ page.comp = None

SaveComp(field, value, kind) ==
    Become(Call([Clicked EXCEPT !.page.comp = kind], "saveComp", <<kind, field, value>>))

CompClick ==
    /\ ~TasksModal /\ CanEdit
    /\ \/ Become(Call([Clicked EXCEPT !.page.comp = "run"], "compRun", <<None, None>>))
       \/ SaveComp("compensation_enabled",
                   IF Schedule(page)["compensation_enabled"] = "true" THEN "false" ELSE "true", "toggle")
       \/ \E text \in HoursTyped \ {ShownHours} : Become([Clicked EXCEPT !.page.hours = text])
       \/ HoursDirty /\ Become([Clicked EXCEPT !.page.hours = None])
       \/ /\ HoursDirty /\ ParseHours(ShownHours, TRUE)
          /\ SaveComp("compensation_hours", ShownHours, "hours")

(* The hours that were typed are forgotten when they are saved, and only   *)
(* then; the lock is held until the configuration is there again.          *)
CompSaved == \E c \in Answered("saveComp") :
    LET w == After(c)
        kept == IF Ok(c) /\ c.arg[1] = "hours"
                THEN Shown(c, w, [page EXCEPT !.hours = None]) ELSE w
    IN  /\ Become(IF Ok(c) /\ Sends(c, kept, "config", "settings:config")
                  THEN Reload(c, kept, "config", "settings:config", <<"comp">>)
                  ELSE Shown(c, kept, [kept.page EXCEPT !.comp = None]))
        /\ UNCHANGED server

CompRan == \E c \in Answered("compRun") :
    Become(Shown(c, After(c), [page EXCEPT !.comp = None])) /\ UNCHANGED server

CompThen(c, w) ==
    IF c.then = <<"comp">> THEN Shown(c, w, [w.page EXCEPT !.comp = None]) ELSE w

CompLand == CompSaved \/ CompRan

CompLocks == page.comp # None => Pending({"saveComp", "compRun"}) \/ Awaited("comp")

CompServes(c) ==
    CASE c.op = "saveComp" -> Does([server EXCEPT !.config[<<"schedule">>][c.arg[2]] = c.arg[3]])
      [] c.op = "compRun" -> Refuses \cup Does(server)
=============================================================================
