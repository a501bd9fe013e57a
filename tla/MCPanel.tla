------------------------------- MODULE MCPanel -------------------------------
(***************************************************************************)
(* Panel for TLC: each page once as it is entered by somebody who was      *)
(* there before, and the panel as it is opened anew.                       *)
(***************************************************************************)
EXTENDS Panel

MCUids == <<"a", "b">>
Acct(r) == [realm |-> r, off |-> FALSE, manual |-> FALSE, cooling |-> FALSE, errs |-> 0, oks |-> 0,
            credits |-> 1, note |-> None, route |-> None]
MCKey == [name |-> "new", realm |-> "cn", quota |-> 0, models |-> {}, ends |-> None, on |-> TRUE,
          used |-> 0]
Configured == (<<"schedule">> :> [compensation_hours |-> "9", compensation_enabled |-> "false"])
              @@ (<<"logging">> :> [request_archive |-> "true"])
              @@ (<<"upstash">> :> [url |-> "here"])
MCEdits == {<<"logging", "request_retention_days", "9999">>, <<"logging", "request_archive", "false">>}
MCRuleEdits == {<<"blacklist", <<"there", "", "there">>>>, <<"hops", -5>>}

Card(realm, family, context, price) ==
    [realm |-> realm, bare |-> "bare", family |-> family, context |-> context,
     images |-> price = None, price |-> price]
MCCards == ("m" :> Card("cn", "glm", 131072, 2)) @@ ("n" :> Card("cn", "yi", 1, None))
           @@ ("g" :> Card("global", "gpt", 131071, 1))
MCEfforts == "m" :> <<"low", "high">>

Held == [acct |-> "a" :> Acct("cn"), keys |-> "k1" :> MCKey, task |-> "a" :> "pending",
         queue |-> "idle", records |-> TRUE, config |-> Configured, map |-> <<>>,
         models |-> ("cn" :> <<"m", "n">>) @@ ("global" :> <<"g">>), probes |-> "g" :> "ok",
         log |-> {[model |-> "m", ok |-> TRUE, time |-> 1, ip |-> "here", ua |-> "there",
                 says |-> {"m"}]},
         lines |-> {"line"}, archived |-> TRUE,
         rules |-> [blacklist |-> {}, whitelist |-> {"here"}, mode |-> FALSE, hops |-> 1],
         locks |-> {}, tokens |-> "t1" :> [scope |-> "admin", off |-> FALSE]]

Shot(k, val) == k :> [key |-> k, ver |-> 1, val |-> val]
Shots == Shot("overview", [acct |-> Held.acct]) @@ Shot("packages", [credits |-> "a" :> 1])
         @@ Shot("proxy_routes", [route |-> "a" :> None]) @@ Shot("tasks:scan", [growth |-> Held.task])
         @@ Shot("tasks:records:all", [records |-> "on"])
         @@ Shot("settings:config", [config |-> Configured])
         @@ Shot("settings:modelMap", [map |-> <<>>]) @@ Shot("settings:update", [latest |-> "v1"])
         @@ Shot("models:cn", [list |-> <<"m", "n">>, models |-> {"m", "n"}])
         @@ Shot("models:probes", [probes |-> Held.probes])
         @@ Shot("security", [rules |-> Held.rules])

(* Somebody comes back to a page; what is in the storage is of a moment    *)
(* ago.                                                                    *)
Used(p, slug, clicks, fails) ==
    [page |-> p, anew |-> FALSE, role |-> "admin", stored |-> "admin", store |-> Shots,
     private |-> FALSE, notes |-> <<>>, size |-> 1, slug |-> slug, clicks |-> clicks,
     fails |-> fails, changes |-> 0, beats |-> 0, goes |-> {}, holds |-> Held]

MCStarts ==
    { Used("accounts", None, 2, 0), Used("accounts", None, 1, 1), Used("tasks", None, 2, 0), Used("tasks", None, 1, 1),
      Used("settings", None, 2, 0), Used("settings", None, 1, 1),
      Used("settings", "tokens", 2, 0), Used("settings", "tokens", 1, 1),
      Used("keys", None, 3, 0), Used("keys", None, 2, 1), Used("models", None, 2, 1),
      Used("playground", None, 3, 0), Used("playground", None, 2, 1), Used("security", None, 2, 1),
      Used("logs", None, 2, 0), Used("logs", None, 1, 1), Used("stats", None, 2, 0),
      Used("stats", None, 1, 1), Used("activity", None, 3, 0),
      [Used("dashboard", None, 0, 0) EXCEPT !.beats = 1, !.changes = 1],
      [Used("dashboard", None, 1, 1) EXCEPT !.store = <<>>],
      \* the login has ended, or somebody else is at work
      [Used("keys", None, 1, 0) EXCEPT !.changes = 1],
      \* the panel is opened for the first time, and a note is in the storage
      [Used("accounts", None, 2, 0) EXCEPT !.anew = TRUE, !.role = None, !.stored = None,
          !.store = <<>>, !.notes = "a" :> "n", !.goes = {"accounts"}],
      \* there are no accounts yet: they are imported
      [Used("accounts", None, 3, 0) EXCEPT !.store = <<>>, !.holds.acct = <<>>, !.holds.task = <<>>],
      \* from one page to another
      [Used("security", None, 2, 0) EXCEPT !.goes = {"models", "keys"}, !.private = TRUE,
          !.beats = 1] }

(* What the first calls bring, they bring in one order, and nobody clicks  *)
(* before; an answer is taken up before the next is given.  The bar's      *)
(* dialog and palette are opened from two pages, and a reload comes last:  *)
(* one that comes first is another start.                                  *)
Rank(c) == CASE c.op = "load" -> Len(c.arg[2]) [] c.op = "warm" -> 40 [] OTHER -> 50
InTurn(served) == \A c \in served, d \in calls : Rank(c) <= Rank(d)

Click == tab'.clicks < tab.clicks
Loads == {c \in calls \ calls' : c.op \in {"load", "warm"}}
AtLeisure == page.name \in {"models", "keys", "security", "playground", "stats", "logs"}

Few == /\ Cardinality({c \in calls' : c.ans # None}) < 2
       /\ /\ page.name \in {"settings", "tasks"}
          /\ page.visit > 1 \/ tab.slug = "tokens" \/ (tab.clicks = 2 /\ tab'.clicks = 2)
          => InTurn(Loads)
       /\ page.name = "dashboard" /\ page.visit > 1 => InTurn(calls \ calls')
       /\ Click /\ ~AtLeisure => \A c \in calls : c.op # "load" \/ c.then # None
       /\ Click /\ ~Crashed /\ page'.name = page.name /\ page'.visit # page.visit => tab'.clicks = 0
       /\ (tab'.palette /\ ~tab.palette) \/ (tab'.add.open /\ ~tab.add.open)
          => page.name \in {"accounts", "keys"}
=============================================================================
