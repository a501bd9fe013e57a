-------------------------------- MODULE Tokens -------------------------------
(***************************************************************************)
(* The tab of the access tokens (components/settings/TokensTab.tsx): a     *)
(* list of its own, fetched when the tab is shown and after each change;   *)
(* what is left of it is forgotten when another tab is shown.              *)
(***************************************************************************)
EXTENDS Settings

CONSTANT TokenIds    \* the tokens there may be

NoTokens == [list |-> <<>>, loading |-> FALSE, error |-> FALSE, rowBusy |-> None,
             formOpen |-> FALSE, name |-> "", scope |-> "readonly", busy |-> FALSE,
             issued |-> None, asking |-> None, inst |-> 0]

(* The list is shown by the tab that asked for it, if it is still there. *)
LoadTokens(w, visit, inst, then) ==
    LET shown == w.page.visit = visit /\ w.page.tokens # None /\ w.page.tokens.inst = inst
    IN  CallFor(IF shown THEN [w EXCEPT !.page.tokens.loading = TRUE] ELSE w,
                visit, "tokens", <<inst, then>>, None)

TokensMount(w) ==
    LoadTokens([w EXCEPT !.page.tokens = [NoTokens EXCEPT !.inst = w.tab.clicks]],
               w.page.visit, w.tab.clicks, None)

(* The address may name this tab. *)
TokensTab(w) == IF w.page.slug = "tokens" THEN TokensMount(w) ELSE w

OnTab(c, p) == Mounted(c) /\ page.tokens # None /\ page.tokens.inst = c.arg[1]
TabShows(c, w, new) == IF OnTab(c, page) THEN [w EXCEPT !.page.tokens = new] ELSE w

SwitchTab == \E slug \in SettingsTabs \ {page.slug} :
    LET at == [Clicked EXCEPT !.page.slug = slug, !.tab.slug = slug, !.page.tokens = None]
    IN  Become(IF slug = "tokens" THEN TokensMount(at) ELSE at)

(* What held a lock until the list is there lets it go. *)
MutFreed(t, tag) == CASE tag = "create" -> [t EXCEPT !.busy = FALSE]
                      [] tag = "remove" -> [t EXCEPT !.asking = None]
                      [] OTHER -> t

Freed(t, tag) == CASE tag = "create" -> [t EXCEPT !.busy = FALSE]
                   [] tag = "row" -> [t EXCEPT !.rowBusy = None]
                   [] tag = "remove" -> [t EXCEPT !.asking = None]
                   [] tag = None -> t

(* The last list to come is shown, not the last to be asked for. *)
TokensLand == \E c \in Answered("tokens") :
    LET t == Freed([page.tokens EXCEPT !.loading = FALSE, !.error = ~Ok(c),
                                       !.list = IF Ok(c) THEN c.ans.val.tokens ELSE @], c.arg[2])
    IN  /\ Become(TabShows(c, After(c), t))
        /\ UNCHANGED server

(* A token with no name is not made, and one is made at a time. *)
CreateToken ==
    /\ page.tokens.formOpen /\ ~page.tokens.busy
    /\ \E scope \in {"readonly", "admin"} :
          Become(Call([Clicked EXCEPT !.page.tokens.name = "new", !.page.tokens.scope = scope,
                                      !.page.tokens.busy = TRUE],
                      "tokenCreate", <<page.tokens.inst, scope>>))

TokenCreated == \E c \in Answered("tokenCreate") :
    LET t == page.tokens
        made == [t EXCEPT !.issued = c.ans.val.plaintext, !.formOpen = FALSE, !.name = "",
                          !.scope = "readonly"]
    IN  /\ Become(IF Ok(c) THEN LoadTokens(TabShows(c, After(c), made), c.visit, c.arg[1], "create")
                  ELSE TabShows(c, After(c), [t EXCEPT !.busy = FALSE]))
        /\ UNCHANGED server

(* A row is switched, one row at a time; it is removed from a dialog. *)
ToggleToken(i) ==
    /\ page.tokens.rowBusy = None
    /\ Become(Call([Clicked EXCEPT !.page.tokens.rowBusy = i], "tokenToggle",
                   <<page.tokens.inst, i, ~page.tokens.list[i].off>>))

RemoveToken(i) ==
    Become(Call([Clicked EXCEPT !.page.tokens.asking = i], "tokenRemove", <<page.tokens.inst, i>>))

TokenChanged == \E c \in Answered("tokenToggle") \cup Answered("tokenRemove") :
    LET tag == IF c.op = "tokenToggle" THEN "row" ELSE "remove"
    IN  /\ Become(IF Ok(c) THEN LoadTokens(After(c), c.visit, c.arg[1], tag)
                  ELSE TabShows(c, After(c), Freed(page.tokens, tag)))
        /\ UNCHANGED server

TokensModal == /\ page.tokens # None
               /\ page.tokens.formOpen \/ page.tokens.issued # None \/ page.tokens.asking # None

TokensClick ==
    /\ page.tokens # None
    /\ LET t == page.tokens
           none == t.list = <<>>
       IN  \/ /\ ~TokensModal
              /\ \/ Become([Clicked EXCEPT !.page.tokens.formOpen = TRUE])
                 \/ /\ none /\ t.error /\ ~t.loading
                    /\ Become(LoadTokens(Clicked, page.visit, t.inst, None))
                 \/ \E i \in DOMAIN t.list : ToggleToken(i) \/ RemoveToken(i)
           \/ CreateToken
           \/ t.formOpen /\ Become([Clicked EXCEPT !.page.tokens.formOpen = FALSE])
           \/ t.issued # None /\ Become([Clicked EXCEPT !.page.tokens.issued = None])

TokensLands == TokensLand \/ TokenCreated \/ TokenChanged

TokensLocks ==
    LET held(ops, tag) == \E c \in calls : /\ c.op \in ops \/ (c.op = "tokens" /\ c.arg[2] = tag)
                                           /\ Mounted(c) /\ c.arg[1] = page.tokens.inst
    IN  page.tokens # None =>
          /\ page.tokens.busy => held({"tokenCreate"}, "create")
          /\ page.tokens.rowBusy # None => held({"tokenToggle"}, "row")
          /\ page.tokens.asking # None => held({"tokenRemove"}, "remove")

(* Only an administrator's calls have an effect. *)
TokensServes(c) ==
    CASE c.op = "tokens" -> Reads([tokens |-> server.tokens])
      [] c.op # "tokens" /\ server.session # "admin" -> Refuses
      [] c.op = "tokenCreate" ->
           {Reply([Wrote(server) EXCEPT !.tokens = With(@, i, [scope |-> c.arg[2], off |-> FALSE])],
                  "ok", [plaintext |-> i]) : i \in TokenIds \ DOMAIN server.tokens} \cup Refuses
      [] c.arg[2] \notin DOMAIN server.tokens -> Refuses
      [] c.op = "tokenToggle" -> Does([server EXCEPT !.tokens[c.arg[2]].off = c.arg[3]])
      [] c.op = "tokenRemove" -> Does([server EXCEPT !.tokens = Without(@, c.arg[2])])
=============================================================================
