-------------------------------- MODULE Shell --------------------------------
(***************************************************************************)
(* What outlives a page of the panel: the login (lib/auth-context.tsx,     *)
(* login/page.tsx), the realm (lib/realm-context.tsx), the heartbeat, the  *)
(* bar with its count of accounts and the command palette.                 *)
(***************************************************************************)
EXTENDS Tab

CONSTANT Realms

Roles == {"admin", "viewer"}
IsAdmin == tab.me = "admin"

(* The first two pages' data, fetched before the first page asks for it. *)
WarmTargets == {"packages", "overview"}

(* A full load of the page: what was in memory is gone, with the calls. *)
Reloaded(w) ==
    [w EXCEPT !.tab.mem = <<>>, !.tab.me = None, !.tab.loading = TRUE, !.tab.realm = w.tab.saved,
              !.tab.count = None, !.tab.palette = FALSE, !.tab.moving = <<>>, !.calls = {}]

(* After the first effects of the page the cached login is shown at once   *)
(* and checked.                                                            *)
Hydrate(w) ==
    LET cached == w.tab.stored
        asked == Call(w, "me", <<None, None>>)
    IN  IF cached = None THEN asked
        ELSE WarmCache([asked EXCEPT !.tab.me = cached, !.tab.loading = FALSE], WarmTargets)

LoginMount(w) ==
    [w EXCEPT !.page = [name |-> "login", visit |-> w.page.visit, hooks |-> <<>>,
                        busy |-> FALSE, error |-> FALSE]]

(* Whatever goes wrong, the answer to "who am I" decides. *)
Refreshed(c) ==
    LET me == IF Ok(c) THEN c.ans.val.role ELSE None
    IN  [After(c) EXCEPT !.tab.me = me, !.tab.stored = me, !.tab.loading = FALSE]

MeLands == \E c \in Answered("me") : Become(Refreshed(c)) /\ UNCHANGED server

(* An empty name or password is not sent. *)
SubmitLogin ==
    /\ page.name = "login" /\ ~page.busy /\ CanClick
    /\ \/ Become([Clicked EXCEPT !.page.error = TRUE])
       \/ Become(Call([Clicked EXCEPT !.page.error = FALSE, !.page.busy = TRUE],
                      "login", <<None, None>>))
    /\ UNCHANGED server

(* Whoever was logged in before leaves nothing behind. *)
LoggedIn(c) ==
    LET me == c.ans.val.role
        in == [After(c) EXCEPT !.tab = ClearAllCache([@ EXCEPT !.me = me, !.stored = me,
                                                               !.loading = FALSE])]
    IN  WarmCache(Shown(c, in, [page EXCEPT !.busy = FALSE]), WarmTargets)

LoginLands == \E c \in Answered("login") :
    /\ Become(IF Ok(c) THEN LoggedIn(c)
              ELSE Shown(c, After(c), [page EXCEPT !.busy = FALSE, !.error = TRUE]))
    /\ UNCHANGED server

Logout ==
    /\ page.name # "login" /\ tab.me # None /\ CanClick
    /\ Become(Call(Clicked, "logout", <<None, None>>)) /\ UNCHANGED server

(* Failed or not: the tab is logged out and the cache is empty. *)
LoggedOut(c) ==
    [After(c) EXCEPT !.tab = ClearAllCache([@ EXCEPT !.me = None, !.stored = None])]

(* An answer 401 forgets the cached login. *)
Expelled(w) == [w EXCEPT !.tab.stored = None]

ShellServes(c) ==
    CASE c.op = "me" -> IF server.session = None THEN Refuses ELSE Reads([role |-> server.session])
      [] c.op = "login" -> Refuses \cup {Reply([server EXCEPT !.session = r], "ok", [role |-> r]) : r \in Roles}
      [] c.op = "logout" -> {Reply([server EXCEPT !.session = None], "ok", None)}
      [] c.op = "count" -> Reads([acct |-> server.acct])
      [] c.op = "balanceAll" -> Does(server)
-----------------------------------------------------------------------------
SwitchRealm(r) == [Clicked EXCEPT !.tab.realm = r, !.tab.saved = r]

(***************************************************************************)
(* The bar counts the accounts when it appears and when a page says that   *)
(* they have changed; what the cache says is taken for the answer.         *)
(***************************************************************************)
FetchCount(w) ==
    LET hit == PeekCache(w.tab, "overview")
    IN  IF hit = None THEN Call(w, "count", <<None, None>>)
        ELSE [w EXCEPT !.tab = [Backfill(@, "overview") EXCEPT
                                    !.count = Cardinality(DOMAIN hit.val.acct)]]

AccountsChanged(w) == IF w.page.name = "login" THEN w ELSE FetchCount(w)

CountLands == \E c \in Answered("count") :
    /\ Become([After(c) EXCEPT !.tab.count = IF Ok(c) THEN Cardinality(DOMAIN c.ans.val.acct) ELSE None])
    /\ UNCHANGED server

(* The palette closes before what was chosen in it is done. *)
TogglePalette ==
    /\ page.name # "login" /\ CanClick
    /\ Become([Clicked EXCEPT !.tab.palette = ~@]) /\ UNCHANGED server

RefreshBalances ==
    /\ tab.palette /\ CanClick
    /\ Become(Call([Clicked EXCEPT !.tab.palette = FALSE], "balanceAll", <<None, "palette">>))
    /\ UNCHANGED server

BalancesLand == \E c \in Answered("balanceAll") :
    /\ c.arg[2] = "palette"
    /\ Become(IF Ok(c) THEN AccountsChanged(After(c)) ELSE After(c))
    /\ UNCHANGED server
=============================================================================
