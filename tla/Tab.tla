--------------------------------- MODULE Tab ---------------------------------
(***************************************************************************)
(* One browser tab of the web panel: the mounted page, the cache of what   *)
(* was fetched (web/lib/data-cache.ts), and the calls in flight.  What the *)
(* server holds is one version number, which every write and every change  *)
(* from outside raises; an answer carries the version it was made from.    *)
(*                                                                         *)
(* A handler maps a world to a world: what is in the tab, the page and the *)
(* calls before it, and after it.  A call is answered in one step and its  *)
(* continuation runs in a later one, in any order.                         *)
(***************************************************************************)
EXTENDS Naturals, FiniteSets, Sequences, TLC

CONSTANT None

VARIABLES
    server,   \* the session it knows, its data and their version, the failures left
    tab,      \* the cache, the login, the realm, what outlives a page, the clicks left
    page,     \* the page that is mounted
    calls     \* calls in flight: what for, of which visit, and the answer if any

vars == <<server, tab, page, calls>>

World == [tab |-> tab, page |-> page, calls |-> calls]

Become(w) == \E next \in {w} : tab' = next.tab /\ page' = next.page /\ calls' = next.calls
-----------------------------------------------------------------------------
Same(c, op, arg) == c.op = op /\ c.arg = arg

(* The call is told from others of its kind by the smallest free number;   *)
(* "then" is what waits for it.                                            *)
NewCall(w, visit, op, arg, then) ==
    LET taken == {c.n : c \in {d \in w.calls : Same(d, op, arg)}}
        free == CHOOSE i \in 0..Cardinality(taken) : i \notin taken
                    /\ \A j \in 0..i - 1 : j \in taken
    IN  [op |-> op, arg |-> arg, then |-> then, visit |-> visit, n |-> free, ans |-> None]

CallFor(w, visit, op, arg, then) ==
    [w EXCEPT !.calls = @ \cup {NewCall(w, visit, op, arg, then)}]

Call(w, op, arg) == CallFor(w, w.page.visit, op, arg, None)

(* An answer 401 is nobody's: it ends the visit. *)
Arrived == {c \in calls : c.ans # None /\ c.ans.is # "denied"}
Answered(op) == {c \in Arrived : c.op = op}
InFlight(op, arg) == {c \in calls : Same(c, op, arg)}
Ok(c) == c.ans.is = "ok"

(* The world as the continuation of c finds it. *)
After(c) == [World EXCEPT !.calls = @ \ {c}]

(* React drops what a component that is gone sets. *)
Mounted(c) == c.visit = page.visit
Shown(c, w, new) == IF Mounted(c) THEN [w EXCEPT !.page = new] ELSE w

(* What a lock of the page waits for: a call, or what follows it. *)
Pending(ops) == \E c \in calls : Mounted(c) /\ c.op \in ops
Awaited(tag) == \E c \in calls : Mounted(c) /\ c.then # None /\ c.then[1] = tag

CanClick == tab.clicks > 0
Clicked == [World EXCEPT !.tab.clicks = @ - 1]
-----------------------------------------------------------------------------
With(f, k, v) == [x \in DOMAIN f \cup {k} |-> IF x = k THEN v ELSE f[x]]
Without(f, k) == [x \in DOMAIN f \ {k} |-> f[x]]

(* The memory first, and then the storage of the session. *)
PeekCache(t, k) == IF k \in DOMAIN t.mem THEN t.mem[k]
                   ELSE IF k \in DOMAIN t.store THEN t.store[k] ELSE None

(* What is read from the storage is kept in memory. *)
Backfill(t, k) == IF PeekCache(t, k) = None THEN t
                  ELSE [t EXCEPT !.mem = With(@, k, PeekCache(t, k))]

PutCache(t, k, data) == [t EXCEPT !.mem = With(@, k, data),
                                  !.store = IF t.private THEN @ ELSE With(@, k, data)]

InvalidateCache(t, k) == [t EXCEPT !.mem = Without(@, k), !.store = Without(@, k)]
ClearAllCache(t) == [t EXCEPT !.mem = <<>>, !.store = <<>>]

(***************************************************************************)
(* useCachedAsync.  A hook has the key its data belongs to, and the key of *)
(* the request it waits for: a second request for the same key is dropped, *)
(* one for another key takes the lock over.                                *)
(***************************************************************************)
Idle(w, h) == w.page.hooks[h].busy # w.page.hooks[h].key

RefreshThen(w, h, then) ==
    LET k == w.page.hooks[h].key
    IN  IF Idle(w, h)
        THEN CallFor([w EXCEPT !.page.hooks[h].busy = k, !.page.hooks[h].refreshing = TRUE],
                     w.page.visit, "load", <<h, k>>, then)
        ELSE w

Refresh(w, h) == RefreshThen(w, h, None)

(***************************************************************************)
(* The continuation of c refreshes h, and "then" waits for the answer if a *)
(* request is sent.  A page that is gone still sends it.                   *)
(***************************************************************************)
Sends(c, w, h, k) ==
    IF Mounted(c) THEN Idle(w, h)
    ELSE \A d \in w.calls : ~(d.visit = c.visit /\ Same(d, "load", <<h, k>>))

Reload(c, w, h, k, then) ==
    IF ~Sends(c, w, h, k) THEN w
    ELSE IF Mounted(c) THEN RefreshThen(w, h, then)
         ELSE CallFor(w, c.visit, "load", <<h, k>>, then)

(* A snapshot younger than its time to live is not fetched again. *)
Enter(w, h, k, busy, refreshing, young) ==
    LET hit == PeekCache(w.tab, k)
        at == [w EXCEPT !.tab = Backfill(@, k),
                        !.page.hooks = With(@, h, [key |-> k, data |-> hit, loading |-> hit = None,
                                                   refreshing |-> refreshing, busy |-> busy])]
    IN  IF hit # None /\ young THEN at ELSE Refresh(at, h)

UseCached(w, h, k, young) == Enter(w, h, k, None, FALSE, young)

Rekey(w, h, k, young) ==
    LET hook == w.page.hooks[h]
    IN  IF hook.key = k THEN w ELSE Enter(w, h, k, hook.busy, hook.refreshing, young)

(* The answer goes to the cache of its own key, and to the view only if    *)
(* the view still has that key.                                            *)
MutShowsAny(hook, k, ok, data) ==
    LET shown == [hook EXCEPT !.data = IF ok THEN data ELSE @]
    IN  IF hook.busy = k
        THEN [shown EXCEPT !.busy = None, !.refreshing = FALSE, !.loading = FALSE]
        ELSE shown

MutBusyAfterFailure(hook, k, ok, data) ==
    LET shown == [hook EXCEPT !.data = IF ok /\ hook.key = k THEN data ELSE @]
    IN  IF ok /\ hook.busy = k
        THEN [shown EXCEPT !.busy = None, !.refreshing = FALSE, !.loading = FALSE]
        ELSE shown

Fetched(hook, k, ok, data) ==
    LET shown == [hook EXCEPT !.data = IF ok /\ hook.key = k THEN data ELSE @]
    IN  IF hook.busy = k
        THEN [shown EXCEPT !.busy = None, !.refreshing = FALSE, !.loading = FALSE]
        ELSE shown

Data(c) == [key |-> c.arg[2], ver |-> c.ans.ver, val |-> c.ans.val]

LoadLanded(c) ==
    LET put == IF Ok(c) THEN [After(c) EXCEPT !.tab = PutCache(@, c.arg[2], Data(c))]
                        ELSE After(c)
    IN  IF Mounted(c)
        THEN [put EXCEPT !.page.hooks[c.arg[1]] = Fetched(@, c.arg[2], Ok(c), Data(c))]
        ELSE put

HookVal(p, h, field) == IF p.hooks[h].data = None THEN <<>> ELSE p.hooks[h].data.val[field]

(* Only the memory is looked at: after a reload everything is warmed. *)
WarmCache(w, keys) ==
    LET one(k) == [op |-> "warm", arg |-> <<None, k>>, then |-> None,
                   visit |-> w.page.visit, n |-> 0, ans |-> None]
    IN  [w EXCEPT !.calls = @ \cup {one(k) : k \in keys \ DOMAIN w.tab.mem}]

WarmLands == \E c \in Answered("warm") :
    /\ Become(IF Ok(c) THEN [After(c) EXCEPT !.tab = PutCache(@, c.arg[2], Data(c))]
                       ELSE After(c))
    /\ UNCHANGED server
-----------------------------------------------------------------------------
(* What the server may do with a call: its state after it, and the answer. *)
Reply(s, is, val) == [server |-> s, is |-> is, val |-> val]
Wrote(s) == [s EXCEPT !.ver = @ + 1]
Reads(val) == {Reply(server, "ok", val)}
Does(s) == {Reply(Wrote(s), "ok", None)}
Refuses == {Reply(server, "fail", None)}
=============================================================================
