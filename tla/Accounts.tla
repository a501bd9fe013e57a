------------------------------ MODULE Accounts ------------------------------
(***************************************************************************)
(* The accounts page of the panel (web/app/(main)/accounts/page.tsx): the  *)
(* list with its sorting, search and pages, what a row offers, the notes   *)
(* with their copy in the browser, the routes, and the batch operations.   *)
(***************************************************************************)
EXTENDS Shell, SequencesExt, FiniteSetsExt

CONSTANTS
    Uids,        \* what an account may be called, in the order the names sort
    Routes,      \* the routes that are configured
    PageSizes    \* the numbers of rows a page may have, the first one smallest

(* The order of the tiers is their order of precedence. *)
AvailabilityOf(a) ==
    CASE a.off -> 5
      [] a.manual -> 4
      [] a.cooling -> 2
      [] a.errs > 0 /\ a.oks = 0 -> 1
      [] OTHER -> 0

SortKeys == {"nickname", "status", "credits", "requests"}
DefaultDirFor(k) == IF k = "nickname" THEN "asc" ELSE "desc"

(* The dialogs of the page, closed. *)
NoWeight == [open |-> FALSE, uid |-> None, busy |-> FALSE]
NoImport == [open |-> FALSE, file |-> None, raw |-> None, done |-> FALSE, busy |-> FALSE]

AccountsMount(w, young) ==
    LET bare == [name |-> "accounts", visit |-> w.page.visit, hooks |-> <<>>,
                 busyUid |-> None, bulk |-> {}, checkedIn |-> {}, loadError |-> FALSE,
                 migrated |-> FALSE, notes |-> w.tab.notes, sort |-> w.tab.sort,
                 query |-> None, no |-> 1, size |-> w.tab.size, asking |-> None, removing |-> {},
                 popover |-> None, weight |-> NoWeight, import |-> NoImport,
                 exporting |-> FALSE]
        at == [w EXCEPT !.page = bare]
    IN  UseCached(UseCached(UseCached(at, "routes", "proxy_routes", young),
                            "overview", "overview", young), "packages", "packages", young)

AccountsBeat(w) == Refresh(Refresh(w, "overview"), "packages")

Accounts(p) == HookVal(p, "overview", "acct")
LiveCredits(p) == HookVal(p, "packages", "credits")
NotesOf(p, u) == IF Accounts(p)[u].note # None THEN Accounts(p)[u].note
                 ELSE IF u \in DOMAIN p.notes THEN p.notes[u] ELSE None
-----------------------------------------------------------------------------
(* Filtered by realm and search, sorted, and cut into pages. *)
Credits(p, u) == IF u \in DOMAIN LiveCredits(p) THEN LiveCredits(p)[u] ELSE Accounts(p)[u].credits

Names == {Uids[i] : i \in DOMAIN Uids}
Less(u, v) == \E i, j \in DOMAIN Uids : i < j /\ Uids[i] = u /\ Uids[j] = v

Before(p, k, dir, u, v) ==
    LET a == Accounts(p)[u]
        b == Accounts(p)[v]
        by(x, y, or) == IF x = y THEN or ELSE IF dir = "asc" THEN x < y ELSE x > y
    IN  CASE k = "status" -> by(AvailabilityOf(a), AvailabilityOf(b), Less(u, v))
          [] k = "requests" -> by(a.oks, b.oks, by(a.errs, b.errs, Less(u, v)))
          [] k = "nickname" -> IF dir = "asc" THEN Less(u, v) ELSE Less(v, u)
          [] k = "credits" /\ Credits(p, u) = None -> Credits(p, v) = None /\ Less(u, v)
          [] k = "credits" /\ Credits(p, v) = None -> TRUE
          [] OTHER -> by(Credits(p, u), Credits(p, v), Less(u, v))

Found(p, u) == \/ p.query \in {None, u, Accounts(p)[u].note}
               \/ u \in DOMAIN p.notes /\ p.query = p.notes[u]

Visible(p) == {u \in DOMAIN Accounts(p) : Accounts(p)[u].realm = tab.realm /\ Found(p, u)}

TotalPages(p) == Max({1, (Cardinality(Visible(p)) + p.size - 1) \div p.size})
SafePage(p) == Min({p.no, TotalPages(p)})

PageItems(p) ==
    LET all == SetToSortSeq(Visible(p), LAMBDA u, v : Before(p, p.sort[1], p.sort[2], u, v))
    IN  {all[i] : i \in {j \in DOMAIN all : (j - 1) \div p.size = SafePage(p) - 1}}

ToggleSort(k) ==
    LET flipped == IF page.sort[2] = "asc" THEN "desc" ELSE "asc"
        sort == <<k, IF page.sort[1] = k THEN flipped ELSE DefaultDirFor(k)>>
    IN  Become([Clicked EXCEPT !.page.sort = sort, !.tab.sort = sort])

Toolbar ==
    \/ \E q \in {None} \cup Names : q # page.query /\ Become([Clicked EXCEPT !.page.query = q, !.page.no = 1])
    \/ \E n \in PageSizes \ {page.size} :
          Become([Clicked EXCEPT !.page.size = n, !.page.no = 1, !.tab.size = n])
    \/ SafePage(page) > 1 /\ Become([Clicked EXCEPT !.page.no = SafePage(page) - 1])
    \/ SafePage(page) < TotalPages(page) /\ Become([Clicked EXCEPT !.page.no = SafePage(page) + 1])

(* Only where nothing can be shown is the error shown in its place. *)
ErrorShown == /\ page.loadError /\ ~page.hooks["overview"].loading
              /\ DOMAIN Accounts(page) = {}
-----------------------------------------------------------------------------
(***************************************************************************)
(* Notes.  The server's word counts; the browser keeps a copy for what the *)
(* server does not have, and once per visit hands such copies over.        *)
(***************************************************************************)
SyncLocalNote(c, w, u, text) ==
    LET put(f) == IF text = None THEN Without(f, u) ELSE With(f, u, text)
    IN  Shown(c, [w EXCEPT !.tab.notes = put(IF Mounted(c) THEN page.notes ELSE @)],
              [w.page EXCEPT !.notes = put(@)])

(* One push per note, and one more step when the last of them is back. *)
MigrateNotes(w) ==
    LET p == w.page
        pending == {u \in DOMAIN p.notes \cap DOMAIN Accounts(p) : Accounts(p)[u].note = None}
        push(u) == NewCall(w, p.visit, "moveNote", <<u, p.notes[u]>>, None)
    IN  IF p.migrated \/ p.hooks["overview"].loading \/ p.loadError THEN w
        ELSE IF pending = {}
             THEN [w EXCEPT !.page.migrated = TRUE, !.page.notes = <<>>, !.tab.notes = <<>>]
             ELSE [w EXCEPT !.page.migrated = TRUE,
                            !.tab.moving = With(@, p.visit, [left |-> Cardinality(pending),
                                                             bad |-> FALSE]),
                            !.calls = @ \cup {push(u) : u \in pending}]

NoteMoved == \E c \in Answered("moveNote") :
    LET was == tab.moving[c.visit]
        now == [left |-> was.left - 1, bad |-> was.bad \/ ~Ok(c)]
        last == now.left = 0
        w == [After(c) EXCEPT !.tab.moving = IF last THEN Without(@, c.visit)
                                             ELSE [@ EXCEPT ![c.visit] = now]]
    IN  /\ Become(IF last /\ ~now.bad
                  THEN Shown(c, [w EXCEPT !.tab.notes = <<>>], [page EXCEPT !.notes = <<>>])
                  ELSE w)
        /\ UNCHANGED server

(* Closing the editor does not stop a save; a new editor knows nothing of it. *)
OpenNote(u) ==
    Become([Clicked EXCEPT !.page.popover =
        [kind |-> "note", uid |-> u, draft |-> NotesOf(page, u), saving |-> FALSE,
         inst |-> tab.clicks]])

Popover(kind) == page.popover # None /\ page.popover.kind = kind /\ ~page.popover.saving

SaveNote ==
    /\ Popover("note") /\ page.popover.uid \in DOMAIN Accounts(page)
    /\ LET u == page.popover.uid
       IN  \E text \in {None, "new"} :
             /\ text # NotesOf(page, u) \/ (text = None /\ page.popover.draft # None)
             /\ Become(Call([Clicked EXCEPT !.page.popover.saving = TRUE,
                                            !.page.popover.draft = text],
                            "setNote", <<u, text, page.popover.inst>>))

ClosePopover == page.popover # None /\ Become([Clicked EXCEPT !.page.popover = None])

Saved(p, inst) == IF p.popover # None /\ p.popover.inst = inst
                  THEN [p EXCEPT !.popover.saving = FALSE] ELSE p

(* Saved or not, the text is kept in the browser; when the page is gone,   *)
(* React may or may not run the update that does it.                       *)
NoteSaved == \E c \in Answered("setNote"), runs \in BOOLEAN :
    LET w == IF runs THEN SyncLocalNote(c, After(c), c.arg[1], c.arg[2]) ELSE After(c)
    IN  /\ Mounted(c) => runs
        /\ Become(IF Mounted(c) THEN [w EXCEPT !.page = Saved(@, c.arg[3])] ELSE w)
        /\ UNCHANGED server
-----------------------------------------------------------------------------
(* What a row offers.  Only the account that is busy is locked. *)
RowOps == {"checkin", "balance", "clearCooldown", "revive", "disable", "remove"}

Offers(u) ==
    LET a == Accounts(page)[u]
        free == page.busyUid # u
    IN  {op \in RowOps :
            /\ IsAdmin
            /\ op = "remove" \/ free
            /\ op = "checkin" => a.realm = "cn" /\ ~a.off /\ u \notin page.checkedIn
            /\ op = "clearCooldown" => ~a.off
            /\ op = "revive" => a.off \/ a.manual
            /\ op = "disable" => ~a.off /\ ~a.manual
            /\ op = "remove" => u \notin page.removing}

Run(u, op) ==
    LET w == [Clicked EXCEPT !.page.busyUid = u,
                             !.page.asking = IF op = "remove" THEN u ELSE @,
                             !.page.removing = IF op = "remove" THEN @ \cup {u} ELSE @]
    IN  Become(Call(w, op, <<u, None>>))

(* The dialog of a removal closes with the end of the removal, or before. *)
Ran(w, u, op, ok) ==
    LET free == [w EXCEPT !.page.busyUid = None,
                          !.page.asking = IF op = "remove" /\ @ = u THEN None ELSE @,
                          !.page.removing = IF op = "remove" THEN @ \ {u} ELSE @]
    IN  IF ok THEN AccountsChanged(free) ELSE free

RowDone(c, w, u, op, ok) ==
    IF Mounted(c) THEN Ran(w, u, op, ok) ELSE IF ok THEN AccountsChanged(w) ELSE w

RowLands == \E c \in {d \in Arrived : d.op \in RowOps} :
    LET u == c.arg[1]
        w == After(c)
    IN  /\ Become(
              IF ~Ok(c) THEN RowDone(c, w, u, c.op, FALSE)
              ELSE IF c.op = "checkin" /\ c.ans.val.done = "already"
              THEN Shown(c, w, [page EXCEPT !.busyUid = None, !.checkedIn = @ \cup {u}])
              ELSE IF Sends(c, w, "overview", "overview")
              THEN Reload(c, w, "overview", "overview", <<"row", u, c.op>>)
              ELSE RowDone(c, w, u, c.op, TRUE))
        /\ UNCHANGED server

(* The operations on all accounts, each with a lock of its own. *)
BulkOps == {"balanceAll", "checkinAll", "renewAll"}
Bulk == {op \in BulkOps :
            /\ op \notin page.bulk /\ Visible(page) # {}
            /\ op # "balanceAll" => IsAdmin
            /\ op = "checkinAll" => tab.realm = "cn"}

StartBulk(op) == Become(Call([Clicked EXCEPT !.page.bulk = @ \cup {op}], op, <<None, "page">>))

BulkDone(c, w, op) == Shown(c, w, [w.page EXCEPT !.bulk = @ \ {op}])

BulkLands == \E c \in {d \in Arrived : d.op \in BulkOps /\ d.arg[2] = "page"} :
    /\ Become(IF Ok(c) /\ Sends(c, After(c), "overview", "overview")
              THEN Reload(c, After(c), "overview", "overview", <<"bulk", None, c.op>>)
              ELSE BulkDone(c, After(c), c.op))
    /\ UNCHANGED server

(* What waits for the refreshed list. *)
AccountsThen(c, w) ==
    CASE c.then = None -> w
      [] c.then[1] = "row" -> RowDone(c, w, c.then[2], c.then[3], Ok(c))
      [] c.then[1] = "bulk" -> BulkDone(c, w, c.then[3])
      [] c.then[1] = "route" -> Shown(c, w, Saved(w.page, c.then[2]))

(* A failed first load is remembered until somebody asks again. *)
AccountsLoaded(c, w) ==
    IF ~Mounted(c) THEN w
    ELSE MigrateNotes([w EXCEPT !.page.loadError = @ \/ (c.arg[1] = "overview" /\ ~Ok(c))])

ClearLoadError ==
    /\ ErrorShown
    /\ Become(MigrateNotes(Refresh([Clicked EXCEPT !.page.loadError = FALSE], "overview")))
-----------------------------------------------------------------------------
(* The route of an account is chosen in a popover that saves at once. *)
RouteOf(p, u) ==
    LET of == HookVal(p, "routes", "route") IN IF u \in DOMAIN of THEN of[u] ELSE None

OpenRoutes(u) ==
    /\ IsAdmin /\ page.hooks["routes"].data # None /\ Routes # {}
    /\ Become([Clicked EXCEPT !.page.popover =
           [kind |-> "route", uid |-> u, draft |-> None, saving |-> FALSE, inst |-> tab.clicks]])

SelectRoute ==
    /\ Popover("route")
    /\ \E r \in Routes \cup {None} :
          /\ r # RouteOf(page, page.popover.uid)
          /\ Become(Call([Clicked EXCEPT !.page.popover.saving = TRUE], "setRoute",
                         <<page.popover.uid, r, page.popover.inst>>))

RouteSet == \E c \in Answered("setRoute") :
    LET w == After(c)
    IN  /\ Become(IF Ok(c) /\ Sends(c, w, "routes", "proxy_routes")
                  THEN Reload(c, w, "routes", "proxy_routes", <<"route", c.arg[3]>>)
                  ELSE Shown(c, w, Saved(page, c.arg[3])))
        /\ UNCHANGED server

(***************************************************************************)
(* The weight dialog is one for all rows: opening it resets its lock, and  *)
(* the answer closes it, whoever it shows by then.                         *)
(***************************************************************************)
OpenWeight(u) ==
    /\ IsAdmin
    /\ Become([Clicked EXCEPT !.page.weight = [open |-> TRUE, uid |-> u, busy |-> FALSE]])

SaveWeight ==
    /\ page.weight.open /\ ~page.weight.busy
    /\ Become(Call([Clicked EXCEPT !.page.weight.busy = TRUE], "setWeight",
                   <<page.weight.uid, None>>))

WeightSet == \E c \in Answered("setWeight") :
    LET free == Shown(c, After(c), [page EXCEPT !.weight.busy = FALSE,
                                                !.weight.open = @ /\ ~Ok(c)])
    IN  /\ Become(IF Ok(c) THEN Reload(c, free, "overview", "overview", None) ELSE free)
        /\ UNCHANGED server

(* Reading the file that was picked takes time of its own. *)
OpenImport == IsAdmin /\ Become([Clicked EXCEPT !.page.import.open = TRUE])

CloseDialogs ==
    \/ page.asking # None /\ Become([Clicked EXCEPT !.page.asking = None])
    \/ page.weight.open /\ Become([Clicked EXCEPT !.page.weight.open = FALSE])
    \/ page.import.open /\ Become([Clicked EXCEPT !.page.import = [NoImport EXCEPT !.busy = page.import.busy]])

PickFile ==
    /\ page.import.open
    /\ \E f \in {"file1", "file2"} :
          Become(Call([Clicked EXCEPT !.page.import = [@ EXCEPT !.file = f, !.raw = None, !.done = FALSE]],
                      "readFile", <<f, None>>))

FileRead == \E c \in Answered("readFile") :
    /\ Become(IF Ok(c) THEN Shown(c, After(c), [page EXCEPT !.import.raw = c.arg[1]]) ELSE After(c))
    /\ UNCHANGED server

SubmitImport ==
    /\ page.import.open /\ ~page.import.busy /\ page.import.raw # None
    /\ Become(Call([Clicked EXCEPT !.page.import.busy = TRUE], "import", <<page.import.raw, None>>))

Imported == \E c \in Answered("import") :
    LET w == Shown(c, After(c), [page EXCEPT !.import.busy = FALSE, !.import.done = @ \/ Ok(c)])
    IN  /\ Become(IF Ok(c) /\ c.ans.val.done = "some"
                  THEN Reload(c, AccountsChanged(w), "overview", "overview", None) ELSE w)
        /\ UNCHANGED server

Export ==
    /\ IsAdmin /\ ~page.exporting /\ Visible(page) # {}
    /\ Become(Call([Clicked EXCEPT !.page.exporting = TRUE], "export", <<None, None>>))

Exported == \E c \in Answered("export") :
    Become(Shown(c, After(c), [page EXCEPT !.exporting = FALSE])) /\ UNCHANGED server
-----------------------------------------------------------------------------
(* What the server does with the calls of this page. *)
AccountsServes(c) ==
    LET u == c.arg[1]
        with(a) == Does([server EXCEPT !.acct[u] = a])
        old == server.acct[u]
    IN  CASE c.op \in RowOps \cup {"setNote", "moveNote", "setRoute", "setWeight"}
             /\ u \notin DOMAIN server.acct -> Refuses
          [] c.op = "checkin" -> {Reply(server, "ok", [done |-> "already"]), Reply(Wrote(server), "ok", [done |-> "now"])}
          [] c.op = "balance" -> Does(server)
          [] c.op = "clearCooldown" -> with([old EXCEPT !.cooling = FALSE])
          [] c.op = "revive" -> with([old EXCEPT !.off = FALSE, !.manual = FALSE, !.cooling = FALSE])
          [] c.op = "disable" -> with([old EXCEPT !.manual = TRUE])
          [] c.op = "remove" -> Does([server EXCEPT !.acct = Without(@, u)])
          [] c.op \in {"setNote", "moveNote"} -> with([old EXCEPT !.note = c.arg[2]])
          [] c.op = "setRoute" -> with([old EXCEPT !.route = c.arg[2]])
          [] c.op = "setWeight" -> with(old)
          [] c.op = "renewAll" -> Refuses \cup Does(server)
          [] c.op \in {"balanceAll", "checkinAll"} -> Does(server)
          [] c.op = "import" -> {Reply(server, "ok", [done |-> "none"]), Reply(Wrote(server), "ok", [done |-> "some"])}
          [] c.op \in {"export", "readFile"} -> Reads(None)

AccountsVal(k) ==
    CASE k = "overview" -> [acct |-> server.acct]
      [] k = "packages" -> [credits |-> [u \in DOMAIN server.acct |-> server.acct[u].credits]]
      [] k = "proxy_routes" -> [route |-> [u \in DOMAIN server.acct |-> server.acct[u].route]]

(* What keeps something of the page locked. *)
AccountsLocks ==
    /\ page.busyUid # None => Pending(RowOps) \/ Awaited("row")
    /\ \A op \in page.bulk : \E c \in calls :
           Mounted(c) /\ (Same(c, op, <<None, "page">>) \/ c.then = <<"bulk", None, op>>)
    /\ page.weight.busy => Pending({"setWeight"})
    /\ page.import.busy => Pending({"import"})

(* An open dialog covers the page. *)
AccountsModal == page.asking # None \/ page.weight.open \/ page.import.open

AccountsClick ==
    \/ /\ ~AccountsModal
       /\ \/ \E u \in PageItems(page) : \/ \E op \in Offers(u) : Run(u, op)
                                        \/ OpenNote(u) \/ OpenRoutes(u) \/ OpenWeight(u)
          \/ \E op \in Bulk : StartBulk(op)
          \/ \E k \in SortKeys : ToggleSort(k)
          \/ Toolbar \/ ClearLoadError \/ SaveNote \/ ClosePopover \/ SelectRoute
          \/ OpenImport \/ Export
    \/ CloseDialogs \/ SaveWeight \/ PickFile \/ SubmitImport

AccountsLand ==
    \/ NoteMoved \/ NoteSaved \/ RowLands \/ BulkLands \/ RouteSet \/ WeightSet
    \/ FileRead \/ Imported \/ Exported
=============================================================================
