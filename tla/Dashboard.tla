------------------------------ MODULE Dashboard ------------------------------
(***************************************************************************)
(* The dashboard (web/app/(main)/dashboard/page.tsx): the accounts and     *)
(* their packages, which it shares with the accounts page, and what the    *)
(* gateway says of itself and of the use, which come with each round; and  *)
(* the activity page (web/app/(main)/activity/page.tsx): the vouchers of   *)
(* an event that is over.                                                  *)
(***************************************************************************)
EXTENDS Shell

(***************************************************************************)
(* A round asks for four things and shows its two when the last of the     *)
(* four is back, whatever became of it.  What is under way already is not  *)
(* asked for and not waited for.                                           *)
(***************************************************************************)
LoadRound(w) ==
    LET rounds == w.page.rounds
        n == CHOOSE i \in 0..Cardinality(DOMAIN rounds) : i \notin DOMAIN rounds
                 /\ \A j \in 0..i - 1 : j \in DOMAIN rounds
        ask(part) == [op |-> part, arg |-> <<None, n>>, then |-> None, visit |-> w.page.visit,
                      n |-> 0, ans |-> None]
        left == {"status", "usageAll"} \cup {h \in {"overview", "packages"} : Idle(w, h)}
        sent == RefreshThen(RefreshThen(w, "overview", <<"round", n>>),
                            "packages", <<"round", n>>)
    IN  [sent EXCEPT
            !.calls = @ \cup {ask("status"), ask("usageAll")},
            !.page.rounds = With(@, n, [left |-> left, status |-> None, usageAll |-> None])]

DashboardMount(w, young) ==
    LET at == [w EXCEPT !.page =
            [name |-> "dashboard", visit |-> w.page.visit, hooks |-> <<>>, loadError |-> FALSE,
             rounds |-> <<>>, status |-> None, usageAll |-> None]]
    IN  LoadRound(UseCached(UseCached(at, "overview", "overview", young),
                            "packages", "packages", young))

DashboardBeat(w) == LoadRound(Refresh(w, "overview"))

(* The part of round n the call c brings, and the end of the round. *)
Settled(c, w, n, part) ==
    LET was == w.page.rounds[n]
        left == was.left \ {part}
        now == IF Ok(c) /\ part \in {"status", "usageAll"}
               THEN [was EXCEPT !.left = left, ![part] = c.ans.ver]
               ELSE [was EXCEPT !.left = left]
        shown(old, new) == IF new = None THEN old ELSE new
    IN  IF left # {} THEN [w EXCEPT !.page.rounds[n] = now]
        ELSE [w EXCEPT !.page.rounds = Without(@, n),
                       !.page.status = shown(@, now.status),
                       !.page.usageAll = shown(@, now.usageAll)]

RoundLands == \E c \in {d \in Arrived : d.op \in {"status", "usageAll"}} :
    /\ Become(IF Mounted(c) THEN Settled(c, After(c), c.arg[2], c.op) ELSE After(c))
    /\ UNCHANGED server

DashboardThen(c, w) == IF Mounted(c) THEN Settled(c, w, c.then[2], c.arg[1]) ELSE w

(* Only the accounts' failure is told, and where there is nothing to show. *)
DashboardLoaded(c, w) ==
    IF Mounted(c) /\ c.arg[1] = "overview" /\ ~Ok(c) THEN [w EXCEPT !.page.loadError = TRUE] ELSE w

DashboardClick ==
    /\ page.loadError /\ ~page.hooks["overview"].loading /\ page.hooks["overview"].data = None
    /\ Become(Refresh([Clicked EXCEPT !.page.loadError = FALSE], "overview"))

(* A round that is not over has the calls it waits for under way. *)
DashboardLocks == \A n \in DOMAIN page.rounds :
    /\ page.rounds[n].left # {}
    /\ \A part \in page.rounds[n].left : \E c \in calls :
          Mounted(c) /\ (Same(c, part, <<None, n>>) \/ (c.arg[1] = part /\ c.then = <<"round", n>>))
-----------------------------------------------------------------------------
ActivityMount(w) ==
    [w EXCEPT !.page = [name |-> "activity", visit |-> w.page.visit, hooks |-> <<>>,
                        open |-> FALSE, busy |-> FALSE, vouchers |-> None]]

(* Each opening asks once more, and does not know of the one before. *)
OpenVouchers == /\ ~page.open
                /\ Become(Call([Clicked EXCEPT !.page.open = TRUE, !.page.busy = TRUE],
                               "vouchers", <<None, None>>))

VouchersLand == \E c \in Answered("vouchers") :
    /\ Become(Shown(c, After(c), [page EXCEPT !.busy = FALSE,
                                              !.vouchers = IF Ok(c) THEN c.ans.ver ELSE @]))
    /\ UNCHANGED server

ActivityClick == OpenVouchers \/ (page.open /\ Become([Clicked EXCEPT !.page.open = FALSE]))
ActivityLocks == page.busy => Pending({"vouchers"})
=============================================================================
