----------------------------- MODULE AddAccount ------------------------------
(***************************************************************************)
(* The dialog that adds an account by a login elsewhere                    *)
(* (components/common/accounts/AddAccountDialog.tsx): it asks for a link,  *)
(* and then asks again and again whether somebody has used it.             *)
(***************************************************************************)
EXTENDS Accounts

CONSTANTS
    Regions,       \* the regions that are offered
    PollFailLimit  \* failures in a row after which it gives up

(* The interval that runs is the one "timer" names; "ticks" are those not  *)
(* cleared, each with the realm and the region it was set up for.          *)
NoAdd == [open |-> FALSE, phase |-> "loading", region |-> None, state |-> None, timer |-> None,
          ticks |-> <<>>, polling |-> FALSE, fails |-> 0, closing |-> FALSE]

StopPoll(w) ==
    [w EXCEPT !.tab.add.ticks = IF w.tab.add.timer = None THEN @ ELSE Without(@, w.tab.add.timer),
              !.tab.add.timer = None, !.tab.add.polling = FALSE]

StartAdd(w) ==
    Call([StopPoll(w) EXCEPT !.tab.add.fails = 0, !.tab.add.phase = "loading"],
         "addStart", <<w.tab.realm, w.tab.add.region>>)

(* Opened, or for another region: the old link is of no use. *)
AddClick ==
    \/ /\ ~tab.add.open /\ IsAdmin
       /\ Become(StartAdd([Clicked EXCEPT !.tab.add.open = TRUE]))
    \/ /\ tab.add.open
       /\ \/ Become(StopPoll([Clicked EXCEPT !.tab.add.open = FALSE]))
          \/ tab.add.phase = "error" /\ Become(StartAdd(Clicked))
          \/ /\ tab.realm = "global"
             /\ \E r \in Regions \ {tab.add.region} :
                   Become(StartAdd([Clicked EXCEPT !.tab.add.region = r]))

(* The answer sets an interval up, whether the dialog is still open or not. *)
AddStarted == \E c \in Answered("addStart") :
    LET free == CHOOSE n \in 0..Cardinality(DOMAIN tab.add.ticks) : n \notin DOMAIN tab.add.ticks
    IN  /\ Become(IF Ok(c)
                  THEN [After(c) EXCEPT !.tab.add.phase = "waiting", !.tab.add.state = c.ans.val.state,
                                        !.tab.add.ticks = With(@, free, c.arg),
                                        !.tab.add.timer = free]
                  ELSE [After(c) EXCEPT !.tab.add.phase = "error"])
        /\ UNCHANGED server

(* At an interval, and when the tab is seen again; one at a time. *)
Tick == \E n \in DOMAIN tab.add.ticks :
    /\ ~tab.hidden /\ ~tab.add.polling /\ tab.beats > 0
    /\ Become(Call([World EXCEPT !.tab.add.polling = TRUE, !.tab.beats = @ - 1], "addPoll",
                   tab.add.ticks[n] \o <<tab.add.state>>))
    /\ UNCHANGED server

Polled == \E c \in Answered("addPoll") :
    LET w == After(c)
        good == [w EXCEPT !.tab.add.fails = 0]
        bad == [w EXCEPT !.tab.add.fails = @ + 1]
        end(v, phase) == [StopPoll(v) EXCEPT !.tab.add.phase = phase]
        then == CASE Ok(c) /\ c.ans.val.done = "added" ->
                         AccountsChanged([end(good, "success") EXCEPT !.tab.add.closing = TRUE])
                  [] Ok(c) /\ c.ans.val.done # "added" -> good
                  [] OTHER -> IF bad.tab.add.fails >= PollFailLimit THEN end(bad, "error") ELSE bad
    IN  /\ Become([then EXCEPT !.tab.add.polling = FALSE])
        /\ UNCHANGED server

(* A moment later the dialog closes, whatever it shows by then. *)
AddCloses ==
    /\ tab.add.closing
    /\ Become(StopPoll([World EXCEPT !.tab.add.closing = FALSE, !.tab.add.open = FALSE]))
    /\ UNCHANGED server

AddServes(c) ==
    CASE c.op = "addStart" -> Reads([state |-> c.arg[1]])
      [] c.op = "addPoll" ->
           {Reply(server, "ok", [done |-> "waiting"])} \cup
           {Reply([Wrote(server) EXCEPT !.acct = With(@, u, [a EXCEPT !.realm = c.arg[3]])], "ok",
                  [done |-> "added"]) : u \in Names \ DOMAIN server.acct,
                                        a \in {server.acct[v] : v \in DOMAIN server.acct}}
=============================================================================
