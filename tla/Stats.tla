-------------------------------- MODULE Stats --------------------------------
(***************************************************************************)
(* The statistics page (web/app/(main)/stats/page.tsx): the window or the  *)
(* range what was used is summed over, the sums of today, the gateway's    *)
(* own, and writing them down at once.                                     *)
(***************************************************************************)
EXTENDS Logs

CONSTANT Windows    \* the windows there is a choice of; the page begins with 72 hours

(* The range that is typed, if it is one. *)
CustomRange(p) ==
    IF p.hours # "custom" \/ None \in {p.from, p.to} \/ Backwards(p.from, p.to) THEN None
    ELSE [from |-> p.from, to |-> p.to]

(* While what is typed is no range, the last one that was stays. *)
EffRange(p) ==
    CASE p.hours # "custom" -> None
      [] CustomRange(p) # None -> CustomRange(p)
      [] OTHER -> p.applied

UsageKey(p) ==
    LET r == EffRange(p)
    IN  "stats:usage:" \o IF r = None THEN p.hours ELSE AsText(r.from) \o "-" \o AsText(r.to)

StatsMount(w, young) ==
    LET bare == [name |-> "stats", visit |-> w.page.visit, hooks |-> <<>>, hours |-> "72",
                 from |-> None, to |-> None, applied |-> None, saving |-> FALSE]
        at == [w EXCEPT !.page = bare]
    IN  UseCached(UseCached(UseCached(at, "usage", UsageKey(bare), young),
                            "native", "stats:native", young), "today", "stats:usage:today", young)

StatsBeat(w) == Refresh(Refresh(Refresh(w, "usage"), "native"), "today")

(* The view after a change of the window or of what is typed. *)
Rewindow(w, young) ==
    LET at == [w EXCEPT !.page.applied = IF CustomRange(w.page) = None THEN @ ELSE CustomRange(w.page)]
    IN  Rekey(at, "usage", UsageKey(at.page), young)

(* The first time, the fields are filled with the day that ends now. *)
PickWindow == \E h \in (Windows \cup {"custom"}) \ {page.hours}, young \in BOOLEAN :
    LET at == [Clicked EXCEPT !.page.hours = h]
        fill == h = "custom" /\ page.from = None /\ page.to = None
    IN  \E from, to \in Instants :
           /\ from < to
           /\ Become(Rewindow(IF fill THEN [at EXCEPT !.page.from = from, !.page.to = to] ELSE at,
                              young))

TypeRange == \E v \in {None} \cup Instants, young \in BOOLEAN :
    /\ page.hours = "custom"
    /\ \/ v # page.from /\ Become(Rewindow([Clicked EXCEPT !.page.from = v], young))
       \/ v # page.to /\ Become(Rewindow([Clicked EXCEPT !.page.to = v], young))

SaveNow == /\ ~page.saving
           /\ Become(Call([Clicked EXCEPT !.page.saving = TRUE], "saveUsage", <<None, None>>))

SavedNow == \E c \in Answered("saveUsage") :
    Become(Shown(c, After(c), [page EXCEPT !.saving = FALSE])) /\ UNCHANGED server

StatsClick == PickWindow \/ TypeRange \/ SaveNow
StatsLocks == page.saving <=> Pending({"saveUsage"})
=============================================================================
