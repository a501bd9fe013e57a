------------------------------- MODULE Security ------------------------------
(***************************************************************************)
(* The security page (web/app/(main)/security/page.tsx): the rules on      *)
(* addresses and their draft, what was refused, and the models that are    *)
(* locked.                                                                 *)
(***************************************************************************)
EXTENDS Shell, SequencesExt

CONSTANT RuleEdits    \* what is typed into the draft: a field and what it holds then

(* A text is the sequence of its entries; a number, what it is in tenths.  *)
RuleLines(text) == ToSet(text) \ {""}
FromLines(list) == SetToSeq(list)
Hops(typed) == IF typed = None \/ typed < 0 THEN 0 ELSE typed \div 10

DraftFromRules(rules) ==
    [blacklist |-> FromLines(rules.blacklist), whitelist |-> FromLines(rules.whitelist),
     mode |-> rules.mode, hops |-> 10 * rules.hops]
RulesOf(draft) ==
    [blacklist |-> RuleLines(draft.blacklist), whitelist |-> RuleLines(draft.whitelist),
     mode |-> draft.mode, hops |-> Hops(draft.hops)]

RulesShown(p) == IF p.hooks["security"].data = None THEN None ELSE p.hooks["security"].data.val.rules

(* The draft is made when rules arrive and there is none. *)
Drafted(w) ==
    IF w.page.draft # None \/ RulesShown(w.page) = None THEN w
    ELSE [w EXCEPT !.page.draft = DraftFromRules(RulesShown(w.page))]

SecurityMount(w, young) ==
    LET at == [w EXCEPT !.page =
            [name |-> "security", visit |-> w.page.visit, hooks |-> <<>>, loadError |-> FALSE,
             draft |-> None, saving |-> FALSE, errs |-> FALSE]]
    IN  Drafted(UseCached(UseCached(at, "security", "security", young),
                          "locks", "security-model-locks", young))

(* The first failure of a load is remembered until somebody asks again. *)
SecurityLoaded(c, w) ==
    IF ~Mounted(c) \/ c.arg[1] # "security" THEN w
    ELSE IF Ok(c) THEN Drafted(w) ELSE [w EXCEPT !.page.loadError = TRUE]

(* The rules are asked for once more only by hand; the locks, by the clock.*)
SecurityBeat(w) == Refresh(w, "locks")
RetryRules == Become(Refresh([Clicked EXCEPT !.page.loadError = FALSE], "security"))

(* Nothing but the error is seen when nothing was ever loaded. *)
RulesMissing == page.loadError /\ page.hooks["security"].data = None
                /\ ~page.hooks["security"].loading

SaveRules ==
    Become(Call([Clicked EXCEPT !.page.saving = TRUE, !.page.errs = FALSE],
                "saveRules", <<None, RulesOf(page.draft)>>))

(***************************************************************************)
(* Refused rules stay in the draft, and so do rules the server could not   *)
(* write down; saved ones are asked for, and the draft is made anew.       *)
(***************************************************************************)
SaveRulesLands == \E c \in Answered("saveRules") :
    LET w == After(c)
        free == [page EXCEPT !.saving = FALSE]
    IN  /\ Become(CASE ~Ok(c) \/ c.ans.val.is = "unwritten" -> Shown(c, w, free)
                    [] c.ans.val.is = "refused" -> Shown(c, w, [free EXCEPT !.errs = TRUE])
                    [] OTHER -> Reload(c, Shown(c, w, [free EXCEPT !.draft = None]),
                                       "security", "security", None))
        /\ UNCHANGED server

SecurityClick ==
    \/ IsAdmin /\ RetryRules
    \/ RulesMissing /\ RetryRules
    \/ /\ IsAdmin /\ page.draft # None /\ ~RulesMissing
       /\ \/ \E e \in RuleEdits : /\ page.draft[e[1]] # e[2]
                                  /\ Become([Clicked EXCEPT !.page.draft[e[1]] = e[2]])
          \/ ~page.saving /\ SaveRules

SecurityLocks == page.saving <=> Pending({"saveRules"})

SecurityVal(k) == IF k = "security" THEN [rules |-> server.rules] ELSE [locks |-> server.locks]
SecurityServes(c) ==
    {Reply(server, "ok", [is |-> "refused"])} \cup
    {Reply(Wrote([server EXCEPT !.rules = c.arg[2]]), "ok", [is |-> s]) : s \in {"saved", "unwritten"}}
=============================================================================
