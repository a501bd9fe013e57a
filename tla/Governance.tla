----------------------------- MODULE Governance -----------------------------
(***************************************************************************)
(* The governance action as a whole: people open issues and pull requests, *)
(* GitHub starts a run for each, runs of several items interleave call by  *)
(* call, and what the action creates comes back to it as an event.         *)
(***************************************************************************)
EXTENDS IssueTriage, PrGovernance

CONSTANTS
    Texts,        \* what an author may write
    MaxOpened     \* items that people open

ASSUME GovernanceAssumption == MaxOpened \in Nat

(* A repository that is new, or that has a canonical issue from before. *)
Canonical(text) == [Blank EXCEPT !.kind = "issue", !.author = "bot", !.open = TRUE,
                                 !.labels = {"canonical"}, !.text = text]

Init ==
    /\ gov \in Configs
    /\ \/ item = [n \in Numbers |-> Blank]
       \/ \E c \in Numbers, text \in Texts :
             /\ \A n \in Numbers : c <= n
             /\ item = [n \in Numbers |-> IF n = c THEN Canonical(text) ELSE Blank]
    /\ run = [r \in Runs |-> Idle]

ByPeople == {n \in Items : item[n].author # "bot"}

SomebodyOpens ==
    /\ Cardinality(ByPeople) < MaxOpened
    /\ \E n \in Numbers, kind \in {"issue", "pr"}, text \in Texts,
          author \in {"user", "maintainer", "banned"} : Open(n, kind, author, text)

RunStep(r) ==
    \/ IssueTriageStep(r) \/ CommonStep(r) \/ IssueGovernanceStep(r) \/ PrStep(r)
    \/ Write(r) \/ Finish(r)

Next ==
    \/ SomebodyOpens
    \/ \E n \in Numbers : Rerun(n)
    \/ \E r \in Runs : \/ \E n \in Numbers : Dispatch(r, n)
                       \/ RunStep(r)
                       \/ Killed(r)

(* A run is a program of its own: nothing but the end of it stops it. *)
Fairness == \A r \in Runs : WF_vars(RunStep(r))

Spec == Init /\ [][Next]_vars /\ Fairness
-----------------------------------------------------------------------------
Stages == {"triage", "govern", "catch"}
Ops == {"comment", "close", "lock", "label", "title", "body"}
Places == {"idle", "start", "spam", "coverage", "answer", "classify", "quality",
           "unclear", "ask", "triaged", "history", "extract", "judgeForm", "corpus",
           "match", "routeDuplicate", "routeUncertain", "routeNew", "promote",
           "normalize", "draft", "create", "related", "judge", "draftReview",
           "title", "write", "ended"}

TypeOK ==
    /\ gov \in Configs
    /\ \A n \in Numbers :
          /\ item[n].kind \in {"none", "issue", "pr"}
          /\ item[n].author \in {"user", "maintainer", "banned", "bot"}
          /\ item[n].cited \subseteq Numbers /\ item[n].named \subseteq Numbers
          /\ item[n].source \in Numbers \cup {None}
    /\ \A r \in Runs :
          /\ run[r].at \in Places
          /\ run[r].n \in Numbers \cup {None}
          /\ run[r].tries \in 0..MaxRetries
          /\ run[r].stage \in Stages
          /\ run[r].corpus \subseteq Items /\ run[r].index \subseteq Items
          /\ run[r].summary \in Mentions \cup {{}}
          /\ \A i \in DOMAIN run[r].todo :
                run[r].todo[i].op \in Ops /\ run[r].todo[i].n \in Items
          /\ run[r].did \subseteq Stages \X (Ops \cup {"create"})

(***************************************************************************)
(* Governance closes nothing without somewhere to go.  An issue it closed  *)
(* has a canonical issue that exists: the one it was found to repeat or    *)
(* the one that was drafted from it, whatever call failed in between.  A   *)
(* pull request is closed at this stage by the review alone, and that only *)
(* where the deployment asked for it.  What the handler's catch closes,    *)
(* when the provider refused the content (issueHandler.js:153-157), is at  *)
(* the stage "catch" and has nowhere to go: this says nothing of it.       *)
(***************************************************************************)
Closed(r) == <<"govern", "close">> \in run[r].did

ClosedHasAHome ==
    \A r \in Runs : Closed(r) =>
        IF Mine(r).kind = "issue"
        THEN \E m \in Canonicals : m = run[r].hit \/ item[m].source = run[r].n
        ELSE gov.prReviewClose

(***************************************************************************)
(* A run that says the item was let through has not closed it, and has not *)
(* closed it by the time it ends.                                          *)
(***************************************************************************)
LetThroughIsOpen ==
    \A r \in Runs : run[r].failed =>
        \A s \in Stages : <<s, "close">> \notin run[r].did

(* What the bot created never makes it create more. *)
NoCascade ==
    \A n \in Numbers : item[n].source # None => item[item[n].source].author # "bot"

(***************************************************************************)
(* Whatever the AI invents, the numbers the action itself puts into a      *)
(* comment or a body, and those that pass the checks of matchCanonical and *)
(* of the two reviews, are items of this repository: a link or a record    *)
(* never leads nowhere.  It says nothing of the words of the AI that are   *)
(* published unchecked (named).                                            *)
(***************************************************************************)
CitesWhatExists == \A n \in Numbers : item[n].cited \subseteq Items

(***************************************************************************)
(* In a dry run the governance of an item, from its history to its routes, *)
(* does nothing but comment: nothing is created, and what is closed,       *)
(* labelled or locked is the triage's or the catch's doing.                *)
(***************************************************************************)
DryRunOnlyTalks ==
    gov.dryRun => \A r \in Runs : \A d \in run[r].did : d[1] # "govern"

(***************************************************************************)
(* What the documentation says of a dry run: it comments, and closes,      *)
(* creates and labels nothing (action.yml:67, the action's README.md:79).  *)
(* The code asks for dryRun in the governance alone; the triage before it  *)
(* and the catch around it do not.                                         *)
(***************************************************************************)
DryRunChangesNothing == gov.dryRun => \A r \in Runs : run[r].did = {}

(* Every run ends: errors are asked again a bounded number of times. *)
EveryRunEnds == \A r \in Runs : (~At(r, "idle")) ~> At(r, "idle")
=============================================================================
