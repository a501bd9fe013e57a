---------------------------- MODULE IssueTriage ----------------------------
(***************************************************************************)
(* The first half of what the action does for a new issue: authors it      *)
(* leaves alone, spam, questions the README answers, and the type of the   *)
(* issue with its label.  An issue that passes goes on to the governance   *)
(* at "history".                                                           *)
(***************************************************************************)
EXTENDS GovRepo

HandleSpamIssue(n) == CloseIssue(n, TRUE)
HandleBlacklistedUser(n) == CloseIssue(n, TRUE)
CloseAndLock(n) == CloseIssue(n, TRUE)
CloseReadmeCoveredIssue(n) == CloseIssue(n, FALSE)

(* What asking whether the author works on the repository may answer. *)
IsCollaborator(n) == {FALSE, item[n].author = "maintainer"}

(***************************************************************************)
(* handleNewIssue: the accounts of the bot are never handled, a banned     *)
(* author's issue is closed and locked.  Whether the author works on the   *)
(* repository is asked of GitHub; when the question fails the answer is no.*)
(***************************************************************************)
MutSkipUsers == {"nobody"}

SkipUsers == {"bot"}

HandleNewIssue(r) ==
    /\ At(r, "start") /\ Mine(r).kind = "issue"
    /\ \/ Mine(r).author \in SkipUsers /\ Goto(r, "ended")
       \/ /\ Mine(r).author = "banned"
          /\ Plan(r, HandleBlacklistedUser(run[r].n), "ended")
       \/ /\ Mine(r).author \notin SkipUsers \cup {"banned"}
          /\ \E known \in IsCollaborator(run[r].n) :
                Step(r, [Goes(r, "spam") EXCEPT
                           !.exempt = gov.maintainerExempt /\ known])

(* performLayeredDetection: spam first; then, when there is a README or a  *)
(* pinned issue to compare with, whether the issue is answered there.      *)
DetectSpam(r) ==
    /\ At(r, "spam") /\ Mine(r).kind = "issue"
    /\ \/ Plan(r, HandleSpamIssue(run[r].n), "ended")
       \/ Goto(r, "coverage")
       \/ AIThrows(r)

CheckReadmeCoverage(r) ==
    /\ At(r, "coverage")
    /\ \/ Goto(r, "answer")
       \/ Goto(r, "classify")
       \/ AIThrows(r)

(***************************************************************************)
(* handleReadmeRelatedIssue: answer, then close without a lock.  Whatever  *)
(* fails before the closing ends the run without a word.  The answer is    *)
(* the AI's, and nothing checks the numbers in it.                         *)
(***************************************************************************)
AddReadmeAnswer(n, S) == <<Must(Naming(Comment(n, {}), S), "end")>>

HandleReadmeRelated(r) ==
    /\ At(r, "answer")
    /\ \/ \E S \in Mentions :
             Plan(r, AddReadmeAnswer(run[r].n, S) \o CloseReadmeCoveredIssue(run[r].n), "ended")
       \/ AISwallowed(r, "ended")

(***************************************************************************)
(* classifyAndHandleIssue: whatever throws in here, a refusal of the       *)
(* content included, is caught on the spot and let through with a comment. *)
(***************************************************************************)
TriageThrows(r) == Retry(r) \/ Raise(r, "error")

AddClassificationLabel(n, listed) ==      \* a type may have no label in the deployment
    IF listed THEN <<Label(n, {"type"})>> ELSE <<>>
NeedsDetailedInfo(type) == type = "bug"

ClassifyAndHandle(r) ==
    /\ At(r, "classify") /\ Mine(r).kind = "issue"
    /\ \/ \E type \in {"bug", "other"}, listed \in BOOLEAN :
             Plan(r, AddClassificationLabel(run[r].n, listed),
                  IF NeedsDetailedInfo(type) THEN "quality" ELSE "triaged")
       \/ TriageThrows(r)

(* A bug needs detail: a trivial question is closed and locked, an unclear *)
(* one is answered or asked for more, and stays.                           *)
CheckContentQuality(r) ==
    /\ At(r, "quality") /\ Mine(r).kind = "issue"
    /\ \/ Goto(r, "unclear")
       \/ Plan(r, CloseAndLock(run[r].n), "ended")
       \/ Goto(r, "triaged")
       \/ TriageThrows(r)

(* handleUnclearIssueSmartly: with or without a useful answer of the AI,   *)
(* unchecked, one comment is made; when it fails the standard one is       *)
(* tried, and that may throw.                                              *)
AddUnclearAnswer(n, S) == <<Must(Naming(Comment(n, {}), S), "again")>>

HandleUnclear(r) ==
    /\ At(r, "unclear")
    /\ \/ \E S \in Mentions \cup {{}} : Plan(r, AddUnclearAnswer(run[r].n, S), "ended")
       \/ AISwallowed(r, "ask")

MutAskForMore(r) ==     \* asks again for ever
    /\ At(r, "ask")
    /\ Plan(r, <<Must(Comment(run[r].n, {}), "again")>>, "ended")

AskForMore(r) ==
    /\ At(r, "ask")
    /\ Plan(r, <<Must(Comment(run[r].n, {}), "raise")>>, "ended")

(* A maintainer's issue stops here, after the triage. *)
PassTriage(r) ==
    /\ At(r, "triaged") /\ Mine(r).kind = "issue"
    /\ IF run[r].exempt THEN Goto(r, "ended")
       ELSE Step(r, [Goes(r, "history") EXCEPT !.stage = "govern"])

IssueTriageStep(r) ==
    \/ HandleNewIssue(r) \/ DetectSpam(r) \/ CheckReadmeCoverage(r)
    \/ HandleReadmeRelated(r) \/ ClassifyAndHandle(r) \/ CheckContentQuality(r)
    \/ HandleUnclear(r) \/ AskForMore(r) \/ PassTriage(r)
=============================================================================
