---------------------------- MODULE PrGovernance ----------------------------
(***************************************************************************)
(* What the action does for a new pull request: triage, the optional       *)
(* review against the history of the repository, which may close it, and   *)
(* the governance, which links it to a canonical issue and tidies its      *)
(* title and body.                                                         *)
(***************************************************************************)
EXTENDS IssueGovernance

SkipAuthors == {"bot"}

HandleBlacklistedPR(n) == ClosePR(n, TRUE)
HandleSpamPR(n) == ClosePR(n, TRUE)
HandleLowQualityPR(n, reason) == ClosePR(n, reason # "TRIVIAL")

(* handleNewPR *)
HandleNewPR(r) ==
    /\ At(r, "start") /\ ~IsIssue(r)
    /\ \/ (~gov.enablePrGovernance \/ Mine(r).author \in SkipAuthors) /\ Goto(r, "ended")
       \/ /\ gov.enablePrGovernance
          /\ IF Mine(r).author = "banned" THEN Plan(r, HandleBlacklistedPR(run[r].n), "ended")
             ELSE Mine(r).author \notin SkipAuthors /\ Goto(r, "spam")

(***************************************************************************)
(* analyzePR: spam is closed and locked; a title that is no conventional   *)
(* commit ends the checks, since governance rewrites it; a malicious       *)
(* change is closed and locked, a trivial one closed.                      *)
(***************************************************************************)
DetectPRSpam(r) ==
    /\ At(r, "spam") /\ ~IsIssue(r)
    /\ \/ Plan(r, HandleSpamPR(run[r].n), "ended")
       \/ Goto(r, IF ValidTitle(Mine(r).text) THEN "quality" ELSE "classify")
       \/ AIThrows(r)

CheckPRQuality(r) ==
    /\ At(r, "quality") /\ ~IsIssue(r)
    /\ \/ \E reason \in {"MALICIOUS", "TRIVIAL"} :
             Plan(r, HandleLowQualityPR(run[r].n, reason), "ended")
       \/ Goto(r, "classify")
       \/ AIThrows(r)

(* classifyAndLabelPR: any error leaves the pull request without a type. *)
LabelPR(n) == <<Label(n, {"type"})>>

ClassifyAndLabelPR(r) ==
    /\ At(r, "classify") /\ ~IsIssue(r)
    /\ \/ Plan(r, LabelPR(run[r].n), "triaged")
       \/ AISwallowed(r, "triaged")

PassPRTriage(r) ==
    /\ At(r, "triaged") /\ ~IsIssue(r)
    /\ \/ Step(r, [Goes(r, "history") EXCEPT !.stage = "govern"])
       \/ gov.maintainerExempt /\ Mine(r).author = "maintainer" /\ Goto(r, "ended")

-----------------------------------------------------------------------------
(***************************************************************************)
(* collectRelated: closed items that GitHub's search or label listing      *)
(* finds; in the two-stage pipeline also whatever the AI picks out of the  *)
(* index, open or closed.  Each reading may fail by itself.  The enriched  *)
(* items are those whose details could be read.                            *)
(***************************************************************************)
ClosedIssues == {n \in Items : item[n].kind = "issue" /\ ~item[n].open}
Related(r) == ClosedIssues \cup (IF gov.enableTwoStage THEN run[r].index ELSE {})

CollectRelated(r) ==
    /\ At(r, "related")
    /\ \/ \E R \in SUBSET Related(r) :
             Step(r, [Goes(r, IF R = {} THEN "extract" ELSE "judge") EXCEPT !.corpus = R])
       \/ Retry(r)

(***************************************************************************)
(* judge and verifyEvidence.  A line of evidence counts when it names an   *)
(* item the AI was shown.  Two such lines suffice; a single one must also  *)
(* say, in the words of the item's own record, how it ended, and an item   *)
(* without a conclusion has no such words.  Anything else is no verdict.   *)
(***************************************************************************)
Line == [about : Numbers, tells : BOOLEAN]

VerifyEvidence(evidence, related) ==
    LET valid == {i \in DOMAIN evidence : evidence[i].about \in related}
    IN \/ Cardinality(valid) >= 2
       \/ \E i \in valid : evidence[i].tells /\ ~item[evidence[i].about].open

Judge(r) ==
    /\ At(r, "judge")
    /\ \/ \E k \in 0..2 : \E evidence \in [1..k -> Line] :
             Step(r, IF VerifyEvidence(evidence, run[r].corpus)
                     THEN Goes(r, "draftReview")
                     ELSE [Goes(r, "extract") EXCEPT !.corpus = {}])
       \/ Step(r, [Goes(r, "extract") EXCEPT !.corpus = {}])
       \/ AIThrows(r)

(***************************************************************************)
(* executeClose: the comment is drafted first.  Without a draft, or when   *)
(* it cites a number that was not shown, nothing is closed and the pull    *)
(* request goes on to the governance.                                      *)
(***************************************************************************)
ValidateCitations(cites, related) == cites \subseteq related

ExecuteClose(r) ==
    /\ At(r, "draftReview")
    /\ LET n == run[r].n
           back == [Goes(r, "extract") EXCEPT !.corpus = {}]
       IN \/ \E cites \in SUBSET Numbers :
                IF ~ValidateCitations(cites, run[r].corpus) THEN Step(r, back)
                ELSE IF Dry THEN Plan(r, <<Comment(n, cites)>>, "ended")
                ELSE Plan(r, <<Label(n, {"rejected"}), Comment(n, cites), Close(n)>>,
                          "ended")
          \/ Retry(r)
          \/ Step(r, back)

-----------------------------------------------------------------------------
(* The routes of a pull request: none of them closes it.  What a dry run   *)
(* says of one leaves the summary out.                                     *)
RoutePrUncertain(r) == At(r, "routeUncertain") /\ ~IsIssue(r) /\ Talk(r)

(* applyPrUpdates and safeRecordLink: the title, which the AI wrote, the    *)
(* block at the top of the body and the record on the canonical issue,     *)
(* which carry the summary, each on its own.                               *)
PrTitle(r, S) == Naming(Call("title", run[r].n, {}), S)
PrUpdates(r) ==
    LET n == run[r].n  c == run[r].hit
    IN << Naming(Call("body", n, {c}), run[r].summary), Says(r, c, {n}) >>

(* routeLinkExisting: comment, then the title, which the AI may rewrite,   *)
(* then the block that links the canonical issue.                          *)
RouteLinkExisting(r) ==
    /\ At(r, "routeDuplicate") /\ ~IsIssue(r)
    /\ LET n == run[r].n  c == run[r].hit
       IN IF Dry THEN Plan(r, <<Comment(n, {c})>>, "ended")
          ELSE Plan(r, <<Says(r, n, {c})>>, "title")

RouteNewTopic(r) ==
    /\ At(r, "routeNew") /\ ~IsIssue(r)
    /\ IF Dry THEN Talk(r) ELSE Goto(r, "draft")

CreateAndLink(r) ==
    /\ At(r, "create") /\ ~IsIssue(r)
    /\ \/ \E c \in Free :
             CreateCanonical(r, c, [Calls(r, <<Says(r, run[r].n, {c})>>, "title")
                                      EXCEPT !.hit = c])
       \/ \E c \in Free : CreateCanonical(r, c, Raised(r, "error"))
       \/ Raise(r, "error")

(* resolveTitle: a good title is kept, and so is one the AI cannot better. *)
ResolveTitle(r) ==
    /\ At(r, "title")
    /\ \/ /\ ~ValidTitle(Mine(r).text)
          /\ \E S \in Mentions : Plan(r, <<PrTitle(r, S)>> \o PrUpdates(r), "ended")
       \/ Plan(r, PrUpdates(r), "ended")
       \/ ~ValidTitle(Mine(r).text) /\ Retry(r)

PrStep(r) ==
    \/ HandleNewPR(r) \/ DetectPRSpam(r) \/ CheckPRQuality(r) \/ ClassifyAndLabelPR(r)
    \/ PassPRTriage(r) \/ CollectRelated(r) \/ Judge(r) \/ ExecuteClose(r)
    \/ RoutePrUncertain(r) \/ RouteLinkExisting(r) \/ RouteNewTopic(r)
    \/ CreateAndLink(r) \/ ResolveTitle(r)
=============================================================================
