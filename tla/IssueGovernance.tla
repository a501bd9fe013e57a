-------------------------- MODULE IssueGovernance --------------------------
(***************************************************************************)
(* The governance of an issue that passed the triage: its key points, the  *)
(* canonical issues it might belong to, the AI's verdict, and what is done *)
(* about it.  A pull request uses the same steps up to the verdict.        *)
(*                                                                         *)
(* GitHub's search lags behind the repository, and each reading is cut at  *)
(* a limit: a list holds some of what there is.  The AI answers what it    *)
(* likes, numbers of nothing included.                                     *)
(***************************************************************************)
EXTENDS GovRepo, GovText

IsIssue(r) == Mine(r).kind = "issue"
Dry == gov.dryRun

(***************************************************************************)
(* buildIndex: with the two-stage pipeline one index of issues and pull    *)
(* requests is read for the whole run, and a failed reading leaves out its *)
(* part.  Without it each service reads for itself.                        *)
(***************************************************************************)
BuildIndex(r) ==
    /\ At(r, "history")
    /\ LET next == IF ~IsIssue(r) /\ gov.prReviewClose THEN "related" ELSE "extract"
       IN IF gov.enableTwoStage
          THEN \E found \in SUBSET Items : Step(r, [Goes(r, next) EXCEPT !.index = found])
          ELSE Goto(r, next)

(***************************************************************************)
(* extractKeyPoints: an answer that cannot be read throws like an error.   *)
(* The key points become the summary that later comments carry, in which   *)
(* formatSummary leaves every number as the AI wrote it.                   *)
(***************************************************************************)
ExtractKeyPoints(r) ==
    /\ At(r, "extract")
    /\ \/ \E S \in Mentions :
             Step(r, [Goes(r, IF IsIssue(r) THEN "judgeForm" ELSE "corpus")
                        EXCEPT !.summary = S])
       \/ Raise(r, "error")
       \/ AIThrows(r)

(* checkWellFormed: the deterministic test first, then the AI's opinion. *)
CheckWellFormed(r) ==
    /\ At(r, "judgeForm")
    /\ IF MeetsThreshold(Mine(r).text)
       THEN Step(r, [Goes(r, "corpus") EXCEPT !.well = TRUE])
       ELSE \/ \E well \in BOOLEAN : Step(r, [Goes(r, "corpus") EXCEPT !.well = well])
            \/ AIThrows(r)

(***************************************************************************)
(* obtainCanonicalCorpus: the list of canonical issues as GitHub gives it; *)
(* or, with an index, those of its canonical issues that the AI picks.     *)
(* screeningGate drops picks that are not in the index; when none is left  *)
(* the canonical part of the index is used as it is.  A failure anywhere   *)
(* is an empty list.                                                       *)
(***************************************************************************)
ScreeningGate(picked, index) == picked \cap index

WithCorpus(r, C) ==
    [Goes(r, IF C = {} THEN "routeNew" ELSE "match")
        EXCEPT !.corpus = C, !.index = IF run[r].well THEN @ ELSE {}]

ListCanonicalIssues(r) ==
    /\ At(r, "corpus") /\ ~gov.enableTwoStage
    /\ \E C \in SUBSET Canonicals : Step(r, WithCorpus(r, C))

ScreenCanonicals(r) ==
    /\ At(r, "corpus") /\ gov.enableTwoStage
    /\ LET index == run[r].index \cap Canonicals
       IN IF index = {} THEN Step(r, WithCorpus(r, {}))
          ELSE \/ \E picked \in SUBSET Numbers :
                    LET screened == ScreeningGate(picked, index)
                    IN IF screened = {} THEN Step(r, WithCorpus(r, index))
                       ELSE \E C \in SUBSET screened : Step(r, WithCorpus(r, C))
               \/ Retry(r)
               \/ Step(r, WithCorpus(r, index))

(***************************************************************************)
(* matchCanonical: a duplicate of #n counts only when n was in the corpus  *)
(* that the AI was shown; everything else that is not a new topic is       *)
(* uncertain.                                                              *)
(***************************************************************************)
MutGate(n, corpus) == corpus # {}

Gate(n, corpus) == n \in corpus

(* The lists are of no more use, but for the history of a promotion. *)
Matched(r, s) ==
    [Goes(r, s) EXCEPT !.corpus = {}, !.index = IF s = "routeNew" THEN @ ELSE {}]

MatchCanonical(r) ==
    /\ At(r, "match")
    /\ \/ \E n \in Numbers :
             Step(r, IF Gate(n, run[r].corpus)
                     THEN [Matched(r, "routeDuplicate") EXCEPT !.hit = n]
                     ELSE Matched(r, "routeUncertain"))
       \/ \E s \in {"routeNew", "routeUncertain"} : Step(r, Matched(r, s))
       \/ AIThrows(r)

-----------------------------------------------------------------------------
(***************************************************************************)
(* The routes of an issue.  In a dry run each of them is one comment.  The *)
(* fixed texts for an uncertain verdict and for a well-formed issue are    *)
(* given the summary and leave it out (every locale's template); the texts *)
(* of a merge, of its record and of a new canonical issue print it.        *)
(***************************************************************************)
Says(r, n, cites) == Naming(Comment(n, cites), run[r].summary)
Talk(r) == Plan(r, <<Comment(run[r].n, {})>>, "ended")

MutRouteDuplicate(r) ==     \* a dry run acts
    /\ At(r, "routeDuplicate") /\ IsIssue(r)
    /\ LET n == run[r].n  c == run[r].hit
       IN Plan(r, << Label(n, {"duplicate"}), Says(r, n, {c}), Close(n), Says(r, c, {n}) >>,
               "ended")

(* routeDuplicate: label, comment, close, and a record on the canonical. *)
RouteDuplicate(r) ==
    /\ At(r, "routeDuplicate") /\ IsIssue(r)
    /\ LET n == run[r].n  c == run[r].hit
       IN IF Dry THEN Plan(r, <<Says(r, n, {c})>>, "ended")
          ELSE Plan(r, << Label(n, {"duplicate"}), Says(r, n, {c}), Close(n),
                          Says(r, c, {n}) >>, "ended")

RouteUncertain(r) == At(r, "routeUncertain") /\ IsIssue(r) /\ Talk(r)

(***************************************************************************)
(* A new topic that is well formed is promoted where it stands, with a     *)
(* review the AI drafts: first the history it may cite (screening, whose   *)
(* failure leaves it empty), then the draft, in which one number outside   *)
(* that history makes a fixed text take its place.  A number that the      *)
(* draft's markup hides from this check, and that stripping the markup     *)
(* afterwards brings together, is left out of the model.                   *)
(***************************************************************************)
RouteNew(r) ==
    /\ At(r, "routeNew") /\ IsIssue(r)
    /\ Step(r, IF run[r].well THEN [Goes(r, "promote") EXCEPT !.well = FALSE]
               ELSE Goes(r, "normalize"))

ObtainRelatedHistory(r) == SUBSET run[r].index
BuildWellFormedComment(r, cites, history) ==
    IF cites \subseteq history \cup {run[r].n} THEN cites ELSE {}

PromoteWith(r, cites) ==
    LET n == run[r].n
    IN IF Dry THEN Plan(r, <<Comment(n, cites)>>, "ended")
       ELSE Plan(r, <<Label(n, {"canonical", "type"}), Comment(n, cites)>>, "ended")

RoutePromoteInPlace(r) ==
    /\ At(r, "promote")
    /\ \/ \E cites \in SUBSET Numbers :
             \E history \in ObtainRelatedHistory(r) :
                PromoteWith(r, BuildWellFormedComment(r, cites, history))
       \/ Retry(r)
       \/ PromoteWith(r, {})

(***************************************************************************)
(* routeNormalize: a canonical issue is drafted and created, and only with *)
(* its number in hand is the original commented on and closed.             *)
(***************************************************************************)
RouteNormalize(r) ==
    /\ At(r, "normalize")
    /\ IF Dry THEN Plan(r, <<Says(r, run[r].n, {})>>, "ended") ELSE Goto(r, "draft")

DraftCanonical(r) ==
    /\ At(r, "draft")
    /\ Goto(r, "create") \/ AIThrows(r)

Normalized(r, c) ==
    LET n == run[r].n IN Calls(r, <<Says(r, n, {c}), Close(n)>>, "ended")

MutCreateAndClose(r) ==     \* closes what it could not replace
    /\ At(r, "create") /\ IsIssue(r)
    /\ \/ \E c \in Free : CreateCanonical(r, c, Normalized(r, c))
       \/ Plan(r, <<Comment(run[r].n, {}), Close(run[r].n)>>, "ended")

CreateAndClose(r) ==
    /\ At(r, "create") /\ IsIssue(r)
    /\ \/ \E c \in Free : CreateCanonical(r, c, Normalized(r, c))
       \/ \E c \in Free : CreateCanonical(r, c, Raised(r, "error"))    \* no number in the answer
       \/ Raise(r, "error")

CommonStep(r) ==
    \/ BuildIndex(r) \/ ExtractKeyPoints(r) \/ CheckWellFormed(r)
    \/ ListCanonicalIssues(r) \/ ScreenCanonicals(r) \/ MatchCanonical(r)
    \/ DraftCanonical(r)

IssueGovernanceStep(r) ==
    \/ RouteDuplicate(r) \/ RouteUncertain(r) \/ RouteNew(r)
    \/ RoutePromoteInPlace(r) \/ RouteNormalize(r) \/ CreateAndClose(r)
=============================================================================
