---------------------------- MODULE MCGovernance ----------------------------
(***************************************************************************)
(* Governance for TLC: three deployments, and two texts of three lines or  *)
(* less: a filled-in template with a good title, and neither.              *)
(***************************************************************************)
EXTENDS Governance, TLC

(* The AI names nothing, or a number that may be nothing. *)
MCMentions == {{}, {3}}

Deployment(dry, exempt, review, two) ==
    [dryRun |-> dry, maintainerExempt |-> exempt, enablePrGovernance |-> TRUE,
     prReviewClose |-> review, enableTwoStage |-> two]

MCConfigs == { Deployment(FALSE, TRUE, TRUE, TRUE), Deployment(FALSE, FALSE, FALSE, FALSE),
               Deployment(TRUE, TRUE, TRUE, FALSE) }

MCTexts == {
    [prefix |-> TRUE, fields |-> 2, lines |-> <<"h3", "text", "none">>,
     longTitle |-> TRUE, longBody |-> TRUE, conventional |-> TRUE],
    [prefix |-> FALSE, fields |-> 0, lines |-> <<"none">>,
     longTitle |-> FALSE, longBody |-> FALSE, conventional |-> FALSE] }

(***************************************************************************)
(* Where two runs meet, they are past the triage of two people's items of  *)
(* the simplest kind, in the deployment without review and index.  Only an *)
(* item that a run left as it was is run again.                            *)
(***************************************************************************)
Special(n) == item[n].author \in {"maintainer", "banned"}
Plain(n) == ~Special(n) /\ ~ValidTitle(item[n].text)
Busy == {r \in Runs : ~At(r, "idle")}
Aside == {"coverage", "answer", "quality", "unclear", "ask"}

(* Past what it does without looking at the other items. *)
Placed(r) == run[r].stage = "govern" /\ run[r].at \notin {"history", "extract", "judgeForm"}

(* The AI has named something without a check. *)
Named == (\E r \in Runs : run[r].summary # {}) \/ (\E n \in Items : item[n].named # {})

Small ==
    /\ item[1].author = "bot" => gov.dryRun /\ MeetsThreshold(item[1].text)
    /\ \A n \in ByPeople : Special(n) => ~ValidTitle(item[n].text) /\ ~gov.dryRun
    /\ Cardinality(ByPeople) = 2 =>
          /\ ~gov.enableTwoStage /\ ~gov.dryRun
          /\ \A n \in ByPeople : Plain(n) /\ ~item[n].locked
                                 /\ item[n].labels \notin {{"type"}, {"type", "duplicate"}}
          /\ \A r \in Runs : run[r].stage # "catch" /\ run[r].at \notin Aside
    /\ \A n \in ByPeople : item[n].author = "maintainer" => gov.maintainerExempt
    /\ Named => /\ Cardinality(ByPeople) = 1 /\ ~gov.enableTwoStage
                /\ \A n \in ByPeople : Plain(n)
                /\ \A r \in Runs : run[r].tries = 0 /\ run[r].stage # "catch"
                /\ \A n \in Items : item[n].labels \notin {{"type"}, {"type", "duplicate"}}
    /\ Cardinality(Items) = 3 =>
          ~gov.enableTwoStage /\ ~gov.dryRun /\ \A n \in ByPeople : ~Special(n)
    /\ (\E r \in Runs : run[r].tries > 0) => Cardinality(ByPeople) = 1 /\ ~gov.dryRun
    /\ Cardinality(Busy) = 2 =>
          \A r \in Busy : run[r].n \in ByPeople
    /\ \A r, q \in Busy : r # q /\ ~Placed(r) => At(q, "corpus")

Untouched(n) == /\ item[n].open /\ item[n].labels \subseteq {"type"}
                /\ item[n].cited = {} /\ ~Named
RunAgain(n) == n \in Items /\ item'[n].event /\ ~item[n].event
Begins(n) == item[n].event /\ ~item'[n].event

Few ==
    /\ \A n \in Numbers : RunAgain(n) /\ item[n].author = "bot" =>
          Busy = {} /\ Cardinality(Items) = 1
    /\ \A n \in Numbers : RunAgain(n) /\ item[n].author # "bot" =>
          Busy = {} /\ Cardinality(ByPeople) = 1 /\ Untouched(n)
    /\ At(2, "idle") /\ ~At(2, "idle")' => ~At(1, "idle")
    /\ \A n \in Numbers : Begins(n) /\ item[n].author = "bot" => Busy = {}
=============================================================================
