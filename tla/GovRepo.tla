------------------------------ MODULE GovRepo ------------------------------
(***************************************************************************)
(* What every step of the issue-governance action shares: the repository   *)
(* it writes to, the workflow runs that are under way, the calls to the    *)
(* AI endpoint and the calls to GitHub.                                    *)
(*                                                                         *)
(* A run works on the item whose opening started it.  Where the code makes *)
(* a list of calls of which each may fail without stopping the next one    *)
(* (executeApiCalls, the safe* methods), the run holds the calls still to  *)
(* make in todo and Write makes the first of them.                         *)
(***************************************************************************)
EXTENDS Naturals, Sequences, FiniteSets

CONSTANTS
    Numbers,      \* numbers an issue or a pull request may get
    Runs,         \* workflow runs that may be under way at a time
    None,         \* no number
    Mentions,     \* the sets of numbers that unchecked words of the AI may name
    Configs,      \* the inputs a deployment may have been given
    MaxRetries    \* retries of one call to the AI endpoint

ASSUME GovRepoAssumption ==
    /\ None \notin Numbers
    /\ Mentions \subseteq SUBSET Numbers
    /\ MaxRetries \in Nat
    /\ Configs \subseteq [dryRun : BOOLEAN, maintainerExempt : BOOLEAN,
                          enablePrGovernance : BOOLEAN, prReviewClose : BOOLEAN,
                          enableTwoStage : BOOLEAN]

VARIABLES
    gov,          \* the inputs of this deployment
    item,         \* the repository: what is known of each number
    run           \* the workflow runs

vars == <<gov, item, run>>

(***************************************************************************)
(* An item: who opened it and what it looks like on GitHub.  cited are the *)
(* numbers that comments on it and its body name because the action put    *)
(* them there or let them through a check: the links to a canonical issue, *)
(* the records of where something came from, and the reviews whose numbers *)
(* are compared with what the AI was shown.  named are those in the words  *)
(* of the AI that nothing checks: the key points that go into most of the  *)
(* comments, the answers to questions, a rewritten title, the body of a    *)
(* canonical issue.  The sanitizer leaves a number in any of them alone.   *)
(* source is the item a canonical issue was drafted from, and event says   *)
(* that GitHub has yet to start a run for it.  text is what its author     *)
(* wrote, as the event carries it: a later run is given the same again.    *)
(***************************************************************************)
Blank == [kind |-> "none", author |-> "user", open |-> FALSE, locked |-> FALSE,
          labels |-> {}, cited |-> {}, named |-> {}, source |-> None,
          event |-> FALSE, text |-> None]

Items == {n \in Numbers : item[n].kind # "none"}
Free == Numbers \ Items
NextNumber(n) == n \in Free /\ \A m \in Free : n <= m     \* numbers are given in order
Canonicals == {n \in Items : item[n].kind = "issue" /\ "canonical" \in item[n].labels}

(* A run that is not under way.  summary are the numbers its key points name. *)
Idle == [at |-> "idle", n |-> None, tries |-> 0, stage |-> "triage",
         exempt |-> FALSE, well |-> FALSE, index |-> {},
         corpus |-> {}, hit |-> None, todo |-> <<>>, then |-> "idle",
         failed |-> FALSE, did |-> {}, summary |-> {}]

At(r, s) == run[r].at = s
Mine(r) == item[run[r].n]

(* The run goes on at s; a new call to the AI has all its attempts. *)
Goes(r, s) == [run[r] EXCEPT !.at = s, !.tries = 0]
Step(r, new) == /\ run' = [run EXCEPT ![r] = new]
                /\ UNCHANGED <<gov, item>>
Goto(r, s) == Step(r, Goes(r, s))

-----------------------------------------------------------------------------
(* Calls to GitHub.  must says what a failure does: "no" lets the next     *)
(* call be made, "end" drops the rest, "again" makes the run ask once more *)
(* in other words, "raise" throws.  names are the numbers that unchecked   *)
(* words of the AI in it name.                                             *)
Call(op, n, cites) ==
    [op |-> op, n |-> n, cites |-> cites, names |-> {}, must |-> "no"]
Naming(call, S) == [call EXCEPT !.names = S]
Comment(n, cites) == Call("comment", n, cites)
Label(n, l) == [Call("label", n, {}) EXCEPT !.cites = l]
Close(n) == Call("close", n, {})
Must(call, what) == [call EXCEPT !.must = what]

Calls(r, todo, s) == [Goes(r, IF todo = <<>> THEN s ELSE "write")
                        EXCEPT !.todo = todo, !.then = s]
Plan(r, todo, s) == Step(r, Calls(r, todo, s))

(* closeIssue and closePR: comment, close, and lock the conversation. *)
Lock(n) == Call("lock", n, {})
CloseIssue(n, lock) ==
    <<Comment(n, {}), Close(n)>> \o (IF lock THEN <<Lock(n)>> ELSE <<>>)
ClosePR(n, lock) ==
    <<Comment(n, {}), Close(n)>> \o (IF lock THEN <<Lock(n)>> ELSE <<>>)

Effect(i, c) ==
    CASE c.op \in {"comment", "body", "title"} ->
                            [i EXCEPT !.cited = @ \cup c.cites, !.named = @ \cup c.names]
      [] c.op = "label"   -> [i EXCEPT !.labels = @ \cup c.cites]
      [] c.op = "close"   -> [i EXCEPT !.open = FALSE]
      [] c.op = "lock"    -> [i EXCEPT !.locked = TRUE]

(***************************************************************************)
(* What the handlers' catch does.  An answer the provider refused as       *)
(* harmful closes the item without a lock; anything else leaves a comment  *)
(* that the item was let through.  The call of that comment may fail too.  *)
(***************************************************************************)
HandleContentFiltered(n) ==
    IF item[n].kind = "issue" THEN CloseIssue(n, FALSE) ELSE ClosePR(n, FALSE)
FailOpenComment(n) == <<Comment(n, {})>>

MutRaised(r, e) ==      \* every error closes the item
    [Calls(r, HandleContentFiltered(run[r].n), "ended")
        EXCEPT !.stage = "catch", !.failed = e = "error"]

Raised(r, e) ==
    IF e = "filtered"
    THEN [Calls(r, HandleContentFiltered(run[r].n), "ended") EXCEPT !.stage = "catch"]
    ELSE [Calls(r, FailOpenComment(run[r].n), "ended")
            EXCEPT !.stage = "catch", !.failed = TRUE]
Raise(r, e) == Step(r, Raised(r, e))

(* What a run changed, but for comments, and at which stage. *)
Done(r, op) == run[r].did \cup (IF op = "comment" THEN {} ELSE {<<run[r].stage, op>>})

(* One call of a list: it takes effect, or GitHub refuses it. *)
Write(r) ==
    /\ At(r, "write")
    /\ LET c == Head(run[r].todo)
           rest == Tail(run[r].todo)
           later == [run[r] EXCEPT !.todo = rest,
                                   !.at = IF rest = <<>> THEN run[r].then ELSE "write"]
       IN \/ /\ item' = [item EXCEPT ![c.n] = Effect(@, c)]
             /\ run' = [run EXCEPT ![r] = [later EXCEPT !.did = Done(r, c.op)]]
             /\ UNCHANGED gov
          \/ c.must = "no" /\ Step(r, later)
          \/ c.must = "end" /\ Step(r, [Goes(r, "ended") EXCEPT !.todo = <<>>])
          \/ c.must = "again" /\ Step(r, [Goes(r, "ask") EXCEPT !.todo = <<>>])
          \/ c.must = "raise" /\ Raise(r, "error")

-----------------------------------------------------------------------------
(***************************************************************************)
(* A call to the AI endpoint that does not answer.  A busy, broken or      *)
(* empty answer is asked for again until the retries are used up; then, or *)
(* at once when the refusal is final, the call throws.  A refusal of the   *)
(* content is final.                                                       *)
(***************************************************************************)
Failures == {"busy", "empty", "final", "incomplete", "refusal"}
IsRetryableError(f) == f \in {"busy", "empty"}
IsContentFilterError(f) == f = "refusal"

MutCallAI(r, f) == IsRetryableError(f) /\ run[r].tries <= MaxRetries

CallAI(r, f) == IsRetryableError(f) /\ run[r].tries < MaxRetries
Retry(r) ==
    \E f \in Failures : CallAI(r, f) /\ Step(r, [run[r] EXCEPT !.tries = @ + 1])

AIThrows(r) ==
    \/ Retry(r)
    \/ \E f \in Failures :
          /\ ~CallAI(r, f)
          /\ Raise(r, IF IsContentFilterError(f) THEN "filtered" ELSE "error")
AISwallowed(r, s) == Retry(r) \/ Goto(r, s)

-----------------------------------------------------------------------------
(* Somebody opens an issue or a pull request: GitHub owes a run for it.    *)
Open(n, kind, author, text) ==
    /\ NextNumber(n)
    /\ item' = [item EXCEPT ![n] = [Blank EXCEPT !.kind = kind, !.author = author,
                                      !.open = TRUE, !.event = TRUE, !.text = text]]
    /\ UNCHANGED <<gov, run>>

(* An item that was handled is handled again: somebody re-runs the job,    *)
(* the one that a canonical issue of the bot started included.             *)
Rerun(n) ==
    /\ n \in Items /\ ~item[n].event
    /\ item' = [item EXCEPT ![n].event = TRUE]
    /\ UNCHANGED <<gov, run>>

(* A run takes up the item GitHub owes a run for; it ends; or its runner   *)
(* is cancelled or lost between two calls.                                 *)
Dispatch(r, n) ==
    /\ At(r, "idle") /\ item[n].event
    /\ item' = [item EXCEPT ![n].event = FALSE]
    /\ run' = [run EXCEPT ![r] = [Idle EXCEPT !.at = "start", !.n = n]]
    /\ UNCHANGED gov

Finish(r) == At(r, "ended") /\ Step(r, Idle)
Killed(r) == ~At(r, "idle") /\ Step(r, Idle)

(***************************************************************************)
(* createIssue: the canonical issue drafted from the run's item.  It is    *)
(* written with the identity of the bot, and GitHub starts a run for it.   *)
(* GitHub may refuse, or answer without a number after it has created it.  *)
(* It says what the item said, put in order by the AI: what it names is    *)
(* not checked, the item it was drafted from included.                     *)
(***************************************************************************)
Drafted(r, S) == [Blank EXCEPT !.kind = "issue", !.author = "bot", !.open = TRUE,
                               !.labels = {"canonical"}, !.source = run[r].n,
                               !.named = S, !.event = TRUE, !.text = Mine(r).text]

CreateCanonical(r, n, new) ==
    /\ NextNumber(n)
    /\ \E S \in Mentions : item' = [item EXCEPT ![n] = Drafted(r, S)]
    /\ run' = [run EXCEPT ![r] = [new EXCEPT !.did = Done(r, "create")]]
    /\ UNCHANGED gov
=============================================================================
