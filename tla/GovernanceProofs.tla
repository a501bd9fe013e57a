-------------------------- MODULE GovernanceProofs --------------------------
(***************************************************************************)
(* Proofs about Governance, for any numbers, runs, texts, deployments and  *)
(* retries: what the action closes has somewhere to go, what it let        *)
(* through is open, what it creates starts nothing, what it links exists,  *)
(* and a dry run only talks.                                               *)
(*                                                                         *)
(* The invariant speaks of one run at a time, beside a repository I that   *)
(* other runs change under it: items are only added, and what the run      *)
(* relies on in them does not change (Grows).  Its parts are operators of  *)
(* the deployment g, the repository I and the record x of the run.         *)
(***************************************************************************)
EXTENDS Governance, SequenceTheorems, TLAPS

Existing(I) == {n \in Numbers : I[n].kind # "none"}
CanonicalIn(I) == {n \in Existing(I) : I[n].kind = "issue" /\ "canonical" \in I[n].labels}

LabelNames == {"type", "duplicate", "canonical", "rejected"}
Authors == {"user", "maintainer", "banned", "bot"}

ItemType == [kind : {"none", "issue", "pr"}, author : Authors, open : BOOLEAN,
             locked : BOOLEAN, labels : SUBSET LabelNames, cited : SUBSET Numbers,
             named : SUBSET Numbers, source : Numbers \cup {None}, event : BOOLEAN,
             text : Texts \cup {None}]

CallType == [op : Ops, n : Numbers, cites : (SUBSET Numbers) \cup (SUBSET LabelNames),
             names : SUBSET Numbers, must : {"no", "end", "again", "raise"}]

RunType == [at : Places, n : Numbers \cup {None}, tries : 0..MaxRetries, stage : Stages,
            exempt : BOOLEAN, well : BOOLEAN, index : SUBSET Numbers, corpus : SUBSET Numbers,
            hit : Numbers \cup {None}, todo : Seq(CallType), then : Places,
            failed : BOOLEAN, did : SUBSET (Stages \X (Ops \cup {"create"})),
            summary : Mentions \cup {{}}]

-----------------------------------------------------------------------------
(* What holds of the repository. *)
RepoOK(I) ==
    /\ I \in [Numbers -> ItemType]
    /\ \A n \in Numbers :
          /\ I[n].cited \subseteq Existing(I)
          /\ I[n].source # None => I[n].source \in Existing(I)
                                   /\ I[I[n].source].author # "bot"
          /\ I[n].event => n \in Existing(I)

(* Where a run is, or where it goes once it has made the calls it holds. *)
Goal(x) == IF x.at = "write" THEN x.then ELSE x.at

Triage == {"start", "spam", "coverage", "answer", "classify", "quality", "unclear",
           "ask", "triaged"}

(* The item of the run, and the items in its lists, exist; only what the   *)
(* run goes through for a person's item leads further than the start.      *)
Sees(I, x) ==
    /\ x.at # "idle" => x.n \in Existing(I)
    /\ x.at \notin {"idle", "start", "ended"} => I[x.n].author # "bot"
    /\ x.index \subseteq Existing(I) /\ x.corpus \subseteq Existing(I)
    /\ x.hit # None => x.hit \in Existing(I)
    /\ Goal(x) = "title" => x.hit # None
    /\ Goal(x) = "match" => x.corpus \subseteq CanonicalIn(I)
    /\ Goal(x) = "routeDuplicate" => x.hit \in CanonicalIn(I)

(* The way through the stages. *)
OnItsWay(g, I, x) ==
    /\ x.at = "write" <=> x.todo # <<>>
    /\ Goal(x) # "write"
    /\ Goal(x) \in Triage => x.stage = "triage"
    /\ Goal(x) \in {"related", "judge", "draftReview"} =>
          I[x.n].kind # "issue" /\ g.prReviewClose
    /\ Goal(x) \in {"draft", "create", "title"} => ~g.dryRun

(* Somewhere to go for what the run closes. *)
Home(g, I, x) ==
    IF I[x.n].kind = "issue"
    THEN \E m \in CanonicalIn(I) : m = x.hit \/ I[m].source = x.n
    ELSE g.prReviewClose

(* The calls a run holds: they are about what exists, and only the first,  *)
(* a comment, may lead elsewhere when it fails.                            *)
Sound(I, c) ==
    /\ c \in CallType /\ c.n \in Existing(I)
    /\ c.op \in {"comment", "body", "title"} => c.cites \subseteq Existing(I)
    /\ c.op = "label" => c.cites \subseteq LabelNames
Careful(I, T) ==
    /\ T \in Seq(CallType)
    /\ \A i \in DOMAIN T : Sound(I, T[i]) /\ (T[i].must # "no" => i = 1 /\ T[i].op = "comment")

(* A call that is still to be made, and the run it is of. *)
Owed(g, I, x) ==
    /\ Careful(I, x.todo)
    /\ \A i \in DOMAIN x.todo :
          /\ x.todo[i].must = "again" => x.stage = "triage"
          /\ x.todo[i].op = "close" => Goal(x) = "ended" /\ ~x.failed
          /\ x.todo[i].op = "close" /\ x.stage = "govern" => Home(g, I, x)
          /\ g.dryRun /\ x.stage = "govern" => x.todo[i].op = "comment"

HasClosed(x) == \E s \in Stages : <<s, "close">> \in x.did

(* A run that has closed, or has let through, is about to end: no call is  *)
(* left of which a failure would lead elsewhere.                           *)
Settled(x) ==
    /\ x.failed \/ HasClosed(x) =>
          Goal(x) = "ended" /\ \A i \in DOMAIN x.todo : x.todo[i].must = "no"
    /\ x.failed => ~HasClosed(x)

Founded(g, I, x) ==
    /\ <<"govern", "close">> \in x.did => Home(g, I, x)
    /\ g.dryRun => \A d \in x.did : d[1] # "govern"

RunOK(g, I, x) ==
    /\ x \in RunType
    /\ Sees(I, x) /\ OnItsWay(g, I, x) /\ Owed(g, I, x)
    /\ Settled(x) /\ Founded(g, I, x)

IInv ==
    /\ gov \in Configs
    /\ RepoOK(item)
    /\ run \in [Runs -> RunType]
    /\ \A r \in Runs : RunOK(gov, item, run[r])

-----------------------------------------------------------------------------
(* What a run relies on in the repository stays. *)
Grows(I, J) ==
    \A n \in Existing(I) :
        /\ J[n].kind = I[n].kind /\ J[n].author = I[n].author /\ J[n].source = I[n].source
        /\ I[n].labels \subseteq J[n].labels

LEMMA GrowsKinds ==
    ASSUME NEW I, NEW J, Grows(I, J)
    PROVE  Existing(I) \subseteq Existing(J) /\ CanonicalIn(I) \subseteq CanonicalIn(J)
BY DEF Grows, Existing, CanonicalIn

\* Whatever other runs do, a run's own facts stay true.
LEMMA GrowsRunOK ==
    ASSUME NEW g, NEW I, NEW J, NEW x, Grows(I, J), RunOK(g, I, x)
    PROVE  RunOK(g, J, x)
<1> USE GrowsKinds
<1>1. x.n \in Existing(I) => J[x.n].kind = I[x.n].kind /\ J[x.n].author = I[x.n].author
  BY DEF Grows
<1>2. x.n \in Existing(I) /\ Home(g, I, x) => Home(g, J, x)
  BY <1>1 DEF Home, Grows, CanonicalIn
<1>3. x.at = "idle" => x.todo = <<>>
  BY DEF RunOK, OnItsWay
<1>4. <<"govern", "close">> \in x.did => x.at # "idle"
  BY DEF RunOK, Settled, HasClosed, Stages, Goal
<1>5. Sees(J, x)
  BY <1>1 DEF RunOK, Sees
<1>6. OnItsWay(g, J, x)
  BY <1>1 DEF RunOK, OnItsWay, Goal, Sees
<1>7. Careful(J, x.todo)
  BY DEF RunOK, Owed, Careful, Sound
<1>8. Owed(g, J, x)
  BY <1>2, <1>3, <1>7 DEF RunOK, Owed, Sees
<1>9. Founded(g, J, x)
  BY <1>2, <1>4 DEF RunOK, Founded, Sees
<1> QED BY <1>5, <1>6, <1>8, <1>9 DEF RunOK

\* A run that is neither idle nor ending nor in a list has closed nothing, has
\* let nothing through, and holds no call.
LEMMA Unsettled ==
    ASSUME NEW g, NEW I, NEW x, RunOK(g, I, x), x.at \notin {"ended", "write"}
    PROVE  ~HasClosed(x) /\ x.failed = FALSE /\ x.todo = <<>>
BY DEF RunOK, Settled, Goal, RunType, OnItsWay

\* It goes on to wherever its next record says.
LEMMA MovesOn ==
    ASSUME NEW g, NEW I, NEW x, RunOK(g, I, x), ~HasClosed(x), ~x.failed,
           NEW y \in RunType, y.did = x.did, y.failed = x.failed,
           Sees(I, y), OnItsWay(g, I, y), Owed(g, I, y)
    PROVE  RunOK(g, I, y)
<1>1. Settled(y)
  BY DEF Settled, HasClosed
<1>2. Founded(g, I, y)
  BY DEF RunOK, Founded, HasClosed, Stages
<1> QED BY <1>1, <1>2 DEF RunOK

LEMMA NothingOwed ==
    ASSUME NEW g, NEW I, NEW y, y.todo = <<>>
    PROVE  Owed(g, I, y)
BY DEF Owed, Careful

LEMMA IdleOK == ASSUME NEW g, NEW I PROVE RunOK(g, I, Idle)
<1>1. Idle \in RunType
  BY GovRepoAssumption DEF Idle, RunType, Places, Stages
<1>2. Sees(I, Idle) /\ OnItsWay(g, I, Idle) /\ Settled(Idle) /\ Founded(g, I, Idle)
  BY DEF Idle, Sees, OnItsWay, Goal, Triage, Settled, HasClosed, Founded
<1>3. Owed(g, I, Idle)
  BY NothingOwed DEF Idle
<1> QED BY <1>1, <1>2, <1>3 DEF RunOK

\* Two lists one after the other hold what each of them holds.
LEMMA Joined ==
    ASSUME NEW I, NEW S, NEW T, Careful(I, S), Careful(I, T),
           \A i \in DOMAIN T : T[i].must = "no"
    PROVE  /\ Careful(I, S \o T)
           /\ \A i \in DOMAIN (S \o T) : \/ i \in DOMAIN S /\ (S \o T)[i] = S[i]
                                       \/ \E j \in DOMAIN T : (S \o T)[i] = T[j]
           /\ S # <<>> => S \o T # <<>>
<1>1. S \in Seq(CallType) /\ T \in Seq(CallType)
  BY DEF Careful
<1>2. /\ S \o T \in Seq(CallType) /\ Len(S \o T) = Len(S) + Len(T)
      /\ \A i \in 1..Len(S) + Len(T) :
            (S \o T)[i] = IF i <= Len(S) THEN S[i] ELSE T[i - Len(S)]
  BY <1>1, ConcatProperties
<1>3. DOMAIN S = 1..Len(S) /\ DOMAIN T = 1..Len(T) /\ DOMAIN (S \o T) = 1..Len(S) + Len(T)
  BY <1>1, <1>2
<1>4. Len(S) \in Nat /\ Len(T) \in Nat
  BY <1>1
<1>5. ASSUME NEW i \in DOMAIN (S \o T)
      PROVE  \/ i \in DOMAIN S /\ (S \o T)[i] = S[i]
             \/ \E j \in DOMAIN T : (S \o T)[i] = T[j]
  <2>1. CASE i <= Len(S)
    BY <1>2, <1>3, <1>4, <2>1
  <2>2. CASE ~(i <= Len(S))
    <3>1. i - Len(S) \in DOMAIN T /\ (S \o T)[i] = T[i - Len(S)]
      BY <1>2, <1>3, <1>4, <2>2
    <3> QED BY <3>1
  <2> QED BY <2>1, <2>2
<1>6. S # <<>> => S \o T # <<>>
  BY <1>1, ConcatEqualIffEmpty
<1>7. Careful(I, S \o T)
  BY <1>2, <1>5 DEF Careful
<1> QED BY <1>5, <1>6, <1>7

\* The lists that close an item are careful, and no failure leads elsewhere.
LEMMA Closing ==
    ASSUME NEW I, NEW n \in Existing(I), NEW lock \in BOOLEAN
    PROVE  /\ Careful(I, CloseIssue(n, lock)) /\ CloseIssue(n, lock) # <<>>
           /\ \A i \in DOMAIN CloseIssue(n, lock) : CloseIssue(n, lock)[i].must = "no"
           /\ ClosePR(n, lock) = CloseIssue(n, lock)
<1> DEFINE S == <<Comment(n, {}), Close(n)>>
           T == IF lock THEN <<Lock(n)>> ELSE <<>>
<1>1. n \in Numbers
  BY DEF Existing
<1>2. \A c \in {Comment(n, {}), Close(n), Lock(n)} : Sound(I, c) /\ c.must = "no"
  BY <1>1 DEF Sound, CallType, Ops, Comment, Close, Lock, Call
<1>3. Careful(I, S) /\ S # <<>> /\ \A i \in DOMAIN S : S[i].must = "no"
  BY <1>2 DEF Careful, Sound
<1>4. Careful(I, T) /\ \A i \in DOMAIN T : T[i].must = "no"
  BY <1>2 DEF Careful, Sound
<1>5. CloseIssue(n, lock) = S \o T /\ ClosePR(n, lock) = S \o T
  BY DEF CloseIssue, ClosePR
<1> HIDE DEF S, T
<1> QED BY <1>3, <1>4, <1>5, Joined

\* What an effect on an item leaves alone, and what it may add.
LEMMA EffectOK ==
    ASSUME NEW I, NEW i \in ItemType, NEW c, Sound(I, c)
    PROVE  /\ Effect(i, c) \in ItemType
           /\ Effect(i, c).kind = i.kind /\ Effect(i, c).author = i.author
           /\ Effect(i, c).source = i.source /\ Effect(i, c).event = i.event
           /\ i.labels \subseteq Effect(i, c).labels
           /\ Effect(i, c).cited \subseteq i.cited \cup Existing(I)
<1>1. Existing(I) \subseteq Numbers
  BY DEF Existing
<1>2. c.op \in Ops
  BY DEF Sound, CallType
<1>3. CASE c.op \in {"comment", "body", "title"}
  <2>1. /\ Effect(i, c) = [i EXCEPT !.cited = @ \cup c.cites, !.named = @ \cup c.names]
        /\ c.cites \subseteq Existing(I) /\ c.names \subseteq Numbers
    BY <1>3 DEF Effect, Sound, CallType
  <2> DEFINE C == i.cited \cup c.cites
             N == i.named \cup c.names
  <2>2. C \in SUBSET Numbers /\ N \in SUBSET Numbers /\ C \subseteq i.cited \cup Existing(I)
    BY <1>1, <2>1 DEF ItemType
  <2>3. Effect(i, c) = [i EXCEPT !.cited = C, !.named = N]
    BY <2>1
  <2> HIDE DEF C, N
  <2> QED BY <2>2, <2>3 DEF ItemType
<1>4. CASE c.op = "label"
  <2>1. Effect(i, c) = [i EXCEPT !.labels = @ \cup c.cites] /\ c.cites \subseteq LabelNames
    BY <1>4 DEF Effect, Sound
  <2> QED BY <2>1 DEF ItemType
<1>5. CASE c.op = "close"
  <2>1. Effect(i, c) = [i EXCEPT !.open = FALSE]
    BY <1>5 DEF Effect
  <2> QED BY <2>1 DEF ItemType
<1>6. CASE c.op = "lock"
  <2>1. Effect(i, c) = [i EXCEPT !.locked = TRUE]
    BY <1>6 DEF Effect
  <2> QED BY <2>1 DEF ItemType
<1> QED BY <1>2, <1>3, <1>4, <1>5, <1>6 DEF Ops

\* The repository after an effect, and after an item was added.
LEMMA AfterEffect ==
    ASSUME NEW I, RepoOK(I), NEW c, Sound(I, c), NEW J, J = [I EXCEPT ![c.n] = Effect(@, c)]
    PROVE  RepoOK(J) /\ Grows(I, J)
<1> DEFINE e == Effect(I[c.n], c)
<1>1. c.n \in Numbers /\ c.n \in Existing(I) /\ I[c.n] \in ItemType
  BY DEF Sound, Existing, RepoOK
<1>2. /\ e \in ItemType /\ e.kind = I[c.n].kind /\ e.author = I[c.n].author
      /\ e.source = I[c.n].source /\ e.event = I[c.n].event
      /\ I[c.n].labels \subseteq e.labels /\ e.cited \subseteq I[c.n].cited \cup Existing(I)
  BY <1>1, EffectOK
<1>3. J \in [Numbers -> ItemType] /\ J[c.n] = e /\ \A n \in Numbers \ {c.n} : J[n] = I[n]
  BY <1>1, <1>2 DEF RepoOK
<1> HIDE DEF e
<1>4. Grows(I, J) /\ Existing(J) = Existing(I)
  BY <1>2, <1>3 DEF Grows, Existing
<1>5. \A n \in Numbers : /\ J[n].source = I[n].source /\ J[n].author = I[n].author
                         /\ J[n].event = I[n].event
                         /\ J[n].cited \subseteq I[n].cited \cup Existing(I)
  BY <1>2, <1>3
<1>6. Existing(I) \subseteq Numbers
  BY DEF Existing
<1> QED BY <1>3, <1>4, <1>5, <1>6 DEF RepoOK

LEMMA AfterAdding ==
    ASSUME NEW I, RepoOK(I), NEW n \in Numbers \ Existing(I), NEW i \in ItemType,
           i.kind # "none", i.cited = {},
           i.source # None => i.source \in Existing(I) /\ I[i.source].author # "bot",
           NEW J, J = [I EXCEPT ![n] = i]
    PROVE  RepoOK(J) /\ Grows(I, J) /\ n \in Existing(J) /\ J[n] = i
<1>1. J \in [Numbers -> ItemType] /\ J[n] = i /\ \A m \in Numbers \ {n} : J[m] = I[m]
  BY DEF RepoOK
<1>2. Grows(I, J) /\ n \in Existing(J) /\ Existing(I) \subseteq Existing(J)
  BY <1>1 DEF Grows, Existing
<1>3. \A m \in Numbers : J[m].cited \subseteq Existing(J) /\ (J[m].event => m \in Existing(J))
  BY <1>1, <1>2 DEF RepoOK
<1>4. ASSUME NEW m \in Numbers, J[m].source # None
      PROVE  J[m].source \in Existing(J) /\ J[J[m].source].author # "bot"
  <2>1. J[m].source \in Existing(I) /\ I[J[m].source].author # "bot"
    BY <1>1, <1>4 DEF RepoOK
  <2> QED BY <2>1, <1>2 DEF Grows
<1> QED BY <1>1, <1>2, <1>3, <1>4 DEF RepoOK

-----------------------------------------------------------------------------
(* What allows a run, its record being x, to go to s.                      *)
Reach(g, I, x, s) ==
    /\ s \in Places \ {"write", "idle"}
    /\ s # "ended" => I[x.n].author # "bot"
    /\ s \in Triage => x.stage = "triage"
    /\ s \in {"related", "judge", "draftReview"} => I[x.n].kind # "issue" /\ g.prReviewClose
    /\ s \in {"draft", "create", "title"} => ~g.dryRun
    /\ s = "title" => x.hit # None
    /\ s = "match" => x.corpus \subseteq CanonicalIn(I)
    /\ s = "routeDuplicate" => x.hit \in CanonicalIn(I)

(* What allows it to hold the list T and to go to s when the calls are     *)
(* made.                                                                   *)
Hold(g, I, x, T, s) ==
    /\ Reach(g, I, x, s) /\ Careful(I, T)
    /\ T # <<>> => I[x.n].author # "bot"
    /\ \A i \in DOMAIN T :
          /\ T[i].must = "again" => x.stage = "triage"
          /\ T[i].op = "close" => s = "ended" /\ (x.stage = "govern" => Home(g, I, x))
          /\ g.dryRun /\ x.stage = "govern" => T[i].op = "comment"

(* The record y follows the record x: the same item, nothing more done.    *)
Follows(I, x, y) ==
    /\ y \in RunType /\ y.n = x.n /\ y.n \in Existing(I)
    /\ y.did = x.did /\ y.failed = x.failed
    /\ y.index \subseteq Existing(I) /\ y.corpus \subseteq Existing(I)
    /\ y.hit # None => y.hit \in Existing(I)

\* A record that follows another and may hold its list satisfies the invariant.
LEMMA Holds ==
    ASSUME NEW g, NEW I, NEW x, NEW y, NEW s, RunOK(g, I, x), ~HasClosed(x), ~x.failed,
           Follows(I, x, y), Hold(g, I, y, y.todo, s),
           y.at = (IF y.todo = <<>> THEN s ELSE "write"),
           y.todo # <<>> => y.then = s
    PROVE  RunOK(g, I, y)
<1>1. Goal(y) = s /\ s # "write" /\ s # "idle" /\ (y.at = "write" <=> y.todo # <<>>)
  BY DEF Hold, Reach, Goal
<1>2. Sees(I, y)
  BY <1>1 DEF Follows, Sees, Hold, Reach
<1>3. OnItsWay(g, I, y)
  BY <1>1 DEF OnItsWay, Hold, Reach
<1>4. Owed(g, I, y)
  BY <1>1 DEF Owed, Hold, Follows
<1> QED BY <1>2, <1>3, <1>4, MovesOn DEF Follows

LEMMA Lands ==
    ASSUME NEW g, NEW I, NEW x, NEW y, RunOK(g, I, x), ~HasClosed(x), ~x.failed,
           Follows(I, x, y), Reach(g, I, y, y.at), y.todo = <<>>
    PROVE  RunOK(g, I, y)
<1>1. Hold(g, I, y, y.todo, y.at)
  BY DEF Hold, Careful
<1> QED BY <1>1, Holds

-----------------------------------------------------------------------------
(* From here on the run is r, and it is at work on its item.               *)
AtWork(r) == run[r].at \notin {"idle", "write", "ended"}

\* What a run at work may rely on.
LEMMA Working ==
    ASSUME IInv, NEW r \in Runs, AtWork(r)
    PROVE  /\ RunOK(gov, item, run[r]) /\ run[r] \in RunType
           /\ ~HasClosed(run[r]) /\ run[r].failed = FALSE /\ run[r].todo = <<>>
           /\ run[r].n \in Existing(item) /\ run[r].n \in Numbers
           /\ run[r].at # "start" => Mine(r).author # "bot"
           /\ Follows(item, run[r], run[r])
<1>1. RunOK(gov, item, run[r]) /\ run[r].at \notin {"ended", "write"}
  BY DEF IInv, AtWork
<1>2. Follows(item, run[r], run[r])
  BY <1>1 DEF RunOK, Sees, Follows, AtWork
<1> QED BY <1>1, <1>2, Unsettled DEF RunOK, Sees, AtWork, Mine, Existing

LEMMA StepKeeps ==
    ASSUME IInv, NEW r \in Runs, NEW new, RunOK(gov, item, new), Step(r, new)
    PROVE  IInv'
<1>1. run' = [run EXCEPT ![r] = new] /\ gov' = gov /\ item' = item
  BY DEF Step
<1>2. new \in RunType /\ run \in [Runs -> RunType]
  BY DEF RunOK, IInv
<1>3. run' \in [Runs -> RunType]
  BY <1>1, <1>2
<1>4. \A q \in Runs : RunOK(gov', item', run'[q])
  BY <1>1, <1>2 DEF IInv
<1> QED BY <1>1, <1>3, <1>4 DEF IInv

\* The fields of the records that the actions write.
LEMMA GoesFields ==
    ASSUME NEW r \in Runs, run[r] \in RunType, NEW s \in Places
    PROVE  /\ Goes(r, s) \in RunType /\ Goes(r, s).at = s
           /\ \A f \in {"n", "stage", "exempt", "well", "index", "corpus", "hit", "todo",
                        "then", "failed", "did", "summary"} : Goes(r, s)[f] = run[r][f]
<1>1. 0 \in 0..MaxRetries
  BY GovRepoAssumption
<1> QED BY <1>1 DEF Goes, RunType

LEMMA GotoKeeps ==
    ASSUME IInv, NEW r \in Runs, AtWork(r), NEW s, Reach(gov, item, run[r], s), Goto(r, s)
    PROVE  IInv'
<1> DEFINE y == Goes(r, s)
<1>1. s \in Places
  BY DEF Reach
<1>2. /\ y \in RunType /\ y.at = s /\ y.n = run[r].n /\ y.stage = run[r].stage
      /\ y.index = run[r].index /\ y.corpus = run[r].corpus /\ y.hit = run[r].hit
      /\ y.todo = run[r].todo /\ y.failed = run[r].failed /\ y.did = run[r].did
  BY <1>1, Working, GoesFields DEF Goes, RunType
<1> HIDE DEF y
<1>3. Follows(item, run[r], y) /\ Reach(gov, item, y, y.at) /\ y.todo = <<>>
  BY <1>2, Working DEF Follows, Reach
<1>4. RunOK(gov, item, y)
  BY <1>3, Working, Lands
<1> QED BY <1>4, StepKeeps DEF y, Goto

LEMMA CallsFields ==
    ASSUME NEW r \in Runs, run[r] \in RunType, NEW s \in Places, NEW T \in Seq(CallType),
           NEW y, y = Calls(r, T, s)
    PROVE  /\ y \in RunType /\ y.at = (IF T = <<>> THEN s ELSE "write")
           /\ y.n = run[r].n /\ y.stage = run[r].stage /\ y.index = run[r].index
           /\ y.corpus = run[r].corpus /\ y.hit = run[r].hit /\ y.todo = T /\ y.then = s
           /\ y.failed = run[r].failed /\ y.did = run[r].did
<1> DEFINE p == IF T = <<>> THEN s ELSE "write"
           z == Goes(r, p)
<1>1. p \in Places
  BY DEF Places
<1>2. /\ z \in RunType /\ z.at = p /\ z.n = run[r].n /\ z.stage = run[r].stage
      /\ z.index = run[r].index /\ z.corpus = run[r].corpus /\ z.hit = run[r].hit
      /\ z.failed = run[r].failed /\ z.did = run[r].did
  BY <1>1, GoesFields
<1>3. y = [z EXCEPT !.todo = T, !.then = s]
  BY DEF Calls
<1> HIDE DEF z
<1> QED BY <1>2, <1>3, ZenonT(60) DEF RunType

LEMMA PlanKeeps ==
    ASSUME IInv, NEW r \in Runs, AtWork(r), NEW T, NEW s, Hold(gov, item, run[r], T, s),
           Plan(r, T, s)
    PROVE  IInv'
<1> DEFINE y == Calls(r, T, s)
<1>1. s \in Places /\ T \in Seq(CallType) /\ run[r] \in RunType
  BY Working DEF Hold, Reach, Careful
<1>2. /\ y \in RunType /\ y.at = (IF T = <<>> THEN s ELSE "write")
      /\ y.n = run[r].n /\ y.stage = run[r].stage /\ y.index = run[r].index
      /\ y.corpus = run[r].corpus /\ y.hit = run[r].hit /\ y.todo = T /\ y.then = s
      /\ y.failed = run[r].failed /\ y.did = run[r].did
  BY <1>1, CallsFields
<1> HIDE DEF y
<1>3. Follows(item, run[r], y)
  BY <1>2, Working DEF Follows
<1>4. Hold(gov, item, y, y.todo, s)
  BY <1>2 DEF Hold, Reach, Home
<1>5. RunOK(gov, item, y)
  BY <1>2, <1>3, <1>4, Working, Holds
<1> QED BY <1>5, StepKeeps DEF y, Plan

-----------------------------------------------------------------------------
(* The calls to the AI and what becomes of their errors.                   *)
LEMMA RaisedOK ==
    ASSUME IInv, NEW r \in Runs, run[r].at # "idle", Mine(r).author # "bot",
           ~HasClosed(run[r]), ~run[r].failed, NEW e
    PROVE  RunOK(gov, item, Raised(r, e)) /\ Raised(r, e).did = run[r].did
<1>1. RunOK(gov, item, run[r]) /\ run[r] \in RunType /\ run[r].n \in Existing(item)
  BY DEF IInv, RunOK, Sees
<1>2. Existing(item) \subseteq Numbers /\ "ended" \in Places /\ "catch" \in Stages
  BY DEF Existing, Places, Stages
<1>3. CASE e = "filtered"
  <2> DEFINE T == HandleContentFiltered(run[r].n)
             z == Calls(r, T, "ended")
             y == Raised(r, e)
  <2>1. Careful(item, T) /\ T # <<>> /\ \A i \in DOMAIN T : T[i].must = "no"
    BY <1>1, Closing DEF HandleContentFiltered
  <2>2. T \in Seq(CallType)
    BY <2>1 DEF Careful
  <2>3. /\ z \in RunType /\ z.at = "write" /\ z.n = run[r].n /\ z.index = run[r].index
        /\ z.corpus = run[r].corpus /\ z.hit = run[r].hit /\ z.todo = T /\ z.then = "ended"
        /\ z.failed = run[r].failed /\ z.did = run[r].did
    BY <1>1, <1>2, <2>1, <2>2, CallsFields
  <2>4. y = [z EXCEPT !.stage = "catch"]
    BY <1>3 DEF Raised
  <2> HIDE DEF T, y, z
  <2>5. /\ y \in RunType /\ y.at = "write" /\ y.n = run[r].n /\ y.index = run[r].index
        /\ y.corpus = run[r].corpus /\ y.hit = run[r].hit /\ y.todo = T /\ y.then = "ended"
        /\ y.failed = run[r].failed /\ y.did = run[r].did /\ y.stage = "catch"
    BY <1>2, <2>3, <2>4 DEF RunType
  <2>6. Follows(item, run[r], y)
    BY <1>1, <2>5 DEF Follows, RunOK, Sees
  <2>7. Hold(gov, item, y, y.todo, "ended")
    BY <2>1, <2>5, <1>2 DEF Hold, Reach, Triage, Mine
  <2> QED BY <1>1, <2>1, <2>5, <2>6, <2>7, Holds DEF y
<1>4. CASE e # "filtered"
  <2> DEFINE T == FailOpenComment(run[r].n)
             z == Calls(r, T, "ended")
             y == Raised(r, e)
  <2>1. Careful(item, T) /\ T # <<>> /\ \A i \in DOMAIN T : T[i].must = "no" /\ T[i].op = "comment"
    BY <1>1, <1>2 DEF FailOpenComment, Careful, Sound, CallType, Ops, Comment, Call
  <2>2. T \in Seq(CallType)
    BY <2>1 DEF Careful
  <2>3. /\ z \in RunType /\ z.at = "write" /\ z.n = run[r].n /\ z.index = run[r].index
        /\ z.corpus = run[r].corpus /\ z.hit = run[r].hit /\ z.todo = T /\ z.then = "ended"
        /\ z.did = run[r].did
    BY <1>1, <1>2, <2>1, <2>2, CallsFields
  <2>4. y = [z EXCEPT !.stage = "catch", !.failed = TRUE]
    BY <1>4 DEF Raised
  <2> HIDE DEF T, y, z
  <2>5. /\ y \in RunType /\ y.at = "write" /\ y.n = run[r].n /\ y.index = run[r].index
        /\ y.corpus = run[r].corpus /\ y.hit = run[r].hit /\ y.todo = T /\ y.then = "ended"
        /\ y.did = run[r].did /\ y.stage = "catch"
    BY <1>2, <2>3, <2>4 DEF RunType
  <2>6. Sees(item, y) /\ OnItsWay(gov, item, y)
    BY <1>1, <2>1, <2>5 DEF RunOK, Sees, OnItsWay, Goal, Triage, Mine
  <2>7. Owed(gov, item, y)
    BY <2>1, <2>5 DEF Owed
  <2>8. Settled(y) /\ Founded(gov, item, y)
    BY <1>1, <2>1, <2>5 DEF RunOK, Settled, Founded, HasClosed, Goal, Stages
  <2> QED BY <2>5, <2>6, <2>7, <2>8 DEF RunOK, y
<1> QED BY <1>3, <1>4

LEMMA RaiseKeeps ==
    ASSUME IInv, NEW r \in Runs, AtWork(r), run[r].at # "start", NEW e, Raise(r, e)
    PROVE  IInv'
BY Working, RaisedOK, StepKeeps DEF Raise, AtWork

\* A run at work may stay where it is.
LEMMA Stays ==
    ASSUME IInv, NEW r \in Runs, AtWork(r), run[r].at # "start"
    PROVE  Reach(gov, item, run[r], run[r].at)
<1>1. run[r].at \in Places
  BY Working DEF RunType
<1> QED BY <1>1, Working DEF AtWork, Reach, RunOK, Sees, OnItsWay, Goal, Mine

LEMMA RetryKeeps ==
    ASSUME IInv, NEW r \in Runs, AtWork(r), run[r].at # "start", Retry(r)
    PROVE  IInv'
<1> DEFINE y == [run[r] EXCEPT !.tries = @ + 1]
<1>1. run[r].tries < MaxRetries /\ run[r].tries \in 0..MaxRetries /\ run[r] \in RunType
  BY Working DEF Retry, CallAI, RunType
<1>2. run[r].tries + 1 \in 0..MaxRetries
  BY <1>1, GovRepoAssumption
<1>3. /\ y \in RunType /\ y.at = run[r].at /\ y.n = run[r].n /\ y.stage = run[r].stage
      /\ y.index = run[r].index /\ y.corpus = run[r].corpus /\ y.hit = run[r].hit
      /\ y.todo = run[r].todo /\ y.failed = run[r].failed /\ y.did = run[r].did
  BY <1>1, <1>2 DEF RunType
<1>4. Step(r, y)
  BY DEF Retry
<1> HIDE DEF y
<1>5. Follows(item, run[r], y) /\ Reach(gov, item, y, y.at) /\ y.todo = <<>>
  BY <1>3, Working, Stays, ZenonT(60) DEF Follows, Reach
<1>6. RunOK(gov, item, y)
  BY <1>5, Working, Lands
<1> QED BY <1>4, <1>6, StepKeeps

LEMMA AIThrowsKeeps ==
    ASSUME IInv, NEW r \in Runs, AtWork(r), run[r].at # "start", AIThrows(r)
    PROVE  IInv'
BY RetryKeeps, RaiseKeeps DEF AIThrows

LEMMA AISwallowedKeeps ==
    ASSUME IInv, NEW r \in Runs, AtWork(r), run[r].at # "start", NEW s,
           Reach(gov, item, run[r], s), AISwallowed(r, s)
    PROVE  IInv'
BY RetryKeeps, GotoKeeps DEF AISwallowed

-----------------------------------------------------------------------------
(* One call of a list.                                                     *)
Later(x) == [x EXCEPT !.todo = Tail(x.todo),
                      !.at = IF Tail(x.todo) = <<>> THEN x.then ELSE "write"]

LEMMA LaterOK ==
    ASSUME NEW g, NEW I, NEW x, RunOK(g, I, x), x.at = "write"
    PROVE  /\ RunOK(g, I, Later(x)) /\ Goal(Later(x)) = Goal(x) /\ Later(x).did = x.did
           /\ Later(x).failed = x.failed /\ Later(x).stage = x.stage
           /\ Later(x).n = x.n /\ Later(x).hit = x.hit
           /\ \A i \in DOMAIN Later(x).todo : Later(x).todo[i].must = "no"
<1> DEFINE y == Later(x)
<1> DEFINE T == Tail(x.todo)
           p == IF T = <<>> THEN x.then ELSE "write"
<1>1. x.todo \in Seq(CallType) /\ x.todo # <<>> /\ x.then \in Places /\ x.then # "write"
  BY DEF RunOK, RunType, OnItsWay, Goal
<1>2. T \in Seq(CallType) /\ p \in Places /\ (p = "write" <=> T # <<>>)
  BY <1>1 DEF Places
<1>3. \A i \in DOMAIN T : i + 1 \in DOMAIN x.todo /\ i + 1 # 1 /\ T[i] = x.todo[i + 1]
  BY <1>1
<1>4. x \in RunType /\ y = [x EXCEPT !.todo = T, !.at = p]
  BY DEF RunOK, Later
<1>5. p = "write" \/ (p = x.then /\ T = <<>>)
  OBVIOUS
<1> HIDE DEF T, p, y
<1>6. /\ y \in RunType /\ y.at = p /\ y.n = x.n /\ y.stage = x.stage /\ y.index = x.index
      /\ y.corpus = x.corpus /\ y.hit = x.hit /\ y.todo = T /\ y.then = x.then
      /\ y.failed = x.failed /\ y.did = x.did
  BY <1>2, <1>4 DEF RunType
<1>7. Goal(y) = Goal(x)
  BY <1>2, <1>5, <1>6 DEF Goal
<1>8. Sees(I, y)
  BY <1>6, <1>7 DEF RunOK, Sees
<1>9. OnItsWay(g, I, y)
  BY <1>2, <1>6, <1>7 DEF RunOK, OnItsWay
<1>10. \A i \in DOMAIN T : T[i].must = "no"
  BY <1>3 DEF RunOK, Owed, Careful
<1>11. Careful(I, T)
  BY <1>2, <1>3, <1>10 DEF RunOK, Owed, Careful
<1>12. Home(g, I, x) <=> Home(g, I, y)
  BY <1>6 DEF Home
<1>13. Owed(g, I, y)
  <2> SUFFICES ASSUME NEW i \in DOMAIN T
               PROVE  /\ T[i].must = "again" => x.stage = "triage"
                      /\ T[i].op = "close" => Goal(x) = "ended" /\ ~x.failed
                      /\ T[i].op = "close" /\ x.stage = "govern" => Home(g, I, x)
                      /\ g.dryRun /\ x.stage = "govern" => T[i].op = "comment"
    BY <1>6, <1>7, <1>11, <1>12 DEF Owed
  <2> QED BY <1>3 DEF RunOK, Owed
<1>14. Settled(y) /\ Founded(g, I, y)
  BY <1>6, <1>7, <1>10 DEF RunOK, Settled, Founded, HasClosed, Home
<1> QED BY <1>6, <1>7, <1>8, <1>9, <1>10, <1>13, <1>14 DEF RunOK, y

\* A run that did one thing more.
LEMMA DidMore ==
    ASSUME NEW g, NEW I, NEW x, RunOK(g, I, x), NEW st \in Stages, NEW op \in Ops \cup {"create"},
           NEW y, y = [x EXCEPT !.did = @ \cup {<<st, op>>}],
           op = "close" => /\ Goal(x) = "ended" /\ ~x.failed
                           /\ \A i \in DOMAIN x.todo : x.todo[i].must = "no"
                           /\ st = "govern" => Home(g, I, x),
           g.dryRun => st # "govern"
    PROVE  RunOK(g, I, y)
<1> DEFINE D == x.did \cup {<<st, op>>}
<1>1. x \in RunType /\ D \subseteq Stages \X (Ops \cup {"create"})
  BY DEF RunOK, RunType
<1>2. y = [x EXCEPT !.did = D] /\ \A s : <<s, "close">> \in D =>
         <<s, "close">> \in x.did \/ (s = st /\ op = "close")
  BY <1>1 DEF RunType
<1>3. \A d \in D : d \in x.did \/ d[1] = st
  OBVIOUS
<1> HIDE DEF D
<1>4. /\ y \in RunType /\ y.at = x.at /\ y.n = x.n /\ y.stage = x.stage /\ y.index = x.index
      /\ y.corpus = x.corpus /\ y.hit = x.hit /\ y.todo = x.todo /\ y.then = x.then
      /\ y.failed = x.failed /\ y.did = D
  BY <1>1, <1>2 DEF RunType
<1>5. Goal(y) = Goal(x) /\ (Home(g, I, x) <=> Home(g, I, y))
  BY <1>4 DEF Goal, Home
<1>6. Sees(I, y) /\ OnItsWay(g, I, y)
  BY <1>4, <1>5 DEF RunOK, Sees, OnItsWay
<1>7. Owed(g, I, y)
  BY <1>4, <1>5 DEF RunOK, Owed
<1>8. HasClosed(y) => HasClosed(x) \/ op = "close"
  BY <1>2, <1>4 DEF HasClosed
<1>9. Settled(y)
  BY <1>4, <1>5, <1>8 DEF RunOK, Settled
<1>10. Founded(g, I, y)
  BY <1>2, <1>3, <1>4, <1>5 DEF RunOK, Founded
<1> QED BY <1>4, <1>6, <1>7, <1>9, <1>10 DEF RunOK

\* A step of one run that changes the repository as well.
LEMMA BothKeep ==
    ASSUME IInv, NEW r \in Runs, NEW new, RepoOK(item'), Grows(item, item'),
           RunOK(gov, item', new), run' = [run EXCEPT ![r] = new], gov' = gov
    PROVE  IInv'
<1>1. new \in RunType /\ run \in [Runs -> RunType]
  BY DEF RunOK, IInv
<1>2. run' \in [Runs -> RunType] /\ run'[r] = new /\ \A q \in Runs \ {r} : run'[q] = run[q]
  BY <1>1
<1>3. \A q \in Runs \ {r} : RunOK(gov, item', run[q])
  BY GrowsRunOK DEF IInv
<1>4. \A q \in Runs : RunOK(gov', item', run'[q])
  BY <1>2, <1>3
<1> QED BY <1>2, <1>4 DEF IInv

Dropped(r, s) == [Goes(r, s) EXCEPT !.todo = <<>>]

LEMMA DropsFields ==
    ASSUME NEW r \in Runs, run[r] \in RunType, NEW s \in Places
    PROVE  /\ Dropped(r, s) \in RunType /\ Dropped(r, s).at = s
           /\ Dropped(r, s).todo = <<>>
           /\ \A f \in {"n", "stage", "index", "corpus", "hit", "failed", "did"} :
                Dropped(r, s)[f] = run[r][f]
<1> DEFINE y == Dropped(r, s)
<1> DEFINE z == Goes(r, s)
<1>1. /\ z \in RunType /\ z.at = s /\ z.n = run[r].n /\ z.stage = run[r].stage
      /\ z.index = run[r].index /\ z.corpus = run[r].corpus /\ z.hit = run[r].hit
      /\ z.failed = run[r].failed /\ z.did = run[r].did
  BY GoesFields
<1>2. y = [z EXCEPT !.todo = <<>>]
  BY DEF Dropped
<1> HIDE DEF y, z
<1>3. <<>> \in Seq(CallType)
  OBVIOUS
<1>4. y \in RunType
  BY <1>1, <1>2, <1>3 DEF RunType
<1>5. /\ y.at = z.at /\ y.n = z.n /\ y.stage = z.stage /\ y.index = z.index
      /\ y.corpus = z.corpus /\ y.hit = z.hit /\ y.failed = z.failed /\ y.did = z.did
      /\ y.todo = <<>>
  BY <1>1, <1>2 DEF RunType
<1> QED BY <1>1, <1>4, <1>5 DEF y

LEMMA WriteKeeps == ASSUME IInv, NEW r \in Runs, Write(r) PROVE IInv'
<1> DEFINE x == run[r]
           c == Head(x.todo)
           later == Later(x)
<1>1. RunOK(gov, item, x) /\ x.at = "write" /\ x.todo # <<>> /\ x \in RunType
  BY DEF IInv, Write, At, RunOK, OnItsWay
<1>2. x.todo \in Seq(CallType) /\ 1 \in DOMAIN x.todo /\ c = x.todo[1]
  BY <1>1 DEF RunType
<1>3. Sound(item, c) /\ (c.must # "no" => c.op = "comment")
  BY <1>1, <1>2 DEF RunOK, Owed, Careful
<1>4. /\ c.must = "again" => x.stage = "triage"
      /\ c.op = "close" => Goal(x) = "ended" /\ ~x.failed
      /\ c.op = "close" /\ x.stage = "govern" => Home(gov, item, x)
      /\ gov.dryRun /\ x.stage = "govern" => c.op = "comment"
  BY <1>1, <1>2 DEF RunOK, Owed
<1>5. c.must # "no" => ~HasClosed(x) /\ ~x.failed
  BY <1>1, <1>2 DEF RunOK, Settled
<1>6. x.n \in Existing(item) /\ item[x.n].author # "bot"
  BY <1>1 DEF RunOK, Sees
<1>7. /\ RunOK(gov, item, later) /\ Goal(later) = Goal(x) /\ later.did = x.did
      /\ later.failed = x.failed /\ later.stage = x.stage /\ later.n = x.n /\ later.hit = x.hit
      /\ \A i \in DOMAIN later.todo : later.todo[i].must = "no"
  <2>1. RunOK(gov, item, x) /\ x.at = "write"
    BY <1>1
  <2>2. RunOK(gov, item, Later(x))
    BY <2>1, LaterOK
  <2> QED BY <2>1, <2>2, LaterOK
<1>8. CASE /\ item' = [item EXCEPT ![c.n] = Effect(@, c)]
           /\ run' = [run EXCEPT ![r] = [later EXCEPT !.did = Done(r, c.op)]]
           /\ UNCHANGED gov
  <2> DEFINE y == [later EXCEPT !.did = Done(r, c.op)]
  <2>1. RepoOK(item') /\ Grows(item, item')
    BY <1>3, <1>8, AfterEffect DEF IInv
  <2>2. RunOK(gov, item', later) /\ RunOK(gov, item', x)
    BY <1>1, <1>7, <2>1, GrowsRunOK
  <2> HIDE DEF later
  <2>3. later \in RunType
    BY <1>7 DEF RunOK
  <2>4. CASE c.op = "comment"
    <3>1. y = [later EXCEPT !.did = later.did]
      BY <1>7, <2>4 DEF Done
    <3>2. y = later
      BY <2>3, <3>1, SMTT(40) DEF RunType
    <3> QED BY <1>8, <2>1, <2>2, <3>2, BothKeep
  <2>5. CASE c.op # "comment"
    <3>1. y = [later EXCEPT !.did = @ \cup {<<x.stage, c.op>>}]
      BY <1>7, <2>3, <2>5 DEF Done, RunType
    <3>2. x.stage \in Stages /\ c.op \in Ops \cup {"create"}
      BY <1>1, <1>3 DEF RunType, Sound, CallType
    <3>3. c.op = "close" /\ x.stage = "govern" => Home(gov, item', later)
      <4>1. Home(gov, item, x) => Home(gov, item', x)
        BY <2>1, <1>6, GrowsKinds DEF Home, Grows, CanonicalIn
      <4> QED BY <1>4, <1>7, <4>1 DEF Home
    <3>4. RunOK(gov, item', y)
      <4> HIDE DEF c, x
      <4> QED BY <1>4, <1>7, <2>2, <2>5, <3>1, <3>2, <3>3, DidMore
    <3> QED BY <1>8, <2>1, <3>4, BothKeep
  <2> QED BY <2>4, <2>5
<1>9. CASE c.must = "no" /\ Step(r, later)
  BY <1>7, <1>9, StepKeeps
<1>10. CASE c.must = "end" /\ Step(r, Dropped(r, "ended"))
  <2> DEFINE y == Dropped(r, "ended")
  <2>1. /\ y \in RunType /\ y.at = "ended" /\ y.n = x.n /\ y.stage = x.stage
        /\ y.index = x.index /\ y.corpus = x.corpus /\ y.hit = x.hit
        /\ y.todo = <<>> /\ y.failed = x.failed /\ y.did = x.did
    BY <1>1, DropsFields DEF Places
  <2> HIDE DEF y
  <2>2. Follows(item, x, y) /\ Reach(gov, item, y, y.at)
    BY <1>1, <1>6, <2>1 DEF Follows, Reach, RunOK, Sees, Places, Triage
  <2>3. RunOK(gov, item, y)
    BY <1>1, <1>5, <1>10, <2>1, <2>2, Lands
  <2> QED BY <1>10, <2>3, StepKeeps DEF y
<1>11. CASE c.must = "again" /\ Step(r, Dropped(r, "ask"))
  <2> DEFINE y == Dropped(r, "ask")
  <2>1. /\ y \in RunType /\ y.at = "ask" /\ y.n = x.n /\ y.stage = x.stage
        /\ y.index = x.index /\ y.corpus = x.corpus /\ y.hit = x.hit
        /\ y.todo = <<>> /\ y.failed = x.failed /\ y.did = x.did
    BY <1>1, DropsFields DEF Places
  <2> HIDE DEF y
  <2>2. Follows(item, x, y) /\ Reach(gov, item, y, y.at)
    BY <1>1, <1>4, <1>6, <1>11, <2>1 DEF Follows, Reach, RunOK, Sees, Places, Triage
  <2>3. RunOK(gov, item, y)
    BY <1>1, <1>5, <1>11, <2>1, <2>2, Lands
  <2> QED BY <1>11, <2>3, StepKeeps DEF y
<1>12. CASE c.must = "raise" /\ Raise(r, "error")
  BY <1>1, <1>5, <1>6, <1>12, RaisedOK, StepKeeps DEF Raise, Mine
<1> QED BY <1>8, <1>9, <1>10, <1>11, <1>12 DEF Write, Later, Dropped

-----------------------------------------------------------------------------
(* What people do, what GitHub starts, and how a run is over.              *)
LEMMA OpenKeeps ==
    ASSUME IInv, NEW n, NEW kind \in {"issue", "pr"}, NEW text \in Texts,
           NEW author \in {"user", "maintainer", "banned"}, Open(n, kind, author, text)
    PROVE  IInv'
<1> DEFINE i == [Blank EXCEPT !.kind = kind, !.author = author, !.open = TRUE,
                              !.event = TRUE, !.text = text]
<1>1. n \in Numbers \ Existing(item) /\ item' = [item EXCEPT ![n] = i] /\ gov' = gov /\ run' = run
  BY DEF Open, NextNumber, Free, Items, Existing
<1>2. i \in ItemType /\ i.kind # "none" /\ i.cited = {} /\ i.source = None
  BY DEF Blank, ItemType, Authors
<1> HIDE DEF i
<1>3. RepoOK(item') /\ Grows(item, item')
  BY <1>1, <1>2, AfterAdding DEF IInv
<1>4. \A r \in Runs : RunOK(gov, item', run[r])
  BY <1>3, GrowsRunOK DEF IInv
<1> QED BY <1>1, <1>3, <1>4 DEF IInv

\* An event comes or goes.
LEMMA AfterEvent ==
    ASSUME NEW I, RepoOK(I), NEW n \in Existing(I), NEW e \in BOOLEAN,
           NEW J, J = [I EXCEPT ![n].event = e]
    PROVE  RepoOK(J) /\ Grows(I, J) /\ n \in Existing(J)
<1> DEFINE i == [I[n] EXCEPT !.event = e]
<1>1. n \in Numbers /\ I[n] \in ItemType
  BY DEF Existing, RepoOK
<1>2. /\ i \in ItemType /\ i.kind = I[n].kind /\ i.author = I[n].author
      /\ i.source = I[n].source /\ i.labels = I[n].labels /\ i.cited = I[n].cited
  BY <1>1 DEF ItemType
<1>3. J = [I EXCEPT ![n] = i]
  OBVIOUS
<1> HIDE DEF i
<1>4. J \in [Numbers -> ItemType] /\ J[n] = i /\ \A m \in Numbers \ {n} : J[m] = I[m]
  BY <1>1, <1>2, <1>3 DEF RepoOK
<1>5. Grows(I, J) /\ Existing(J) = Existing(I)
  BY <1>2, <1>4 DEF Grows, Existing
<1> QED BY <1>2, <1>4, <1>5 DEF RepoOK

LEMMA RerunKeeps == ASSUME IInv, NEW n \in Numbers, Rerun(n) PROVE IInv'
<1>1. /\ n \in Existing(item) /\ item' = [item EXCEPT ![n].event = TRUE]
      /\ gov' = gov /\ run' = run
  BY DEF Rerun, Items, Existing
<1>2. RepoOK(item') /\ Grows(item, item')
  BY <1>1, AfterEvent DEF IInv
<1>3. \A r \in Runs : RunOK(gov, item', run[r])
  BY <1>2, GrowsRunOK DEF IInv
<1> QED BY <1>1, <1>2, <1>3 DEF IInv

LEMMA DispatchKeeps ==
    ASSUME IInv, NEW r \in Runs, NEW n \in Numbers, Dispatch(r, n)
    PROVE  IInv'
<1> DEFINE y == [Idle EXCEPT !.at = "start", !.n = n]
<1>1. /\ item' = [item EXCEPT ![n].event = FALSE] /\ gov' = gov
      /\ run' = [run EXCEPT ![r] = y] /\ n \in Existing(item)
  BY DEF Dispatch, IInv, RepoOK
<1>2. RepoOK(item') /\ Grows(item, item') /\ n \in Existing(item')
  BY <1>1, AfterEvent DEF IInv
<1>3. /\ y \in RunType /\ y.at = "start" /\ y.n = n /\ y.stage = "triage" /\ y.did = {}
      /\ y.todo = <<>> /\ y.index = {} /\ y.corpus = {} /\ y.hit = None /\ y.failed = FALSE
  <2>1. Idle \in RunType
    BY IdleOK DEF RunOK
  <2> QED BY <2>1, ZenonT(60) DEF Idle, RunType, Places
<1> HIDE DEF y
<1>4. RunOK(gov, item', y)
  <2>1. Sees(item', y) /\ OnItsWay(gov, item', y) /\ Settled(y) /\ Founded(gov, item', y)
    BY <1>2, <1>3 DEF Sees, OnItsWay, Goal, Triage, Settled, HasClosed, Founded
  <2> QED BY <1>3, <2>1, NothingOwed DEF RunOK
<1> QED BY <1>1, <1>2, <1>4, BothKeep

LEMMA OverKeeps == ASSUME IInv, NEW r \in Runs, Finish(r) \/ Killed(r) PROVE IInv'
BY IdleOK, StepKeeps DEF Finish, Killed

\* The canonical issue a run creates.
LEMMA CreateKeeps ==
    ASSUME IInv, NEW r \in Runs, AtWork(r), run[r].at = "create", NEW n, NEW new,
           CreateCanonical(r, n, new),
           ASSUME RepoOK(item'), Grows(item, item'), n \in CanonicalIn(item'),
                  item'[n].source = run[r].n
           PROVE  RunOK(gov, item', new) /\ new.did = run[r].did
    PROVE  IInv'
<1>0. PICK S \in Mentions : item' = [item EXCEPT ![n] = Drafted(r, S)]
  BY DEF CreateCanonical
<1> DEFINE i == Drafted(r, S)
           y == [new EXCEPT !.did = Done(r, "create")]
<1>1. /\ n \in Numbers \ Existing(item) /\ item' = [item EXCEPT ![n] = i] /\ gov' = gov
      /\ run' = [run EXCEPT ![r] = y]
  BY <1>0 DEF CreateCanonical, NextNumber, Free, Items, Existing
<1>2. run[r].n \in Existing(item) /\ item[run[r].n].author # "bot" /\ item[run[r].n] \in ItemType
  BY Working DEF Mine, IInv, RepoOK
<1>3. /\ i \in ItemType /\ i.kind = "issue" /\ i.cited = {} /\ i.source = run[r].n
      /\ i.labels = {"canonical"}
  BY <1>2, Working, GovRepoAssumption DEF Drafted, Mine, Blank, ItemType, Authors, LabelNames
<1> HIDE DEF i
<1>4. i.source # None => i.source \in Existing(item) /\ item[i.source].author # "bot"
  BY <1>2, <1>3
<1>5. RepoOK(item') /\ Grows(item, item') /\ n \in Existing(item') /\ item'[n] = i
  <2>1. i.kind # "none"
    BY <1>3
  <2>2. RepoOK(item) /\ n \in Numbers \ Existing(item)
    BY <1>1 DEF IInv
  <2>3. i \in ItemType /\ i.cited = {} /\ item' = [item EXCEPT ![n] = i]
    BY <1>1, <1>3
  <2>4. Grows(item, item')
    BY <1>4, <2>1, <2>2, <2>3, AfterAdding
  <2>5. RepoOK(item')
    BY <1>4, <2>1, <2>2, <2>3, AfterAdding
  <2>6. item'[n] = i /\ n \in Existing(item')
    BY <2>1, <2>2, <2>3 DEF Existing, RepoOK
  <2> QED BY <2>4, <2>5, <2>6
<1>6. RunOK(gov, item', new) /\ new.did = run[r].did
  BY <1>3, <1>5 DEF CanonicalIn
<1>7. ~gov.dryRun /\ run[r].stage \in Stages
  BY Working DEF RunOK, OnItsWay, Goal, RunType
<1>8. new \in RunType /\ y = [new EXCEPT !.did = @ \cup {<<run[r].stage, "create">>}]
  BY <1>6 DEF Done, RunOK, RunType
<1> HIDE DEF y
<1>9. RunOK(gov, item', y)
  BY <1>6, <1>7, <1>8, DidMore
<1> QED BY <1>1, <1>5, <1>9, BothKeep

-----------------------------------------------------------------------------
(* Records that differ from another in one field.                          *)
Fields == {"at", "n", "tries", "stage", "exempt", "well", "index", "corpus", "hit", "todo",
           "then", "failed", "did", "summary"}
Differs(z, y, f) == y \in RunType /\ \A h \in Fields \ {f} : y[h] = z[h]

LEMMA Put ==
    ASSUME NEW z \in RunType
    PROVE  /\ \A v \in BOOLEAN : /\ Differs(z, [z EXCEPT !.exempt = v], "exempt")
                                 /\ Differs(z, [z EXCEPT !.well = v], "well")
           /\ \A v \in Stages : /\ Differs(z, [z EXCEPT !.stage = v], "stage")
                                /\ [z EXCEPT !.stage = v].stage = v
           /\ \A v \in SUBSET Numbers : /\ Differs(z, [z EXCEPT !.index = v], "index")
                                        /\ [z EXCEPT !.index = v].index = v
                                        /\ Differs(z, [z EXCEPT !.corpus = v], "corpus")
                                        /\ [z EXCEPT !.corpus = v].corpus = v
           /\ \A v \in Numbers : /\ Differs(z, [z EXCEPT !.hit = v], "hit")
                                 /\ [z EXCEPT !.hit = v].hit = v
           /\ \A v \in Mentions : Differs(z, [z EXCEPT !.summary = v], "summary")
<1> USE DEF RunType, Differs, Fields
<1>1. ASSUME NEW v \in BOOLEAN PROVE Differs(z, [z EXCEPT !.exempt = v], "exempt")
  OBVIOUS
<1>2. ASSUME NEW v \in BOOLEAN PROVE Differs(z, [z EXCEPT !.well = v], "well")
  OBVIOUS
<1>3. ASSUME NEW v \in Stages
      PROVE  Differs(z, [z EXCEPT !.stage = v], "stage") /\ [z EXCEPT !.stage = v].stage = v
  OBVIOUS
<1>4. ASSUME NEW v \in SUBSET Numbers
      PROVE  Differs(z, [z EXCEPT !.index = v], "index") /\ [z EXCEPT !.index = v].index = v
  OBVIOUS
<1>5. ASSUME NEW v \in SUBSET Numbers
      PROVE  Differs(z, [z EXCEPT !.corpus = v], "corpus") /\ [z EXCEPT !.corpus = v].corpus = v
  OBVIOUS
<1>6. ASSUME NEW v \in Numbers
      PROVE  Differs(z, [z EXCEPT !.hit = v], "hit") /\ [z EXCEPT !.hit = v].hit = v
  OBVIOUS
<1>7. ASSUME NEW v \in Mentions PROVE Differs(z, [z EXCEPT !.summary = v], "summary")
  OBVIOUS
<1> HIDE DEF RunType, Differs, Fields
<1> QED BY <1>1, <1>2, <1>3, <1>4, <1>5, <1>6, <1>7

\* A run at work goes on with a record of which only the lists, what it found and
\* what it knows of the author and the form are new.
LEMMA StepTo ==
    ASSUME IInv, NEW r \in Runs, AtWork(r), NEW y \in RunType, NEW s, Step(r, y),
           y.at = s, y.n = run[r].n, y.todo = run[r].todo, y.failed = run[r].failed,
           y.did = run[r].did, y.index \subseteq Existing(item),
           y.corpus \subseteq Existing(item), y.hit # None => y.hit \in Existing(item),
           Reach(gov, item, y, s)
    PROVE  IInv'
<1>1. Follows(item, run[r], y) /\ y.todo = <<>>
  BY Working DEF Follows
<1>2. RunOK(gov, item, y)
  BY <1>1, Working, Lands
<1> QED BY <1>2, StepKeeps

\* The lists that one comment makes, and those that close at the triage.
LEMMA Comments ==
    ASSUME NEW I, NEW n \in Existing(I), NEW cites \in SUBSET Existing(I)
    PROVE  /\ Sound(I, Comment(n, cites)) /\ Comment(n, cites).op = "comment"
           /\ Comment(n, cites).must = "no"
           /\ \A m \in {"end", "again", "raise"} :
                /\ Sound(I, Must(Comment(n, cites), m))
                /\ Must(Comment(n, cites), m).op = "comment"
                /\ Must(Comment(n, cites), m).must = m
<1>1. n \in Numbers /\ cites \in SUBSET Numbers
  BY DEF Existing
<1> QED BY <1>1 DEF Sound, CallType, Ops, Comment, Call, Must

\* Words that nothing checks change nothing of what a call is.
LEMMA NamingOK ==
    ASSUME NEW I, NEW c, Sound(I, c), NEW S \in SUBSET Numbers
    PROVE  /\ Sound(I, Naming(c, S))
           /\ Naming(c, S).op = c.op /\ Naming(c, S).must = c.must
<1> DEFINE d == Naming(c, S)
<1>1. c \in CallType /\ d = [c EXCEPT !.names = S]
  BY DEF Sound, Naming
<1> HIDE DEF d
<1>2. d \in CallType /\ d.op = c.op /\ d.must = c.must /\ d.n = c.n /\ d.cites = c.cites
  BY <1>1 DEF CallType
<1> QED BY <1>2 DEF Sound, d

\* The answers of the AI that the triage posts.
LEMMA Answers ==
    ASSUME NEW I, NEW n \in Existing(I), NEW S \in SUBSET Numbers, NEW m \in {"end", "again"}
    PROVE  /\ Sound(I, Must(Naming(Comment(n, {}), S), m))
           /\ Must(Naming(Comment(n, {}), S), m).op = "comment"
           /\ Must(Naming(Comment(n, {}), S), m).must = m
<1> DEFINE c == Naming(Comment(n, {}), S)
<1>1. Sound(I, Comment(n, {})) /\ Comment(n, {}).op = "comment"
  BY Comments
<1>2. Sound(I, c) /\ c.op = "comment"
  BY <1>1, NamingOK
<1> HIDE DEF c
<1>3. Must(c, m) = [c EXCEPT !.must = m] /\ c \in CallType
  BY <1>2 DEF Must, Sound
<1> QED BY <1>2, <1>3 DEF Sound, CallType, c

LEMMA Labels ==
    ASSUME NEW I, NEW n \in Existing(I), NEW l \in SUBSET LabelNames
    PROVE  Sound(I, Label(n, l)) /\ Label(n, l).op = "label" /\ Label(n, l).must = "no"
<1> DEFINE c == Label(n, l)
<1>1. n \in Numbers /\ l \in (SUBSET Numbers) \cup (SUBSET LabelNames)
  BY DEF Existing
<1>2. c = [[op |-> "label", n |-> n, cites |-> {}, names |-> {}, must |-> "no"]
             EXCEPT !.cites = l]
  BY DEF Label, Call
<1> HIDE DEF c
<1>3. c.op = "label" /\ c.n = n /\ c.cites = l /\ c.must = "no"
  BY <1>2
<1>4. c = [op |-> "label", n |-> n, cites |-> l, names |-> {}, must |-> "no"]
  BY <1>2
<1>5. c \in CallType
  BY <1>1, <1>4 DEF CallType, Ops
<1> QED BY <1>3, <1>5 DEF Sound, c

LEMMA OneCall ==
    ASSUME NEW g, NEW I, NEW x, NEW s, Reach(g, I, x, s), I[x.n].author # "bot",
           NEW c, Sound(I, c), c.op # "close", c.must = "no" \/ c.op = "comment",
           c.must = "again" => x.stage = "triage",
           x.stage = "govern" /\ g.dryRun => c.op = "comment"
    PROVE  Hold(g, I, x, <<c>>, s) /\ Hold(g, I, x, <<>>, s)
<1>1. Careful(I, <<c>>) /\ Careful(I, <<>>)
  BY DEF Careful, Sound
<1> QED BY <1>1 DEF Hold

LEMMA CloseHeld ==
    ASSUME NEW g, NEW I, NEW x, x.n \in Existing(I), I[x.n].author # "bot",
           x.stage = "triage", NEW lock \in BOOLEAN
    PROVE  /\ Hold(g, I, x, CloseIssue(x.n, lock), "ended")
           /\ Hold(g, I, x, ClosePR(x.n, lock), "ended")
<1>1. Reach(g, I, x, "ended")
  BY DEF Reach, Places, Triage
<1> QED BY <1>1, Closing DEF Hold

\* An item that passed the triage goes on to the governance.
LEMMA PassedOn ==
    ASSUME IInv, NEW r \in Runs, AtWork(r), run[r].at # "start",
           Step(r, [Goes(r, "history") EXCEPT !.stage = "govern"])
    PROVE  IInv'
<1> DEFINE x == run[r]
           z == Goes(r, "history")
           y == [z EXCEPT !.stage = "govern"]
<1>1. "history" \in Places /\ "govern" \in Stages
  BY DEF Places, Stages
<1>2. /\ z \in RunType /\ z.at = "history" /\ z.n = x.n
      /\ z.index = x.index /\ z.corpus = x.corpus /\ z.hit = x.hit
      /\ z.todo = x.todo /\ z.failed = x.failed /\ z.did = x.did
  BY <1>1, Working, GoesFields
<1>3. Step(r, y)
  OBVIOUS
<1> HIDE DEF z
<1>4. Differs(z, y, "stage")
  BY <1>1, <1>2, Put
<1> HIDE DEF y
<1>5. Reach(gov, item, y, "history")
  BY <1>1, <1>2, <1>4, Working DEF Reach, Places, Triage, Mine, Differs, Fields
<1> QED BY <1>2, <1>3, <1>4, <1>5, StepTo, Working DEF Differs, Fields, Follows

-----------------------------------------------------------------------------
(* The triage of an issue.                                                 *)
LEMMA TriageKeeps == ASSUME IInv, NEW r \in Runs, IssueTriageStep(r) PROVE IInv'
<1> DEFINE x == run[r]
           n == run[r].n
<1> USE DEF At
<1>1. x.at \in Triage /\ AtWork(r) =>
         /\ x.stage = "triage" /\ Reach(gov, item, x, "ended")
         /\ x.at # "start" => \A s \in Triage : Reach(gov, item, x, s)
  BY Working, ZenonT(60) DEF Reach, Places, Triage, RunOK, OnItsWay, Goal, Mine, AtWork
<1>2. CASE HandleNewIssue(r)
  <2>1. AtWork(r) /\ x.at \in Triage /\ x.at = "start"
    BY <1>2 DEF HandleNewIssue, AtWork, Triage
  <2>2. CASE Mine(r).author \in SkipUsers /\ Goto(r, "ended")
    BY <1>1, <2>1, <2>2, GotoKeeps
  <2>3. CASE Mine(r).author = "banned" /\ Plan(r, HandleBlacklistedUser(n), "ended")
    BY <1>1, <2>1, <2>3, Working, CloseHeld, PlanKeeps DEF HandleBlacklistedUser, Mine
  <2>4. ASSUME NEW known \in IsCollaborator(n), Mine(r).author \notin SkipUsers,
               Step(r, [Goes(r, "spam") EXCEPT !.exempt = gov.maintainerExempt /\ known])
        PROVE  IInv'
    <3> DEFINE z == Goes(r, "spam")
               v == gov.maintainerExempt /\ known
               y == [z EXCEPT !.exempt = v]
    <3>1. "spam" \in Places /\ v \in BOOLEAN
      BY DEF Places
    <3>2. /\ z \in RunType /\ z.at = "spam" /\ z.n = n /\ z.stage = x.stage
          /\ z.index = x.index /\ z.corpus = x.corpus /\ z.hit = x.hit
          /\ z.todo = x.todo /\ z.failed = x.failed /\ z.did = x.did
      BY <2>1, <3>1, Working, GoesFields
    <3> HIDE DEF z, v
    <3>3. Differs(z, y, "exempt")
      BY <3>1, <3>2, Put
    <3>4. Step(r, y)
      BY <2>4 DEF z, v
    <3> HIDE DEF y
    <3>5. Reach(gov, item, y, "spam")
      BY <1>1, <2>1, <2>4, <3>2, <3>3 DEF Reach, Places, Triage, Mine, SkipUsers, Differs, Fields
    <3> QED BY <2>1, <3>2, <3>3, <3>4, <3>5, StepTo, Working DEF Differs, Fields, Follows
  <2> QED BY <1>2, <2>2, <2>3, <2>4 DEF HandleNewIssue
<1>3. CASE DetectSpam(r)
  <2>1. AtWork(r) /\ x.at \in Triage /\ x.at # "start"
    BY <1>3 DEF DetectSpam, AtWork, Triage
  <2>2. Plan(r, HandleSpamIssue(n), "ended") => IInv'
    BY <1>1, <2>1, Working, CloseHeld, PlanKeeps DEF HandleSpamIssue, Mine
  <2>3. Goto(r, "coverage") => IInv'
    BY <1>1, <2>1, GotoKeeps DEF Triage
  <2> QED BY <1>3, <2>1, <2>2, <2>3, AIThrowsKeeps DEF DetectSpam
<1>4. CASE CheckReadmeCoverage(r)
  <2>1. AtWork(r) /\ x.at \in Triage /\ x.at # "start"
    BY <1>4 DEF CheckReadmeCoverage, AtWork, Triage
  <2>2. Goto(r, "answer") \/ Goto(r, "classify") => IInv'
    BY <1>1, <2>1, GotoKeeps DEF Triage
  <2> QED BY <1>4, <2>1, <2>2, AIThrowsKeeps DEF CheckReadmeCoverage
<1>5. CASE HandleReadmeRelated(r)
  <2>1. AtWork(r) /\ x.at \in Triage /\ x.at # "start" /\ x.stage = "triage"
    BY <1>1, <1>5 DEF HandleReadmeRelated, AtWork, Triage
  <2>2. ASSUME NEW V \in Mentions,
               Plan(r, AddReadmeAnswer(n, V) \o CloseReadmeCoveredIssue(n), "ended")
        PROVE  IInv'
    <3> DEFINE S == AddReadmeAnswer(n, V)
               T == CloseReadmeCoveredIssue(n)
    <3>1. n \in Existing(item) /\ item[n].author # "bot"
      BY <2>1, Working DEF Mine
    <3>2. /\ Sound(item, Must(Naming(Comment(n, {}), V), "end"))
          /\ Must(Naming(Comment(n, {}), V), "end").op = "comment"
      BY <3>1, Answers, GovRepoAssumption
    <3>3. Careful(item, S)
      BY <3>2 DEF AddReadmeAnswer, Careful, Sound
    <3>4. Careful(item, T) /\ \A i \in DOMAIN T : T[i].must = "no"
      BY <3>1, Closing DEF CloseReadmeCoveredIssue
    <3>5. Plan(r, S \o T, "ended")
      BY <2>2
    <3> HIDE DEF S, T
    <3>6. Careful(item, S \o T)
      BY <3>3, <3>4, Joined
    <3>7. Hold(gov, item, x, S \o T, "ended")
      BY <1>1, <2>1, <3>1, <3>6 DEF Hold
    <3> QED BY <2>1, <3>5, <3>7, PlanKeeps
  <2> QED BY <1>1, <1>5, <2>1, <2>2, AISwallowedKeeps DEF HandleReadmeRelated
<1>6. TriageThrows(r) /\ AtWork(r) /\ x.at # "start" => IInv'
  BY RetryKeeps, RaiseKeeps DEF TriageThrows
<1>7. CASE ClassifyAndHandle(r)
  <2>1. AtWork(r) /\ x.at \in Triage /\ x.at # "start" /\ x.stage = "triage"
    BY <1>1, <1>7 DEF ClassifyAndHandle, AtWork, Triage
  <2>2. ASSUME NEW s \in {"quality", "triaged"}, NEW listed \in BOOLEAN
        PROVE  Hold(gov, item, x, AddClassificationLabel(n, listed), s)
    <3>1. n \in Existing(item) /\ n \in Numbers /\ item[n].author # "bot"
      BY <2>1, Working DEF Mine
    <3>2. Reach(gov, item, x, s)
      BY <1>1, <2>1 DEF Triage
    <3>3. Sound(item, Label(n, {"type"})) /\ Label(n, {"type"}).op = "label"
          /\ Label(n, {"type"}).must = "no"
      BY <3>1, Labels DEF LabelNames
    <3>4. Hold(gov, item, x, <<Label(n, {"type"})>>, s) /\ Hold(gov, item, x, <<>>, s)
      BY <2>1, <3>1, <3>2, <3>3, OneCall
    <3>5. AddClassificationLabel(n, listed) \in {<<Label(n, {"type"})>>, <<>>}
      BY DEF AddClassificationLabel
    <3> QED BY <3>4, <3>5
  <2>3. ASSUME NEW s \in {"quality", "triaged"}, NEW listed \in BOOLEAN,
               Plan(r, AddClassificationLabel(n, listed), s)
        PROVE  IInv'
    BY <2>1, <2>2, <2>3, PlanKeeps
  <2> QED BY <1>6, <1>7, <2>1, <2>3 DEF ClassifyAndHandle
<1>8. CASE CheckContentQuality(r)
  <2>1. AtWork(r) /\ x.at \in Triage /\ x.at # "start"
    BY <1>8 DEF CheckContentQuality, AtWork, Triage
  <2>2. Goto(r, "unclear") \/ Goto(r, "triaged") => IInv'
    BY <1>1, <2>1, GotoKeeps DEF Triage
  <2>3. Plan(r, CloseAndLock(n), "ended") => IInv'
    BY <1>1, <2>1, Working, CloseHeld, PlanKeeps DEF CloseAndLock, Mine
  <2> QED BY <1>6, <1>8, <2>1, <2>2, <2>3 DEF CheckContentQuality
<1>9. CASE HandleUnclear(r) \/ AskForMore(r)
  <2>1. AtWork(r) /\ x.at \in Triage /\ x.at # "start" /\ x.stage = "triage"
    BY <1>1, <1>9 DEF HandleUnclear, AskForMore, AtWork, Triage
  <2>2. ASSUME NEW m \in {"again", "raise"}
        PROVE  Hold(gov, item, x, <<Must(Comment(n, {}), m)>>, "ended")
    <3>1. n \in Existing(item) /\ item[n].author # "bot" /\ Reach(gov, item, x, "ended")
      BY <1>1, <2>1, Working DEF Mine
    <3>2. /\ Sound(item, Must(Comment(n, {}), m)) /\ Must(Comment(n, {}), m).op = "comment"
          /\ Must(Comment(n, {}), m).must = m
      BY <3>1, Comments
    <3> QED BY <2>1, <3>1, <3>2, OneCall
  <2>3. ASSUME NEW S \in Mentions \cup {{}}, Plan(r, AddUnclearAnswer(n, S), "ended")
        PROVE  IInv'
    <3>1. n \in Existing(item) /\ item[n].author # "bot" /\ Reach(gov, item, x, "ended")
      BY <1>1, <2>1, Working DEF Mine
    <3> DEFINE c == Must(Naming(Comment(n, {}), S), "again")
    <3>2. Sound(item, c) /\ c.op = "comment" /\ c.must = "again"
      BY <3>1, Answers, GovRepoAssumption
    <3>3. Plan(r, <<c>>, "ended")
      BY <2>3 DEF AddUnclearAnswer
    <3> HIDE DEF c
    <3>4. Hold(gov, item, x, <<c>>, "ended")
      BY <2>1, <3>1, <3>2, OneCall
    <3> QED BY <2>1, <3>3, <3>4, PlanKeeps
  <2>4. AskForMore(r) => IInv'
    BY <2>1, <2>2, PlanKeeps DEF AskForMore
  <2>5. AISwallowed(r, "ask") => IInv'
    BY <1>1, <2>1, AISwallowedKeeps DEF Triage
  <2> QED BY <1>9, <2>3, <2>4, <2>5 DEF HandleUnclear
<1>10. CASE PassTriage(r)
  <2>1. AtWork(r) /\ x.at \in Triage /\ x.at # "start"
    BY <1>10 DEF PassTriage, AtWork, Triage
  <2>2. Step(r, [Goes(r, "history") EXCEPT !.stage = "govern"]) => IInv'
    BY <2>1, PassedOn
  <2> QED BY <1>1, <1>10, <2>1, <2>2, GotoKeeps DEF PassTriage
<1> QED BY <1>2, <1>3, <1>4, <1>5, <1>7, <1>8, <1>9, <1>10 DEF IssueTriageStep

-----------------------------------------------------------------------------
(* The record of r with which it goes on at s, its lists being L and C and *)
(* what it found h.                                                        *)
Carries(r, s, y, L, C, h) ==
    /\ y \in RunType /\ y.at = s /\ y.n = run[r].n /\ y.stage = run[r].stage
    /\ y.todo = run[r].todo /\ y.failed = run[r].failed /\ y.did = run[r].did
    /\ y.index = L /\ y.corpus = C /\ y.hit = h

LEMMA Carried ==
    ASSUME NEW r \in Runs, run[r] \in RunType, NEW s \in Places
    PROVE  /\ Carries(r, s, Goes(r, s), run[r].index, run[r].corpus, run[r].hit)
           /\ \A w \in BOOLEAN : Carries(r, s, [Goes(r, s) EXCEPT !.well = w],
                                         run[r].index, run[r].corpus, run[r].hit)
           /\ \A L \in SUBSET Numbers : Carries(r, s, [Goes(r, s) EXCEPT !.index = L],
                                                L, run[r].corpus, run[r].hit)
           /\ \A C \in SUBSET Numbers : Carries(r, s, [Goes(r, s) EXCEPT !.corpus = C],
                                                run[r].index, C, run[r].hit)
           /\ \A S \in Mentions : Carries(r, s, [Goes(r, s) EXCEPT !.summary = S],
                                          run[r].index, run[r].corpus, run[r].hit)
<1> DEFINE z == Goes(r, s)
<1>1. /\ z \in RunType /\ z.at = s /\ z.n = run[r].n /\ z.stage = run[r].stage
      /\ z.index = run[r].index /\ z.corpus = run[r].corpus /\ z.hit = run[r].hit
      /\ z.todo = run[r].todo /\ z.failed = run[r].failed /\ z.did = run[r].did
  BY GoesFields
<1> HIDE DEF z
<1>2. Carries(r, s, z, run[r].index, run[r].corpus, run[r].hit)
  BY <1>1 DEF Carries
<1>3. ASSUME NEW w \in BOOLEAN
      PROVE  Carries(r, s, [z EXCEPT !.well = w], run[r].index, run[r].corpus, run[r].hit)
  <2>1. Differs(z, [z EXCEPT !.well = w], "well")
    BY <1>1, Put
  <2> QED BY <1>1, <2>1 DEF Carries, Differs, Fields
<1>4. ASSUME NEW L \in SUBSET Numbers
      PROVE  Carries(r, s, [z EXCEPT !.index = L], L, run[r].corpus, run[r].hit)
  <2>1. Differs(z, [z EXCEPT !.index = L], "index") /\ [z EXCEPT !.index = L].index = L
    BY <1>1, Put
  <2> QED BY <1>1, <2>1 DEF Carries, Differs, Fields
<1>5. ASSUME NEW C \in SUBSET Numbers
      PROVE  Carries(r, s, [z EXCEPT !.corpus = C], run[r].index, C, run[r].hit)
  <2>1. Differs(z, [z EXCEPT !.corpus = C], "corpus") /\ [z EXCEPT !.corpus = C].corpus = C
    BY <1>1, Put
  <2> QED BY <1>1, <2>1 DEF Carries, Differs, Fields
<1>6. ASSUME NEW S \in Mentions
      PROVE  Carries(r, s, [z EXCEPT !.summary = S], run[r].index, run[r].corpus, run[r].hit)
  <2>1. Differs(z, [z EXCEPT !.summary = S], "summary")
    BY <1>1, Put
  <2> QED BY <1>1, <2>1 DEF Carries, Differs, Fields
<1> QED BY <1>2, <1>3, <1>4, <1>5, <1>6 DEF z

LEMMA CarriedBoth ==
    ASSUME NEW r \in Runs, run[r] \in RunType, NEW s \in Places,
           NEW L \in SUBSET Numbers, NEW C \in SUBSET Numbers
    PROVE  Carries(r, s, [Goes(r, s) EXCEPT !.corpus = C, !.index = L], L, C, run[r].hit)
<1> DEFINE y == [Goes(r, s) EXCEPT !.corpus = C]
           z == [y EXCEPT !.index = L]
<1>1. Carries(r, s, y, run[r].index, C, run[r].hit)
  BY Carried
<1> HIDE DEF y
<1>2. y \in RunType
  BY <1>1 DEF Carries
<1>3. Differs(y, z, "index") /\ z.index = L
  BY <1>2, Put
<1>4. Carries(r, s, z, L, C, run[r].hit)
  BY <1>1, <1>3 DEF Carries, Differs, Fields
<1> QED BY <1>4 DEF z, y

LEMMA CarriedFound ==
    ASSUME NEW r \in Runs, run[r] \in RunType, NEW s \in Places,
           NEW L \in SUBSET Numbers, NEW C \in SUBSET Numbers, NEW h \in Numbers
    PROVE  Carries(r, s, [[Goes(r, s) EXCEPT !.corpus = C, !.index = L] EXCEPT !.hit = h],
                   L, C, h)
<1> DEFINE y == [Goes(r, s) EXCEPT !.corpus = C, !.index = L]
           z == [y EXCEPT !.hit = h]
<1>1. Carries(r, s, y, L, C, run[r].hit)
  BY CarriedBoth
<1> HIDE DEF y
<1>2. y \in RunType
  BY <1>1 DEF Carries
<1>3. Differs(y, z, "hit") /\ z.hit = h
  BY <1>2, Put
<1>4. Carries(r, s, z, L, C, h)
  BY <1>1, <1>3 DEF Carries, Differs, Fields
<1> QED BY <1>4 DEF z, y

LEMMA CarriesKeeps ==
    ASSUME IInv, NEW r \in Runs, AtWork(r), run[r].at # "start", NEW y, NEW s,
           NEW L \in SUBSET Existing(item), NEW C \in SUBSET Existing(item), NEW h,
           h # None => h \in Existing(item),
           Carries(r, s, y, L, C, h), Step(r, y),
           s \in Places \ ({"write", "idle"} \cup Triage),
           s \in {"related", "judge", "draftReview"} => Mine(r).kind # "issue" /\ gov.prReviewClose,
           s \in {"draft", "create", "title"} => ~gov.dryRun,
           s = "title" => h # None,
           s = "match" => C \subseteq CanonicalIn(item),
           s = "routeDuplicate" => h \in CanonicalIn(item)
    PROVE  IInv'
<1>1. Reach(gov, item, y, s)
  BY Working DEF Reach, Carries, Mine
<1> QED BY <1>1, StepTo DEF Carries

\* What a run at work past its start may do: go on where its lists are of no matter,
\* and make one comment on its item.
LEMMA GoesOn ==
    ASSUME IInv, NEW r \in Runs, AtWork(r), run[r].at # "start", NEW s,
           s \in {"extract", "judgeForm", "corpus", "routeUncertain", "routeNew", "promote",
                  "normalize", "history", "ended"},
           Goto(r, s)
    PROVE  IInv'
<1>1. Reach(gov, item, run[r], s)
  BY Working DEF Reach, Places, Triage, Mine
<1> QED BY <1>1, GotoKeeps

\* Governance: what issues and pull requests have in common.
LEMMA CommonKeeps == ASSUME IInv, NEW r \in Runs, CommonStep(r) PROVE IInv'
<1> DEFINE x == run[r]
<1> USE DEF At
<1>1. AtWork(r) /\ x.at # "start"
  BY DEF CommonStep, BuildIndex, ExtractKeyPoints, CheckWellFormed, ListCanonicalIssues,
         ScreenCanonicals, MatchCanonical, DraftCanonical, AtWork
<1>2. /\ x \in RunType /\ x.index \in SUBSET Existing(item) /\ x.corpus \in SUBSET Existing(item)
      /\ x.hit # None => x.hit \in Existing(item)
      /\ x.index \in SUBSET Numbers /\ x.corpus \in SUBSET Numbers
  BY <1>1, Working DEF Follows, RunType
<1>3. Existing(item) \subseteq Numbers /\ Items = Existing(item) /\ Canonicals = CanonicalIn(item)
      /\ CanonicalIn(item) \subseteq Existing(item)
  BY DEF Existing, Items, Canonicals, CanonicalIn
<1>4. CASE BuildIndex(r)
  <2> DEFINE next == IF ~IsIssue(r) /\ gov.prReviewClose THEN "related" ELSE "extract"
  <2>1. next \in Places \ ({"write", "idle"} \cup Triage)
        /\ next \in {"related", "extract"}
        /\ (next = "related" => Mine(r).kind # "issue" /\ gov.prReviewClose)
    BY DEF Places, Triage, IsIssue
  <2>2. ASSUME NEW found \in SUBSET Items, Step(r, [Goes(r, next) EXCEPT !.index = found])
        PROVE  IInv'
    <3> DEFINE y == [Goes(r, next) EXCEPT !.index = found]
    <3>1. found \in SUBSET Existing(item) /\ found \in SUBSET Numbers
      BY <1>3
    <3> HIDE DEF next
    <3>2. Carries(r, next, y, found, x.corpus, x.hit)
      BY <1>2, <2>1, <3>1, Carried
    <3>3. Step(r, y)
      BY <2>2
    <3> HIDE DEF y
    <3> QED BY <1>1, <1>2, <2>1, <3>1, <3>2, <3>3, CarriesKeeps
  <2>3. ASSUME Goto(r, next) PROVE IInv'
    <3>1. Reach(gov, item, x, next)
      BY <1>1, <2>1, Working DEF Reach, Mine
    <3> QED BY <1>1, <2>3, <3>1, GotoKeeps
  <2> QED BY <1>4, <2>2, <2>3 DEF BuildIndex
<1>5. CASE ExtractKeyPoints(r)
  <2>1. ASSUME NEW S \in Mentions,
               Step(r, [Goes(r, IF IsIssue(r) THEN "judgeForm" ELSE "corpus")
                          EXCEPT !.summary = S])
        PROVE  IInv'
    <3> DEFINE s == IF IsIssue(r) THEN "judgeForm" ELSE "corpus"
               y == [Goes(r, s) EXCEPT !.summary = S]
    <3>1. s \in Places \ ({"write", "idle"} \cup Triage) /\ s \in {"judgeForm", "corpus"}
      BY DEF Places, Triage
    <3>2. Step(r, y)
      BY <2>1
    <3> HIDE DEF s
    <3>3. Carries(r, s, y, x.index, x.corpus, x.hit)
      BY <1>2, <3>1, Carried
    <3> HIDE DEF y
    <3> QED BY <1>1, <1>2, <3>1, <3>2, <3>3, CarriesKeeps
  <2> QED BY <1>1, <1>5, <2>1, RaiseKeeps, AIThrowsKeeps DEF ExtractKeyPoints
<1>6. CASE CheckWellFormed(r)
  <2>1. ASSUME NEW well \in BOOLEAN, Step(r, [Goes(r, "corpus") EXCEPT !.well = well])
        PROVE  IInv'
    <3> DEFINE y == [Goes(r, "corpus") EXCEPT !.well = well]
    <3>1. Carries(r, "corpus", y, x.index, x.corpus, x.hit)
      BY <1>2, Carried DEF Places
    <3>2. "corpus" \in Places \ ({"write", "idle"} \cup Triage)
      BY DEF Places, Triage
    <3>3. Step(r, y)
      BY <2>1
    <3> HIDE DEF y
    <3> QED BY <1>1, <1>2, <3>1, <3>2, <3>3, CarriesKeeps
  <2>2. TRUE \in BOOLEAN
    OBVIOUS
  <2> QED BY <1>1, <1>6, <2>1, <2>2, AIThrowsKeeps DEF CheckWellFormed
<1>7. ASSUME NEW C \in SUBSET CanonicalIn(item), Step(r, WithCorpus(r, C))
      PROVE  IInv'
  <2> DEFINE s == IF C = {} THEN "routeNew" ELSE "match"
             L == IF x.well THEN x.index ELSE {}
             y == [Goes(r, s) EXCEPT !.corpus = C, !.index = L]
  <2>1. /\ s \in Places \ ({"write", "idle"} \cup Triage) /\ s \in {"routeNew", "match"}
        /\ L \in SUBSET Existing(item) /\ L \in SUBSET Numbers
        /\ C \in SUBSET Existing(item) /\ C \in SUBSET Numbers
    BY <1>2, <1>3 DEF Places, Triage
  <2>2. WithCorpus(r, C) = y
    <3> DEFINE z == Goes(r, s)
    <3>1. z \in RunType /\ z.index = x.index
      BY <1>2, <2>1, GoesFields
    <3>2. WithCorpus(r, C) = [z EXCEPT !.corpus = C, !.index = IF x.well THEN @ ELSE {}]
      BY DEF WithCorpus
    <3> HIDE DEF z
    <3> QED BY <3>1, <3>2 DEF RunType, z
  <2> HIDE DEF s, L
  <2>3. Carries(r, s, y, L, C, x.hit)
    BY <1>2, <2>1, CarriedBoth
  <2>4. Step(r, y)
    BY <1>7, <2>2
  <2> HIDE DEF y
  <2> QED BY <1>1, <1>2, <2>1, <2>3, <2>4, CarriesKeeps
<1>8. CASE ListCanonicalIssues(r)
  BY <1>3, <1>7, <1>8 DEF ListCanonicalIssues
<1>9. CASE ScreenCanonicals(r)
  <2> DEFINE index == x.index \cap Canonicals
  <2>1. index \in SUBSET CanonicalIn(item) /\ {} \in SUBSET CanonicalIn(item)
    BY <1>3
  <2>2. \A picked : \A C \in SUBSET ScreeningGate(picked, index) : C \in SUBSET CanonicalIn(item)
    BY <1>3 DEF ScreeningGate
  <2>3. Step(r, WithCorpus(r, index)) \/ Step(r, WithCorpus(r, {})) => IInv'
    BY <1>7, <2>1
  <2>4. Retry(r) => IInv'
    BY <1>1, RetryKeeps
  <2>5. \A picked : \A C \in SUBSET ScreeningGate(picked, index) : Step(r, WithCorpus(r, C)) => IInv'
    BY <1>7, <2>2
  <2> HIDE DEF index
  <2> QED BY <1>9, <2>3, <2>4, <2>5 DEF ScreenCanonicals, index
<1>10. CASE MatchCanonical(r)
  <2>1. x.corpus \subseteq CanonicalIn(item)
    BY <1>1, <1>10, Working DEF MatchCanonical, RunOK, Sees, Goal
  <2>2. ASSUME NEW s \in {"routeDuplicate", "routeNew", "routeUncertain"}
        PROVE  \E L \in SUBSET Existing(item) :
                  /\ L \in SUBSET Numbers
                  /\ Matched(r, s) = [Goes(r, s) EXCEPT !.corpus = {}, !.index = L]
    <3> DEFINE L == IF s = "routeNew" THEN x.index ELSE {}
               z == Goes(r, s)
    <3>1. L \in SUBSET Existing(item) /\ L \in SUBSET Numbers
      BY <1>2
    <3>2. z \in RunType /\ z.index = x.index
      BY <1>2, GoesFields DEF Places
    <3>3. Matched(r, s) = [z EXCEPT !.corpus = {}, !.index = IF s = "routeNew" THEN @ ELSE {}]
      BY DEF Matched
    <3> HIDE DEF z
    <3>4. Matched(r, s) = [z EXCEPT !.corpus = {}, !.index = L]
      BY <3>2, <3>3 DEF RunType
    <3> QED BY <3>1, <3>4 DEF z
  <2>3. ASSUME NEW s \in {"routeNew", "routeUncertain"}, Step(r, Matched(r, s)) PROVE IInv'
    <3>1. PICK L \in SUBSET Existing(item) :
                  /\ L \in SUBSET Numbers
                  /\ Matched(r, s) = [Goes(r, s) EXCEPT !.corpus = {}, !.index = L]
      BY <2>2
    <3> DEFINE y == [Goes(r, s) EXCEPT !.corpus = {}, !.index = L]
    <3>2. s \in Places \ ({"write", "idle"} \cup Triage)
      BY DEF Places, Triage
    <3>3. Carries(r, s, y, L, {}, x.hit)
      BY <1>2, <3>1, <3>2, CarriedBoth
    <3>4. Step(r, y)
      BY <2>3, <3>1
    <3> HIDE DEF y
    <3> QED BY <1>1, <1>2, <3>1, <3>2, <3>3, <3>4, CarriesKeeps
  <2>4. ASSUME NEW n \in Numbers, Gate(n, x.corpus),
               Step(r, [Matched(r, "routeDuplicate") EXCEPT !.hit = n])
        PROVE  IInv'
    <3>1. n \in CanonicalIn(item) /\ n \in Existing(item)
      BY <1>3, <2>1, <2>4 DEF Gate
    <3> DEFINE s == "routeDuplicate"
    <3>2. PICK L \in SUBSET Existing(item) :
                  /\ L \in SUBSET Numbers
                  /\ Matched(r, s) = [Goes(r, s) EXCEPT !.corpus = {}, !.index = L]
      BY <2>2
    <3> DEFINE y == [[Goes(r, s) EXCEPT !.corpus = {}, !.index = L] EXCEPT !.hit = n]
    <3>3. s \in Places \ ({"write", "idle"} \cup Triage)
      BY DEF Places, Triage
    <3>4. Carries(r, s, y, L, {}, n)
      BY <1>2, <3>2, <3>3, CarriedFound
    <3>5. Step(r, y)
      BY <2>4, <3>2
    <3> HIDE DEF y
    <3> QED BY <1>1, <1>2, <3>1, <3>2, <3>3, <3>4, <3>5, CarriesKeeps
  <2> QED BY <1>1, <1>10, <2>3, <2>4, AIThrowsKeeps DEF MatchCanonical
<1>11. CASE DraftCanonical(r)
  <2>1. Reach(gov, item, x, "create")
    BY <1>1, <1>11, Working DEF DraftCanonical, Reach, RunOK, OnItsWay, Goal, Places, Triage, Mine
  <2> QED BY <1>1, <1>11, <2>1, GotoKeeps, AIThrowsKeeps DEF DraftCanonical
<1> QED BY <1>4, <1>5, <1>6, <1>8, <1>9, <1>10, <1>11 DEF CommonStep

-----------------------------------------------------------------------------
(* A call that may be in a list none of whose failures leads elsewhere.    *)
Fits(g, I, x, c, s) ==
    /\ Sound(I, c) /\ c.must = "no"
    /\ c.op = "close" => s = "ended" /\ (x.stage = "govern" => Home(g, I, x))
    /\ g.dryRun /\ x.stage = "govern" => c.op = "comment"

LEMMA TwoCalls ==
    ASSUME NEW g, NEW I, NEW x, NEW s, Reach(g, I, x, s), I[x.n].author # "bot",
           NEW a, NEW b, Fits(g, I, x, a, s), Fits(g, I, x, b, s)
    PROVE  Hold(g, I, x, <<a, b>>, s)
<1>1. Careful(I, <<a, b>>)
  BY DEF Careful, Sound, Fits
<1> QED BY <1>1 DEF Hold, Fits

LEMMA Before ==
    ASSUME NEW a \in CallType, NEW b \in CallType, NEW c \in CallType
    PROVE  <<a>> \o <<b, c>> = <<a, b, c>>
<1> DEFINE S == <<a>>
           T == <<b, c>>
           U == <<a, b, c>>
<1>1. S \in Seq(CallType) /\ T \in Seq(CallType) /\ U \in Seq(CallType)
  OBVIOUS
<1>2. /\ Len(S) = 1 /\ Len(T) = 2 /\ Len(U) = 3
      /\ S[1] = a /\ T[1] = b /\ T[2] = c /\ U[1] = a /\ U[2] = b /\ U[3] = c
  OBVIOUS
<1> HIDE DEF S, T, U
<1>3. /\ S \o T \in Seq(CallType) /\ Len(S \o T) = Len(S) + Len(T)
      /\ \A i \in 1..Len(S) + Len(T) :
            (S \o T)[i] = IF i <= Len(S) THEN S[i] ELSE T[i - Len(S)]
  BY <1>1, ConcatProperties
<1>4. Len(S \o T) = 3 /\ (S \o T)[1] = a /\ (S \o T)[2] = b /\ (S \o T)[3] = c
  BY <1>2, <1>3
<1>5. \A i \in 1..3 : (S \o T)[i] = U[i]
  BY <1>2, <1>4
<1>6. S \o T = U
  BY <1>1, <1>2, <1>3, <1>4, <1>5, SeqEqual
<1> QED BY <1>6 DEF S, T, U

LEMMA ThreeCalls ==
    ASSUME NEW g, NEW I, NEW x, NEW s, Reach(g, I, x, s), I[x.n].author # "bot",
           NEW a, NEW b, NEW c,
           Fits(g, I, x, a, s), Fits(g, I, x, b, s), Fits(g, I, x, c, s)
    PROVE  Hold(g, I, x, <<a, b, c>>, s)
<1>1. Careful(I, <<a, b, c>>)
  BY DEF Careful, Sound, Fits
<1> QED BY <1>1 DEF Hold, Fits

LEMMA FourCalls ==
    ASSUME NEW g, NEW I, NEW x, NEW s, Reach(g, I, x, s), I[x.n].author # "bot",
           NEW a, NEW b, NEW c, NEW d, Fits(g, I, x, a, s), Fits(g, I, x, b, s),
           Fits(g, I, x, c, s), Fits(g, I, x, d, s)
    PROVE  Hold(g, I, x, <<a, b, c, d>>, s)
<1>1. Careful(I, <<a, b, c, d>>)
  BY DEF Careful, Sound, Fits
<1> QED BY <1>1 DEF Hold, Fits

\* Calls that fit: a comment always, a label where the run may act, and the closing
\* of an item that has somewhere to go.
LEMMA CommentFits ==
    ASSUME NEW g, NEW I, NEW x, NEW s, NEW n \in Existing(I), NEW cites \in SUBSET Existing(I)
    PROVE  /\ Fits(g, I, x, Comment(n, cites), s)
           /\ \A S \in SUBSET Numbers : Fits(g, I, x, Naming(Comment(n, cites), S), s)
BY Comments, NamingOK DEF Fits

LEMMA LabelFits ==
    ASSUME NEW g, NEW I, NEW x, NEW s, NEW n \in Existing(I), NEW l \in SUBSET LabelNames,
           ~g.dryRun
    PROVE  Fits(g, I, x, Label(n, l), s)
BY Labels DEF Fits

LEMMA CloseFits ==
    ASSUME NEW g, NEW I, NEW x, NEW n \in Existing(I), ~g.dryRun, Home(g, I, x)
    PROVE  Fits(g, I, x, Close(n), "ended")
<1>1. n \in Numbers
  BY DEF Existing
<1> QED BY <1>1 DEF Fits, Sound, CallType, Ops, Close, Call

LEMMA UpdateFits ==
    ASSUME NEW g, NEW I, NEW x, NEW s, NEW n \in Existing(I), NEW cites \in SUBSET Existing(I),
           ~g.dryRun
    PROVE  \A S \in SUBSET Numbers : /\ Fits(g, I, x, Naming(Call("title", n, {}), S), s)
                                     /\ Fits(g, I, x, Naming(Call("body", n, cites), S), s)
<1>1. n \in Numbers /\ cites \in SUBSET Numbers
  BY DEF Existing
<1>2. ASSUME NEW c \in {Call("title", n, {}), Call("body", n, cites)}
      PROVE  Sound(I, c) /\ c.must = "no" /\ c.op # "close"
  BY <1>1 DEF Sound, CallType, Ops, Call
<1> QED BY <1>2, NamingOK DEF Fits

\* The summary that a comment of a run carries names numbers, and fits.
LEMMA SaysOK ==
    ASSUME NEW r \in Runs, run[r] \in RunType, NEW I,
           NEW n \in Existing(I), NEW cites \in SUBSET Existing(I)
    PROVE  /\ run[r].summary \in SUBSET Numbers
           /\ Sound(I, Says(r, n, cites)) /\ Says(r, n, cites).op = "comment"
           /\ Says(r, n, cites).must = "no"
<1>1. run[r].summary \in SUBSET Numbers
  BY GovRepoAssumption DEF RunType
<1>2. /\ Sound(I, Comment(n, cites)) /\ Comment(n, cites).op = "comment"
      /\ Comment(n, cites).must = "no"
  BY Comments
<1> QED BY <1>1, <1>2, NamingOK DEF Says

LEMMA SaysFits ==
    ASSUME NEW r \in Runs, run[r] \in RunType, NEW g, NEW I, NEW x, NEW s,
           NEW n \in Existing(I), NEW cites \in SUBSET Existing(I)
    PROVE  Fits(g, I, x, Says(r, n, cites), s)
BY SaysOK DEF Fits

\* Talking is one comment, and always possible.
LEMMA TalkKeeps ==
    ASSUME IInv, NEW r \in Runs, AtWork(r), run[r].at # "start",
           NEW cites \in SUBSET Existing(item), NEW s \in {"ended", "title"},
           s = "title" => ~gov.dryRun /\ run[r].hit # None,
           Plan(r, <<Comment(run[r].n, cites)>>, s) \/ Plan(r, <<Says(r, run[r].n, cites)>>, s)
    PROVE  IInv'
<1>0. PICK c \in {Comment(run[r].n, cites), Says(r, run[r].n, cites)} : Plan(r, <<c>>, s)
  OBVIOUS
<1>1. Reach(gov, item, run[r], s) /\ Mine(r).author # "bot" /\ run[r].n \in Existing(item)
  BY Working DEF Reach, Places, Triage, Mine
<1>2. Sound(item, c) /\ c.op = "comment" /\ c.must = "no"
  <2>1. run[r] \in RunType
    BY Working
  <2> QED BY <1>0, <1>1, <2>1, Comments, SaysOK
<1>3. Hold(gov, item, run[r], <<c>>, s)
  BY <1>1, <1>2, OneCall DEF Mine
<1> QED BY <1>0, <1>3, PlanKeeps

\* In the repository J that the creation of c leaves, the calls of a run.
LEMMA CallsOK ==
    ASSUME IInv, NEW r \in Runs, AtWork(r), NEW J, Grows(item, J), NEW T, NEW s,
           Hold(gov, J, run[r], T, s)
    PROVE  RunOK(gov, J, Calls(r, T, s)) /\ Calls(r, T, s).did = run[r].did
<1> DEFINE y == Calls(r, T, s)
<1>1. s \in Places /\ T \in Seq(CallType) /\ run[r] \in RunType /\ RunOK(gov, item, run[r])
  BY Working DEF Hold, Reach, Careful
<1>2. /\ y \in RunType /\ y.at = (IF T = <<>> THEN s ELSE "write")
      /\ y.n = run[r].n /\ y.stage = run[r].stage /\ y.index = run[r].index
      /\ y.corpus = run[r].corpus /\ y.hit = run[r].hit /\ y.todo = T /\ y.then = s
      /\ y.failed = run[r].failed /\ y.did = run[r].did
  BY <1>1, CallsFields
<1> HIDE DEF y
<1>3. RunOK(gov, J, run[r])
  BY <1>1, GrowsRunOK
<1>4. Follows(J, run[r], y)
  BY <1>2, <1>3, Working DEF Follows, RunOK, Sees, AtWork
<1>5. Hold(gov, J, y, y.todo, s)
  BY <1>2 DEF Hold, Reach, Home
<1>6. RunOK(gov, J, y)
  BY <1>2, <1>3, <1>4, <1>5, Working, Holds
<1> QED BY <1>2, <1>6 DEF y

\* GitHub created the issue and the run threw all the same.
LEMMA LostNumberKeeps ==
    ASSUME IInv, NEW r \in Runs, AtWork(r), run[r].at = "create", NEW n,
           CreateCanonical(r, n, Raised(r, "error"))
    PROVE  IInv'
<1>1. RunOK(gov, item, Raised(r, "error")) /\ Raised(r, "error").did = run[r].did
  BY Working, RaisedOK DEF AtWork
<1>2. ASSUME Grows(item, item')
      PROVE  RunOK(gov, item', Raised(r, "error"))
  BY <1>1, <1>2, GrowsRunOK
<1> QED BY <1>1, <1>2, CreateKeeps

-----------------------------------------------------------------------------
(* The routes of an issue.                                                 *)
LEMMA IssueKeeps == ASSUME IInv, NEW r \in Runs, IssueGovernanceStep(r) PROVE IInv'
<1> DEFINE x == run[r]
           n == run[r].n
<1> USE DEF At
<1>1. AtWork(r) /\ x.at # "start"
  BY DEF IssueGovernanceStep, RouteDuplicate, RouteUncertain, RouteNew, RoutePromoteInPlace,
         RouteNormalize, CreateAndClose, AtWork
<1>2. /\ x \in RunType /\ x.index \in SUBSET Existing(item) /\ x.corpus \in SUBSET Existing(item)
      /\ x.hit # None => x.hit \in Existing(item)
      /\ n \in Existing(item) /\ n \in Numbers /\ item[n].author # "bot"
      /\ RunOK(gov, item, x) /\ Reach(gov, item, x, "ended")
  BY <1>1, Working DEF Follows, RunType, Mine, Reach, Places, Triage
<1>3. Existing(item) \subseteq Numbers /\ CanonicalIn(item) \subseteq Existing(item)
      /\ {} \in SUBSET Existing(item)
  BY DEF Existing, CanonicalIn
<1>4. Talk(r) => IInv'
  BY <1>1, <1>3, TalkKeeps DEF Talk
<1>5. CASE RouteDuplicate(r)
  <2> DEFINE c == x.hit
  <2>1. c \in CanonicalIn(item) /\ c \in Existing(item) /\ {c} \in SUBSET Existing(item)
        /\ {n} \in SUBSET Existing(item) /\ item[n].kind = "issue"
    BY <1>2, <1>3, <1>5 DEF RouteDuplicate, RunOK, Sees, Goal, IsIssue, Mine
  <2>2. Plan(r, <<Says(r, n, {c})>>, "ended") => IInv'
    BY <1>1, <2>1, TalkKeeps
  <2>3. ASSUME ~Dry, Plan(r, << Label(n, {"duplicate"}), Says(r, n, {c}), Close(n),
                                Says(r, c, {n}) >>, "ended")
        PROVE  IInv'
    <3>1. Home(gov, item, x) /\ ~gov.dryRun
      BY <2>1, <2>3 DEF Home, Dry
    <3>2. Fits(gov, item, x, Label(n, {"duplicate"}), "ended")
      BY <1>2, <3>1, LabelFits DEF LabelNames
    <3>3. Fits(gov, item, x, Says(r, n, {c}), "ended") /\ Fits(gov, item, x, Says(r, c, {n}), "ended")
      BY <1>2, <2>1, SaysFits
    <3>4. Fits(gov, item, x, Close(n), "ended")
      BY <1>2, <3>1, CloseFits
    <3> QED BY <1>1, <1>2, <2>3, <3>2, <3>3, <3>4, FourCalls, PlanKeeps
  <2> QED BY <1>5, <2>2, <2>3 DEF RouteDuplicate
<1>6. CASE RouteUncertain(r)
  BY <1>4, <1>6 DEF RouteUncertain
<1>7. CASE RouteNew(r)
  <2>1. ASSUME Step(r, [Goes(r, "promote") EXCEPT !.well = FALSE]) PROVE IInv'
    <3> DEFINE y == [Goes(r, "promote") EXCEPT !.well = FALSE]
    <3>1. "promote" \in Places \ ({"write", "idle"} \cup Triage)
      BY DEF Places, Triage
    <3>2. Carries(r, "promote", y, x.index, x.corpus, x.hit)
      BY <1>2, <3>1, Carried
    <3>3. Step(r, y)
      BY <2>1
    <3> HIDE DEF y
    <3> QED BY <1>1, <1>2, <3>1, <3>2, <3>3, CarriesKeeps
  <2>2. Step(r, Goes(r, "normalize")) => IInv'
    BY <1>1, GoesOn DEF Goto
  <2> QED BY <1>7, <2>1, <2>2 DEF RouteNew
<1>8. CASE RoutePromoteInPlace(r)
  <2>1. ASSUME NEW cites \in SUBSET Existing(item), PromoteWith(r, cites) PROVE IInv'
    <3>1. Plan(r, <<Comment(n, cites)>>, "ended") => IInv'
      BY <1>1, TalkKeeps
    <3>2. ASSUME ~gov.dryRun, Plan(r, <<Label(n, {"canonical", "type"}), Comment(n, cites)>>, "ended")
          PROVE  IInv'
      <4>1. Fits(gov, item, x, Label(n, {"canonical", "type"}), "ended")
        BY <1>2, <3>2, LabelFits DEF LabelNames
      <4>2. Fits(gov, item, x, Comment(n, cites), "ended")
        BY <1>2, CommentFits
      <4> QED BY <1>1, <1>2, <3>2, <4>1, <4>2, TwoCalls, PlanKeeps
    <3> QED BY <2>1, <3>1, <3>2 DEF PromoteWith, Dry
  <2>2. ASSUME NEW cites \in SUBSET Numbers, NEW history \in ObtainRelatedHistory(r)
        PROVE  BuildWellFormedComment(r, cites, history) \in SUBSET Existing(item)
    BY <1>2 DEF ObtainRelatedHistory, BuildWellFormedComment
  <2>3. \A cites \in SUBSET Numbers : \A history \in ObtainRelatedHistory(r) :
           PromoteWith(r, BuildWellFormedComment(r, cites, history)) => IInv'
    BY <2>1, <2>2
  <2>4. PromoteWith(r, {}) => IInv'
    BY <1>3, <2>1
  <2>5. Retry(r) => IInv'
    BY <1>1, RetryKeeps
  <2> QED BY <1>8, <2>3, <2>4, <2>5 DEF RoutePromoteInPlace
<1>9. CASE RouteNormalize(r)
  <2>1. ASSUME ~Dry, Goto(r, "draft") PROVE IInv'
    <3>1. Reach(gov, item, x, "draft")
      BY <1>2, <2>1 DEF Reach, Dry, Places, Triage
    <3> QED BY <1>1, <2>1, <3>1, GotoKeeps
  <2>2. Plan(r, <<Says(r, n, {})>>, "ended") => IInv'
    BY <1>1, <1>3, TalkKeeps
  <2> QED BY <1>9, <2>1, <2>2 DEF RouteNormalize
<1>10. CASE CreateAndClose(r)
  <2>1. x.at = "create" /\ item[n].kind = "issue" /\ ~gov.dryRun
    BY <1>2, <1>10 DEF CreateAndClose, IsIssue, Mine, RunOK, OnItsWay, Goal
  <2>2. ASSUME NEW c \in Free, CreateCanonical(r, c, Normalized(r, c)) PROVE IInv'
    <3>1. ASSUME Grows(item, item'), c \in CanonicalIn(item'), item'[c].source = n
          PROVE  RunOK(gov, item', Normalized(r, c)) /\ Normalized(r, c).did = x.did
      <4>1. /\ n \in Existing(item') /\ item'[n].kind = "issue" /\ item'[n].author # "bot"
            /\ c \in Existing(item')
        BY <1>2, <2>1, <3>1, GrowsKinds DEF Grows, CanonicalIn
      <4>2. Home(gov, item', x) /\ Reach(gov, item', x, "ended")
        BY <3>1, <4>1 DEF Home, Reach, Places, Triage
      <4>3. Fits(gov, item', x, Says(r, n, {c}), "ended")
        <5>1. {c} \in SUBSET Existing(item')
          BY <4>1
        <5> QED BY <1>2, <4>1, <5>1, SaysFits
      <4>4. Fits(gov, item', x, Close(n), "ended")
        BY <2>1, <4>1, <4>2, CloseFits
      <4>5. Hold(gov, item', x, <<Says(r, n, {c}), Close(n)>>, "ended")
        BY <4>1, <4>2, <4>3, <4>4, TwoCalls
      <4> QED BY <1>1, <3>1, <4>5, CallsOK DEF Normalized
    <3> QED BY <1>1, <2>1, <2>2, <3>1, CreateKeeps
  <2> QED BY <1>1, <1>10, <2>1, <2>2, LostNumberKeeps, RaiseKeeps DEF CreateAndClose
<1> QED BY <1>5, <1>6, <1>7, <1>8, <1>9, <1>10 DEF IssueGovernanceStep

-----------------------------------------------------------------------------
(* A pull request: its triage, and then the review and the routes.         *)
LEMMA PrTriageKeeps ==
    ASSUME IInv, NEW r \in Runs,
           HandleNewPR(r) \/ DetectPRSpam(r) \/ CheckPRQuality(r) \/ ClassifyAndLabelPR(r)
           \/ PassPRTriage(r)
    PROVE  IInv'
<1> DEFINE x == run[r]
           n == run[r].n
<1> USE DEF At
<1>1. AtWork(r) /\ x.at \in Triage
  BY DEF HandleNewPR, DetectPRSpam, CheckPRQuality, ClassifyAndLabelPR, PassPRTriage, AtWork,
         Triage
<1>2. /\ x.stage = "triage" /\ Reach(gov, item, x, "ended")
      /\ x.at # "start" \/ Mine(r).author # "bot" => \A s \in Triage : Reach(gov, item, x, s)
  BY <1>1, Working, ZenonT(60) DEF Reach, Places, Triage, RunOK, OnItsWay, Goal, Mine
<1>3. /\ n \in Existing(item) /\ RunOK(gov, item, x)
      /\ x.at # "start" => item[n].author # "bot"
  BY <1>1, Working DEF Mine
<1>4. ASSUME NEW lock \in BOOLEAN, item[n].author # "bot", Plan(r, ClosePR(n, lock), "ended")
      PROVE  IInv'
  BY <1>1, <1>2, <1>3, <1>4, CloseHeld, PlanKeeps
<1>5. CASE HandleNewPR(r)
  <2>1. Goto(r, "ended") => IInv'
    BY <1>1, <1>2, GotoKeeps
  <2>2. Mine(r).author = "banned" /\ Plan(r, HandleBlacklistedPR(n), "ended") => IInv'
    BY <1>4 DEF HandleBlacklistedPR, Mine
  <2>3. ASSUME Mine(r).author \notin SkipAuthors, Goto(r, "spam") PROVE IInv'
    <3>1. Reach(gov, item, x, "spam")
      BY <1>2, <2>3 DEF SkipAuthors, Triage
    <3> QED BY <1>1, <2>3, <3>1, GotoKeeps
  <2> QED BY <1>5, <2>1, <2>2, <2>3 DEF HandleNewPR
<1>6. CASE DetectPRSpam(r)
  <2>1. x.at = "spam"
    BY <1>6 DEF DetectPRSpam
  <2>2. Plan(r, HandleSpamPR(n), "ended") => IInv'
    BY <1>3, <1>4, <2>1 DEF HandleSpamPR
  <2>3. Goto(r, "quality") \/ Goto(r, "classify") => IInv'
    BY <1>1, <1>2, <2>1, GotoKeeps DEF Triage
  <2> QED BY <1>1, <1>6, <2>1, <2>2, <2>3, AIThrowsKeeps DEF DetectPRSpam
<1>7. CASE CheckPRQuality(r)
  <2>1. x.at = "quality"
    BY <1>7 DEF CheckPRQuality
  <2>2. \A reason : Plan(r, HandleLowQualityPR(n, reason), "ended") => IInv'
    BY <1>3, <1>4, <2>1 DEF HandleLowQualityPR
  <2>3. Goto(r, "classify") => IInv'
    BY <1>1, <1>2, <2>1, GotoKeeps DEF Triage
  <2> QED BY <1>1, <1>7, <2>1, <2>2, <2>3, AIThrowsKeeps DEF CheckPRQuality
<1>8. CASE ClassifyAndLabelPR(r)
  <2>1. x.at = "classify" /\ Reach(gov, item, x, "triaged") /\ item[n].author # "bot"
    BY <1>2, <1>3, <1>8 DEF ClassifyAndLabelPR, Triage
  <2>2. Sound(item, Label(n, {"type"})) /\ Label(n, {"type"}).op = "label"
        /\ Label(n, {"type"}).must = "no"
    BY <1>3, Labels DEF LabelNames
  <2>3. Hold(gov, item, x, LabelPR(n), "triaged")
    BY <1>2, <2>1, <2>2, OneCall DEF LabelPR
  <2>4. Plan(r, LabelPR(n), "triaged") => IInv'
    BY <1>1, <2>3, PlanKeeps
  <2> QED BY <1>1, <1>8, <2>1, <2>4, AISwallowedKeeps DEF ClassifyAndLabelPR
<1>9. CASE PassPRTriage(r)
  <2>1. x.at = "triaged"
    BY <1>9 DEF PassPRTriage
  <2>2. Goto(r, "ended") => IInv'
    BY <1>1, <1>2, GotoKeeps
  <2> QED BY <1>1, <1>9, <2>1, <2>2, PassedOn DEF PassPRTriage
<1> QED BY <1>5, <1>6, <1>7, <1>8, <1>9

LEMMA PrKeeps == ASSUME IInv, NEW r \in Runs, PrStep(r) PROVE IInv'
<1> DEFINE x == run[r]
           n == run[r].n
           back == [Goes(r, "extract") EXCEPT !.corpus = {}]
<1> USE DEF At
<1>1. CASE \/ HandleNewPR(r) \/ DetectPRSpam(r) \/ CheckPRQuality(r) \/ ClassifyAndLabelPR(r)
           \/ PassPRTriage(r)
  BY <1>1, PrTriageKeeps
<1>2. SUFFICES ASSUME \/ CollectRelated(r) \/ Judge(r) \/ ExecuteClose(r) \/ RoutePrUncertain(r)
                      \/ RouteLinkExisting(r) \/ RouteNewTopic(r) \/ CreateAndLink(r)
                      \/ ResolveTitle(r)
               PROVE  IInv'
  BY <1>1 DEF PrStep
<1>3. AtWork(r) /\ x.at # "start"
  BY <1>2 DEF CollectRelated, Judge, ExecuteClose, RoutePrUncertain, RouteLinkExisting,
              RouteNewTopic, CreateAndLink, ResolveTitle, AtWork
<1>4. /\ x \in RunType /\ x.index \in SUBSET Existing(item) /\ x.corpus \in SUBSET Existing(item)
      /\ x.hit # None => x.hit \in Existing(item)
      /\ n \in Existing(item) /\ n \in Numbers /\ item[n].author # "bot"
      /\ RunOK(gov, item, x) /\ Reach(gov, item, x, "ended")
  BY <1>3, Working DEF Follows, RunType, Mine, Reach, Places, Triage
<1>5. /\ Existing(item) \subseteq Numbers /\ CanonicalIn(item) \subseteq Existing(item)
      /\ {} \in SUBSET Existing(item) /\ {} \in SUBSET Numbers /\ Items = Existing(item)
  BY DEF Existing, CanonicalIn, Items
<1>6. x.at \in {"related", "judge", "draftReview"} => Mine(r).kind # "issue" /\ gov.prReviewClose
  BY <1>4 DEF RunOK, OnItsWay, Goal, Mine
<1>7. Talk(r) => IInv'
  BY <1>3, <1>5, TalkKeeps DEF Talk
<1>8. Retry(r) => IInv'
  BY <1>3, RetryKeeps
<1>9. ASSUME Step(r, back) PROVE IInv'
  <2>1. "extract" \in Places \ ({"write", "idle"} \cup Triage)
    BY DEF Places, Triage
  <2>2. Carries(r, "extract", back, x.index, {}, x.hit)
    BY <1>4, <1>5, <2>1, Carried
  <2> HIDE DEF back
  <2> QED BY <1>3, <1>4, <1>5, <1>9, <2>1, <2>2, CarriesKeeps
<1>10. CASE CollectRelated(r)
  <2>1. ASSUME NEW R \in SUBSET Related(r),
               Step(r, [Goes(r, IF R = {} THEN "extract" ELSE "judge") EXCEPT !.corpus = R])
        PROVE  IInv'
    <3> DEFINE s == IF R = {} THEN "extract" ELSE "judge"
               y == [Goes(r, s) EXCEPT !.corpus = R]
    <3>1. R \in SUBSET Existing(item) /\ R \in SUBSET Numbers
      BY <1>4, <1>5 DEF Related, ClosedIssues
    <3>2. s \in Places \ ({"write", "idle"} \cup Triage) /\ s \in {"extract", "judge"}
      BY DEF Places, Triage
    <3>3. Step(r, y)
      BY <2>1
    <3> HIDE DEF s
    <3>4. Carries(r, s, y, x.index, R, x.hit)
      BY <1>4, <3>1, <3>2, Carried
    <3>5. Mine(r).kind # "issue" /\ gov.prReviewClose
      BY <1>6, <1>10 DEF CollectRelated
    <3> HIDE DEF y
    <3> QED BY <1>3, <1>4, <3>1, <3>2, <3>3, <3>4, <3>5, CarriesKeeps
  <2> QED BY <1>8, <1>10, <2>1 DEF CollectRelated
<1>11. CASE Judge(r)
  <2>1. Reach(gov, item, x, "draftReview")
    BY <1>4, <1>6, <1>11 DEF Judge, Reach, Places, Triage, Mine
  <2>2. Step(r, Goes(r, "draftReview")) => IInv'
    BY <1>3, <2>1, GotoKeeps DEF Goto
  <2> QED BY <1>3, <1>9, <1>11, <2>2, AIThrowsKeeps DEF Judge
<1>12. CASE ExecuteClose(r)
  <2>1. ASSUME NEW cites \in SUBSET Existing(item), Plan(r, <<Comment(n, cites)>>, "ended")
        PROVE  IInv'
    BY <1>3, <2>1, TalkKeeps
  <2>2. ASSUME NEW cites \in SUBSET Existing(item), ~gov.dryRun,
               Plan(r, <<Label(n, {"rejected"}), Comment(n, cites), Close(n)>>, "ended")
        PROVE  IInv'
    <3>1. Home(gov, item, x)
      BY <1>6, <1>12 DEF ExecuteClose, Home, Mine
    <3>2. Fits(gov, item, x, Label(n, {"rejected"}), "ended")
      BY <1>4, <2>2, LabelFits DEF LabelNames
    <3>3. Fits(gov, item, x, Comment(n, cites), "ended")
      BY <1>4, CommentFits
    <3>4. Fits(gov, item, x, Close(n), "ended")
      BY <1>4, <2>2, <3>1, CloseFits
    <3> QED BY <1>3, <1>4, <2>2, <3>2, <3>3, <3>4, ThreeCalls, PlanKeeps
  <2>3. \A cites \in SUBSET Numbers : ValidateCitations(cites, x.corpus) =>
           cites \in SUBSET Existing(item)
    BY <1>4 DEF ValidateCitations
  <2> QED BY <1>8, <1>9, <1>12, <2>1, <2>2, <2>3 DEF ExecuteClose, Dry
<1>13. CASE RoutePrUncertain(r)
  BY <1>7, <1>13 DEF RoutePrUncertain
<1>14. CASE RouteLinkExisting(r)
  <2>1. x.hit \in CanonicalIn(item) /\ {x.hit} \in SUBSET Existing(item) /\ x.hit # None
    BY <1>4, <1>5, <1>14, GovRepoAssumption DEF RouteLinkExisting, RunOK, Sees, Goal
  <2>2. Plan(r, <<Comment(n, {x.hit})>>, "ended") => IInv'
    BY <1>3, <2>1, TalkKeeps
  <2>3. ~Dry /\ Plan(r, <<Says(r, n, {x.hit})>>, "title") => IInv'
    BY <1>3, <2>1, TalkKeeps DEF Dry
  <2> QED BY <1>14, <2>2, <2>3 DEF RouteLinkExisting
<1>15. CASE RouteNewTopic(r)
  <2>1. ASSUME ~Dry, Goto(r, "draft") PROVE IInv'
    <3>1. Reach(gov, item, x, "draft")
      BY <1>4, <2>1 DEF Reach, Dry, Places, Triage
    <3> QED BY <1>3, <2>1, <3>1, GotoKeeps
  <2> QED BY <1>7, <1>15, <2>1 DEF RouteNewTopic
<1>16. CASE CreateAndLink(r)
  <2>1. x.at = "create" /\ ~gov.dryRun
    BY <1>4, <1>16 DEF CreateAndLink, RunOK, OnItsWay, Goal
  <2>2. ASSUME NEW c \in Free,
               CreateCanonical(r, c, [Calls(r, <<Says(r, n, {c})>>, "title") EXCEPT !.hit = c])
        PROVE  IInv'
    <3> DEFINE T == <<Says(r, n, {c})>>
               z == Calls(r, T, "title")
               y == [z EXCEPT !.hit = c]
    <3>1. ASSUME Grows(item, item'), c \in CanonicalIn(item'), item'[c].source = n
          PROVE  RunOK(gov, item', y) /\ y.did = x.did
      <4>1. n \in Existing(item') /\ item'[n].author # "bot" /\ c \in Existing(item')
            /\ c \in Numbers /\ c # None
        BY <1>4, <3>1, GrowsKinds, GovRepoAssumption DEF Grows, CanonicalIn, Existing
      <4>2. Sound(item', Says(r, n, {c})) /\ Says(r, n, {c}).op = "comment"
            /\ Says(r, n, {c}).must = "no"
        <5>1. {c} \in SUBSET Existing(item')
          BY <4>1
        <5> QED BY <1>4, <4>1, <5>1, SaysOK
      <4>3. Careful(item', T) /\ T # <<>> /\ T \in Seq(CallType)
        BY <4>2 DEF Careful, Sound
      <4>4. \A i \in DOMAIN T : T[i].must = "no" /\ T[i].op = "comment"
        BY <4>2
      <4> HIDE DEF T
      <4>5. /\ z \in RunType /\ z.at = "write"
            /\ z.n = n /\ z.stage = x.stage /\ z.index = x.index
            /\ z.corpus = x.corpus /\ z.todo = T /\ z.then = "title"
            /\ z.failed = x.failed /\ z.did = x.did
        BY <1>4, <4>3, CallsFields DEF Places
      <4> HIDE DEF z
      <4>6. Differs(z, y, "hit") /\ y.hit = c
        BY <4>1, <4>5, Put
      <4> HIDE DEF y
      <4>7. /\ y \in RunType /\ y.at = "write"
            /\ y.n = n /\ y.stage = x.stage /\ y.index = x.index
            /\ y.corpus = x.corpus /\ y.todo = T /\ y.then = "title"
            /\ y.failed = x.failed /\ y.did = x.did
        BY <4>5, <4>6 DEF Differs, Fields
      <4>8. RunOK(gov, item', x)
        BY <1>4, <3>1, GrowsRunOK
      <4>9. Follows(item', x, y)
        BY <4>1, <4>6, <4>7, <4>8 DEF Follows, RunOK, Sees
      <4>10. Hold(gov, item', y, y.todo, "title")
        BY <2>1, <4>1, <4>3, <4>4, <4>6, <4>7 DEF Hold, Reach, Places, Triage
      <4>11. RunOK(gov, item', y)
        BY <1>3, <4>3, <4>7, <4>8, <4>9, <4>10, Working, Holds
      <4> QED BY <4>7, <4>11
    <3>2. CreateCanonical(r, c, y)
      BY <2>2
    <3> HIDE DEF y
    <3> QED BY <1>3, <2>1, <3>1, <3>2, CreateKeeps
  <2> QED BY <1>3, <1>16, <2>1, <2>2, LostNumberKeeps, RaiseKeeps DEF CreateAndLink
<1>17. CASE ResolveTitle(r)
  <2> DEFINE c == x.hit
             b == Naming(Call("body", n, {c}), x.summary)
             d == Says(r, c, {n})
  <2>1. ~gov.dryRun /\ c \in Existing(item) /\ {c} \in SUBSET Existing(item)
        /\ {n} \in SUBSET Existing(item)
    BY <1>4, <1>17 DEF ResolveTitle, RunOK, Sees, OnItsWay, Goal
  <2>2. ASSUME NEW S \in Mentions PROVE Fits(gov, item, x, PrTitle(r, S), "ended")
    BY <1>4, <2>1, UpdateFits, GovRepoAssumption DEF PrTitle
  <2>3. Fits(gov, item, x, d, "ended") /\ x.summary \in SUBSET Numbers
    BY <1>4, <2>1, SaysFits, SaysOK
  <2>4. Fits(gov, item, x, b, "ended")
    BY <1>4, <2>1, <2>3, UpdateFits
  <2>5. PrUpdates(r) = <<b, d>>
    BY DEF PrUpdates
  <2> HIDE DEF b, d
  <2>6. ASSUME NEW S \in Mentions, Plan(r, <<PrTitle(r, S)>> \o PrUpdates(r), "ended") PROVE IInv'
    <3>1. {PrTitle(r, S), b, d} \subseteq CallType
      BY <2>2, <2>3, <2>4 DEF Fits, Sound
    <3>2. Plan(r, <<PrTitle(r, S), b, d>>, "ended")
      BY <2>5, <2>6, <3>1, Before
    <3> QED BY <1>3, <1>4, <2>2, <2>3, <2>4, <3>2, ThreeCalls, PlanKeeps
  <2>7. Plan(r, <<b, d>>, "ended") => IInv'
    BY <1>3, <1>4, <2>3, <2>4, TwoCalls, PlanKeeps
  <2> QED BY <1>8, <1>17, <2>5, <2>6, <2>7 DEF ResolveTitle
<1> QED BY <1>2, <1>10, <1>11, <1>12, <1>13, <1>14, <1>15, <1>16, <1>17

-----------------------------------------------------------------------------
(* The invariant holds to begin with, and every step keeps it.             *)
LEMMA InitInv == Init => IInv
<1> SUFFICES ASSUME Init PROVE IInv
  OBVIOUS
<1>1. gov \in Configs /\ run = [r \in Runs |-> Idle]
  BY DEF Init
<1>2. PICK c \in ItemType :
        /\ c.cited = {} /\ c.source = None /\ c.event = FALSE
        /\ item \in [Numbers -> {Blank, c}]
  <2>1. CASE item = [n \in Numbers |-> Blank]
    <3>1. Blank \in ItemType /\ Blank.cited = {} /\ Blank.source = None /\ Blank.event = FALSE
      BY DEF Blank, ItemType, Authors, LabelNames
    <3> QED BY <2>1, <3>1
  <2>2. ASSUME NEW k \in Numbers, NEW text \in Texts,
               item = [n \in Numbers |-> IF n = k THEN Canonical(text) ELSE Blank]
        PROVE  /\ Canonical(text) \in ItemType
               /\ Canonical(text).cited = {} /\ Canonical(text).source = None
               /\ Canonical(text).event = FALSE
               /\ item \in [Numbers -> {Blank, Canonical(text)}]
    <3>1. Canonical(text) \in ItemType
      BY DEF Blank, Canonical, ItemType, Authors, LabelNames
    <3>2. Canonical(text).cited = {} /\ Canonical(text).source = None
          /\ Canonical(text).event = FALSE
      BY DEF Blank, Canonical
    <3> QED BY <2>2, <3>1, <3>2
  <2> QED BY <2>1, <2>2 DEF Init
<1>3. Blank \in ItemType
  BY DEF Blank, ItemType, Authors, LabelNames
<1>4. Blank.cited = {} /\ Blank.source = None /\ Blank.event = FALSE
  BY DEF Blank
<1> HIDE DEF Blank
<1>5. RepoOK(item)
  BY <1>2, <1>3, <1>4 DEF RepoOK
<1>6. \A r \in Runs : run[r] = Idle /\ RunOK(gov, item, run[r])
  BY <1>1, IdleOK
<1>7. run \in [Runs -> RunType]
  BY <1>1, IdleOK DEF RunOK
<1> QED BY <1>1, <1>5, <1>6, <1>7 DEF IInv

LEMMA RunStepKeeps == ASSUME IInv, NEW r \in Runs, RunStep(r) PROVE IInv'
BY TriageKeeps, CommonKeeps, IssueKeeps, PrKeeps, WriteKeeps, OverKeeps DEF RunStep

LEMMA NextInv == IInv /\ [Next]_vars => IInv'
<1> SUFFICES ASSUME IInv, [Next]_vars PROVE IInv'
  OBVIOUS
<1>1. CASE SomebodyOpens
  BY <1>1, OpenKeeps DEF SomebodyOpens
<1>2. ASSUME NEW n \in Numbers, Rerun(n) PROVE IInv'
  BY <1>2, RerunKeeps
<1>3. ASSUME NEW r \in Runs, NEW n \in Numbers, Dispatch(r, n) PROVE IInv'
  BY <1>3, DispatchKeeps
<1>4. ASSUME NEW r \in Runs, RunStep(r) \/ Killed(r) PROVE IInv'
  BY <1>4, RunStepKeeps, OverKeeps
<1>5. CASE UNCHANGED vars
  BY <1>5 DEF vars, IInv
<1> QED BY <1>1, <1>2, <1>3, <1>4, <1>5 DEF Next

LEMMA Invariance == Spec => []IInv
BY InitInv, NextInv, PTL DEF Spec

-----------------------------------------------------------------------------
(* The items, the runs and the calls they hold are what they are taken     *)
(* for: a run's lists and the calls it has still to make name numbers of   *)
(* this repository, whatever GitHub or the AI answered.                    *)
THEOREM Typed == Spec => []TypeOK
<1>1. IInv => TypeOK
  <2> SUFFICES ASSUME IInv PROVE TypeOK
    OBVIOUS
  <2>1. Items = Existing(item) /\ gov \in Configs
    BY DEF Items, Existing, IInv
  <2>2. ASSUME NEW n \in Numbers
        PROVE  /\ item[n].kind \in {"none", "issue", "pr"}
               /\ item[n].author \in {"user", "maintainer", "banned", "bot"}
               /\ item[n].cited \subseteq Numbers /\ item[n].named \subseteq Numbers
               /\ item[n].source \in Numbers \cup {None}
    <3>1. item[n] \in ItemType
      BY DEF IInv, RepoOK
    <3> QED BY <3>1 DEF ItemType, Authors
  <2>3. ASSUME NEW r \in Runs
        PROVE  /\ run[r].at \in Places /\ run[r].n \in Numbers \cup {None}
               /\ run[r].tries \in 0..MaxRetries /\ run[r].stage \in Stages
               /\ run[r].did \subseteq Stages \X (Ops \cup {"create"})
               /\ run[r].summary \in Mentions \cup {{}}
               /\ run[r].corpus \subseteq Items /\ run[r].index \subseteq Items
               /\ \A i \in DOMAIN run[r].todo : Sound(item, run[r].todo[i])
    <3>1. RunOK(gov, item, run[r]) /\ run[r] \in RunType
      BY DEF IInv
    <3>2. run[r].corpus \subseteq Items /\ run[r].index \subseteq Items
      BY <2>1, <3>1 DEF RunOK, Sees
    <3>3. \A i \in DOMAIN run[r].todo : Sound(item, run[r].todo[i])
      BY <3>1 DEF RunOK, Owed, Careful
    <3> QED BY <3>1, <3>2, <3>3 DEF RunType
  <2>4. \A c : Sound(item, c) => c.op \in Ops /\ c.n \in Items
    BY <2>1 DEF Sound, CallType
  <2> QED BY <2>1, <2>2, <2>3, <2>4 DEF TypeOK
<1> QED BY <1>1, Invariance, PTL

(* What governance closes has somewhere to go, for every repository and    *)
(* whatever fails on the way: an issue it closed has its canonical issue   *)
(* there (routeDuplicate, routeNormalize), and a pull request is closed at *)
(* that stage only where the deployment asked for it (executeClose).       *)
THEOREM HomesAreThere == Spec => []ClosedHasAHome
<1>1. IInv => ClosedHasAHome
  <2> SUFFICES ASSUME IInv, NEW r \in Runs, Closed(r)
               PROVE  IF Mine(r).kind = "issue"
                      THEN \E m \in Canonicals : m = run[r].hit \/ item[m].source = run[r].n
                      ELSE gov.prReviewClose
    BY DEF ClosedHasAHome
  <2>1. Home(gov, item, run[r])
    BY DEF IInv, RunOK, Founded, Closed
  <2>2. Canonicals = CanonicalIn(item)
    BY DEF Canonicals, CanonicalIn, Items, Existing
  <2> QED BY <2>1, <2>2 DEF Home, Mine
<1> QED BY <1>1, Invariance, PTL

(* A run that told the author the item was let through (failOpenComment)   *)
(* has not closed it and does not close it any more.                       *)
THEOREM LetThroughStaysOpen == Spec => []LetThroughIsOpen
<1>1. IInv => LetThroughIsOpen
  BY DEF IInv, RunOK, Settled, HasClosed, LetThroughIsOpen
<1> QED BY <1>1, Invariance, PTL

(* What the bot created is never what the bot creates something for: the   *)
(* event of a canonical issue ends at the skipped accounts (SkipUsers,     *)
(* SkipAuthors), however many runs are under way.                          *)
THEOREM CascadesEnd == Spec => []NoCascade
<1>1. IInv => NoCascade
  BY DEF IInv, RepoOK, NoCascade
<1> QED BY <1>1, Invariance, PTL

(* The numbers that the action itself puts into comments and bodies, and  *)
(* those that pass its checks, are items of the repository, whatever the   *)
(* AI invents (screeningGate, the gate of matchCanonical,                  *)
(* validateCitations, buildWellFormedComment): a link to a canonical issue *)
(* and a record of where it came from never lead nowhere.  The words of    *)
(* the AI that no check reads may name anything (named).                   *)
THEOREM CitationsExist == Spec => []CitesWhatExists
<1>1. IInv => CitesWhatExists
  BY DEF IInv, RepoOK, CitesWhatExists, Existing, Items
<1> QED BY <1>1, Invariance, PTL

(* In a dry run the governance of an item makes comments and nothing else, *)
(* from its history to its routes; the triage before it and the catch      *)
(* around it do not ask for dryRun.                                        *)
THEOREM DryRunsTalk == Spec => []DryRunOnlyTalks
<1>1. IInv => DryRunOnlyTalks
  BY DEF IInv, RunOK, Founded, DryRunOnlyTalks
<1> QED BY <1>1, Invariance, PTL
=============================================================================
