------------------------------ MODULE Playground -----------------------------
(***************************************************************************)
(* The playground (web/app/(main)/playground/page.tsx and the input field  *)
(* components/ui/ai-chat-input.tsx): a conversation with a model over one  *)
(* of three protocols.  The answer is read piece by piece, and abandoned   *)
(* when the user stops it, takes another protocol or realm, or leaves.     *)
(***************************************************************************)
EXTENDS Shell

CONSTANT EffortsOf    \* what a model can be told of how much to think, least first

Protocols == {"chat", "anthropic", "responses"}
StreamOps == {"chat", "read"}

(* What is sent: all that was said, and how much to think, if anything. *)
BuildAnthropicBody(msgs, model, effort) ==
    [model |-> model, effort |-> effort, thinking |-> effort # None, turns |-> Len(msgs)]
BuildResponsesBody(msgs, model, effort) ==
    [model |-> model, effort |-> effort, thinking |-> FALSE, turns |-> Len(msgs)]

PlayModels(w) == Call(w, "playModels", <<w.tab.realm, None>>)

PlaygroundMount(w) ==
    PlayModels([w EXCEPT !.page =
        [name |-> "playground", visit |-> w.page.visit, hooks |-> <<>>, models |-> <<>>,
         model |-> None, effort |-> None, msgs |-> <<>>, streaming |-> FALSE, aborted |-> FALSE,
         spent |-> 0, hasCredit |-> FALSE, protocol |-> "chat", crashed |-> FALSE]])

(* The first of the models is chosen, of whatever realm they are. *)
PlayModelsLand == \E c \in Answered("playModels") :
    LET list == c.ans.val.list
    IN  /\ Become(IF Ok(c)
                  THEN Shown(c, After(c), [page EXCEPT !.models = list, !.effort = None,
                                              !.model = IF list = <<>> THEN None ELSE list[1]])
                  ELSE After(c))
        /\ UNCHANGED server
-----------------------------------------------------------------------------
Said(text) == [role |-> "user", text |-> text, thinking |-> None, collapsed |-> FALSE,
               credit |-> None, done |-> TRUE, error |-> FALSE]
Told(text) == [Said(text) EXCEPT !.role = "assistant"]

(* What is being waited for is given up; what has come already has come. *)
Stop == [is |-> "aborted", ver |-> 0, val |-> None]
Abort(w) ==
    [w EXCEPT !.page.aborted = @ \/ w.page.streaming,
              !.calls = {IF c.op \in StreamOps /\ c.visit = w.page.visit /\ c.ans = None
                         THEN [c EXCEPT !.ans = Stop] ELSE c : c \in @}]

(* Nothing is left of a stream whose page is gone. *)
Left(w) == [w EXCEPT !.calls = {c \in @ : c.op \notin StreamOps}]

Send ==
    /\ IsAdmin /\ ~page.streaming
    /\ LET next == Append(page.msgs, Said("question"))
           asked == [Clicked EXCEPT !.page.msgs = Append(next, [Told("") EXCEPT !.done = FALSE]),
                                    !.page.streaming = TRUE]
           body == CASE page.protocol = "anthropic" -> BuildAnthropicBody(next, page.model, page.effort)
                     [] OTHER -> BuildResponsesBody(next, page.model, page.effort)
       IN  Become(Call(asked, "chat", <<page.protocol, body>>))

(* The last message becomes m; where there is none, nothing does. *)
Replace(p, m) == IF p.msgs = <<>> THEN p ELSE [p EXCEPT !.msgs[Len(p.msgs)] = m]
Finish(p) == [p EXCEPT !.streaming = FALSE, !.aborted = FALSE]
LastOf(p) == p.msgs[Len(p.msgs)]

(* The text of the last message is looked at, though there may be none. *)
Stopped(p) ==
    IF p.msgs = <<>> THEN [p EXCEPT !.crashed = TRUE]
    ELSE Finish(Replace(p, [LastOf(p) EXCEPT !.done = TRUE,
                                             !.text = IF @ = "" THEN "stopped" ELSE @]))

Failed(p) == Finish(Replace(p, [Told("failed") EXCEPT !.error = TRUE]))

(* What has come so far: the text, the thinking, and what it cost. *)
ReadOn(w, got) ==
    LET next == CallFor(w, w.page.visit, "read", got, None)
    IN  IF w.page.aborted THEN Abort(next) ELSE next

ChatLands == \E c \in Answered("chat") :
    /\ Become(CASE Ok(c) -> ReadOn(After(c), <<c.arg[1], "", "", None>>)
                [] c.ans.is = "aborted" -> Shown(c, After(c), Stopped(page))
                [] OTHER -> Shown(c, After(c), Failed(page)))
    /\ UNCHANGED server

(* A piece is taken if the protocol knows it; only one tells the credits.  *)
Grown(got, chunk) ==
    CASE chunk = "text" -> [got EXCEPT ![2] = "text"]
      [] chunk = "thinking" /\ got[1] # "chat" -> [got EXCEPT ![3] = "thoughts"]
      [] chunk = "usage" /\ got[1] = "chat" -> [got EXCEPT ![4] = 1]
      [] OTHER -> got

Showing(p, got) ==
    IF p.msgs = <<>> THEN [p EXCEPT !.crashed = TRUE]
    ELSE Replace(p, [LastOf(p) EXCEPT !.text = got[2], !.done = FALSE,
                                      !.thinking = IF got[1] = "chat" THEN None ELSE got[3]])

Answer(p, got) ==
    LET m == [Told(IF got[2] = "" THEN "empty" ELSE got[2]) EXCEPT
                 !.credit = got[4], !.collapsed = TRUE,
                 !.thinking = IF got[1] = "chat" THEN None ELSE got[3]]
        told == Finish(Replace(p, m))
    IN  IF got[4] = None THEN told
        ELSE [told EXCEPT !.spent = @ + got[4], !.hasCredit = TRUE]

ReadLands == \E c \in Answered("read") :
    LET got == Grown(c.arg, c.ans.val.chunk)
        w == After(c)
    IN  /\ Become(CASE c.ans.is = "aborted" -> [w EXCEPT !.page = Stopped(page)]
                    [] c.ans.is = "fail" -> [w EXCEPT !.page = Failed(page)]
                    [] Ok(c) /\ c.ans.val.chunk = "end" -> [w EXCEPT !.page = Answer(page, c.arg)]
                    [] OTHER -> IF page.msgs = <<>> THEN [w EXCEPT !.page = Showing(page, got)]
                                ELSE ReadOn([w EXCEPT !.page = Showing(page, got)], got))
        /\ UNCHANGED server
-----------------------------------------------------------------------------
(* Another protocol: the stream is of no use, and the thinking is folded.  *)
SwitchProtocol(next) ==
    LET fold(m) == [m EXCEPT !.collapsed = @ \/ m.thinking # None]
    IN  [Abort(Clicked) EXCEPT !.page.protocol = next, !.page.hasCredit = FALSE,
                               !.page.msgs = [i \in DOMAIN @ |-> fold(@[i])]]

(* Another realm: other models, and a new conversation. *)
PlaygroundRealm(w) ==
    [Abort(PlayModels(w)) EXCEPT !.page.msgs = <<>>, !.page.spent = 0, !.page.hasCredit = FALSE]

ClearChat ==
    /\ ~page.streaming /\ page.msgs # <<>>
    /\ Become([Clicked EXCEPT !.page.msgs = <<>>, !.page.spent = 0, !.page.hasCredit = FALSE])

(* A model that cannot think as much as was asked for is asked for less.   *)
Supported(m) == IF m \in DOMAIN EffortsOf THEN EffortsOf[m] ELSE <<>>
PickModel(m) ==
    LET can == {Supported(m)[i] : i \in DOMAIN Supported(m)}
    IN  Become([Clicked EXCEPT !.page.model = m,
                   !.page.effort = IF @ = None \/ can = {} \/ @ \in can THEN @
                                   ELSE IF "high" \in can THEN "high"
                                   ELSE Supported(m)[Len(Supported(m))]])

PickEffort ==
    /\ Supported(page.model) # <<>>
    /\ \E e \in {None} \cup {Supported(page.model)[i] : i \in DOMAIN Supported(page.model)} :
          e # page.effort /\ Become([Clicked EXCEPT !.page.effort = e])

(* What a model thought can be unfolded, if it thought anything. *)
Fold == \E i \in DOMAIN page.msgs :
    /\ page.msgs[i].role = "assistant" /\ page.msgs[i].thinking \notin {None, ""}
    /\ Become([Clicked EXCEPT !.page.msgs[i].collapsed = ~@])

PlaygroundClick ==
    /\ ~page.crashed
    /\ \/ Become(PlayModels(Clicked))
       \/ ClearChat
       \/ /\ IsAdmin
          /\ \/ Send
             \/ page.streaming /\ Become(Abort(Clicked))
             \/ \E q \in Protocols \ {page.protocol} : Become(SwitchProtocol(q))
             \/ \E i \in DOMAIN page.models : page.models[i] # page.model /\ PickModel(page.models[i])
             \/ PickEffort
             \/ Fold

PlaygroundLand == PlayModelsLand \/ ChatLands \/ ReadLands

(* There is one stream at most, and the field is closed while there is.    *)
PlaygroundLocks ==
    LET streams == {c \in calls : c.op \in StreamOps}
    IN  ~page.crashed => /\ page.streaming <=> streams # {}
                         /\ Cardinality(streams) < 2

PlaygroundServes(c) ==
    CASE c.op = "playModels" -> Reads([list |-> server.models[c.arg[1]]])
      [] c.op = "chat" -> IF server.session = None THEN Refuses ELSE Reads(None) \cup Refuses
      [] c.op = "read" -> {Reply(server, "ok", [chunk |-> k]) : k \in {"text", "thinking", "usage", "end"}}
=============================================================================
