------------------------- MODULE OpenAITranslation -------------------------
(***************************************************************************)
(* The translation of an OpenAI chat-completion stream into Anthropic      *)
(* events (translateOpenAIStreamWithStats, processOpenAIChunk,             *)
(* processOpenAIToolCallChunk, finishOpenAIMessageChecked) and of a whole  *)
(* completion (translateOpenAIJSONResponseChecked), as operators on the    *)
(* translator's state.                                                     *)
(*                                                                         *)
(* An event is [type, index, kind, reason].  A chunk is [type |->          *)
(* "choices", text, tools, finish] or a chunk of another type.  A fragment *)
(* of a tool call is [tool, id, name, args]: which call it belongs to,     *)
(* whether it carries the call's id and its name, and how many halves of a *)
(* JSON object its arguments hold; two halves are a whole object.          *)
(***************************************************************************)
EXTENDS Integers, Sequences, FiniteSets, SequencesExt

CONSTANTS Tools,         \* indices a tool call may have in the stream
          MaxToolCalls,  \* maxToolCalls
          MaxArguments   \* maxToolArgumentBytes, in halves of an object

ASSUME TranslationAssumption == MaxToolCalls \in Nat /\ MaxArguments \in Nat

NoBlock == -1

Event(type, index, kind) == [type |-> type, index |-> index, kind |-> kind, reason |-> "none"]
Plain(type) == Event(type, NoBlock, "none")
StopDelta(reason) == [Plain("message_delta") EXCEPT !.reason = reason]

NoTool == [seen |-> FALSE, id |-> FALSE, name |-> FALSE, args |-> 0, block |-> NoBlock]

\* state: the openaiStreamState of a stream that has not begun.
NoStream == [started |-> FALSE, ended |-> FALSE, text |-> NoBlock, next |-> 0,
             tools |-> [i \in Tools |-> NoTool], order |-> <<>>, finish |-> FALSE, done |-> FALSE]

\* What a step of the translator yields: its state, the events it wrote and
\* whether it returned an error.
Step(t, out, failed) == [t |-> t, out |-> out, failed |-> failed]
Quit(t, out) == Step([t EXCEPT !.ended = TRUE], out \o <<Plain("error")>>, TRUE)

Opened(t) ==
  IF t.started THEN Step(t, <<>>, FALSE)
  ELSE Step([t EXCEPT !.started = TRUE], <<Plain("message_start")>>, FALSE)

Text(t) ==
  LET i == IF t.text = NoBlock THEN t.next ELSE t.text
      delta == Event("content_block_delta", i, "text")
  IN IF t.text # NoBlock THEN Step(t, <<delta>>, FALSE)
     ELSE Step([t EXCEPT !.text = i, !.next = @ + 1],
               <<Event("content_block_start", i, "text"), delta>>, FALSE)

Seen(t) == {i \in Tools : t.tools[i].seen}
Arguments(t) == MapThenSumSet(LAMBDA i : t.tools[i].args, Tools)
ArgumentDeltas(block, n) == [k \in 1..n |-> Event("content_block_delta", block, "tool_use")]

\* A call's block is opened once both its id and its name are known; the
\* fragments buffered until then follow the opening.
ToolFragment(t, c) ==
  LET old == t.tools[c.tool]
      new == [old EXCEPT !.seen = TRUE, !.id = @ \/ c.id, !.name = @ \/ c.name, !.args = @ + c.args]
      kept == [t EXCEPT !.tools[c.tool] = new]
      begin == new.id /\ new.name
      closeText == IF t.text = NoBlock THEN <<>> ELSE <<Event("content_block_stop", t.text, "text")>>
  IN IF (~old.seen /\ Cardinality(Seen(t)) >= MaxToolCalls) \/ Arguments(kept) > MaxArguments
     THEN Step(kept, <<>>, TRUE)
     ELSE IF old.block # NoBlock
     THEN Step(kept, ArgumentDeltas(old.block, IF c.args > 0 THEN 1 ELSE 0), FALSE)
     ELSE IF ~begin THEN Step(kept, <<>>, FALSE)
     ELSE Step([kept EXCEPT !.tools[c.tool].block = t.next, !.next = @ + 1, !.text = NoBlock,
                            !.order = Append(@, c.tool)],
               closeText \o <<Event("content_block_start", t.next, "tool_use")>>
                         \o ArgumentDeltas(t.next, new.args), FALSE)

\* One step after another, until one of them fails: second continues from the
\* state first left.
Then(first, second) ==
  IF first.failed THEN first ELSE Step(second.t, first.out \o second.out, second.failed)

ProcessChunk(t, c) ==
  LET opened == Opened(t)
      text == IF c.text THEN Then(opened, Text(opened.t)) ELSE opened
      tools == FoldLeft(LAMBDA r, f : Then(r, ToolFragment(r.t, f)), text, c.tools)
  IN Then(tools, Step([tools.t EXCEPT !.finish = @ \/ c.finish], <<>>, FALSE))

\* flush: one data frame of the upstream.  [DONE] only ends the loop.
Translated(t, c) ==
  CASE c.type = "choices" -> ProcessChunk(t, c)
    [] c.type = "done"    -> Step([t EXCEPT !.done = TRUE], <<>>, FALSE)
    [] c.type = "comment" -> Step(t, <<>>, FALSE)
    [] OTHER              -> Quit(t, <<>>)

WholeArguments(b) == b.args \in {0, 2}
Incomplete(b) == b.seen /\ b.block = NoBlock /\ (b.id \/ b.name \/ b.args > 0)

FaultFinished(t, reason) ==
  Step([t EXCEPT !.ended = TRUE, !.text = NoBlock],
       (IF t.text = NoBlock THEN <<>> ELSE <<Event("content_block_stop", t.text, "text")>>)
         \o [k \in 1..Len(t.order) |->
               Event("content_block_stop", t.tools[t.order[k]].block, "tool_use")]
         \o <<StopDelta(reason), Plain("message_stop")>>, FALSE)

\* finishOpenAIMessageChecked: a tool call that is not whole ends the message
\* with an error event, otherwise the open blocks are closed and the message
\* ends.
Finished(t, reason) ==
  IF \E i \in Seen(t) : ~WholeArguments(t.tools[i]) \/ Incomplete(t.tools[i])
  THEN Step([t EXCEPT !.ended = TRUE], <<Plain("error")>>, FALSE)
  ELSE Step([t EXCEPT !.ended = TRUE, !.text = NoBlock],
            (IF t.text = NoBlock THEN <<>> ELSE <<Event("content_block_stop", t.text, "text")>>)
              \o [k \in 1..Len(t.order) |->
                    Event("content_block_stop", t.tools[t.order[k]].block, "tool_use")]
              \o <<StopDelta(reason), Plain("message_stop")>>, FALSE)

\* What follows the loop: the source ended (broken or not) or said [DONE].
Concluded(t, broken) ==
  IF broken \/ ~t.started \/ (~t.done /\ ~t.finish) THEN Quit(t, <<>>)
  ELSE Finished(t, IF ~t.finish /\ t.order # <<>> THEN "tool_use" ELSE "end_turn")

\* translateOpenAIJSONResponseChecked: what makes it answer with an error
\* body and raise its flag.
JSONBodies == [json : BOOLEAN, error : BOOLEAN, choices : BOOLEAN, text : BOOLEAN,
               args : {"none", "good", "bad"}]
Untranslatable(body) ==
  \/ ~body.json \/ body.error \/ ~body.choices
  \/ body.args = "bad"
  \/ ~body.text /\ body.args = "none"
=============================================================================
