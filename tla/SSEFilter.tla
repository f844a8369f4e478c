----------------------------- MODULE SSEFilter -----------------------------
(***************************************************************************)
(* The filter every Anthropic event stream passes on its way to the client *)
(* (filterSSE, validateAnthropicSSEEvent, filterSSEEvent and               *)
(* shouldDropSSEPayload), as operators on the filter's state, and what the *)
(* client has been told.  Events are those of OpenAITranslation; a frame   *)
(* may also be a comment, a [DONE] marker or malformed.                    *)
(***************************************************************************)
EXTENDS Integers, Sequences, FiniteSets, OpenAITranslation

CONSTANTS Blocks,      \* block indices an upstream may use
          DropTypes    \* dropResponseContentTypes of the provider

BlockEvents == {"content_block_start", "content_block_delta", "content_block_stop"}
EventTypes == BlockEvents \cup {"message_start", "message_delta", "message_stop", "ping", "error"}

Unmapped == -1

\* The variables of filterSSE and its sseFilterState: remap maps an upstream
\* index to the client's, drop is the set of indices left out.
NewFilter == [started |-> FALSE, terminal |-> FALSE, reason |-> FALSE, stop |-> FALSE,
              drop |-> {}, remap |-> [i \in Blocks |-> Unmapped], next |-> 0,
              protocolError |-> FALSE, missingStop |-> FALSE, failed |-> FALSE]

\* validateAnthropicSSEEvent
Valid(f, e) ==
  \/ e.type = "comment"
  \/ /\ e.type \in EventTypes
     /\ f.terminal => e.type = "ping"
     /\ e.type = "message_start" => ~f.started
     /\ e.type \notin {"message_start", "ping", "error"} => f.started

\* shouldDropSSEPayload: the index an event gets, the state it leaves.
Mapped(f, i) == IF f.remap[i] = Unmapped THEN f.next ELSE f.remap[i]
FaultRemapped(f, i, to) == [f EXCEPT !.remap[i] = to, !.next = to + 1]
Remapped(f, i, to) == [f EXCEPT !.remap[i] = to, !.next = IF to = f.next THEN to + 1 ELSE @]

Out(f, events) == [f |-> f, out |-> events]

Block(f, e) ==
  CASE e.type = "content_block_start" /\ e.kind \in DropTypes ->
         Out([f EXCEPT !.drop = @ \cup {e.index}], <<>>)
    [] e.type = "content_block_start" /\ e.kind \notin DropTypes ->
         Out(Remapped(f, e.index, f.next), <<[e EXCEPT !.index = f.next]>>)
    [] e.type # "content_block_start" /\ e.index \in f.drop -> Out(f, <<>>)
    [] OTHER -> LET to == Mapped(f, e.index)
                IN Out(Remapped(f, e.index, to), <<[e EXCEPT !.index = to]>>)

Noted(f, e) ==
  CASE e.type = "message_start" -> [f EXCEPT !.started = TRUE]
    [] e.type = "message_delta" -> [f EXCEPT !.reason = @ \/ e.reason # "none"]
    [] e.type = "message_stop"  -> [f EXCEPT !.terminal = TRUE, !.stop = TRUE,
                                             !.missingStop = @ \/ ~f.reason]
    [] e.type = "error"         -> [f EXCEPT !.terminal = TRUE]
    [] OTHER                    -> f

\* flush: one frame.  A frame that is not valid ends the stream with an error
\* event, a message_stop that no stop reason preceded is replaced by one, and
\* a [DONE] after a complete message is ignored.
Filtered(f, e) ==
  CASE e.type = "done" /\ f.stop /\ f.reason -> Out(f, <<>>)
    [] ~(e.type = "done" /\ f.stop /\ f.reason) /\ ~Valid(f, e) ->
         Out([f EXCEPT !.protocolError = TRUE, !.failed = TRUE], <<Plain("error")>>)
    [] Valid(f, e) /\ e.type \in BlockEvents -> Block(f, e)
    [] Valid(f, e) /\ e.type = "message_stop" /\ ~f.reason -> Out(Noted(f, e), <<Plain("error")>>)
    [] OTHER -> Out(Noted(f, e), <<e>>)

\* The frames of a sequence, one after another until one ends the stream.
AllFiltered(f, events) ==
  FoldLeft(LAMBDA r, e : IF r.f.failed THEN r
                         ELSE LET n == Filtered(r.f, e) IN Out(n.f, r.out \o n.out),
           Out(f, <<>>), events)

\* The source ended, cleanly or not, before a terminal event.
FaultSourceEnded(f) ==
  IF f.started /\ ~f.terminal /\ ~f.reason
  THEN Out([f EXCEPT !.missingStop = TRUE], <<Plain("error")>>)
  ELSE Out(f, <<>>)
SourceEnded(f) ==
  IF f.started /\ ~f.terminal
  THEN Out([f EXCEPT !.missingStop = TRUE], <<Plain("error")>>)
  ELSE Out(f, <<>>)
-----------------------------------------------------------------------------
(***************************************************************************)
(* The client: whether its message began, completed or failed, the blocks  *)
(* open on its side, the next new block's number, and whether it was sent  *)
(* a block out of turn, a piece of no open block, or an event after the    *)
(* end.                                                                    *)
(***************************************************************************)
NewClient == [started |-> FALSE, complete |-> FALSE, failed |-> FALSE,
              open |-> {}, blocks |-> 0, gap |-> FALSE, stray |-> FALSE, late |-> FALSE]

Receive(c, e) ==
  LET late == (c.complete \/ c.failed) /\ e.type \notin {"ping", "comment", "error"}
      placed == [c EXCEPT !.late = @ \/ late]
      block == [placed EXCEPT !.gap = @ \/ e.index > c.blocks,
                              !.blocks = IF e.index >= @ THEN e.index + 1 ELSE @]
  IN CASE e.type = "message_start" -> [placed EXCEPT !.started = TRUE]
       [] e.type = "message_stop"  -> [placed EXCEPT !.complete = TRUE]
       [] e.type = "error"         -> [placed EXCEPT !.failed = TRUE]
       [] e.type = "content_block_start" -> [block EXCEPT !.open = @ \cup {e.index}, !.gap = @ \/ e.index < c.blocks]
       [] e.type = "content_block_delta" -> [block EXCEPT !.stray = @ \/ e.index \notin c.open]
       [] e.type = "content_block_stop"  -> [block EXCEPT !.stray = @ \/ e.index \notin c.open, !.open = @ \ {e.index}]
       [] OTHER -> placed

Received(c, events) == FoldLeft(Receive, c, events)
=============================================================================
