-------------------------- MODULE MCResponseStream --------------------------
(***************************************************************************)
(* One attempt against every upstream of up to six Anthropic events over   *)
(* two block indices, text or thinking (which the provider drops); of five *)
(* OpenAI chunks with two tool calls whose id, name and arguments may come *)
(* apart; of three Devin frames with two calls, and what they yield.  That *)
(* is a whole message with one block or call, or one with a defect at any  *)
(* place.                                                                  *)
(***************************************************************************)
EXTENDS ResponseStream

MCEvents ==
  {Plain(t) : t \in {"message_start", "message_stop", "ping", "error", "comment", "done", "malformed", "unknown"}}
    \cup {StopDelta(r) : r \in {"none", "end_turn", "max_tokens"}}
    \cup {Event("content_block_start", i, k) : i \in {0, 1}, k \in {"text", "thinking"}}
    \cup {Event("content_block_delta", i, "text") : i \in {0, 1}} \cup {Event("content_block_delta", 0, "thinking")}
    \cup {Event("content_block_stop", i, "text") : i \in {0, 1}}

Piece(i, id, name, args) == [tool |-> i, id |-> id, name |-> name, args |-> args]
MCChunks ==
  {[type |-> t] : t \in {"done", "error", "malformed"}}
    \cup {Chunk(FALSE, <<>>, FALSE), Chunk(TRUE, <<>>, FALSE), Chunk(FALSE, <<>>, TRUE)}
    \cup {Chunk(FALSE, <<Piece(i, TRUE, TRUE, 0)>>, FALSE) : i \in Tools}
    \cup {Chunk(FALSE, <<Piece(i, FALSE, FALSE, a)>>, FALSE) : i \in Tools, a \in {1, 2}}
    \cup {Chunk(TRUE, <<Piece(0, TRUE, FALSE, 1), Piece(1, TRUE, TRUE, 2)>>, FALSE),
          Chunk(FALSE, <<Piece(0, FALSE, TRUE, 1)>>, TRUE)}

Frag(id, name, args) == [id |-> id, name |-> name, args |-> args]
MCFrames ==
  [text : BOOLEAN, fragments : {<<>>}, finish : {"none", "normal", "other"}]
    \cup {[text |-> FALSE, fragments |-> <<f>>, finish |-> "none"] :
            f \in {Frag("c1", "read", 1), Frag("c1", "", 1), Frag("c2", "read", 2), Frag("", "", 1), Frag("c2", "other", 1)}}

Policy(idle, strict, empty, timers) == [idle |-> idle, strict |-> strict, empty |-> empty, timers |-> timers]
MCMaxSent == [anthropic |-> 6, openai |-> 5, devin |-> 3]
MCPolicies == {Policy(FALSE, FALSE, FALSE, {"read", "event"}), Policy(TRUE, FALSE, FALSE, {"read"}),
               Policy(FALSE, TRUE, FALSE, {}), Policy(FALSE, TRUE, TRUE, {"read"})}
=============================================================================
