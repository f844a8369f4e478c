---------------------------- MODULE DevinAdapter ----------------------------
(***************************************************************************)
(* The Devin adapter (internal/devin/server.go) as operators on the state  *)
(* of one request: frames of Devin's protocol become OpenAI chunks, and    *)
(* the end of its stream becomes a finish chunk and [DONE], or an error    *)
(* and nothing more.  The chunks are those OpenAITranslation reads.        *)
(*                                                                         *)
(* A frame is [text, fragments, finish]: a fragment of a tool call is      *)
(* [id, name, args], id and name "" when absent; finish is the finish code *)
(* it carries, "none", "normal" (2) or "other".                            *)
(***************************************************************************)
EXTENDS Integers, Sequences, SequencesExt

CONSTANTS AllowedTools,   \* names of the request's tools
          MaxDevinCalls   \* 256 in consume

NoCall == 0

\* streamState, and started of ServeHTTP.
NoRequest == [calls |-> <<>>, active |-> NoCall, finish |-> "none",
              started |-> FALSE, over |-> FALSE, refused |-> FALSE]

Chunk(text, tools, finish) == [type |-> "choices", text |-> text, tools |-> tools, finish |-> finish]
Said(d, out, failed) == [d |-> d, out |-> out, failed |-> failed]

WholeCall(call) == call.args = 2
CallOf(d, id) == SelectInSeq(d.calls, LAMBDA c : c.id = id)
Known(d, id) == CallOf(d, id) # 0

\* A fragment without an id belongs to the active call, unless another call
\* is incomplete.
Ambiguous(d, f) ==
  f.id = "" /\ (d.active = NoCall \/ \E k \in DOMAIN d.calls : k # d.active /\ ~WholeCall(d.calls[k]))
Unexpected(d, f) ==
  /\ f.id # ""
  /\ IF Known(d, f.id) THEN f.name # "" /\ f.name # d.calls[CallOf(d, f.id)].name
                       ELSE f.name \notin AllowedTools \/ Len(d.calls) >= MaxDevinCalls

Target(d, f) ==
  CASE f.id = "" -> d.active
    [] f.id # "" /\ Known(d, f.id) -> CallOf(d, f.id)
    [] OTHER -> Len(d.calls) + 1

Fragment(r, f) ==
  LET k == Target(r.d, f)
      new == k > Len(r.d.calls)
      calls == IF new THEN Append(r.d.calls, [id |-> f.id, name |-> f.name, args |-> f.args])
                      ELSE [r.d.calls EXCEPT ![k].args = @ + f.args]
  IN IF r.failed \/ Ambiguous(r.d, f) \/ Unexpected(r.d, f) THEN Said(r.d, r.out, TRUE)
     ELSE Said([r.d EXCEPT !.calls = calls, !.active = k],
               Append(r.out, [tool |-> k - 1, id |-> new, name |-> new, args |-> f.args]), FALSE)

\* consume and the chunks ServeHTTP writes for it: the role first.
Consumed(d, frame) ==
  LET r == FoldLeft(Fragment, Said(d, <<>>, FALSE), frame.fragments)
      next == [r.d EXCEPT !.finish = IF frame.finish = "none" THEN @ ELSE frame.finish]
      delta == frame.text \/ r.out # <<>>
  IN IF r.failed THEN Said(next, <<>>, TRUE)
     ELSE IF ~delta THEN Said(next, <<>>, FALSE)
     ELSE Said([next EXCEPT !.started = TRUE],
               (IF d.started THEN <<>> ELSE <<Chunk(FALSE, <<>>, FALSE)>>)
                 \o <<Chunk(frame.text, r.out, FALSE)>>, FALSE)

\* finish: what makes a stream that ended complete.  full says that the
\* reported usage reached the request's token limit.
Completes(d, full) ==
  IF d.calls # <<>> THEN \A k \in DOMAIN d.calls : WholeCall(d.calls[k])
  ELSE d.finish = "normal" \/ (d.finish = "other" /\ full)

\* writeError: an error chunk on a stream that began, else an error status.
Interrupted(d) ==
  Said([d EXCEPT !.over = TRUE, !.refused = ~d.started],
       IF d.started THEN <<[type |-> "error"]>> ELSE <<>>, TRUE)

Closed(d, full) ==
  IF Completes(d, full)
  THEN Said([d EXCEPT !.over = TRUE, !.started = TRUE],
            <<Chunk(FALSE, <<>>, TRUE), [type |-> "done"]>>, FALSE)
  ELSE Interrupted(d)
=============================================================================
