--------------------------- MODULE ResponseStream ---------------------------
(***************************************************************************)
(* One attempt's response, from the request's headers to the end of the    *)
(* client's stream: the header deadline (doUpstreamWithHeaderBudget...),   *)
(* priming of a stream before a byte reaches the client                    *)
(* (primeSSEBodyObservedWithPolicy), the buffering of any other body       *)
(* (bufferUpstreamBody), the pipeline translator -> filter -> client with  *)
(* its two timers, and the verdict on the leg at the end of proxy().       *)
(*                                                                         *)
(* The upstream is free: it speaks Anthropic events or OpenAI chunks in    *)
(* any order, or it is the Devin adapter, whose own upstream is free.  It  *)
(* may stop, break or fall silent at any point.  A deadline may fire as    *)
(* long as it is armed, which covers every duration; the two timers of the *)
(* pipeline are armed again by what the upstream sends and fire only when  *)
(* their window has passed without it (due).  What a timer does to the     *)
(* body races with the reader.                                             *)
(***************************************************************************)
EXTENDS SSEFilter, DevinAdapter

CONSTANTS Events,     \* Anthropic frames an upstream may send
          Chunks,     \* OpenAI chunks an upstream may send
          Frames,     \* frames Devin may send
          Policies,   \* how streams are primed and timed: [idle, strict, empty, timers]
          MaxSent,    \* bound: frames of one stream that change anything, by format
          MaxPrefix   \* maxInitialSSEBytes, in frames

\* An event of a block names it, and a chunk names a call the translator may
\* keep; the translator numbers its blocks from 0, at most one text before,
\* between and after its calls; Devin's calls are numbered from 0 and are among
\* the translator's.
ASSUME StreamAssumption ==
  /\ Events \subseteq [type : STRING, index : Blocks \cup {NoBlock}, kind : STRING, reason : STRING]
  /\ \A e \in Events : e.type \in BlockEvents => e.index \in Blocks
  /\ 0..(2 * MaxToolCalls) \subseteq Blocks /\ Blocks \subseteq Int
  /\ \A c \in Chunks : c.type = "choices" =>
       c \in [type : {"choices"}, text : BOOLEAN, finish : BOOLEAN,
              tools : Seq([tool : Tools, id : BOOLEAN, name : BOOLEAN, args : Nat])]
  /\ \A f \in Frames :
       f \in [text : BOOLEAN, finish : {"none", "normal", "other"},
              fragments : Seq([id : STRING, name : STRING, args : Nat])]
  /\ MaxDevinCalls \in Nat /\ 0..(MaxDevinCalls - 1) \subseteq Tools
  /\ \A p \in Policies : p.timers \subseteq {"read", "event"}

VARIABLES
  format,    \* "anthropic", "openai" or "devin"
  policy,    \* the route's priming policy and the timers of its pipeline
  pc,        \* where the attempt is
  answer,    \* what the upstream answered
  body,      \* the response body: "none", "open" or "closed"
  source,    \* the upstream's side of it: "live", "eof" or "broken"
  timer,     \* the deadline of the current phase
  due,       \* the pipeline's timers whose window has passed since they were armed
  wire,      \* chunks the adapter wrote that were not read yet
  sent,      \* frames the upstream sent
  prefix,    \* frames read while priming and not yet replayed
  prime,     \* what priming has seen
  tr, fl,    \* the translator and the filter
  client,    \* what the client was told
  gone,      \* the client disconnected
  stalled,   \* stats.StreamStalled
  readError, \* the error streamCopy returned
  bypass,    \* upstream.emptyCompletion: the body is copied as it is
  devin,     \* the adapter's request
  said,      \* what the upstream claimed: a stop reason, the end of its message,
             \* an error, and what it sent of each tool call
  verdict    \* what proxy() made of the leg

route == <<format, policy>>
upstream == <<answer, source, wire, sent, devin, said>>
pipe == <<prefix, tr, fl, client, stalled, readError>>
result == <<prime, bypass, verdict>>
clock == <<timer, due>>
vars == <<route, pc, upstream, body, clock, pipe, result, gone>>

NothingTold == [id |-> FALSE, name |-> FALSE, args |-> 0]
Unprimed == [reason |-> FALSE, start |-> FALSE, term |-> FALSE, empty |-> FALSE]

\* candidate.FirstContentTimeoutMS > 0 makes priming strict.
Strict == policy.strict
OpenAI == format # "anthropic"

Init ==
  /\ format \in {"anthropic", "openai", "devin"}
  /\ policy \in {p \in Policies : p.empty => format = "anthropic"}
  /\ pc = "headers" /\ answer = "none" /\ body = "none" /\ source = "live" /\ timer = "armed" /\ due = {}
  /\ wire = <<>> /\ sent = 0 /\ prefix = <<>>
  /\ prime = Unprimed
  /\ tr = NoStream /\ fl = NewFilter /\ client = NewClient
  /\ gone = FALSE /\ stalled = FALSE /\ readError = FALSE /\ bypass = FALSE
  /\ devin = NoRequest
  /\ said = [reason |-> FALSE, end |-> FALSE, error |-> FALSE, calls |-> [i \in Tools |-> NothingTold]]
  /\ verdict = "none"

-----------------------------------------------------------------------------
(***************************************************************************)
(* The upstream's side.                                                    *)
(***************************************************************************)
\* A frame that changes something counts against the bound; any number of
\* others may be sent.
Counted(counts) ==
  /\ counts => sent < MaxSent[format]
  /\ sent' = IF counts THEN sent + 1 ELSE sent

\* The adapter reads a frame of Devin's stream and writes what it yields.  With
\* a normal finish or a tool call, Devin claims a message that may end.
DevinSends(frame) ==
  /\ format = "devin" /\ ~devin.over /\ body # "closed" /\ Len(wire) < 2
  /\ LET r == Consumed(devin, frame)
         s == IF r.failed THEN Interrupted(r.d) ELSE r
     IN devin' = s.d /\ wire' = wire \o s.out /\ Counted(s.d # devin)
  /\ said' = [said EXCEPT !.reason = @ \/ frame.finish = "normal" \/ frame.fragments # <<>>]
  /\ UNCHANGED <<route, pc, answer, source, body, clock, pipe, result, gone>>

\* Devin's stream ends with its terminal frame, or breaks or is cancelled.  full
\* says that its usage reached the token limit.
DevinEnds(broken, full) ==
  /\ format = "devin" /\ ~devin.over /\ body # "closed"
  /\ LET r == IF broken THEN Interrupted(devin) ELSE Closed(devin, full)
     IN devin' = r.d /\ wire' = wire \o r.out
  /\ said' = [said EXCEPT !.end = ~broken /\ (said.reason \/ full)]
  /\ UNCHANGED <<route, pc, answer, source, sent, body, clock, pipe, result, gone>>

Answer(kind) ==
  /\ pc = "headers" /\ answer = "none"
  /\ format = "devin" => (kind = "stream" /\ devin.started) \/ (kind = "status" /\ devin.refused)
                           \/ kind = "error"
  /\ answer' = kind
  /\ body' = IF kind = "error" THEN body ELSE "open"
  /\ UNCHANGED <<route, pc, source, wire, sent, devin, said, clock, pipe, result, gone>>

\* The upstream closes its side, or the connection breaks.
SourceStops(how) ==
  /\ body = "open" /\ source = "live"
  /\ format = "devin" /\ how = "eof" => devin.over
  /\ source' = how
  /\ UNCHANGED <<route, pc, answer, wire, sent, devin, said, body, clock, pipe, result, gone>>

ClientLeaves ==
  /\ ~gone /\ pc \notin {"failed", "done"}
  /\ gone' = TRUE
  /\ UNCHANGED <<route, pc, upstream, body, clock, pipe, result>>

\* What the reader can still get: bytes the upstream sent before the body was
\* closed or the request cancelled.
Readable == body = "open" /\ ~gone
Ended == ~Readable \/ source = "broken" \/ (source = "eof" /\ wire = <<>>)
Broken == ~Readable \/ source = "broken"

\* What a fragment tells of its call.
Told(calls, f) ==
  [calls EXCEPT ![f.tool] = [id |-> @.id \/ f.id, name |-> @.name \/ f.name, args |-> @.args + f.args]]

Claims(c) ==
  CASE format = "anthropic" /\ c.type = "message_delta" -> [said EXCEPT !.reason = @ \/ c.reason # "none"]
    [] format = "anthropic" /\ c.type = "message_stop"  -> [said EXCEPT !.end = @ \/ said.reason]
    [] format = "openai" /\ c.type = "done" -> [said EXCEPT !.end = TRUE]
    [] OpenAI /\ c.type = "choices" ->
         [said EXCEPT !.end = @ \/ (format = "openai" /\ c.finish), !.calls = FoldLeft(Told, @, c.tools)]
    [] c.type = "error" -> [said EXCEPT !.error = TRUE]
    [] OTHER -> said

\* A frame comes off the wire, one of Wired.
Arrives(c, counts) ==
  /\ Readable /\ (source = "live" \/ (source = "eof" /\ wire # <<>>))
  /\ IF format = "devin"
     THEN wire # <<>> /\ wire' = Tail(wire) /\ UNCHANGED sent
     ELSE source = "live" /\ Counted(counts) /\ UNCHANGED wire
  /\ said' = Claims(c)
  /\ UNCHANGED <<answer, source, devin>>

Wired == IF format = "anthropic" THEN Events ELSE IF format = "openai" THEN Chunks
         ELSE IF wire = <<>> THEN {} ELSE {Head(wire)}
-----------------------------------------------------------------------------
(***************************************************************************)
(* Headers and their deadline.                                             *)
(***************************************************************************)
\* The timer cancels the request; the answer may arrive all the same.
HeaderTimeout ==
  /\ pc = "headers" /\ timer = "armed"
  /\ timer' = "fired"
  /\ UNCHANGED <<route, pc, upstream, body, pipe, result, due, gone>>

\* client.Do returns an error once its context is cancelled.
Cancelled ==
  /\ pc = "headers" /\ answer = "none" /\ (timer = "fired" \/ gone)
  /\ answer' = "error"
  /\ UNCHANGED <<route, pc, source, wire, sent, devin, said, body, clock, pipe, result, gone>>

\* The deadline has passed or the client has left although an answer came:
\* its body is closed here.  An error status is read and closed as a body is.
FaultReturnHeaders ==
  /\ pc = "headers" /\ answer # "none"
  /\ LET lost == gone \/ timer = "fired" \/ answer \in {"error", "status"}
     IN /\ pc' = IF lost THEN "failed" ELSE IF answer = "stream" THEN "priming" ELSE "buffering"
        /\ body' = IF answer = "status" THEN "closed" ELSE body
        /\ timer' = IF lost THEN "stopped" ELSE "armed"
  /\ UNCHANGED <<route, upstream, pipe, result, due, gone>>

ReturnHeaders ==
  /\ pc = "headers" /\ answer # "none"
  /\ LET lost == gone \/ timer = "fired" \/ answer \in {"error", "status"}
     IN /\ pc' = IF lost THEN "failed" ELSE IF answer = "stream" THEN "priming" ELSE "buffering"
        /\ body' = IF lost /\ body = "open" THEN "closed" ELSE body
        /\ timer' = IF lost THEN "stopped" ELSE "armed"
  /\ UNCHANGED <<route, upstream, pipe, result, due, gone>>

-----------------------------------------------------------------------------
(***************************************************************************)
(* Priming.                                                                *)
(***************************************************************************)
\* validateInitialSSE
InitialError(c) == c.type \in {"done", "malformed", "error"}

\* classifyUsefulPrelude: "empty" is an emptyPreludeError.
Useful(c) ==
  CASE c.type = "choices" ->
         IF c.text \/ c.tools # <<>> THEN "commit" ELSE IF c.finish THEN "empty" ELSE "metadata"
    [] c.type = "message_stop" -> "empty"
    [] c.type = "message_delta" -> IF c.reason = "none" THEN "metadata" ELSE "empty"
    [] c.type = "content_block_start" -> IF c.kind = "tool_use" THEN "commit" ELSE "metadata"
    [] c.type = "content_block_delta" -> IF c.kind = "thinking" THEN "metadata" ELSE "commit"
    [] c.type \in {"ping", "message_start", "content_block_stop"} -> "metadata"
    [] OTHER -> "refuse"

\* classifyPrelude and metadataOnlySSE
Prelude(c) ==
  CASE c.type = "choices" -> IF c.text \/ c.tools # <<>> \/ c.finish THEN "commit" ELSE "metadata"
    [] c.type = "message_stop" -> IF prime.reason THEN "commit" ELSE "refuse"
    [] c.type = "content_block_start" -> IF c.kind = "tool_use" THEN "commit" ELSE "metadata"
    [] c.type \in {"ping", "message_start", "message_delta"} -> "metadata"
    [] OTHER -> "commit"

\* The frame's class under the route's policy.  A rig request whose turn may
\* be empty validates every frame, and after an end_turn waits only for the
\* message_stop.
Class(c) ==
  CASE InitialError(c) -> "refuse"
    [] ~InitialError(c) /\ policy.empty
         /\ ~Valid([NewFilter EXCEPT !.started = prime.start, !.terminal = prime.term], c) -> "refuse"
    [] prime.empty /\ ~InitialError(c) ->
         IF c.type = "ping" THEN "metadata" ELSE IF c.type = "message_stop" THEN "bypass" ELSE "refuse"
    [] ~prime.empty /\ Strict /\ ~InitialError(c) -> Useful(c)
    [] ~prime.empty /\ ~Strict /\ policy.idle /\ ~InitialError(c) -> Prelude(c)
    [] OTHER -> "commit"

EmptyTurn(c) == policy.empty /\ c.type = "message_delta" /\ c.reason = "end_turn"

Primed(c) ==
  [prime EXCEPT !.reason = @ \/ (c.type = "message_delta" /\ c.reason # "none"),
                !.start = @ \/ c.type = "message_start",
                !.term = @ \/ c.type \in {"message_stop", "error"},
                !.empty = @ \/ (Class(c) = "empty" /\ EmptyTurn(c))]

\* One frame is read and judged.  Keeping it only as metadata waits for the
\* next, unless the buffer is full.
PrimeFrame(c) ==
  /\ pc = "priming" /\ timer = "armed"
  /\ Arrives(c, TRUE)
  /\ prefix' = Append(prefix, c)
  /\ IF c.type = "comment" THEN pc' = (IF Len(prefix') > MaxPrefix THEN "failed" ELSE pc) /\ UNCHANGED <<prime, bypass>>
     ELSE LET class == Class(c)
              kept == class = "metadata" \/ (class = "empty" /\ EmptyTurn(c))
          IN /\ prime' = Primed(c)
             /\ bypass' = (class = "bypass")
             /\ pc' = CASE class \in {"commit", "bypass"} -> "primed"
                         [] kept /\ Len(prefix') <= MaxPrefix -> "priming"
                         [] OTHER -> "failed"
  /\ body' = IF pc' = "failed" THEN "closed" ELSE body
  /\ UNCHANGED <<route, clock, tr, fl, client, stalled, readError, verdict, gone>>

\* The deadline's goroutine closes the body, also when the reader has already
\* accepted the prelude and not yet returned.
PrimeTimeout ==
  /\ pc \in {"priming", "primed"} /\ timer = "armed"
  /\ timer' = "fired" /\ body' = "closed"
  /\ UNCHANGED <<route, pc, upstream, pipe, result, due, gone>>

PrimeEnds ==
  /\ pc = "priming" /\ Ended
  /\ pc' = "failed" /\ body' = "closed"
  /\ UNCHANGED <<route, upstream, clock, pipe, result, gone>>

\* primeSSEBody returns; its deferred stopTimer waits for a timer that fired.
Commit ==
  /\ pc = "primed"
  /\ pc' = "streaming" /\ timer' = "stopped" /\ prime' = Unprimed
  /\ UNCHANGED <<route, upstream, body, pipe, bypass, verdict, due, gone>>

-----------------------------------------------------------------------------
(***************************************************************************)
(* Bodies that are not streams.                                            *)
(***************************************************************************)
ReadTimeout ==
  /\ pc = "buffering" /\ timer = "armed"
  /\ timer' = "fired" /\ body' = "closed"
  /\ UNCHANGED <<route, pc, upstream, pipe, result, due, gone>>

\* responseContract.validate
MeetsContract(b) ==
  /\ b.json
  /\ OpenAI => ~Untranslatable(b)
  /\ Strict => b.text \/ b.args = "good"

\* readBoundedResponseBody and bufferUpstreamBody: the body is closed either
\* way, and becomes the response only if it was whole and meets the contract.
BufferBody(b) ==
  /\ pc = "buffering" /\ (Readable => source # "live")
  /\ LET good == Readable /\ timer = "armed" /\ source = "eof" /\ MeetsContract(b)
     IN pc' = (IF good THEN "ended" ELSE "failed")
  /\ body' = "closed" /\ timer' = "stopped"
  /\ fl' = [fl EXCEPT !.protocolError = pc' = "ended" /\ OpenAI /\ Untranslatable(b)]
  /\ UNCHANGED <<route, upstream, prefix, tr, client, stalled, readError, prime, bypass, verdict, due, gone>>

-----------------------------------------------------------------------------
(***************************************************************************)
(* The pipeline.                                                           *)
(***************************************************************************)
Tell(events) == client' = IF gone THEN client ELSE Received(client, events)

\* The translator's and the filter's answer to one frame, and whether the
\* stream goes on.
Piped(c) ==
  IF ~OpenAI THEN LET r == Filtered(fl, c) IN [t |-> tr, f |-> r.f, out |-> r.out, over |-> r.f.failed, err |-> r.f.failed]
  ELSE LET s == Translated(tr, c)
           e == IF ~s.failed /\ s.t.done THEN Concluded(s.t, FALSE) ELSE s
           r == AllFiltered(fl, IF e = s THEN s.out ELSE s.out \o e.out)
           over == e.failed \/ e.t.ended
           z == IF over /\ ~r.f.failed THEN SourceEnded(r.f) ELSE Out(r.f, <<>>)
       IN [t |-> e.t, f |-> [z.f EXCEPT !.protocolError = @ \/ (e.t.ended /\ e.out # <<>> /\ Last(e.out).type = "error")],
           out |-> r.out \o z.out, over |-> over \/ r.f.failed, err |-> e.failed \/ r.f.failed]

\* Every Read arms the read timer anew (idleTimeoutReadCloser), every valid
\* event that reaches the filter the watchdog: a ping and a dropped block do,
\* and a comment does unless the translator swallows it.
Passes(c) == IF OpenAI THEN Translated(tr, c).out # <<>> ELSE Valid(fl, c)
Rearmed(c) == IF pc' = "ended" THEN {} ELSE due \ ({"read"} \cup IF Passes(c) THEN {"event"} ELSE {})

Carry(c) ==
  IF bypass THEN Tell(<<c>>) /\ UNCHANGED <<tr, fl, readError, pc>>
  ELSE \E p \in {Piped(c)} :
          /\ tr' = p.t /\ fl' = p.f /\ Tell(p.out)
          /\ readError' = p.err
          /\ pc' = IF p.over THEN "ended" ELSE pc

\* The frame changes something for the translator, the filter or the client.
Changes == <<pc, tr, fl, client>>' # <<pc, tr, fl, client>>

\* Frames read while priming are replayed first, then the rest is read.
Replay ==
  /\ pc = "streaming" /\ prefix # <<>>
  /\ Carry(Head(prefix)) /\ prefix' = Tail(prefix)
  /\ body' = IF pc' = "ended" THEN "closed" ELSE body
  /\ due' = Rearmed(Head(prefix))
  /\ UNCHANGED <<route, upstream, timer, stalled, result, gone>>

Deliver(c) ==
  /\ pc = "streaming" /\ prefix = <<>> /\ ~Ended
  /\ Carry(c) /\ Arrives(c, Changes)
  /\ body' = IF pc' = "ended" THEN "closed" ELSE body
  /\ due' = Rearmed(c)
  /\ UNCHANGED <<route, timer, prefix, stalled, result, gone>>

\* The source has ended: the translator concludes, then the filter.
StreamEnds ==
  /\ pc = "streaming" /\ prefix = <<>> /\ Ended
  /\ LET s == IF OpenAI THEN Concluded(tr, Broken) ELSE Step(tr, <<>>, Broken)
         r == AllFiltered(fl, s.out)
         z == IF r.f.failed THEN r ELSE Out(SourceEnded(r.f).f, r.out \o SourceEnded(r.f).out)
     IN /\ tr' = s.t
        /\ fl' = [z.f EXCEPT !.protocolError = @ \/ (s.out # <<>> /\ Last(s.out).type = "error")]
        /\ IF bypass THEN UNCHANGED client ELSE Tell(z.out)
        /\ readError' = (s.failed \/ z.f.failed \/ gone)
  /\ pc' = "ended" /\ body' = "closed" /\ due' = {}
  /\ UNCHANGED <<route, upstream, timer, prefix, stalled, result, gone>>

\* A window passes and its timer was not armed anew.  A provider or the
\* configuration may be without either timer, and a body that is copied as it
\* is has no watchdog.
Waits(w) ==
  /\ pc = "streaming" /\ body = "open" /\ w \in policy.timers \ due
  /\ bypass => w # "event"
  /\ due' = due \cup {w}
  /\ UNCHANGED <<route, pc, upstream, body, timer, pipe, result, gone>>

\* streamEventWatchdog.expire and the timer of idleTimeoutReadCloser: no event
\* passed, or no Read was made, for a whole window.
WatchdogExpires ==
  /\ pc = "streaming" /\ body = "open" /\ "event" \in due
  /\ stalled' = TRUE /\ body' = "closed" /\ due' = {}
  /\ UNCHANGED <<route, pc, upstream, timer, prefix, tr, fl, client, readError, result, gone>>

FaultIdleTimeout ==
  /\ pc = "streaming" /\ body = "open" /\ "read" \in due /\ ~client.started
  /\ body' = "closed" /\ due' = {}
  /\ UNCHANGED <<route, pc, upstream, timer, pipe, result, gone>>

IdleTimeout ==
  /\ pc = "streaming" /\ body = "open" /\ "read" \in due
  /\ body' = "closed" /\ due' = {}
  /\ UNCHANGED <<route, pc, upstream, timer, pipe, result, gone>>

-----------------------------------------------------------------------------
(***************************************************************************)
(* The verdict on the leg.  local is the network incident's answer that    *)
(* the machine itself was offline; it is asked only about a stream that    *)
(* broke without a protocol error, a missing stop or a stall.              *)
(***************************************************************************)
Faulty == fl.protocolError \/ fl.missingStop
FaultVerdict(local) ==
  LET suppressed == local /\ ~gone /\ ~stalled
  IN IF gone THEN "neither" ELSE IF readError /\ ~suppressed THEN "tripped" ELSE "credited"
Verdict(local) ==
  LET suppressed == local /\ ~gone /\ ~Faulty /\ ~stalled /\ readError
  IN CASE ~gone /\ (readError \/ Faulty) /\ ~suppressed -> "tripped"
       [] ~gone /\ ~readError /\ ~Faulty -> "credited"
       [] OTHER -> "neither"

Judge(local) ==
  /\ pc = "ended"
  /\ verdict' = Verdict(local)
  /\ pc' = "done" /\ body' = "closed"
  /\ UNCHANGED <<route, upstream, clock, pipe, prime, bypass, gone>>

Stopped == pc \in {"failed", "done"} /\ UNCHANGED vars

Upstream ==
  \/ \E f \in Frames : DevinSends(f)
  \/ \E b, u \in BOOLEAN : DevinEnds(b, u)
  \/ \E k \in {"stream", "json", "status", "error"} : Answer(k)
  \/ \E h \in {"eof", "broken"} : SourceStops(h)

Gateway ==
  \/ Cancelled \/ ReturnHeaders
  \/ PrimeEnds \/ Commit
  \/ \E b \in JSONBodies : BufferBody(b)
  \/ Replay \/ StreamEnds
  \/ \E l \in BOOLEAN : Judge(l)

Deadlines == HeaderTimeout \/ PrimeTimeout \/ ReadTimeout \/ IdleTimeout \/ WatchdogExpires

Next ==
  \/ Upstream \/ Gateway \/ Deadlines \/ ClientLeaves
  \/ \E w \in {"read", "event"} : Waits(w)
  \/ \E c \in Wired : PrimeFrame(c) \/ Deliver(c)
  \/ Stopped

\* The gateway's goroutines run, time passes and its timers fire; the upstream
\* and the client owe nothing.  What each phase waits for is stated without the
\* work done then: GoesOn is enabled exactly when a step of Gateway that leaves
\* the phase is, Replays, Reads and GivesUp when Replay, a Deliver of what is on
\* the wire and Cancelled are.
Due ==
  \/ pc = "headers" /\ answer # "none"
  \/ pc = "priming" /\ Ended
  \/ pc = "buffering" /\ (Readable => source # "live")
  \/ pc = "streaming" /\ prefix = <<>> /\ Ended
  \/ pc \in {"primed", "ended"}

GoesOn == Due /\ pc' \in {"priming", "buffering", "streaming", "ended", "failed", "done"}
Replays == pc = "streaming" /\ prefix # <<>> /\ prefix' = Tail(prefix)
Reads == pc = "streaming" /\ prefix = <<>> /\ Readable /\ source # "broken" /\ wire # <<>> /\ wire' = Tail(wire)
GivesUp == pc = "headers" /\ answer = "none" /\ (timer = "fired" \/ gone) /\ answer' = "error"

Spec ==
  /\ Init /\ [][Next]_vars
  /\ WF_pc(GoesOn) /\ WF_prefix(Replays) /\ WF_wire(Reads) /\ WF_answer(GivesUp)
  /\ WF_vars(Deadlines) /\ WF_due(Waits("read")) /\ WF_due(Waits("event"))
-----------------------------------------------------------------------------
(***************************************************************************)
(* Properties.                                                             *)
(***************************************************************************)
Over == pc = "done" /\ ~gone

\* What was sent of a call is nothing, or a call.
Whole(call) ==
  /\ call.args \in {0, 2}
  /\ call.id \/ call.name \/ call.args > 0 => call.id /\ call.name

\* A client whose message began is told how it ended, whatever the upstream,
\* the translator or a timer did: filterSSE writes a terminal event on every
\* way out, so nobody waits on a bare end of stream.
EndsWithTerminal == Over /\ client.started => client.complete \/ client.failed

\* message_stop reaches the client only if the upstream ended its message (a
\* message_stop after a stop reason, a finish reason or [DONE], the orderly end
\* of a Devin stream that carried a normal finish, a call or a full budget),
\* and, where the gateway translates, only if what was sent of each tool call
\* adds up to a call: its id, its name and whole arguments.  What was sent is
\* counted as it comes off the wire, apart from the translator's own state.
NoFalseCompletion == client.complete =>
  /\ said.end
  /\ OpenAI => \A i \in Tools : Whole(said.calls[i])

\* Behind translator and filter, block numbers have no gaps and nothing but a
\* ping or one error follows a terminal event; of a translated stream, every
\* delta and stop names a block that is open, and a complete message leaves
\* none open.  An empty turn is passed on as it is (bypass).
WellFormed == ~bypass =>
  /\ ~client.gap /\ ~client.late
  /\ OpenAI => ~client.stray /\ (client.complete => client.open = {})

\* A message the client saw begin and not complete costs the leg its circuit,
\* unless the Anthropic upstream said so itself with an error event, which the
\* filter passes on and proxy() takes for a delivered response.
TruncationIsPenalised ==
  Over /\ client.started /\ ~client.complete /\ ~(said.error /\ ~OpenAI) => verdict = "tripped"

\* An attempt that failed or is over has closed the body it was given, on
\* every way out: a late answer after the deadline, a refused prelude, a
\* broken pipeline.
NoLeakedBody == pc \in {"failed", "done"} => body # "open"

\* An attempt ends, or its client is held on a stream that the upstream keeps
\* open for ever by arming every timer of the route again and again: pings and
\* comments are enough, and a route without a timer asks for nothing.  Headers,
\* priming, buffering and replay always end, and so does a stream that falls
\* silent, or sends only what the watchdog does not count, under a timer that
\* counts it.
HeldOpen == pc = "streaming" /\ prefix = <<>> /\ source = "live" /\ Readable
EndsUnlessKeptAlive ==
  \/ <>(pc \in {"failed", "done"})
  \/ <>[]HeldOpen /\ \A w \in {"read", "event"} : []<>(w \notin due)
=============================================================================
