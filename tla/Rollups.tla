------------------------------ MODULE Rollups ------------------------------
(***************************************************************************)
(* The hourly rollups (rollupStore): observe() adds a sample to its bucket *)
(* in memory; flush() turns what each bucket gained since its last durable *)
(* line into a line with an identity of its own and appends it under the   *)
(* file's lock; a line whose append failed is kept and retried as it is.   *)
(* A bucket's counters are the set of the observations they count, a delta *)
(* is the difference of two such sets.                                     *)
(***************************************************************************)
EXTENDS Integers, Sequences, FiniteSets, SequencesExt

CONSTANTS Observations,  \* samples
          Sessions,      \* attributions of a sample
          Days,          \* the days samples fall on, one file each
          MaxBuckets     \* 10000 in observe

ASSUME RollupsAssumption == IsFiniteSet(Sessions) /\ IsFiniteSet(Days) /\ MaxBuckets \in Nat

Overflow == "attribution-overflow"
Keys == [day : Days, session : Sessions \cup {Overflow}]

VARIABLES buckets,    \* what each key has counted in memory
          flushed,    \* what of it is durable
          pending,    \* <<line>> per key: [id, delta, snapshot], or <<>>
          sequence,   \* lines made by all instances so far
          batch,      \* keys the running flush has still to append
          flushing,   \* flushMu is held
          rtimer,     \* flushTimer is set
          closing,    \* "open", "closed" (flush to come) or "done"
          history,    \* per day [lines, torn]
          failed,     \* an append of this instance failed
          observed, gone

rvars == <<buckets, flushed, pending, sequence, batch, flushing, rtimer, closing, history, failed, observed, gone>>

\* A line of a file, and a line that waits with the counters it brings up to date.
HistoryLines == [id : Nat, delta : SUBSET Observations]
PendingLines == [id : Nat, delta : SUBSET Observations, snapshot : SUBSET Observations]

RTypeOK ==
  /\ buckets \in [Keys -> SUBSET Observations] /\ flushed \in [Keys -> SUBSET Observations]
  /\ pending \in [Keys -> Seq(PendingLines)] /\ \A k \in Keys : Len(pending[k]) <= 1
  /\ sequence \in Nat /\ batch \subseteq Keys
  /\ flushing \in BOOLEAN /\ rtimer \in BOOLEAN /\ closing \in {"open", "closed", "done"} /\ failed \in BOOLEAN
  /\ history \in [Days -> [lines : Seq(HistoryLines), torn : BOOLEAN]]
  /\ observed \subseteq Observations /\ gone \subseteq Observations

Fresh ==
  /\ buckets' = [k \in Keys |-> {}] /\ flushed' = [k \in Keys |-> {}] /\ pending' = [k \in Keys |-> <<>>]
  /\ batch' = {} /\ flushing' = FALSE /\ rtimer' = FALSE /\ closing' = "open" /\ failed' = FALSE

RInit ==
  /\ buckets = [k \in Keys |-> {}] /\ flushed = [k \in Keys |-> {}] /\ pending = [k \in Keys |-> <<>>]
  /\ sequence = 0 /\ batch = {} /\ flushing = FALSE /\ rtimer = FALSE /\ closing = "open"
  /\ history = [d \in Days |-> [lines |-> <<>>, torn |-> FALSE]]
  /\ failed = FALSE /\ observed = {} /\ gone = {}

Delta(k) == buckets[k] \ flushed[k]    \* rollupCountsSub

\* The bucket of a sample: with too many buckets, a session seen for the
\* first time is counted without its attribution.
Bucket(day, session) ==
  LET key == [day |-> day, session |-> session]
      used == {k \in Keys : buckets[k] # {}}
  IN IF buckets[key] = {} /\ Cardinality(used) >= MaxBuckets THEN [key EXCEPT !.session = Overflow] ELSE key

Observes(o, day, session) ==
  /\ IF closing # "open" THEN UNCHANGED <<buckets, rtimer, observed>>
     ELSE /\ buckets' = [buckets EXCEPT ![Bucket(day, session)] = @ \cup {o}]
          /\ rtimer' = TRUE
          /\ observed' = observed \cup {o}
  /\ UNCHANGED <<flushed, pending, sequence, batch, flushing, closing, history, failed, gone>>

\* The first half of flush: keys without a line waiting get one for what they
\* gained; lines that wait are retried byte for byte, before newer counts.
FaultSnapshot ==
  /\ ~flushing /\ (rtimer \/ closing = "closed")
  /\ flushing' = TRUE /\ rtimer' = FALSE
  /\ LET due == SetToSeq({k \in Keys : Delta(k) # {}})
         made == [k \in Keys |->
                    IF \E n \in DOMAIN due : due[n] = k
                    THEN <<[id |-> sequence + Len(due), delta |-> Delta(k), snapshot |-> buckets[k]]>>
                    ELSE pending[k]]
     IN /\ pending' = made /\ sequence' = sequence + Len(due)
        /\ batch' = {k \in Keys : made[k] # <<>>}
  /\ closing' = IF closing = "closed" THEN "done" ELSE closing
  /\ UNCHANGED <<buckets, flushed, history, failed, observed, gone>>

Snapshot ==
  /\ ~flushing /\ (rtimer \/ closing = "closed")
  /\ flushing' = TRUE /\ rtimer' = FALSE
  /\ LET due == SetToSeq({k \in Keys : pending[k] = <<>> /\ Delta(k) # {}})
         made == [k \in Keys |->
                    IF \E n \in DOMAIN due : due[n] = k
                    THEN <<[id |-> sequence + CHOOSE n \in DOMAIN due : due[n] = k,
                            delta |-> Delta(k), snapshot |-> buckets[k]]>>
                    ELSE pending[k]]
     IN /\ pending' = made /\ sequence' = sequence + Len(due)
        /\ batch' = {k \in Keys : made[k] # <<>>}
  /\ closing' = IF closing = "closed" THEN "done" ELSE closing
  /\ UNCHANGED <<buckets, flushed, history, failed, observed, gone>>

\* appendRollupLine cuts half a line off the file's end before it writes.  It
\* may fail before it wrote, having written half the line, or, at the sync or
\* the close, having written all of it.
Line(k) == [id |-> pending[k][1].id, delta |-> pending[k][1].delta]
AppendedLine(k) == [lines |-> Append(history[k.day].lines, Line(k)), torn |-> FALSE]
Unappended(k) ==
  {history[k.day], [history[k.day] EXCEPT !.torn = FALSE], [history[k.day] EXCEPT !.torn = TRUE], AppendedLine(k)}

AppendOk(k) ==
  /\ flushing /\ k \in batch
  /\ history' = [history EXCEPT ![k.day] = AppendedLine(k)]
  /\ flushed' = [flushed EXCEPT ![k] = pending[k][1].snapshot]
  /\ pending' = [pending EXCEPT ![k] = <<>>]
  /\ batch' = batch \ {k}
  /\ UNCHANGED <<buckets, sequence, flushing, rtimer, closing, failed, observed, gone>>

AppendFails(k, left) ==
  /\ flushing /\ k \in batch /\ left \in Unappended(k)
  /\ history' = [history EXCEPT ![k.day] = left]
  /\ batch' = batch \ {k} /\ failed' = TRUE
  /\ UNCHANGED <<buckets, flushed, pending, sequence, flushing, rtimer, closing, observed, gone>>

\* The last part of flush: the timer is set again while a line waits or a
\* bucket gained something in the meantime.
Waiting == \E k \in Keys : pending[k] # <<>> \/ Delta(k) # {}

FaultFlushed ==
  /\ flushing /\ batch = {}
  /\ flushing' = FALSE
  /\ rtimer' = (rtimer \/ (closing = "open" /\ \E k \in Keys : pending[k] = <<>> /\ Delta(k) # {}))
  /\ UNCHANGED <<buckets, flushed, pending, sequence, batch, closing, history, failed, observed, gone>>

Flushed ==
  /\ flushing /\ batch = {}
  /\ flushing' = FALSE
  /\ rtimer' = (rtimer \/ (closing = "open" /\ Waiting))
  /\ UNCHANGED <<buckets, flushed, pending, sequence, batch, closing, history, failed, observed, gone>>

FaultRClose ==
  /\ closing = "open"
  /\ closing' = (IF flushing THEN "done" ELSE "closed") /\ rtimer' = FALSE
  /\ UNCHANGED <<buckets, flushed, pending, sequence, batch, flushing, history, failed, observed, gone>>

\* close
RClose ==
  /\ closing = "open"
  /\ closing' = "closed" /\ rtimer' = FALSE
  /\ UNCHANGED <<buckets, flushed, pending, sequence, batch, flushing, history, failed, observed, gone>>

\* readRollupLines: what a reader sums, each identity once.  While a file ends in
\* half a line it reports, besides, that the history is incomplete.
Lines == UNION {ToSet(history[d].lines) : d \in Days}
Counted(o) == Cardinality({l.id : l \in {l \in Lines : o \in l.delta}})

RCrash(k, left) ==
  /\ IF flushing /\ k \in batch THEN left \in Unappended(k) ELSE left = history[k.day]
  /\ history' = [history EXCEPT ![k.day] = left]
  /\ gone' = gone \cup {o \in observed : \A d \in Days : \A n \in DOMAIN history'[d].lines : o \notin history'[d].lines[n].delta}
  /\ Fresh
  /\ UNCHANGED <<sequence, observed>>
-----------------------------------------------------------------------------
Promise == INSTANCE CountedOnce
  WITH Observations <- Observations, observed <- observed, gone <- gone,
       counted <- [o \in Observations |-> Counted(o)]
=============================================================================
