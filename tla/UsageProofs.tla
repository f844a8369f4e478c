----------------------------- MODULE UsageProofs -----------------------------
(***************************************************************************)
(* Proofs about UsageRecords, for any samples and attributions, any        *)
(* capacity, batch, segment and number of archives, any number of failed   *)
(* writes and of crashes: no sample vanishes, a clean close leaves nothing *)
(* uncounted, and the rollups implement CountedOnce.                       *)
(*                                                                         *)
(* Invariant (IInv): the buckets of one process hold different             *)
(* observations; a line that waits is what its bucket gained since the     *)
(* last durable line, and a copy of it that already is in a file is the    *)
(* same line; lines that count one observation have one identity.  So the  *)
(* identities of an observation's lines are one, or none while it waits.   *)
(***************************************************************************)
EXTENDS UsageRecords, FableQuota, SequenceTheorems, FiniteSetTheorems, TLAPS

-----------------------------------------------------------------------------
(* The inductive invariant *)

\* Every observation is in one bucket of the process that took it.
Owned ==
  /\ observed \subseteq recorded /\ gone \subseteq observed
  /\ \A k \in Keys : buckets[k] \subseteq observed /\ buckets[k] \cap gone = {}
  /\ \A k, j \in Keys : k # j => buckets[k] \cap buckets[j] = {}

\* What counts as durable is in a line.
Durable == \A k \in Keys :
  /\ flushed[k] \subseteq buckets[k]
  /\ \A o \in flushed[k] : \E l \in Lines : o \in l.delta

Waits(k) == pending[k] # <<>>

\* A line that waits is what its bucket gained until the snapshot; a line of
\* its identity that is in a file is this line.
PendingIsDelta == \A k \in Keys : Waits(k) =>
  /\ flushed[k] \subseteq pending[k][1].snapshot /\ pending[k][1].snapshot \subseteq buckets[k]
  /\ pending[k][1].delta = pending[k][1].snapshot \ flushed[k]
  /\ pending[k][1].id <= sequence
  /\ \A l \in Lines : l.id = pending[k][1].id => l.delta = pending[k][1].delta

IdsDiffer == \A k, j \in Keys : k # j /\ Waits(k) /\ Waits(j) => pending[k][1].id # pending[j][1].id

\* Lines that count one observation have one identity.
OneIdentity ==
  /\ \A l \in Lines : l.id <= sequence /\ l.delta \subseteq observed /\ l.delta \cap gone = {}
  /\ \A l, m \in Lines : l.delta \cap m.delta # {} => l.id = m.id

\* What is not durable yet is in no line but a copy of the one that waits.
OnlyCopies == \A k \in Keys, l \in Lines :
  l.delta \cap Delta(k) # {} => Waits(k) /\ l.id = pending[k][1].id

\* An observation that no crash took is in a line or in memory.
Known == \A o \in observed \ gone : (\E l \in Lines : o \in l.delta) \/ (\E k \in Keys : o \in buckets[k])

\* What a flush has still to append, and what the last one does.
Flushing ==
  /\ ~flushing => batch = {}
  /\ \A k \in batch : Waits(k)
  /\ ~failed => \A k \in Keys : Waits(k) => k \in batch
  /\ closing = "done" /\ ~failed =>
       \A k \in Keys : Delta(k) = {} \/ (k \in batch /\ pending[k][1].snapshot = buckets[k])

History == Owned /\ Durable /\ PendingIsDelta /\ IdsDiffer /\ OneIdentity /\ OnlyCopies /\ Known /\ Flushing

IInv == TypeOK /\ NothingVanishes /\ History
-----------------------------------------------------------------------------
(* Sequences as sets *)

LEMMA ToSetConcat ==
  ASSUME NEW S, NEW s \in Seq(S), NEW t \in Seq(S)
  PROVE  s \o t \in Seq(S) /\ ToSet(s \o t) = ToSet(s) \cup ToSet(t)
<1>1. Range(s \o t) = Range(s) \cup Range(t)  BY RangeConcatenation
<1> QED BY <1>1, ConcatProperties DEF Range, ToSet

LEMMA ToSetAppend ==
  ASSUME NEW S, NEW s \in Seq(S), NEW e \in S
  PROVE  Append(s, e) \in Seq(S) /\ ToSet(Append(s, e)) = ToSet(s) \cup {e}
<1> DEFINE t == <<e>>
<1>1. t \in Seq(S) /\ ToSet(t) = {e}  BY DEF ToSet
<1>2. Append(s, e) = s \o t  BY AppendIsConcat
<1> HIDE DEF t
<1>3. s \o t \in Seq(S) /\ ToSet(s \o t) = ToSet(s) \cup ToSet(t)  BY <1>1, ToSetConcat
<1> QED BY <1>1, <1>2, <1>3

LEMMA ToSetSplit ==
  ASSUME NEW S, NEW s \in Seq(S), NEW n \in 0..Len(s)
  PROVE  /\ SubSeq(s, 1, n) \in Seq(S) /\ SubSeq(s, n + 1, Len(s)) \in Seq(S)
         /\ Len(SubSeq(s, 1, n)) = n
         /\ ToSet(s) = ToSet(SubSeq(s, 1, n)) \cup ToSet(SubSeq(s, n + 1, Len(s)))
<1>1. Len(s) \in Nat /\ n \in Nat /\ \A i \in 1..Len(s) : s[i] \in S  BY LenProperties, ElementOfSeq
<1>2. SubSeq(s, 1, n) \in Seq(S) /\ Len(SubSeq(s, 1, n)) = n
  <2>1. \A i \in 1..n : s[i] \in S  BY <1>1
  <2> QED BY <1>1, <2>1, SubSeqProperties
<1>3. SubSeq(s, n + 1, Len(s)) \in Seq(S)
  <2>1. \A i \in (n + 1)..Len(s) : s[i] \in S  BY <1>1
  <2>2. n + 1 \in Int /\ Len(s) \in Int  BY <1>1
  <2> QED BY <2>1, <2>2, SubSeqProperties
<1>4. SubSeq(s, 1, n) \o SubSeq(s, n + 1, Len(s)) = s
  <2>1. 1 \in 1..(Len(s) + 1) /\ n \in (1 - 1)..Len(s) /\ Len(s) \in n..Len(s)  BY <1>1
  <2>2. SubSeq(s, 1, n) \o SubSeq(s, n + 1, Len(s)) = SubSeq(s, 1, Len(s))  BY <2>1, ConcatAdjacentSubSeq
  <2> QED BY <2>2, SubSeqFull
<1> QED BY <1>2, <1>3, <1>4, ToSetConcat

LEMMA ToSetHeadTail ==
  ASSUME NEW S, NEW s \in Seq(S), s # <<>>
  PROVE  Head(s) \in S /\ Tail(s) \in Seq(S) /\ ToSet(s) = {Head(s)} \cup ToSet(Tail(s))
<1> DEFINE h == Head(s)
           first == <<h>>
           rest == Tail(s)
<1>1. h \in S /\ rest \in Seq(S)  BY HeadTailProperties
<1>2. s = first \o rest  OBVIOUS
<1> HIDE DEF h, rest
<1>3. first \in Seq(S)  BY <1>1
<1>4. DOMAIN first = {1} /\ first[1] = h  OBVIOUS
<1> HIDE DEF first
<1>5. ToSet(first) = {h}  BY <1>4 DEF ToSet
<1>6. ToSet(first \o rest) = ToSet(first) \cup ToSet(rest)  BY <1>1, <1>3, ToSetConcat
<1> QED BY <1>1, <1>2, <1>5, <1>6 DEF h, rest

LEMMA ToSetFinite ==
  ASSUME NEW S, NEW s \in Seq(S)
  PROVE  ToSet(s) \subseteq S /\ IsFiniteSet(ToSet(s)) /\ Cardinality(ToSet(s)) \in Nat
<1>1. Len(s) \in Nat /\ s \in [1..Len(s) -> S] /\ DOMAIN s = 1..Len(s)  BY LenProperties
<1>2. IsFiniteSet(1..Len(s))  BY <1>1, FS_Interval
<1>3. s \in Surjection(1..Len(s), ToSet(s))  BY <1>1 DEF Surjection, ToSet
<1>4. IsFiniteSet(ToSet(s))  BY <1>2, <1>3, FS_Surjection
<1> QED BY <1>1, <1>4, FS_CardinalityType DEF ToSet

-----------------------------------------------------------------------------
(* The raw log *)

LEMMA EmptyTyped == Empty \in Files
<1>1. <<>> \in Seq(Samples)  OBVIOUS
<1> QED BY <1>1 DEF Empty, Files

\* Lines that are appended are in the file, readable or not.
LEMMA AppendedKeeps ==
  ASSUME NEW f \in Files, NEW b \in Seq(Samples)
  PROVE  Appended(f, b) \in Files /\ Kept(Appended(f, b)) = Kept(f) \cup ToSet(b)
<1>0. f.lines \in Seq(Samples) /\ f.torn \in BOOLEAN /\ f.swallowed \in SUBSET Samples  BY DEF Files
<1>1. CASE b = <<>>
  <2>1. ToSet(b) = {}  BY <1>1 DEF ToSet
  <2> QED BY <1>1, <2>1 DEF Appended
<1>2. CASE b # <<>> /\ f.torn
  <2> DEFINE rest == Tail(b)
             ls == f.lines \o rest
             sw == f.swallowed \cup {Head(b)}
  <2>1. Head(b) \in Samples /\ rest \in Seq(Samples) /\ ToSet(b) = {Head(b)} \cup ToSet(rest)
    BY <1>2, ToSetHeadTail
  <2>2. sw \in SUBSET Samples  BY <1>0, <2>1
  <2>3. Appended(f, b) = [lines |-> ls, torn |-> FALSE, swallowed |-> sw]  BY <1>2 DEF Appended
  <2> HIDE DEF rest
  <2>4. ls \in Seq(Samples) /\ ToSet(ls) = ToSet(f.lines) \cup ToSet(rest)  BY <1>0, <2>1, ToSetConcat
  <2> HIDE DEF ls
  <2>5. Appended(f, b) \in Files  BY <2>2, <2>3, <2>4 DEF Files
  <2>6. Kept(Appended(f, b)) = ToSet(ls) \cup sw  BY <2>3 DEF Kept, Decoded
  <2> QED BY <2>1, <2>4, <2>5, <2>6 DEF Kept, Decoded
<1>3. CASE b # <<>> /\ ~f.torn
  <2> DEFINE ls == f.lines \o b
  <2>1. ls \in Seq(Samples) /\ ToSet(ls) = ToSet(f.lines) \cup ToSet(b)  BY <1>0, ToSetConcat
  <2>2. Appended(f, b) = [f EXCEPT !.lines = ls]  BY <1>3 DEF Appended
  <2> HIDE DEF ls
  <2>3. Appended(f, b) \in Files /\ Appended(f, b).lines = ls /\ Appended(f, b).swallowed = f.swallowed
    BY <2>1, <2>2 DEF Files
  <2> QED BY <2>1, <2>3 DEF Kept, Decoded
<1> QED BY <1>1, <1>2, <1>3

\* A write that was cut takes nothing away.
LEMMA CutKeeps ==
  ASSUME NEW f \in Files, NEW b \in Seq(Samples), NEW left \in {f} \cup Cut(f, b)
  PROVE  left \in Files /\ Kept(f) \subseteq Kept(left)
<1>1. CASE left = f  BY <1>1
<1>2. ASSUME NEW n \in 0..Len(b)
      PROVE  Appended(f, SubSeq(b, 1, n)) \in Files /\ Kept(f) \subseteq Kept(Appended(f, SubSeq(b, 1, n)))
  <2>1. SubSeq(b, 1, n) \in Seq(Samples)  BY ToSetSplit
  <2> QED BY <2>1, AppendedKeeps
<1>3. CASE \E n \in 0..Len(b) : left = Appended(f, SubSeq(b, 1, n))  BY <1>2, <1>3
<1>4. CASE \E n \in 0..(Len(b) - 1) : left = [Appended(f, SubSeq(b, 1, n)) EXCEPT !.torn = TRUE]
  <2>1. PICK n \in 0..(Len(b) - 1) : left = [Appended(f, SubSeq(b, 1, n)) EXCEPT !.torn = TRUE]  BY <1>4
  <2> DEFINE g == Appended(f, SubSeq(b, 1, n))
  <2>2. n \in 0..Len(b)  BY LenProperties
  <2>3. g \in Files /\ Kept(f) \subseteq Kept(g)  BY <1>2, <2>2
  <2>4. left = [g EXCEPT !.torn = TRUE]  BY <2>1
  <2> HIDE DEF g
  <2>5. left \in Files /\ left.lines = g.lines /\ left.swallowed = g.swallowed  BY <2>3, <2>4 DEF Files
  <2> QED BY <2>3, <2>5 DEF Kept, Decoded
<1> QED BY <1>1, <1>3, <1>4 DEF Cut

\* The batch is the front of the queue.
LEMMA BatchSplits ==
  ASSUME MTypeOK
  PROVE  /\ Batch \in Seq(Samples) /\ Len(Batch) \in 0..Len(queue)
         /\ SubSeq(queue, Len(Batch) + 1, Len(queue)) \in Seq(Samples)
         /\ ToSet(queue) = ToSet(Batch) \cup ToSet(SubSeq(queue, Len(Batch) + 1, Len(queue)))
<1> DEFINE n == IF Len(queue) < BatchSize THEN Len(queue) ELSE BatchSize
<1>1. queue \in Seq(Samples) /\ Len(queue) \in Nat  BY LenProperties DEF MTypeOK
<1>2. n \in 0..Len(queue)  BY <1>1, MetricsAssumption
<1>3. Batch = SubSeq(queue, 1, n)  BY DEF Batch
<1> HIDE DEF n
<1>4. Len(Batch) = n  BY <1>1, <1>2, <1>3, ToSetSplit
<1> QED BY <1>1, <1>2, <1>3, <1>4, ToSetSplit

\* A rotation moves every file but the oldest of a full archive.
LEMMA RotatedKeeps ==
  ASSUME NEW fs \in Seq(Files), Len(fs) \in 1..Archives
  PROVE  /\ Rotated(fs) \in Seq(Files) /\ Len(Rotated(fs)) \in 1..Archives
         /\ \A i \in 1..Len(fs) :
              \/ i + 1 \in 1..Len(Rotated(fs)) /\ Rotated(fs)[i + 1] = fs[i]
              \/ i = Len(fs) /\ Len(fs) = Archives
<1> DEFINE n == IF Len(fs) < Archives THEN Len(fs) ELSE Archives - 1
           older == SubSeq(fs, 2, n)
<1>1. Len(fs) \in Nat /\ n \in Nat /\ 1 <= n /\ n <= Len(fs) /\ \A i \in 1..Len(fs) : fs[i] \in Files
  BY LenProperties, ElementOfSeq, MetricsAssumption
<1>2. older \in Seq(Files) /\ Len(older) = n - 1 /\ \A i \in 1..(n - 1) : older[i] = fs[i + 1]
  <2>1. \A i \in 2..n : fs[i] \in Files  BY <1>1
  <2>2. 2 \in Int /\ n \in Int  BY <1>1
  <2>3. older \in Seq(Files) /\ Len(older) = (IF 2 <= n THEN n - 2 + 1 ELSE 0)
        /\ \A i \in 1..(n - 2 + 1) : older[i] = fs[2 + i - 1]
    BY <2>1, <2>2, SubSeqProperties
  <2> QED BY <1>1, <2>3
<1>3. <<Empty, fs[1]>> \in Seq(Files) /\ Len(<<Empty, fs[1]>>) = 2
  <2>1. fs[1] \in Files  BY <1>1
  <2> QED BY <2>1, EmptyTyped
<1>4. Rotated(fs) = <<Empty, fs[1]>> \o older  BY DEF Rotated
<1> HIDE DEF older
<1>5. /\ Rotated(fs) \in Seq(Files) /\ Len(Rotated(fs)) = n + 1
      /\ Rotated(fs)[2] = fs[1] /\ \A i \in 2..n : Rotated(fs)[i + 1] = fs[i]
  <2> DEFINE s == <<Empty, fs[1]>>
  <2>1. /\ s \o older \in Seq(Files) /\ Len(s \o older) = 2 + (n - 1)
        /\ \A i \in 1..(2 + (n - 1)) : (s \o older)[i] = IF i <= 2 THEN s[i] ELSE older[i - 2]
    BY <1>2, <1>3, ConcatProperties
  <2>2. s[2] = fs[1]  OBVIOUS
  <2> HIDE DEF s
  <2>3. (s \o older)[2] = fs[1]  BY <1>1, <2>1, <2>2
  <2>4. \A i \in 2..n : (s \o older)[i + 1] = fs[i]
    <3> SUFFICES ASSUME NEW i \in 2..n PROVE (s \o older)[i + 1] = fs[i]
      OBVIOUS
    <3>1. i + 1 \in 1..(2 + (n - 1)) /\ ~(i + 1 <= 2) /\ (i + 1) - 2 = i - 1 /\ i - 1 \in 1..(n - 1) /\ (i - 1) + 1 = i
      BY <1>1
    <3> QED BY <1>2, <2>1, <3>1
  <2> QED BY <1>1, <1>4, <2>1, <2>3, <2>4 DEF s
<1>6. \A i \in 1..n : Rotated(fs)[i + 1] = fs[i]  BY <1>1, <1>5
<1>7. n = Len(fs) \/ (n + 1 = Len(fs) /\ Len(fs) = Archives)  BY <1>1, MetricsAssumption
<1>8. n + 1 \in 1..Archives  BY <1>1, MetricsAssumption
<1> QED BY <1>1, <1>5, <1>6, <1>7, <1>8
Accounted == OnDisk \cup ToSet(queue) \cup dropped \cup lost \cup Swallowed \cup aged

Stored == UNION {Kept(files[i]) : i \in DOMAIN files}

\* A sample is accounted for if a file holds it, readable or not, or if it is
\* in one of the other places.
LEMMA AccountedIs ==
  /\ Accounted = Stored \cup ToSet(queue) \cup dropped \cup lost \cup aged
  /\ Accounted' = Stored' \cup ToSet(queue') \cup dropped' \cup lost' \cup aged'
<1>1. OnDisk \cup Swallowed = Stored  BY DEF OnDisk, Swallowed, Stored, Kept
<1>2. OnDisk' \cup Swallowed' = Stored'  BY DEF OnDisk, Swallowed, Stored, Kept, Decoded, ToSet
<1>3. Accounted = Stored \cup ToSet(queue) \cup dropped \cup lost \cup aged  BY <1>1 DEF Accounted
<1>4. Accounted' = OnDisk' \cup ToSet(queue') \cup dropped' \cup lost' \cup Swallowed' \cup aged'
  BY DEF Accounted, ToSet
<1> QED BY <1>2, <1>3, <1>4

\* What is on disk stays there as long as every file's content does.
LEMMA FilesKeep ==
  ASSUME NEW fs \in Seq(Files), NEW gs \in Seq(Files), NEW X,
         \A i \in 1..Len(fs) : Kept(fs[i]) \subseteq X \/ \E j \in 1..Len(gs) : Kept(fs[i]) \subseteq Kept(gs[j])
  PROVE  UNION {Kept(fs[i]) : i \in DOMAIN fs} \subseteq X \cup UNION {Kept(gs[i]) : i \in DOMAIN gs}
<1>1. DOMAIN fs = 1..Len(fs) /\ DOMAIN gs = 1..Len(gs)  BY LenProperties
<1> QED BY <1>1

\* The first file is replaced by one that holds as much.
LEMMA FirstReplaced ==
  ASSUME MTypeOK, NEW g \in Files, Kept(files[1]) \subseteq Kept(g)
  PROVE  LET gs == [files EXCEPT ![1] = g]
         IN /\ gs \in Seq(Files) /\ Len(gs) = Len(files) /\ gs[1] = g
            /\ \A i \in 1..Len(files) : Kept(files[i]) \subseteq Kept(gs[i])
<1>1. files \in Seq(Files) /\ 1 \in 1..Len(files)  BY LenProperties DEF MTypeOK
<1> DEFINE gs == [files EXCEPT ![1] = g]
<1>2. /\ gs \in Seq(Files) /\ Len(gs) = Len(files)
      /\ \A i \in 1..Len(files) : gs[i] = IF i = 1 THEN g ELSE files[i]
  BY <1>1, ExceptSeq
<1> HIDE DEF gs
<1>3. gs[1] = g /\ \A i \in 1..Len(files) : Kept(files[i]) \subseteq Kept(gs[i])  BY <1>1, <1>2
<1> QED BY <1>2, <1>3 DEF gs

\* A batch that was written leaves the queue for the file, and what a rotation
\* removes is aged.
LEMMA WrittenKeeps ==
  ASSUME MTypeOK, NEW moved \in BOOLEAN, Written(moved)
  PROVE  /\ queue' \in Seq(Samples) /\ files' \in Seq(Files) /\ Len(files') \in 1..Archives
         /\ lines' \in Nat /\ aged' \subseteq Samples /\ dropped' = dropped /\ lost' = lost
         /\ Accounted \subseteq Accounted'
<1> DEFINE g == Appended(files[1], Batch)
           fs == [files EXCEPT ![1] = g]
           rotates == lines + Len(Batch) >= SegmentLines /\ moved
<1>1. /\ Batch \in Seq(Samples) /\ Len(Batch) \in Nat
      /\ SubSeq(queue, Len(Batch) + 1, Len(queue)) \in Seq(Samples)
      /\ ToSet(queue) = ToSet(Batch) \cup ToSet(SubSeq(queue, Len(Batch) + 1, Len(queue)))
  BY BatchSplits
<1>2. /\ queue' = SubSeq(queue, Len(Batch) + 1, Len(queue))
      /\ files' = (IF rotates THEN Rotated(fs) ELSE fs)
      /\ lines' = (IF rotates THEN 0 ELSE lines + Len(Batch))
      /\ aged' = aged \cup (IF rotates /\ Len(fs) = Archives THEN Kept(Last(fs)) ELSE {})
      /\ dropped' = dropped /\ lost' = lost
  BY DEF Written
<1>3. lines \in Nat /\ files \in Seq(Files) /\ Len(files) \in 1..Archives /\ aged \subseteq Samples /\ files[1] \in Files
  BY LenProperties, ElementOfSeq DEF MTypeOK
<1>4. g \in Files /\ Kept(g) = Kept(files[1]) \cup ToSet(Batch)  BY <1>1, <1>3, AppendedKeeps
<1> HIDE DEF g, rotates
<1>5. /\ fs \in Seq(Files) /\ Len(fs) = Len(files) /\ fs[1] = g
      /\ \A i \in 1..Len(files) : Kept(files[i]) \subseteq Kept(fs[i])
  BY <1>4, FirstReplaced
<1> HIDE DEF fs
<1>6. Last(fs) \in Files /\ Kept(Last(fs)) \subseteq Samples
  <2>1. Last(fs) \in Files  BY <1>3, <1>5, ElementOfSeq DEF Last
  <2>2. \A f \in Files : Kept(f) \subseteq Samples
    <3> SUFFICES ASSUME NEW f \in Files PROVE Kept(f) \subseteq Samples
      OBVIOUS
    <3>1. f.lines \in Seq(Samples) /\ f.swallowed \subseteq Samples  BY DEF Files
    <3> QED BY <3>1, ToSetFinite DEF Kept, Decoded
  <2> QED BY <2>1, <2>2
<1>7. /\ files' \in Seq(Files) /\ Len(files') \in 1..Archives /\ DOMAIN files' = 1..Len(files')
      /\ \A i \in 1..Len(fs) : Kept(fs[i]) \subseteq aged' \/ \E j \in 1..Len(files') : Kept(fs[i]) \subseteq Kept(files'[j])
  <2>1. CASE rotates
    <3>1. /\ Rotated(fs) \in Seq(Files) /\ Len(Rotated(fs)) \in 1..Archives
          /\ \A i \in 1..Len(fs) :
               \/ i + 1 \in 1..Len(Rotated(fs)) /\ Rotated(fs)[i + 1] = fs[i]
               \/ i = Len(fs) /\ Len(fs) = Archives
      BY <1>3, <1>5, RotatedKeeps
    <3>2. files' = Rotated(fs) /\ (Len(fs) = Archives => Kept(fs[Len(fs)]) \subseteq aged')
      BY <1>2, <2>1 DEF Last
    <3> QED BY <3>1, <3>2, LenProperties
  <2>2. CASE ~rotates
    <3>1. files' = fs  BY <1>2, <2>2
    <3> QED BY <1>3, <1>5, <3>1, LenProperties
  <2> QED BY <2>1, <2>2
<1>8. Stored \subseteq aged' \cup Stored'
  <2>1. \A i \in 1..Len(files) :
          Kept(files[i]) \subseteq aged' \/ \E j \in 1..Len(files') : Kept(files[i]) \subseteq Kept(files'[j])
    BY <1>5, <1>7
  <2>2. files \in Seq(Files) /\ files' \in Seq(Files)  BY <1>3, <1>7
  <2>3. Stored' = UNION {Kept(files'[i]) : i \in DOMAIN files'}  BY DEF Stored, Kept, Decoded, ToSet
  <2> QED BY <2>1, <2>2, <2>3, FilesKeep DEF Stored
<1>9. ToSet(Batch) \subseteq aged' \cup Stored'
  <2>1. 1 \in 1..Len(fs) /\ ToSet(Batch) \subseteq Kept(fs[1])  BY <1>3, <1>4, <1>5
  <2>2. Kept(fs[1]) \subseteq aged' \/ \E j \in DOMAIN files' : Kept(fs[1]) \subseteq Kept(files'[j])
    BY <1>7, <2>1
  <2>3. Stored' = UNION {Kept(files'[i]) : i \in DOMAIN files'}  BY DEF Stored, Kept, Decoded, ToSet
  <2> QED BY <2>1, <2>2, <2>3
<1>10. Accounted \subseteq Accounted'
  <2>1. aged \subseteq aged' /\ dropped' = dropped /\ lost' = lost  BY <1>2
  <2>2. ToSet(queue) = ToSet(Batch) \cup ToSet(queue')  BY <1>1, <1>2
  <2> QED BY <1>8, <1>9, <2>1, <2>2, AccountedIs
<1>11. lines' \in Nat /\ aged' \subseteq Samples
  <2>1. lines + Len(Batch) \in Nat  BY <1>1, <1>3
  <2> QED BY <1>2, <1>3, <1>6, <2>1
<1> QED BY <1>1, <1>2, <1>7, <1>10, <1>11

\* A batch that failed leaves the file with what it had, at least.
LEMMA UnwrittenKeeps ==
  ASSUME MTypeOK, NEW left \in {files[1]} \cup Cut(files[1], Batch), files' = [files EXCEPT ![1] = left]
  PROVE  /\ files' \in Seq(Files) /\ Len(files') \in 1..Archives /\ left \in Files
         /\ Stored \subseteq Stored' /\ Kept(left) \subseteq Stored'
<1>1. files \in Seq(Files) /\ Len(files) \in 1..Archives /\ files[1] \in Files /\ Batch \in Seq(Samples)
  BY LenProperties, ElementOfSeq, BatchSplits DEF MTypeOK
<1>2. left \in Files /\ Kept(files[1]) \subseteq Kept(left)  BY <1>1, CutKeeps
<1>3. /\ files' \in Seq(Files) /\ Len(files') = Len(files) /\ files'[1] = left
      /\ \A i \in 1..Len(files) : Kept(files[i]) \subseteq Kept(files'[i])
  BY <1>2, FirstReplaced
<1>4. \A i \in 1..Len(files) : Kept(files[i]) \subseteq {} \/ \E j \in 1..Len(files') : Kept(files[i]) \subseteq Kept(files'[j])
  BY <1>3
<1>5. UNION {Kept(files[i]) : i \in DOMAIN files} \subseteq {} \cup UNION {Kept(files'[i]) : i \in DOMAIN files'}
  BY <1>1, <1>3, <1>4, FilesKeep
<1>6. 1 \in DOMAIN files'  BY <1>1, <1>3, LenProperties
<1>7. Stored' = UNION {Kept(files'[i]) : i \in DOMAIN files'}  BY DEF Stored, Kept, Decoded, ToSet
<1> QED BY <1>1, <1>2, <1>3, <1>5, <1>6, <1>7 DEF Stored

MetricsStep == FlushStarts \/ CloseStarts \/ CloseLocks \/ CloseDone \/ (\E m \in BOOLEAN : FlushWrites(m) \/ CloseWrites(m))

MetricsFails == \E f \in {files[1]} \cup Cut(files[1], Batch) : FlushFails(f) \/ CloseFails(f)

MetricsCrash == \E f \in {files[1]} \cup Cut(files[1], Batch) : MCrash(f)

\* A step of the raw log's own keeps every sample accounted for.
LEMMA MetricsKeep ==
  ASSUME MTypeOK, MetricsStep \/ MetricsFails \/ MetricsCrash
  PROVE  MTypeOK' /\ Accounted \subseteq Accounted'
<1>0. queue \in Seq(Samples) /\ ToSet(queue) \subseteq Samples /\ <<>> \in Seq(Samples)  BY ToSetFinite DEF MTypeOK
<1>1. CASE FlushStarts \/ CloseStarts \/ CloseLocks \/ CloseDone
  <2>1. MTypeOK'  BY <1>1 DEF FlushStarts, CloseStarts, CloseLocks, CloseDone, MTypeOK
  <2>2. queue' = queue /\ dropped' = dropped /\ lost' = lost /\ aged' = aged /\ files' = files
    BY <1>1 DEF FlushStarts, CloseStarts, CloseLocks, CloseDone
  <2>3. Stored' = Stored  BY <2>2 DEF Stored, Kept, Decoded, ToSet
  <2>4. Accounted \subseteq Accounted'  BY <2>2, <2>3, AccountedIs
  <2> QED BY <2>1, <2>4
<1>2. CASE \E m \in BOOLEAN : FlushWrites(m) \/ CloseWrites(m)
  <2>1. PICK m \in BOOLEAN : Written(m) /\ ((FlushEnds) \/ UNCHANGED <<mclosed, mtimer, io>>)
    BY <1>2 DEF FlushWrites, CloseWrites
  <2>2. /\ queue' \in Seq(Samples) /\ files' \in Seq(Files) /\ Len(files') \in 1..Archives
        /\ lines' \in Nat /\ aged' \subseteq Samples /\ dropped' = dropped /\ lost' = lost
        /\ Accounted \subseteq Accounted'
    BY <2>1, WrittenKeeps
  <2>3. mclosed' \in BOOLEAN /\ mtimer' \in BOOLEAN /\ io' \in {"none", "flush", "close", "done"}
    BY <2>1 DEF FlushEnds, MTypeOK
  <2> QED BY <2>2, <2>3 DEF MTypeOK
<1>3. CASE MetricsFails
  <2>1. PICK f \in {files[1]} \cup Cut(files[1], Batch) : FlushFails(f) \/ CloseFails(f)  BY <1>3 DEF MetricsFails
  <2>2. files' = [files EXCEPT ![1] = f] /\ lines' = lines /\ lost' = lost /\ aged' = aged
    BY <2>1 DEF FlushFails, CloseFails, Unwritten
  <2>3. /\ files' \in Seq(Files) /\ Len(files') \in 1..Archives
        /\ Stored \subseteq Stored'
    BY <2>2, UnwrittenKeeps
  <2>4. /\ queue' \in Seq(Samples) /\ dropped' \subseteq Samples
        /\ dropped \subseteq dropped' /\ ToSet(queue) \subseteq ToSet(queue') \cup dropped'
    BY <1>0, <2>1 DEF FlushFails, CloseFails, MTypeOK
  <2>5. mclosed' \in BOOLEAN /\ mtimer' \in BOOLEAN /\ io' \in {"none", "flush", "close", "done"}
    BY <2>1 DEF FlushFails, CloseFails, FlushEnds, MTypeOK
  <2>6. MTypeOK'  BY <2>2, <2>3, <2>4, <2>5 DEF MTypeOK
  <2>7. Accounted \subseteq Accounted'  BY <2>2, <2>3, <2>4, AccountedIs
  <2> QED BY <2>6, <2>7
<1>4. CASE MetricsCrash
  <2>1. PICK f \in {files[1]} \cup Cut(files[1], Batch) : MCrash(f)  BY <1>4 DEF MetricsCrash
  <2>2. files' = [files EXCEPT ![1] = f]  BY <2>1 DEF MCrash
  <2>3. /\ files' \in Seq(Files) /\ Len(files') \in 1..Archives /\ f \in Files
        /\ Stored \subseteq Stored' /\ Kept(f) \subseteq Stored'
    BY <2>2, UnwrittenKeeps
  <2>4. lines' \in Nat
    <3>1. f.lines \in Seq(Samples)  BY <2>3 DEF Files
    <3> QED BY <2>1, <3>1, ToSetFinite DEF MCrash, Decoded
  <2>5. /\ lost' = lost \cup (ToSet(queue) \ Decoded(f)) /\ queue' = <<>> /\ dropped' = dropped /\ aged' = aged
        /\ mclosed' = FALSE /\ mtimer' = FALSE /\ io' = "none"
    BY <2>1 DEF MCrash
  <2>6. MTypeOK'  BY <1>0, <2>3, <2>4, <2>5 DEF MTypeOK
  <2>7. Accounted \subseteq Accounted'  BY <2>3, <2>5, AccountedIs DEF Kept
  <2> QED BY <2>6, <2>7
<1> QED BY <1>1, <1>2, <1>3, <1>4 DEF MetricsStep

\* A sample that is recorded waits or is counted as dropped.
LEMMA EnqueueKeeps ==
  ASSUME MTypeOK, NEW s \in Samples, Enqueue(s)
  PROVE  MTypeOK' /\ Accounted \subseteq Accounted' /\ s \in Accounted'
<1>0. Append(queue, s) \in Seq(Samples) /\ ToSet(Append(queue, s)) = ToSet(queue) \cup {s}
  BY ToSetAppend DEF MTypeOK
<1>1. /\ queue' \in Seq(Samples) /\ dropped' \subseteq Samples /\ mtimer' \in BOOLEAN
      /\ ToSet(queue) \subseteq ToSet(queue') /\ dropped \subseteq dropped' /\ s \in ToSet(queue') \cup dropped'
  BY <1>0 DEF Enqueue, MTypeOK
<1>2. mclosed' = mclosed /\ io' = io /\ files' = files /\ lines' = lines /\ lost' = lost /\ aged' = aged
  BY DEF Enqueue
<1>3. MTypeOK'  BY <1>1, <1>2 DEF MTypeOK
<1>4. Stored' = Stored  BY <1>2 DEF Stored, Kept, Decoded, ToSet
<1> QED BY <1>1, <1>2, <1>3, <1>4, AccountedIs
-----------------------------------------------------------------------------
(* The rollups *)

LEMMA KeysFinite == IsFiniteSet(Keys)
<1> DEFINE S == Sessions \cup {Overflow}
           f == [p \in Days \X S |-> [day |-> p[1], session |-> p[2]]]
<1>1. IsFiniteSet(S) /\ IsFiniteSet(Days)  BY RollupsAssumption, FS_AddElement
<1>2. IsFiniteSet(Days \X S)  BY <1>1, FS_Product
<1>3. f \in [Days \X S -> Keys]  BY DEF Keys
<1>4. \A k \in Keys : \E p \in Days \X S : f[p] = k
  <2> SUFFICES ASSUME NEW k \in Keys PROVE \E p \in Days \X S : f[p] = k
    OBVIOUS
  <2>1. k.day \in Days /\ k.session \in S /\ k = [day |-> k.day, session |-> k.session]  BY DEF Keys
  <2>2. <<k.day, k.session>> \in Days \X S /\ f[<<k.day, k.session>>] = k  BY <2>1
  <2> QED BY <2>2
<1>5. f \in Surjection(Days \X S, Keys)  BY <1>3, <1>4 DEF Surjection
<1> QED BY <1>2, <1>5, FS_Surjection

\* SetToSeq numbers the members of a set, each once.
LEMMA SetToSeqNumbers ==
  ASSUME NEW S, IsFiniteSet(S)
  PROVE  /\ Len(SetToSeq(S)) \in Nat /\ DOMAIN SetToSeq(S) = 1..Len(SetToSeq(S))
         /\ \A n \in DOMAIN SetToSeq(S) : SetToSeq(S)[n] \in S
         /\ \A x \in S : \E n \in DOMAIN SetToSeq(S) : SetToSeq(S)[n] = x
<1> DEFINE n == Cardinality(S)
           s == SetToSeq(S)
<1>1. n \in Nat /\ ExistsBijection(1..n, S)  BY FS_CardinalityType
<1>2. PICK f \in Bijection(1..n, S) : TRUE  BY <1>1 DEF ExistsBijection
<1>3. f \in [1..n -> S] /\ IsInjective(f)  BY <1>2 DEF Bijection, Injection, IsInjective
<1>4. s \in [1..n -> S] /\ IsInjective(s)  BY <1>3 DEF SetToSeq
<1> HIDE DEF s
<1>5. s \in Injection(1..n, S)  BY <1>4 DEF Injection, IsInjective
<1>6. IsFiniteSet(1..n) /\ Cardinality(1..n) = n  BY <1>1, FS_Interval
<1>7. s \in Surjection(1..n, S)  BY <1>5, <1>6, FS_Injection
<1>8. s \in Seq(S)  BY <1>1, <1>4, SeqDef
<1>9. DOMAIN s = 1..Len(s) /\ Len(s) \in Nat  BY <1>8, LenProperties
<1>10. \A x \in S : \E m \in DOMAIN s : s[m] = x  BY <1>4, <1>7 DEF Surjection
<1> QED BY <1>4, <1>9, <1>10 DEF s

\* What the first half of a flush does to the lines that wait: they stay, and
\* every other bucket that gained something gets one, with a number of its own.
LEMMA SnapshotMakes ==
  ASSUME RTypeOK, Snapshot
  PROVE  /\ sequence' \in Nat /\ sequence <= sequence'
         /\ batch' = {k \in Keys : pending'[k] # <<>>}
         /\ pending' \in [Keys -> Seq(PendingLines)] /\ \A k \in Keys : Len(pending'[k]) <= 1
         /\ \A k \in Keys : Waits(k) \/ Delta(k) = {} => pending'[k] = pending[k]
         /\ \A k \in Keys : ~Waits(k) /\ Delta(k) # {} =>
              /\ pending'[k] # <<>> /\ pending'[k][1].delta = Delta(k) /\ pending'[k][1].snapshot = buckets[k]
              /\ pending'[k][1].id > sequence /\ pending'[k][1].id <= sequence'
         /\ \A k, j \in Keys : k # j /\ ~Waits(k) /\ Delta(k) # {} /\ ~Waits(j) /\ Delta(j) # {} =>
              pending'[k][1].id # pending'[j][1].id
<1> DEFINE S == {k \in Keys : pending[k] = <<>> /\ Delta(k) # {}}
           due == SetToSeq(S)
           number(k) == CHOOSE n \in DOMAIN due : due[n] = k
           line(k) == [id |-> sequence + number(k), delta |-> Delta(k), snapshot |-> buckets[k]]
<1>1. IsFiniteSet(S)  BY KeysFinite, FS_Subset
<1>2. /\ Len(due) \in Nat /\ DOMAIN due = 1..Len(due)
      /\ \A n \in DOMAIN due : due[n] \in S
      /\ \A k \in S : \E n \in DOMAIN due : due[n] = k
  BY <1>1, SetToSeqNumbers
<1>3. /\ pending' = [k \in Keys |-> IF \E n \in DOMAIN due : due[n] = k THEN <<line(k)>> ELSE pending[k]]
      /\ sequence' = sequence + Len(due)
      /\ batch' = {k \in Keys : pending'[k] # <<>>}
  BY DEF Snapshot
<1> HIDE DEF due
<1>4. \A k \in S : number(k) \in DOMAIN due /\ due[number(k)] = k  BY <1>2
<1>5. \A k \in S : number(k) \in Nat /\ number(k) > 0 /\ number(k) <= Len(due)  BY <1>2, <1>4
<1>6. \A k, j \in S : k # j => number(k) # number(j)  BY <1>4
<1>7. sequence \in Nat /\ \A k \in Keys : Delta(k) \subseteq Observations /\ buckets[k] \subseteq Observations
  BY DEF RTypeOK, Delta
<1> HIDE DEF number
<1>8. \A k \in S : line(k) \in PendingLines /\ line(k).id > sequence /\ line(k).id <= sequence + Len(due)
  <2> SUFFICES ASSUME NEW k \in S
               PROVE  line(k) \in PendingLines /\ line(k).id > sequence /\ line(k).id <= sequence + Len(due)
    OBVIOUS
  <2>1. sequence + number(k) \in Nat /\ sequence + number(k) > sequence /\ sequence + number(k) <= sequence + Len(due)
    BY <1>2, <1>5, <1>7
  <2> QED BY <1>7, <2>1 DEF PendingLines
<1>9. \A k \in S : pending'[k] = <<line(k)>>  BY <1>2, <1>3
<1>10. \A k \in Keys : k \notin S => pending'[k] = pending[k]  BY <1>2, <1>3
<1>11. \A k \in S : line(k).delta = Delta(k) /\ line(k).snapshot = buckets[k] /\ line(k).id = sequence + number(k)
  OBVIOUS
<1> HIDE DEF line
<1>12. \A k \in S : /\ pending'[k] \in Seq(PendingLines) /\ Len(pending'[k]) <= 1 /\ pending'[k] # <<>>
                    /\ pending'[k][1] = line(k)
  <2> SUFFICES ASSUME NEW k \in S
               PROVE  /\ pending'[k] \in Seq(PendingLines) /\ Len(pending'[k]) <= 1 /\ pending'[k] # <<>>
                      /\ pending'[k][1] = line(k)
    OBVIOUS
  <2> DEFINE l == line(k)
  <2>1. l \in PendingLines /\ pending'[k] = <<l>>  BY <1>8, <1>9
  <2> HIDE DEF l
  <2>2. <<l>> \in Seq(PendingLines) /\ Len(<<l>>) = 1 /\ <<l>> # <<>> /\ <<l>>[1] = l  BY <2>1
  <2> QED BY <2>1, <2>2 DEF l
<1>13. \A k \in Keys : pending'[k] \in Seq(PendingLines) /\ Len(pending'[k]) <= 1
  <2>1. \A k \in Keys : pending[k] \in Seq(PendingLines) /\ Len(pending[k]) <= 1  BY DEF RTypeOK
  <2> HIDE DEF S
  <2> QED BY <1>10, <1>12, <2>1
<1>14. pending' \in [Keys -> Seq(PendingLines)]  BY <1>3, <1>13
<1>15. sequence' \in Nat /\ sequence <= sequence'  BY <1>2, <1>3, <1>7
<1>16. \A k \in Keys : ~Waits(k) /\ Delta(k) # {} => k \in S  BY DEF Waits
<1>17. \A k \in Keys : Waits(k) \/ Delta(k) = {} => k \notin S  BY DEF Waits
<1>18. \A k \in S : /\ pending'[k] # <<>> /\ pending'[k][1].delta = Delta(k) /\ pending'[k][1].snapshot = buckets[k]
                    /\ pending'[k][1].id > sequence /\ pending'[k][1].id <= sequence'
  BY <1>3, <1>8, <1>11, <1>12
<1>19. \A k, j \in S : k # j => pending'[k][1].id # pending'[j][1].id
  <2> SUFFICES ASSUME NEW k \in S, NEW j \in S, k # j PROVE pending'[k][1].id # pending'[j][1].id
    OBVIOUS
  <2>1. number(k) \in Nat /\ number(j) \in Nat /\ number(k) # number(j)  BY <1>5, <1>6
  <2>2. pending'[k][1].id = sequence + number(k) /\ pending'[j][1].id = sequence + number(j)  BY <1>11, <1>12
  <2> QED BY <1>7, <2>1, <2>2
<1> HIDE DEF S
<1> QED BY <1>3, <1>10, <1>13, <1>14, <1>15, <1>16, <1>17, <1>18, <1>19

\* A file may gain the line that waits, and nothing else.
LEMMA LinesGrow ==
  ASSUME RTypeOK, NEW k \in Keys, Waits(k), NEW left \in Unappended(k), history' = [history EXCEPT ![k.day] = left]
  PROVE  /\ history' \in [Days -> [lines : Seq(HistoryLines), torn : BOOLEAN]]
         /\ Line(k) \in HistoryLines
         /\ Lines' = Lines \/ Lines' = Lines \cup {Line(k)}
         /\ left = AppendedLine(k) => Lines' = Lines \cup {Line(k)}
<1> DEFINE d == k.day
           ls == history[d].lines
           x == Line(k)
<1>1. d \in Days /\ history[d] \in [lines : Seq(HistoryLines), torn : BOOLEAN] /\ ls \in Seq(HistoryLines)
  BY DEF RTypeOK, Keys
<1>2. x \in HistoryLines
  <2>1. pending[k] \in Seq(PendingLines) /\ pending[k] # <<>>  BY DEF RTypeOK, Waits
  <2>2. pending[k][1] \in PendingLines  BY <2>1
  <2> QED BY <2>2 DEF Line, PendingLines, HistoryLines
<1>3. Append(ls, x) \in Seq(HistoryLines) /\ ToSet(Append(ls, x)) = ToSet(ls) \cup {x}  BY <1>1, <1>2, ToSetAppend
<1>4. /\ left \in [lines : Seq(HistoryLines), torn : BOOLEAN]
      /\ left.lines = ls \/ left.lines = Append(ls, x)
      /\ left = AppendedLine(k) => left.lines = Append(ls, x)
  <2>1. AppendedLine(k) = [lines |-> Append(ls, x), torn |-> FALSE]  BY DEF AppendedLine
  <2> HIDE DEF x
  <2>2. CASE left = AppendedLine(k)  BY <1>3, <2>1, <2>2
  <2>3. CASE left # AppendedLine(k)
    <3>1. left \in {history[d], [history[d] EXCEPT !.torn = FALSE], [history[d] EXCEPT !.torn = TRUE]}
      BY <2>3 DEF Unappended
    <3> QED BY <1>1, <2>3, <3>1
  <2> QED BY <2>2, <2>3
<1> HIDE DEF x
<1>5. history' \in [Days -> [lines : Seq(HistoryLines), torn : BOOLEAN]]  BY <1>1, <1>4 DEF RTypeOK
<1>6. history'[d] = left /\ \A e \in Days : e # d => history'[e] = history[e]  BY <1>1 DEF RTypeOK
<1>7. Lines' = UNION {ToSet(history'[e].lines) : e \in Days}  BY DEF Lines, ToSet
<1>8. ASSUME left.lines = ls PROVE Lines' = Lines
  <2>1. \A e \in Days : history'[e].lines = history[e].lines  BY <1>6, <1>8
  <2> QED BY <1>7, <2>1 DEF Lines
<1>9. ASSUME left.lines = Append(ls, x) PROVE Lines' = Lines \cup {x}
  <2>1. ToSet(history'[d].lines) = ToSet(history[d].lines) \cup {x}  BY <1>3, <1>6, <1>9
  <2>2. \A e \in Days : e # d => ToSet(history'[e].lines) = ToSet(history[e].lines)  BY <1>6
  <2> HIDE DEF d
  <2> QED BY <1>1, <1>7, <2>1, <2>2 DEF Lines
<1> QED BY <1>2, <1>4, <1>5, <1>8, <1>9 DEF x
-----------------------------------------------------------------------------
(* Every step of the rollups keeps the invariant *)

LEMMA LinesTyped ==
  ASSUME RTypeOK
  PROVE  \A l \in Lines : l.id \in Nat /\ l.delta \subseteq Observations
<1> SUFFICES ASSUME NEW l \in Lines PROVE l.id \in Nat /\ l.delta \subseteq Observations
  OBVIOUS
<1>1. PICK d \in Days : l \in ToSet(history[d].lines)  BY DEF Lines
<1>2. history[d].lines \in Seq(HistoryLines)  BY DEF RTypeOK
<1>3. l \in HistoryLines  BY <1>1, <1>2, ToSetFinite
<1> QED BY <1>3 DEF HistoryLines

LEMMA PendingTyped ==
  ASSUME RTypeOK, NEW k \in Keys, Waits(k)
  PROVE  pending[k][1].id \in Nat /\ pending[k][1].delta \subseteq Observations /\ pending[k][1].snapshot \subseteq Observations
<1>1. pending[k] \in Seq(PendingLines) /\ pending[k] # <<>>  BY DEF RTypeOK, Waits
<1>2. pending[k][1] \in PendingLines  BY <1>1
<1> QED BY <1>2 DEF PendingLines

LEMMA SameLines ==
  ASSUME history' = history
  PROVE  Lines' = Lines
BY DEF Lines, ToSet

LEMMA RollupsRest ==
  ASSUME RTypeOK, History, UNCHANGED rvars, UNCHANGED recorded
  PROVE  RTypeOK' /\ History'
<1>1. Lines' = Lines  BY SameLines DEF rvars
<1>2. RTypeOK'  BY DEF RTypeOK, rvars
<1>3. Owned' /\ Durable' /\ Known'  BY <1>1 DEF Owned, Durable, Known, History, rvars
<1>4. PendingIsDelta' /\ IdsDiffer' /\ Flushing'
  BY <1>1 DEF PendingIsDelta, IdsDiffer, Flushing, Waits, Delta, History, rvars
<1>5. OneIdentity' /\ OnlyCopies'  BY <1>1 DEF OneIdentity, OnlyCopies, Waits, Delta, History, rvars
<1> QED BY <1>2, <1>3, <1>4, <1>5 DEF History

LEMMA BucketIsKey ==
  ASSUME NEW day \in Days, NEW session \in Sessions
  PROVE  Bucket(day, session) \in Keys
<1> DEFINE key == [day |-> day, session |-> session]
<1>1. key \in Keys /\ [key EXCEPT !.session = Overflow] \in Keys  BY DEF Keys
<1>2. Bucket(day, session) = key \/ Bucket(day, session) = [key EXCEPT !.session = Overflow]  BY DEF Bucket
<1> QED BY <1>1, <1>2

\* A sample that was never recorded is new to every bucket and every line.
LEMMA ObservesKeeps ==
  ASSUME RTypeOK, History, NEW o \in Observations, o \notin recorded, recorded' = recorded \cup {o},
         NEW day \in Days, NEW session \in Sessions, Observes(o, day, session)
  PROVE  RTypeOK' /\ History'
<1> DEFINE b == Bucket(day, session)
<1>1. b \in Keys  BY BucketIsKey
<1>2. Lines' = Lines  BY SameLines DEF Observes
<1>3. /\ flushed' = flushed /\ pending' = pending /\ sequence' = sequence /\ batch' = batch
      /\ flushing' = flushing /\ closing' = closing /\ history' = history /\ failed' = failed /\ gone' = gone
  BY DEF Observes
<1>4. CASE closing # "open"
  <2>1. buckets' = buckets /\ rtimer' = rtimer /\ observed' = observed  BY <1>4 DEF Observes
  <2>2. RTypeOK'  BY <1>3, <2>1 DEF RTypeOK
  <2>3. Owned' /\ Durable' /\ Known'  BY <1>2, <1>3, <2>1 DEF Owned, Durable, Known, History
  <2>4. PendingIsDelta' /\ IdsDiffer' /\ Flushing'
    BY <1>2, <1>3, <2>1 DEF PendingIsDelta, IdsDiffer, Flushing, Waits, Delta, History
  <2>5. OneIdentity' /\ OnlyCopies'  BY <1>2, <1>3, <2>1 DEF OneIdentity, OnlyCopies, Waits, Delta, History
  <2> QED BY <2>2, <2>3, <2>4, <2>5 DEF History
<1>5. CASE closing = "open"
  <2>1. /\ buckets' = [buckets EXCEPT ![b] = @ \cup {o}]
        /\ rtimer' = TRUE /\ observed' = observed \cup {o}
    BY <1>5 DEF Observes
  <2> HIDE DEF b
  <2>2. /\ buckets' \in [Keys -> SUBSET Observations]
        /\ buckets'[b] = buckets[b] \cup {o} /\ \A k \in Keys : k # b => buckets'[k] = buckets[k]
    BY <1>1, <2>1 DEF RTypeOK
  <2>3. RTypeOK'  BY <1>3, <2>1, <2>2 DEF RTypeOK
  <2>4. o \notin observed /\ o \notin gone /\ \A k \in Keys : o \notin buckets[k]  BY DEF History, Owned
  <2>5. Owned'  BY <1>3, <2>1, <2>2, <2>4 DEF Owned, History
  <2>6. Durable'  BY <1>2, <1>3, <2>2 DEF Durable, History
  <2>7. PendingIsDelta'  BY <1>2, <1>3, <2>2 DEF PendingIsDelta, Waits, History
  <2>8. IdsDiffer'  BY <1>3 DEF IdsDiffer, Waits, History
  <2>9. OneIdentity'  BY <1>2, <1>3, <2>1 DEF OneIdentity, History
  <2>10. OnlyCopies'
    <3> SUFFICES ASSUME NEW k \in Keys, NEW l \in Lines, l.delta \cap Delta(k)' # {}
                 PROVE  Waits(k)' /\ l.id = pending'[k][1].id
      BY <1>2 DEF OnlyCopies
    <3>1. o \notin l.delta  BY <2>4 DEF OneIdentity, History
    <3>2. l.delta \cap Delta(k) # {}  BY <1>3, <2>2, <3>1 DEF Delta
    <3> QED BY <1>3, <3>2 DEF OnlyCopies, Waits, History
  <2>11. Known'  BY <1>1, <1>2, <1>3, <2>1, <2>2 DEF Known, History
  <2>12. Flushing'  BY <1>3, <1>5 DEF Flushing, Waits, History
  <2> QED BY <2>3, <2>5, <2>6, <2>7, <2>8, <2>9, <2>10, <2>11, <2>12 DEF History
<1> QED BY <1>4, <1>5

\* A flush gives numbers no line has yet, and leaves no bucket out.
LEMMA SnapshotKeeps ==
  ASSUME RTypeOK, History, Snapshot, UNCHANGED recorded
  PROVE  RTypeOK' /\ History'
<1>1. Lines' = Lines  BY SameLines DEF Snapshot
<1>2. /\ ~flushing /\ flushing' = TRUE /\ rtimer' = FALSE /\ closing' \in {"open", "closed", "done"}
      /\ buckets' = buckets /\ flushed' = flushed /\ history' = history /\ failed' = failed
      /\ observed' = observed /\ gone' = gone /\ recorded' = recorded
  BY DEF Snapshot, RTypeOK
<1>3. /\ sequence' \in Nat /\ sequence <= sequence'
      /\ batch' = {k \in Keys : pending'[k] # <<>>}
      /\ pending' \in [Keys -> Seq(PendingLines)] /\ \A k \in Keys : Len(pending'[k]) <= 1
      /\ \A k \in Keys : Waits(k) \/ Delta(k) = {} => pending'[k] = pending[k]
      /\ \A k \in Keys : ~Waits(k) /\ Delta(k) # {} =>
           /\ pending'[k] # <<>> /\ pending'[k][1].delta = Delta(k) /\ pending'[k][1].snapshot = buckets[k]
           /\ pending'[k][1].id > sequence /\ pending'[k][1].id <= sequence'
      /\ \A k, j \in Keys : k # j /\ ~Waits(k) /\ Delta(k) # {} /\ ~Waits(j) /\ Delta(j) # {} =>
           pending'[k][1].id # pending'[j][1].id
  BY SnapshotMakes
<1>4. RTypeOK'  BY <1>2, <1>3 DEF RTypeOK
<1>5. sequence \in Nat /\ \A l \in Lines : l.id \in Nat /\ l.id <= sequence
  BY LinesTyped DEF RTypeOK, History, OneIdentity
<1>6. \A k \in Keys : Waits(k) => pending'[k] = pending[k] /\ pending[k][1].id \in Nat /\ pending[k][1].id <= sequence
  BY <1>3, PendingTyped DEF History, PendingIsDelta
<1>7. \A k \in Keys : Waits(k)' => Waits(k) \/ Delta(k) # {}  BY <1>3 DEF Waits
<1>8. \A k \in Keys : Waits(k)' => pending'[k][1].id \in Nat
  <2> SUFFICES ASSUME NEW k \in Keys, Waits(k)' PROVE pending'[k][1].id \in Nat
    OBVIOUS
  <2>1. pending'[k] \in Seq(PendingLines) /\ pending'[k] # <<>>  BY <1>3 DEF Waits
  <2>2. pending'[k][1] \in PendingLines  BY <2>1
  <2> QED BY <2>2 DEF PendingLines
<1>9. Owned' /\ Durable' /\ Known'  BY <1>1, <1>2 DEF Owned, Durable, Known, History
<1>10. PendingIsDelta'
  <2> SUFFICES ASSUME NEW k \in Keys, Waits(k)'
               PROVE  /\ flushed[k] \subseteq pending'[k][1].snapshot /\ pending'[k][1].snapshot \subseteq buckets[k]
                      /\ pending'[k][1].delta = pending'[k][1].snapshot \ flushed[k]
                      /\ pending'[k][1].id <= sequence'
                      /\ \A l \in Lines : l.id = pending'[k][1].id => l.delta = pending'[k][1].delta
    BY <1>1, <1>2 DEF PendingIsDelta
  <2>1. CASE Waits(k)
    <3>1. pending'[k] = pending[k] /\ pending[k][1].id <= sequence'  BY <1>3, <1>5, <1>6, <2>1
    <3> QED BY <2>1, <3>1 DEF PendingIsDelta, History
  <2>2. CASE ~Waits(k)
    <3>1. /\ pending'[k][1].delta = Delta(k) /\ pending'[k][1].snapshot = buckets[k]
          /\ pending'[k][1].id > sequence /\ pending'[k][1].id <= sequence'
      BY <1>3, <1>7, <2>2
    <3>2. \A l \in Lines : l.id # pending'[k][1].id  BY <1>5, <1>8, <3>1
    <3> QED BY <3>1, <3>2 DEF Delta, Durable, History
  <2> QED BY <2>1, <2>2
<1>11. IdsDiffer'
  <2> SUFFICES ASSUME NEW k \in Keys, NEW j \in Keys, k # j, Waits(k)', Waits(j)'
               PROVE  pending'[k][1].id # pending'[j][1].id
    BY DEF IdsDiffer
  <2>1. CASE Waits(k) /\ Waits(j)  BY <1>6, <2>1 DEF IdsDiffer, History
  <2>2. CASE Waits(k) /\ ~Waits(j)
    <3>1. pending'[j][1].id > sequence /\ pending'[k][1].id <= sequence  BY <1>3, <1>6, <1>7, <2>2
    <3> QED BY <1>5, <1>8, <3>1
  <2>3. CASE ~Waits(k) /\ Waits(j)
    <3>1. pending'[k][1].id > sequence /\ pending'[j][1].id <= sequence  BY <1>3, <1>6, <1>7, <2>3
    <3> QED BY <1>5, <1>8, <3>1
  <2>4. CASE ~Waits(k) /\ ~Waits(j)  BY <1>3, <1>7, <2>4
  <2> QED BY <2>1, <2>2, <2>3, <2>4
<1>12. OneIdentity'
  <2>1. \A l \in Lines : l.id <= sequence'  BY <1>3, <1>5
  <2> QED BY <1>1, <1>2, <2>1 DEF OneIdentity, History
<1>13. OnlyCopies'  BY <1>1, <1>2, <1>6 DEF OnlyCopies, Delta, Waits, History
<1>14. Flushing'
  <2>1. \A k \in Keys : ~failed => ~Waits(k)  BY <1>2 DEF Flushing, History
  <2>2. \A k \in Keys : k \in batch' <=> Waits(k)'  BY <1>3 DEF Waits
  <2>3. \A k \in Keys : ~failed => Delta(k) = {} \/ (k \in batch' /\ pending'[k][1].snapshot = buckets[k])
    BY <1>3, <2>1
  <2>4. batch' \subseteq Keys  BY <1>3
  <2> QED BY <1>2, <2>2, <2>3, <2>4 DEF Flushing, Delta
<1> QED BY <1>4, <1>9, <1>10, <1>11, <1>12, <1>13, <1>14 DEF History

\* What the line of a bucket counts is counted by no other identity.
LEMMA LineJoins ==
  ASSUME RTypeOK, History, NEW k \in Keys, Waits(k), Lines' = Lines \/ Lines' = Lines \cup {Line(k)}
  PROVE  /\ Line(k).id = pending[k][1].id /\ Line(k).delta = pending[k][1].delta
         /\ Line(k).delta \subseteq buckets[k] /\ Line(k).delta \subseteq Delta(k)
         /\ Line(k).delta \subseteq observed /\ Line(k).delta \cap gone = {}
         /\ \A l \in Lines' : l.id <= sequence /\ l.delta \subseteq observed /\ l.delta \cap gone = {}
         /\ \A l, m \in Lines' : l.delta \cap m.delta # {} => l.id = m.id
<1> DEFINE x == Line(k)
<1>1. x.id = pending[k][1].id /\ x.delta = pending[k][1].delta  BY DEF Line
<1> HIDE DEF x
<1>2. /\ x.delta \subseteq buckets[k] /\ x.delta \subseteq Delta(k) /\ x.id <= sequence
      /\ x.delta \subseteq observed /\ x.delta \cap gone = {}
  BY <1>1 DEF PendingIsDelta, Owned, History, Delta
<1>3. \A l \in Lines : l.delta \cap x.delta # {} => l.id = x.id  BY <1>1, <1>2 DEF OnlyCopies, History
<1>4. \A l \in Lines' : l \in Lines \/ l = x  BY DEF x
<1>5. \A l \in Lines' : l.id <= sequence /\ l.delta \subseteq observed /\ l.delta \cap gone = {}
  BY <1>2, <1>4 DEF OneIdentity, History
<1>6. \A l, m \in Lines' : l.delta \cap m.delta # {} => l.id = m.id
  <2> SUFFICES ASSUME NEW l \in Lines', NEW m \in Lines', l.delta \cap m.delta # {} PROVE l.id = m.id
    OBVIOUS
  <2>1. CASE l \in Lines /\ m \in Lines  BY <2>1 DEF OneIdentity, History
  <2>2. CASE l = x \/ m = x  BY <1>3, <1>4, <2>2
  <2> QED BY <1>4, <2>1, <2>2
<1> QED BY <1>1, <1>2, <1>5, <1>6 DEF x

\* The line is in the file and what it counts is durable.
LEMMA AppendOkKeeps ==
  ASSUME RTypeOK, History, NEW k \in batch, AppendOk(k), UNCHANGED recorded
  PROVE  /\ RTypeOK' /\ History'
         /\ Lines' = Lines \cup {Line(k)} /\ Line(k).delta \subseteq Delta(k)
         /\ observed' = observed /\ gone' = gone
<1>1. k \in Keys /\ Waits(k)  BY DEF RTypeOK, History, Flushing
<1>2. /\ flushing /\ flushing' = TRUE /\ batch' = batch \ {k} /\ buckets' = buckets /\ sequence' = sequence
      /\ rtimer' = rtimer /\ closing' = closing /\ failed' = failed /\ observed' = observed /\ gone' = gone
      /\ recorded' = recorded /\ history' = [history EXCEPT ![k.day] = AppendedLine(k)]
      /\ flushed' = [flushed EXCEPT ![k] = pending[k][1].snapshot] /\ pending' = [pending EXCEPT ![k] = <<>>]
  BY DEF AppendOk
<1>3. history' \in [Days -> [lines : Seq(HistoryLines), torn : BOOLEAN]] /\ Lines' = Lines \cup {Line(k)}
  <2>1. AppendedLine(k) \in Unappended(k)  BY DEF Unappended
  <2> QED BY <1>1, <1>2, <2>1, LinesGrow
<1>4. /\ Line(k).id = pending[k][1].id /\ Line(k).delta = pending[k][1].delta
      /\ Line(k).delta \subseteq buckets[k] /\ Line(k).delta \subseteq Delta(k)
      /\ \A l \in Lines' : l.id <= sequence /\ l.delta \subseteq observed /\ l.delta \cap gone = {}
      /\ \A l, m \in Lines' : l.delta \cap m.delta # {} => l.id = m.id
  BY <1>1, <1>3, LineJoins
<1> DEFINE snap == pending[k][1].snapshot
<1>5. /\ snap \subseteq buckets[k] /\ flushed[k] \subseteq snap /\ Line(k).delta = snap \ flushed[k]
      /\ \A l \in Lines : l.id = pending[k][1].id => l.delta = snap \ flushed[k]
  BY <1>1, <1>4 DEF History, PendingIsDelta
<1>6. /\ flushed' \in [Keys -> SUBSET Observations]
      /\ flushed'[k] = snap /\ \A j \in Keys : j # k => flushed'[j] = flushed[j]
  <2>1. snap \in SUBSET Observations  BY <1>1, PendingTyped
  <2> HIDE DEF snap
  <2> QED BY <1>1, <1>2, <2>1 DEF RTypeOK, snap
<1>7. pending'[k] = <<>> /\ \A j \in Keys : j # k => pending'[j] = pending[j]  BY <1>1, <1>2 DEF RTypeOK
<1>8. RTypeOK'
  <2>1. <<>> \in Seq(PendingLines) /\ Len(<<>>) <= 1  OBVIOUS
  <2>2. \A j \in Keys : pending[j] \in Seq(PendingLines) /\ Len(pending[j]) <= 1  BY DEF RTypeOK
  <2>3. \A j \in Keys : pending'[j] \in Seq(PendingLines) /\ Len(pending'[j]) <= 1  BY <1>7, <2>1, <2>2
  <2>4. pending' \in [Keys -> Seq(PendingLines)]  BY <1>2, <2>3 DEF RTypeOK
  <2>5. batch' \subseteq Keys  BY <1>2 DEF RTypeOK
  <2> HIDE DEF snap
  <2> QED BY <1>2, <1>3, <1>6, <2>3, <2>4, <2>5 DEF RTypeOK
<1>9. \A j \in Keys : Waits(j)' => j # k /\ Waits(j)  BY <1>7 DEF Waits
<1> HIDE DEF snap
<1>10. Owned'  BY <1>2 DEF Owned, History
<1>11. Durable'
  <2> SUFFICES ASSUME NEW j \in Keys
               PROVE  flushed'[j] \subseteq buckets[j] /\ \A o \in flushed'[j] : \E l \in Lines' : o \in l.delta
    BY <1>2 DEF Durable
  <2>1. flushed[j] \subseteq buckets[j] /\ \A o \in flushed[j] : \E l \in Lines' : o \in l.delta
    BY <1>3 DEF Durable, History
  <2>2. CASE j # k  BY <1>6, <2>1, <2>2
  <2>3. CASE j = k  BY <1>3, <1>5, <1>6, <2>1, <2>3
  <2> QED BY <2>2, <2>3
<1>12. PendingIsDelta'
  <2> SUFFICES ASSUME NEW j \in Keys, j # k, Waits(j)
               PROVE  /\ flushed[j] \subseteq pending[j][1].snapshot /\ pending[j][1].snapshot \subseteq buckets[j]
                      /\ pending[j][1].delta = pending[j][1].snapshot \ flushed[j]
                      /\ pending[j][1].id <= sequence
                      /\ \A l \in Lines' : l.id = pending[j][1].id => l.delta = pending[j][1].delta
    BY <1>2, <1>6, <1>7, <1>9 DEF PendingIsDelta
  <2>1. Line(k).id # pending[j][1].id  BY <1>1, <1>4 DEF IdsDiffer, History
  <2> QED BY <1>3, <2>1 DEF PendingIsDelta, History
<1>13. IdsDiffer'  BY <1>7, <1>9 DEF IdsDiffer, History
<1>14. OneIdentity'  BY <1>2, <1>4 DEF OneIdentity
<1>15. OnlyCopies'
  <2> SUFFICES ASSUME NEW j \in Keys, NEW l \in Lines', l.delta \cap Delta(j)' # {}
               PROVE  Waits(j)' /\ l.id = pending'[j][1].id
    BY DEF OnlyCopies
  <2>1. l \in Lines \/ l = Line(k)  BY <1>3
  <2>2. CASE j = k
    <3>1. Delta(j)' = buckets[k] \ snap  BY <1>2, <1>6, <2>2 DEF Delta
    <3>2. l # Line(k)  BY <1>5, <3>1
    <3>3. l \in Lines /\ l.delta \cap Delta(k) # {}  BY <1>5, <2>1, <3>1, <3>2 DEF Delta
    <3>4. l.id = pending[k][1].id  BY <1>1, <3>3 DEF OnlyCopies, History
    <3> QED BY <1>5, <3>1, <3>3, <3>4
  <2>3. CASE j # k
    <3>1. Delta(j)' = Delta(j) /\ Delta(j) \subseteq buckets[j]  BY <1>2, <1>6, <2>3 DEF Delta
    <3>2. buckets[k] \cap buckets[j] = {}  BY <1>1, <2>3 DEF Owned, History
    <3>3. l # Line(k)  BY <1>4, <3>1, <3>2
    <3>4. Waits(j) /\ l.id = pending[j][1].id  BY <2>1, <3>1, <3>3 DEF OnlyCopies, History
    <3> QED BY <1>7, <2>3, <3>4 DEF Waits
  <2> QED BY <2>2, <2>3
<1>16. Known'  BY <1>2, <1>3 DEF Known, History
<1>17. Flushing'
  <2>1. \A j \in batch' : Waits(j)'  BY <1>2, <1>7 DEF Flushing, Waits, History, RTypeOK
  <2>2. ~failed => \A j \in Keys : Waits(j)' => j \in batch'  BY <1>2, <1>9 DEF Flushing, History
  <2>3. ASSUME closing = "done" /\ ~failed, NEW j \in Keys
        PROVE  Delta(j)' = {} \/ (j \in batch' /\ pending'[j][1].snapshot = buckets[j])
    <3>1. Delta(j) = {} \/ (j \in batch /\ pending[j][1].snapshot = buckets[j])  BY <2>3 DEF Flushing, History
    <3>2. CASE j = k
      <4>1. Delta(j)' = buckets[k] \ snap  BY <1>2, <1>6, <3>2 DEF Delta
      <4> QED BY <1>5, <3>1, <3>2, <4>1 DEF Delta, snap
    <3>3. CASE j # k
      <4>1. Delta(j)' = Delta(j)  BY <1>2, <1>6, <3>3 DEF Delta
      <4> QED BY <1>2, <1>7, <3>1, <3>3, <4>1
    <3> QED BY <3>2, <3>3
  <2> QED BY <1>2, <2>1, <2>2, <2>3 DEF Flushing
<1> QED BY <1>2, <1>3, <1>4, <1>8, <1>10, <1>11, <1>12, <1>13, <1>14, <1>15, <1>16, <1>17 DEF History

\* The line waits on, and may be in the file.
LEMMA AppendFailsKeeps ==
  ASSUME RTypeOK, History, NEW k \in batch, NEW left \in Unappended(k), AppendFails(k, left), UNCHANGED recorded
  PROVE  /\ RTypeOK' /\ History'
         /\ Lines' = Lines \/ Lines' = Lines \cup {Line(k)}
         /\ Line(k).delta \subseteq Delta(k) /\ observed' = observed /\ gone' = gone
<1>1. k \in Keys /\ Waits(k)  BY DEF RTypeOK, History, Flushing
<1>2. /\ flushing /\ flushing' = TRUE /\ batch' = batch \ {k} /\ buckets' = buckets /\ sequence' = sequence
      /\ rtimer' = rtimer /\ closing' = closing /\ failed' = TRUE /\ observed' = observed /\ gone' = gone
      /\ recorded' = recorded /\ history' = [history EXCEPT ![k.day] = left]
      /\ flushed' = flushed /\ pending' = pending
  BY DEF AppendFails
<1>3. history' \in [Days -> [lines : Seq(HistoryLines), torn : BOOLEAN]] /\ (Lines' = Lines \/ Lines' = Lines \cup {Line(k)})
  BY <1>1, <1>2, LinesGrow
<1>4. /\ Line(k).id = pending[k][1].id /\ Line(k).delta = pending[k][1].delta
      /\ Line(k).delta \subseteq buckets[k] /\ Line(k).delta \subseteq Delta(k)
      /\ \A l \in Lines' : l.id <= sequence /\ l.delta \subseteq observed /\ l.delta \cap gone = {}
      /\ \A l, m \in Lines' : l.delta \cap m.delta # {} => l.id = m.id
  BY <1>1, <1>3, LineJoins
<1>5. RTypeOK'  BY <1>2, <1>3 DEF RTypeOK
<1>6. \A j \in Keys : Waits(j)' <=> Waits(j)  BY <1>2 DEF Waits
<1>7. \A l \in Lines' : l \in Lines \/ l = Line(k)  BY <1>3
<1>8. \A l \in Lines : l \in Lines'  BY <1>3
<1>9. Owned'  BY <1>2 DEF Owned, History
<1>10. Durable'  BY <1>2, <1>8 DEF Durable, History
<1>11. PendingIsDelta'
  <2> SUFFICES ASSUME NEW j \in Keys, Waits(j)
               PROVE  /\ flushed[j] \subseteq pending[j][1].snapshot /\ pending[j][1].snapshot \subseteq buckets[j]
                      /\ pending[j][1].delta = pending[j][1].snapshot \ flushed[j]
                      /\ pending[j][1].id <= sequence
                      /\ \A l \in Lines' : l.id = pending[j][1].id => l.delta = pending[j][1].delta
    BY <1>2, <1>6 DEF PendingIsDelta
  <2>1. j # k => Line(k).id # pending[j][1].id  BY <1>1, <1>4 DEF IdsDiffer, History
  <2>2. j = k => Line(k).delta = pending[j][1].delta  BY <1>4
  <2> QED BY <1>7, <2>1, <2>2 DEF PendingIsDelta, History
<1>12. IdsDiffer'  BY <1>2, <1>6 DEF IdsDiffer, History
<1>13. OneIdentity'  BY <1>2, <1>4 DEF OneIdentity
<1>14. OnlyCopies'
  <2> SUFFICES ASSUME NEW j \in Keys, NEW l \in Lines', l.delta \cap Delta(j) # {}
               PROVE  Waits(j) /\ l.id = pending[j][1].id
    BY <1>2 DEF OnlyCopies, Delta, Waits
  <2>1. CASE l \in Lines  BY <2>1 DEF OnlyCopies, History
  <2>2. CASE l = Line(k)
    <3>1. j = k  BY <1>1, <1>4, <2>2 DEF Owned, Delta, History
    <3> QED BY <1>1, <1>4, <2>2, <3>1
  <2> QED BY <1>7, <2>1, <2>2
<1>15. Known'  BY <1>2, <1>8 DEF Known, History
<1>16. Flushing'
  <2>1. \A j \in batch' : Waits(j)'  BY <1>2, <1>6 DEF Flushing, History, RTypeOK
  <2> QED BY <1>2, <2>1 DEF Flushing
<1> QED BY <1>2, <1>3, <1>4, <1>5, <1>9, <1>10, <1>11, <1>12, <1>13, <1>14, <1>15, <1>16 DEF History

\* The rest of a flush, and close().
LEMMA FlushedKeeps ==
  ASSUME RTypeOK, History, Flushed \/ RClose, UNCHANGED recorded
  PROVE  RTypeOK' /\ History' /\ Lines' = Lines /\ observed' = observed /\ gone' = gone
<1>1. /\ buckets' = buckets /\ flushed' = flushed /\ pending' = pending /\ sequence' = sequence /\ batch' = batch
      /\ history' = history /\ failed' = failed /\ observed' = observed /\ gone' = gone /\ recorded' = recorded
      /\ rtimer' \in BOOLEAN
      /\ \/ flushing' = FALSE /\ batch = {} /\ closing' = closing
         \/ flushing' = flushing /\ closing' = "closed"
  BY DEF Flushed, RClose, RTypeOK
<1>2. Lines' = Lines  BY <1>1, SameLines
<1>3. RTypeOK'  BY <1>1 DEF RTypeOK
<1>4. Owned' /\ Durable' /\ Known'  BY <1>1, <1>2 DEF Owned, Durable, Known, History
<1>5. PendingIsDelta' /\ IdsDiffer'  BY <1>1, <1>2 DEF PendingIsDelta, IdsDiffer, Waits, History
<1>6. OneIdentity' /\ OnlyCopies'  BY <1>1, <1>2 DEF OneIdentity, OnlyCopies, Waits, Delta, History
<1>7. Flushing'  BY <1>1 DEF Flushing, Waits, Delta, History
<1> QED BY <1>1, <1>2, <1>3, <1>4, <1>5, <1>6, <1>7 DEF History

\* The next process starts with empty buckets; what no line counts is gone.
LEMMA CrashKeeps ==
  ASSUME RTypeOK, History, NEW k \in Keys,
         NEW left \in {history[k.day]} \cup (IF k \in batch THEN Unappended(k) ELSE {}),
         RCrash(k, left), UNCHANGED recorded
  PROVE  /\ RTypeOK' /\ History'
         /\ Lines' = Lines \/ (Waits(k) /\ Lines' = Lines \cup {Line(k)} /\ Line(k).delta \subseteq Delta(k))
         /\ observed' = observed /\ gone' = gone \cup {o \in observed : ~\E l \in Lines' : o \in l.delta}
<1>1. /\ buckets' = [j \in Keys |-> {}] /\ flushed' = [j \in Keys |-> {}] /\ pending' = [j \in Keys |-> <<>>]
      /\ batch' = {} /\ flushing' = FALSE /\ rtimer' = FALSE /\ closing' = "open" /\ failed' = FALSE
      /\ sequence' = sequence /\ observed' = observed /\ recorded' = recorded
      /\ history' = [history EXCEPT ![k.day] = left]
  BY DEF RCrash, Fresh
<1>2. /\ history' \in [Days -> [lines : Seq(HistoryLines), torn : BOOLEAN]]
      /\ Lines' = Lines \/ (Waits(k) /\ Lines' = Lines \cup {Line(k)})
  <2>1. CASE left = history[k.day]
    <3>1. history' = history  BY <1>1, <2>1 DEF RTypeOK
    <3> QED BY <3>1, SameLines DEF RTypeOK
  <2>2. CASE left # history[k.day]
    <3>1. k \in batch /\ left \in Unappended(k)  BY <2>2
    <3>2. Waits(k)  BY <3>1 DEF History, Flushing
    <3> QED BY <1>1, <3>1, <3>2, LinesGrow
  <2> QED BY <2>1, <2>2
<1>3. gone' = gone \cup {o \in observed : ~\E l \in Lines' : o \in l.delta}
  <2>1. Lines' = UNION {ToSet(history'[d].lines) : d \in Days}  BY DEF Lines, ToSet
  <2>2. \A o : (\A d \in Days : \A n \in DOMAIN history'[d].lines : o \notin history'[d].lines[n].delta)
                 <=> ~\E l \in Lines' : o \in l.delta
    BY <2>1 DEF ToSet
  <2> QED BY <2>2 DEF RCrash
<1>4. /\ \A l \in Lines' : l.id <= sequence /\ l.delta \subseteq observed /\ l.delta \cap gone = {}
      /\ \A l, m \in Lines' : l.delta \cap m.delta # {} => l.id = m.id
  BY <1>2, LineJoins DEF History, OneIdentity
<1>5. Lines' = Lines \/ (Waits(k) /\ Lines' = Lines \cup {Line(k)} /\ Line(k).delta \subseteq Delta(k))
  BY <1>2, LineJoins
<1>6. gone' \subseteq observed  BY <1>3 DEF History, Owned
<1>7. RTypeOK'
  <2>1. <<>> \in Seq(PendingLines) /\ Len(<<>>) <= 1  OBVIOUS
  <2>2. pending' \in [Keys -> Seq(PendingLines)] /\ \A j \in Keys : Len(pending'[j]) <= 1  BY <1>1, <2>1
  <2>3. buckets' \in [Keys -> SUBSET Observations] /\ flushed' \in [Keys -> SUBSET Observations]  BY <1>1
  <2> QED BY <1>1, <1>2, <1>6, <2>2, <2>3 DEF RTypeOK
<1>8. Owned' /\ Durable'  BY <1>1, <1>6 DEF Owned, Durable, History
<1>9. \A j \in Keys : ~Waits(j)' /\ Delta(j)' = {}  BY <1>1 DEF Waits, Delta
<1>10. PendingIsDelta' /\ IdsDiffer' /\ OnlyCopies'  BY <1>9 DEF PendingIsDelta, IdsDiffer, OnlyCopies
<1>11. OneIdentity'
  <2>1. \A l \in Lines' : l.delta \cap gone' = {}  BY <1>3, <1>4
  <2> QED BY <1>1, <1>4, <2>1 DEF OneIdentity
<1>12. Known'  BY <1>1, <1>3 DEF Known
<1>13. Flushing'  BY <1>1, <1>9 DEF Flushing
<1> QED BY <1>1, <1>3, <1>5, <1>7, <1>8, <1>10, <1>11, <1>12, <1>13 DEF History
-----------------------------------------------------------------------------
(* The invariant of the specification *)

LEMMA InitIInv == Init => IInv
<1> SUFFICES ASSUME Init PROVE IInv
  OBVIOUS
<1>1. /\ buckets = [k \in Keys |-> {}] /\ flushed = [k \in Keys |-> {}] /\ pending = [k \in Keys |-> <<>>]
      /\ sequence = 0 /\ batch = {} /\ flushing = FALSE /\ rtimer = FALSE /\ closing = "open"
      /\ history = [d \in Days |-> [lines |-> <<>>, torn |-> FALSE]]
      /\ failed = FALSE /\ observed = {} /\ gone = {} /\ recorded = {} /\ failures = 0 /\ crashes = 0
  BY DEF Init, RInit
<1>2. MTypeOK
  <2>1. <<Empty>> \in Seq(Files) /\ Len(<<Empty>>) = 1  BY EmptyTyped
  <2>2. <<>> \in Seq(Samples) /\ 1 \in 1..Archives  BY MetricsAssumption
  <2> QED BY <2>1, <2>2 DEF Init, MInit, MTypeOK
<1>3. RTypeOK
  <2>1. <<>> \in Seq(PendingLines) /\ Len(<<>>) <= 1  OBVIOUS
  <2>2. pending \in [Keys -> Seq(PendingLines)] /\ \A k \in Keys : Len(pending[k]) <= 1  BY <1>1, <2>1
  <2>3. <<>> \in Seq(HistoryLines)  OBVIOUS
  <2>4. history \in [Days -> [lines : Seq(HistoryLines), torn : BOOLEAN]]  BY <1>1, <2>3
  <2>5. buckets \in [Keys -> SUBSET Observations] /\ flushed \in [Keys -> SUBSET Observations]  BY <1>1
  <2> QED BY <1>1, <2>2, <2>4, <2>5 DEF RTypeOK
<1>4. TypeOK
  <2>1. 0 \in 0..MaxFailures /\ 0 \in 0..MaxCrashes  BY AttributionAssumption
  <2> QED BY <1>1, <1>2, <1>3, <2>1 DEF TypeOK
<1>5. NothingVanishes  BY <1>1 DEF NothingVanishes
<1>6. Lines = {}
  <2>1. \A d \in Days : ToSet(history[d].lines) = {}  BY <1>1 DEF ToSet
  <2> QED BY <2>1 DEF Lines
<1>7. \A k \in Keys : ~Waits(k) /\ Delta(k) = {}  BY <1>1 DEF Waits, Delta
<1>8. Owned /\ Durable  BY <1>1 DEF Owned, Durable
<1>9. PendingIsDelta /\ IdsDiffer /\ OnlyCopies  BY <1>6, <1>7 DEF PendingIsDelta, IdsDiffer, OnlyCopies
<1>10. OneIdentity /\ Known  BY <1>1, <1>6 DEF OneIdentity, Known
<1>11. Flushing  BY <1>1, <1>7 DEF Flushing
<1> QED BY <1>4, <1>5, <1>8, <1>9, <1>10, <1>11 DEF IInv, History

\* What recorded samples need of a step that records none.
LEMMA StillAccounted ==
  ASSUME NothingVanishes, Accounted \subseteq Accounted', recorded' = recorded
  PROVE  NothingVanishes'
<1>1. recorded \subseteq Accounted  BY DEF NothingVanishes, Accounted
<1>2. recorded' \subseteq Accounted'  BY <1>1
<1> QED BY <1>2 DEF NothingVanishes, Accounted

LEMMA RawLogRests ==
  ASSUME MTypeOK, UNCHANGED mvars
  PROVE  MTypeOK' /\ Accounted \subseteq Accounted'
<1>1. MTypeOK'  BY DEF MTypeOK, mvars
<1>2. Stored' = Stored  BY DEF mvars, Stored, Kept, Decoded, ToSet
<1> QED BY <1>1, <1>2, AccountedIs DEF mvars

LEMMA RecordIInv == ASSUME IInv, NEW s \in Samples, Record(s) PROVE IInv'
<1>1. /\ s \notin recorded /\ recorded' = recorded \cup {s} /\ failures' = failures /\ crashes' = crashes
      /\ Enqueue(s) /\ Observes(s, Attribution[s].day, Attribution[s].session)
  BY DEF Record
<1>2. s \in Observations /\ Attribution[s].day \in Days /\ Attribution[s].session \in Sessions
  BY AttributionAssumption
<1>3. MTypeOK /\ RTypeOK /\ History /\ recorded \subseteq Samples /\ failures \in 0..MaxFailures /\ crashes \in 0..MaxCrashes
  BY DEF IInv, TypeOK
<1>4. MTypeOK' /\ Accounted \subseteq Accounted' /\ s \in Accounted'  BY <1>1, <1>3, EnqueueKeeps
<1>5. RTypeOK' /\ History'  BY <1>1, <1>2, <1>3, ObservesKeeps
<1>6. TypeOK'  BY <1>1, <1>3, <1>4, <1>5 DEF TypeOK
<1>7. recorded' \subseteq Accounted'  BY <1>1, <1>4 DEF IInv, NothingVanishes, Accounted
<1>8. NothingVanishes'  BY <1>7 DEF NothingVanishes, Accounted
<1> QED BY <1>5, <1>6, <1>8 DEF IInv

LEMMA MetricsIInv == ASSUME IInv, Metrics \/ MetricsFail PROVE IInv'
<1>1. /\ recorded' = recorded /\ crashes' = crashes /\ failures' \in 0..MaxFailures
      /\ UNCHANGED rvars /\ (MetricsStep \/ MetricsFails)
  BY AttributionAssumption DEF Metrics, MetricsFail, MetricsStep, MetricsFails, Quiet, Failure, IInv, TypeOK
<1>2. MTypeOK /\ RTypeOK /\ History /\ recorded \subseteq Samples /\ crashes \in 0..MaxCrashes
  BY DEF IInv, TypeOK
<1>3. MTypeOK' /\ Accounted \subseteq Accounted'  BY <1>1, <1>2, MetricsKeep
<1>4. RTypeOK' /\ History'  BY <1>1, <1>2, RollupsRest
<1>5. NothingVanishes'  BY <1>1, <1>3, StillAccounted DEF IInv
<1>6. TypeOK'  BY <1>1, <1>2, <1>3, <1>4 DEF TypeOK
<1> QED BY <1>4, <1>5, <1>6 DEF IInv

LEMMA RollupsIInv == ASSUME IInv, RollupFlush \/ RollupsFail \/ RollupsClose PROVE IInv'
<1>1. recorded' = recorded /\ crashes' = crashes /\ failures' \in 0..MaxFailures /\ UNCHANGED mvars
  BY AttributionAssumption DEF RollupFlush, RollupsFail, RollupsClose, Quiet, Failure, IInv, TypeOK
<1>2. MTypeOK /\ RTypeOK /\ History /\ recorded \subseteq Samples /\ crashes \in 0..MaxCrashes
  BY DEF IInv, TypeOK
<1>3. MTypeOK' /\ Accounted \subseteq Accounted'  BY <1>1, <1>2, RawLogRests
<1>4. RTypeOK' /\ History'
  <2>1. CASE Snapshot  BY <1>1, <1>2, <2>1, SnapshotKeeps
  <2>2. CASE \E k \in batch : AppendOk(k)  BY <1>1, <1>2, <2>2, AppendOkKeeps
  <2>3. CASE Flushed \/ RClose  BY <1>1, <1>2, <2>3, FlushedKeeps
  <2>4. CASE \E k \in batch : \E f \in Unappended(k) : AppendFails(k, f)
    <3>1. PICK k \in batch : \E f \in Unappended(k) : AppendFails(k, f)  BY <2>4
    <3>2. PICK f \in Unappended(k) : AppendFails(k, f)  BY <3>1
    <3> QED BY <1>1, <1>2, <3>2, AppendFailsKeeps
  <2> QED BY <2>1, <2>2, <2>3, <2>4 DEF RollupFlush, RollupsFail, RollupsClose
<1>5. NothingVanishes'  BY <1>1, <1>3, StillAccounted DEF IInv
<1>6. TypeOK'  BY <1>1, <1>2, <1>3, <1>4 DEF TypeOK
<1> QED BY <1>4, <1>5, <1>6 DEF IInv

LEMMA CrashIInv == ASSUME IInv, Crash PROVE IInv'
<1>1. recorded' = recorded /\ failures' = failures /\ crashes' \in 0..MaxCrashes /\ MetricsCrash
  BY AttributionAssumption DEF Crash, MetricsCrash, IInv, TypeOK
<1>2. PICK k \in Keys : \E f \in {history[k.day]} \cup (IF k \in batch THEN Unappended(k) ELSE {}) : RCrash(k, f)
  BY DEF Crash
<1>3. MTypeOK /\ RTypeOK /\ History /\ recorded \subseteq Samples /\ failures \in 0..MaxFailures
  BY DEF IInv, TypeOK
<1>4. MTypeOK' /\ Accounted \subseteq Accounted'  BY <1>1, <1>3, MetricsKeep
<1>5. RTypeOK' /\ History'  BY <1>1, <1>2, <1>3, CrashKeeps
<1>6. NothingVanishes'  BY <1>1, <1>4, StillAccounted DEF IInv
<1>7. TypeOK'  BY <1>1, <1>3, <1>4, <1>5 DEF TypeOK
<1> QED BY <1>5, <1>6, <1>7 DEF IInv

LEMMA RestIInv == ASSUME IInv, UNCHANGED vars PROVE IInv'
<1>1. UNCHANGED mvars /\ UNCHANGED rvars /\ recorded' = recorded /\ failures' = failures /\ crashes' = crashes
  BY DEF vars
<1>2. MTypeOK /\ RTypeOK /\ History /\ recorded \subseteq Samples
      /\ failures \in 0..MaxFailures /\ crashes \in 0..MaxCrashes
  BY DEF IInv, TypeOK
<1>3. MTypeOK' /\ Accounted \subseteq Accounted'  BY <1>1, <1>2, RawLogRests
<1>4. RTypeOK' /\ History'  BY <1>1, <1>2, RollupsRest
<1>5. NothingVanishes'  BY <1>1, <1>3, StillAccounted DEF IInv
<1>6. TypeOK'  BY <1>1, <1>2, <1>3, <1>4 DEF TypeOK
<1> QED BY <1>4, <1>5, <1>6 DEF IInv

LEMMA NextIInv == ASSUME IInv, [Next]_vars PROVE IInv'
<1>1. CASE \E s \in Samples : Record(s)  BY <1>1, RecordIInv
<1>2. CASE Metrics \/ MetricsFail  BY <1>2, MetricsIInv
<1>3. CASE RollupFlush \/ RollupsFail \/ RollupsClose  BY <1>3, RollupsIInv
<1>4. CASE Crash  BY <1>4, CrashIInv
<1>5. CASE Ended \/ UNCHANGED vars  BY <1>5, RestIInv DEF Ended
<1> QED BY <1>1, <1>2, <1>3, <1>4, <1>5 DEF Next

LEMMA SpecIInv == Spec => []IInv
BY InitIInv, NextIInv, PTL DEF Spec

\* Every variable of both stores keeps its type: among them, one line waits
\* per bucket at most and there is never an archive too many.
THEOREM TypeCorrect == Spec => []TypeOK
<1>1. IInv => TypeOK  BY DEF IInv
<1> QED BY <1>1, SpecIInv, PTL

\* Every sample record() took is in a file, waits, was counted as dropped, or
\* fell to a crash, to half a line or to the age of its archive, whatever
\* fails and whenever the process dies.
THEOREM NoSampleVanishes == Spec => []NothingVanishes
<1>1. IInv => NothingVanishes  BY DEF IInv
<1> QED BY <1>1, SpecIInv, PTL
-----------------------------------------------------------------------------
(* How often an observation is counted *)

\* The identities of the lines that count o are one, if there is a line.
LEMMA OneIdCounts ==
  ASSUME NEW L, NEW o, \A l, m \in L : o \in l.delta /\ o \in m.delta => l.id = m.id
  PROVE  Cardinality({l.id : l \in {l \in L : o \in l.delta}}) = IF \E l \in L : o \in l.delta THEN 1 ELSE 0
<1> DEFINE ids == {l.id : l \in {l \in L : o \in l.delta}}
<1>1. CASE ~\E l \in L : o \in l.delta
  <2>1. ids = {}  BY <1>1
  <2>2. Cardinality(ids) = 0  BY <2>1, FS_EmptySet
  <2> QED BY <1>1, <2>2
<1>2. CASE \E l \in L : o \in l.delta
  <2>1. PICK l \in L : o \in l.delta  BY <1>2
  <2>2. ids = {l.id}  BY <2>1
  <2>3. Cardinality(ids) = 1  BY <2>2, FS_Singleton
  <2> QED BY <1>2, <2>3
<1> QED BY <1>1, <1>2

LEMMA CountedIs ==
  ASSUME OneIdentity
  PROVE  \A o : Counted(o) = IF \E l \in Lines : o \in l.delta THEN 1 ELSE 0
<1> SUFFICES ASSUME NEW o PROVE Counted(o) = IF \E l \in Lines : o \in l.delta THEN 1 ELSE 0
  OBVIOUS
<1>1. \A l, m \in Lines : o \in l.delta /\ o \in m.delta => l.id = m.id  BY DEF OneIdentity
<1> QED BY <1>1, OneIdCounts DEF Counted

LEMMA CountedIsNext ==
  ASSUME OneIdentity'
  PROVE  \A o : Counted(o)' = IF \E l \in Lines' : o \in l.delta THEN 1 ELSE 0
<1> SUFFICES ASSUME NEW CONSTANT o PROVE Counted(o)' = IF \E l \in Lines' : o \in l.delta THEN 1 ELSE 0
  OBVIOUS
<1>1. \A l, m \in Lines' : o \in l.delta /\ o \in m.delta => l.id = m.id  BY DEF OneIdentity
<1>2. Counted(o)' = Cardinality({l.id : l \in {l \in Lines' : o \in l.delta}})  BY DEF Counted
<1> DEFINE L == Lines'
<1> HIDE DEF L
<1>3. Cardinality({l.id : l \in {l \in L : o \in l.delta}}) = IF \E l \in L : o \in l.delta THEN 1 ELSE 0
  BY <1>1, OneIdCounts DEF L
<1> QED BY <1>2, <1>3 DEF L

\* An instance that ends with close() after appends that all worked leaves
\* nothing it observed uncounted, also what arrived during its last flush.
THEOREM CleanCloseCounts == Spec => []CleanCloseCountsAll
<1>1. IInv => CleanCloseCountsAll
  <2> SUFFICES ASSUME IInv, closing = "done", ~flushing, ~failed, NEW o \in observed \ gone PROVE Counted(o) = 1
    BY DEF CleanCloseCountsAll
  <2>1. \A k \in Keys : Delta(k) = {}  BY DEF IInv, History, Flushing
  <2>2. \E l \in Lines : o \in l.delta
    <3>1. CASE \E k \in Keys : o \in buckets[k]
      <4>1. PICK k \in Keys : o \in flushed[k]  BY <2>1, <3>1 DEF Delta
      <4> QED BY <4>1 DEF IInv, History, Durable
    <3> QED BY <3>1 DEF IInv, History, Known
  <2> QED BY <2>2, CountedIs DEF IInv, History
<1> QED BY <1>1, SpecIInv, PTL
-----------------------------------------------------------------------------
(* The rollups implement CountedOnce *)

counts == [o \in Observations |-> Counted(o)]

LEMMA InitPromise == Init => Promise!Init
<1> SUFFICES ASSUME Init PROVE Promise!Init
  OBVIOUS
<1>1. observed = {} /\ gone = {}  BY DEF Init, RInit
<1>2. \A d \in Days : ToSet(history[d].lines) = {}  BY DEF Init, RInit, ToSet
<1>3. Lines = {}  BY <1>2 DEF Lines
<1>4. OneIdentity  BY <1>3 DEF OneIdentity
<1>5. \A o : Counted(o) = 0  BY <1>3, <1>4, CountedIs
<1> QED BY <1>1, <1>5 DEF Promise!Init

\* A step that leaves the files alone counts nothing.
LEMMA NothingCounted ==
  ASSUME OneIdentity, OneIdentity', Lines' = Lines
  PROVE  counts' = counts
<1>1. \A o : Counted(o)' = Counted(o)  BY CountedIs, CountedIsNext
<1> QED BY <1>1 DEF counts

\* Appending the line of a bucket counts what no line counted, once.
LEMMA LineCounts ==
  ASSUME IInv, OneIdentity', NEW k \in Keys, Waits(k), Line(k).delta \subseteq Delta(k),
         Lines' = Lines \/ Lines' = Lines \cup {Line(k)}
  PROVE  \E S \in SUBSET (observed \ gone) :
           /\ \A o \in S : counts[o] = 0
           /\ counts' = [o \in Observations |-> IF o \in S THEN 1 ELSE counts[o]]
<1> DEFINE In(o) == \E l \in Lines : o \in l.delta
           In1(o) == \E l \in Lines' : o \in l.delta
           S == {o \in observed \ gone : In1(o) /\ ~In(o)}
<1>1. RTypeOK /\ OneIdentity /\ History  BY DEF IInv, TypeOK, History
<1>2. \A o : Counted(o) = IF In(o) THEN 1 ELSE 0  BY <1>1, CountedIs
<1>3. \A o : Counted(o)' = IF In1(o) THEN 1 ELSE 0  BY CountedIsNext
<1>4. \A o : In(o) => In1(o)  OBVIOUS
<1>5. \A o : In1(o) /\ ~In(o) => o \in observed \ gone
  <2>1. Line(k).delta \subseteq observed \ gone  BY <1>1, LineJoins
  <2> QED BY <2>1
<1> HIDE DEF In, In1
<1>6. observed \subseteq Observations  BY <1>1 DEF RTypeOK
<1>7. \A o \in S : counts[o] = 0  BY <1>2, <1>6 DEF counts
<1>8. \A o \in Observations : Counted(o)' = IF o \in S THEN 1 ELSE Counted(o)  BY <1>2, <1>3, <1>4, <1>5
<1> HIDE DEF S
<1>9. counts' = [o \in Observations |-> IF o \in S THEN 1 ELSE counts[o]]  BY <1>8 DEF counts
<1>10. S \in SUBSET (observed \ gone)  BY DEF S
<1> QED BY <1>7, <1>9, <1>10

LEMMA PromiseSteps ==
  /\ Promise!Observe <=> \E o \in Observations \ observed :
       observed' = observed \cup {o} /\ counts' = counts /\ gone' = gone
  /\ Promise!Count <=> \E S \in SUBSET (observed \ gone) :
       /\ \A o \in S : counts[o] = 0
       /\ counts' = [o \in Observations |-> IF o \in S THEN 1 ELSE counts[o]]
       /\ observed' = observed /\ gone' = gone
  /\ Promise!Crash <=> \E S \in SUBSET (observed \ gone) :
       /\ \A o \in S : counts[o] = 0
       /\ counts' = [o \in Observations |-> IF o \in S THEN 1 ELSE counts[o]]
       /\ gone' = {o \in observed : counts'[o] = 0}
       /\ observed' = observed
BY DEF Promise!Observe, Promise!Count, Promise!Crash, counts

LEMMA CrashCounts == ASSUME IInv, Crash PROVE Promise!Crash
<1>1. PICK k \in Keys : \E f \in {history[k.day]} \cup (IF k \in batch THEN Unappended(k) ELSE {}) : RCrash(k, f)
  BY DEF Crash
<1>2. IInv' /\ RTypeOK /\ History /\ recorded' = recorded  BY CrashIInv DEF IInv, TypeOK, Crash
<1>3. /\ Lines' = Lines \/ (Waits(k) /\ Lines' = Lines \cup {Line(k)} /\ Line(k).delta \subseteq Delta(k))
      /\ observed' = observed /\ gone' = gone \cup {o \in observed : ~\E l \in Lines' : o \in l.delta}
  BY <1>1, <1>2, CrashKeeps
<1>4. OneIdentity /\ OneIdentity'  BY <1>2 DEF IInv, History
<1>5. \E S \in SUBSET (observed \ gone) :
        /\ \A o \in S : counts[o] = 0
        /\ counts' = [o \in Observations |-> IF o \in S THEN 1 ELSE counts[o]]
  <2>1. CASE Lines' = Lines
    <3>1. counts' = counts  BY <1>4, <2>1, NothingCounted
    <3>2. counts' = [o \in Observations |-> IF o \in {} THEN 1 ELSE counts[o]]  BY <3>1 DEF counts
    <3> WITNESS {} \in SUBSET (observed \ gone)
    <3> QED BY <3>2
  <2>2. CASE Lines' # Lines  BY <1>3, <1>4, <2>2, LineCounts
  <2> QED BY <2>1, <2>2
<1>6. gone' = {o \in observed : counts'[o] = 0}
  <2>1. \A o : Counted(o)' = IF \E l \in Lines' : o \in l.delta THEN 1 ELSE 0  BY <1>4, CountedIsNext
  <2>2. observed \subseteq Observations  BY <1>2 DEF RTypeOK
  <2>3. \A o \in observed : counts'[o] = IF \E l \in Lines' : o \in l.delta THEN 1 ELSE 0
    BY <2>1, <2>2 DEF counts
  <2>4. \A o \in gone : o \in observed /\ ~\E l \in Lines' : o \in l.delta
    BY <1>2, <1>3 DEF IInv, History, Owned, OneIdentity
  <2> QED BY <1>3, <2>3, <2>4
<1> QED BY <1>3, <1>5, <1>6, PromiseSteps

\* Only an observation, an append and a crash are steps of the promise.
LEMMA StepPromise ==
  ASSUME IInv, [Next]_vars
  PROVE  [Promise!Next]_<<observed, counts, gone>>
<1>1. IInv'  BY NextIInv
<1>2. OneIdentity /\ OneIdentity' /\ RTypeOK /\ History  BY <1>1 DEF IInv, TypeOK, History
<1>3. CASE \E s \in Samples : Record(s)
  <2>1. PICK s \in Samples : Record(s)  BY <1>3
  <2>2. Observes(s, Attribution[s].day, Attribution[s].session) /\ s \notin recorded  BY <2>1 DEF Record
  <2>3. Lines' = Lines  BY <2>2, SameLines DEF Observes
  <2>4. counts' = counts  BY <1>2, <2>3, NothingCounted
  <2>5. s \in Observations \ observed  BY <1>2, <2>2, AttributionAssumption DEF History, Owned
  <2>6. gone' = gone /\ (observed' = observed \/ observed' = observed \cup {s})  BY <2>2 DEF Observes
  <2>7. CASE observed' = observed  BY <2>4, <2>6, <2>7
  <2>8. CASE observed' = observed \cup {s}  BY <2>4, <2>5, <2>6, <2>8, PromiseSteps DEF Promise!Next
  <2> QED BY <2>6, <2>7, <2>8
<1>4. CASE Metrics \/ MetricsFail \/ Ended \/ UNCHANGED vars
  <2>1. UNCHANGED rvars  BY <1>4 DEF Metrics, MetricsFail, Ended, vars
  <2>2. Lines' = Lines /\ observed' = observed /\ gone' = gone  BY <2>1, SameLines DEF rvars
  <2>3. counts' = counts  BY <1>2, <2>2, NothingCounted
  <2> QED BY <2>2, <2>3
<1>5. CASE RollupFlush \/ RollupsFail \/ RollupsClose
  <2>1. recorded' = recorded  BY <1>5 DEF RollupFlush, RollupsFail, RollupsClose, Quiet, Failure
  <2>2. CASE Snapshot \/ Flushed \/ RClose
    <3>1. history' = history /\ observed' = observed /\ gone' = gone  BY <2>2 DEF Snapshot, Flushed, RClose
    <3>2. counts' = counts  BY <1>2, <3>1, SameLines, NothingCounted
    <3> QED BY <3>1, <3>2
  <2>3. ASSUME NEW k \in batch,
               /\ Lines' = Lines \/ Lines' = Lines \cup {Line(k)}
               /\ Line(k).delta \subseteq Delta(k) /\ observed' = observed /\ gone' = gone
        PROVE  Promise!Count
    <3>1. k \in Keys /\ Waits(k)  BY <1>2 DEF RTypeOK, History, Flushing
    <3>2. \E S \in SUBSET (observed \ gone) :
            /\ \A o \in S : counts[o] = 0
            /\ counts' = [o \in Observations |-> IF o \in S THEN 1 ELSE counts[o]]
      BY <1>2, <2>3, <3>1, LineCounts
    <3> QED BY <2>3, <3>2, PromiseSteps
  <2>4. CASE \E k \in batch : AppendOk(k)
    <3>1. PICK k \in batch : AppendOk(k)  BY <2>4
    <3>2. Promise!Count  BY <1>2, <2>1, <2>3, <3>1, AppendOkKeeps
    <3> QED BY <3>2 DEF Promise!Next
  <2>5. CASE \E k \in batch : \E f \in Unappended(k) : AppendFails(k, f)
    <3>1. PICK k \in batch : \E f \in Unappended(k) : AppendFails(k, f)  BY <2>5
    <3>2. PICK f \in Unappended(k) : AppendFails(k, f)  BY <3>1
    <3>3. Promise!Count  BY <1>2, <2>1, <2>3, <3>2, AppendFailsKeeps
    <3> QED BY <3>3 DEF Promise!Next
  <2> QED BY <1>5, <2>2, <2>4, <2>5 DEF RollupFlush, RollupsFail, RollupsClose
<1>6. CASE Crash  BY <1>6, CrashCounts DEF Promise!Next
<1> QED BY <1>3, <1>4, <1>5, <1>6 DEF Next

\* The summed history is a correct count: a delta retried after an ambiguous
\* failure, a torn line or a restart is counted once, what was counted stays
\* counted, and only a crash takes an observation.
THEOREM CountsEveryObservationOnce == Spec => CountsOnce
<1>1. IInv /\ [Next]_vars => [Promise!Next]_<<observed, counts, gone>>  BY StepPromise
<1> QED BY <1>1, InitPromise, SpecIInv, PTL DEF Spec, CountsOnce, Promise!Spec, counts

------------------------------------------------------------------------------
(***************************************************************************)
(* Proofs about FableQuota, for any requests, interval, block times and    *)
(* horizon: probes of a rejected model are rare and one at a time, and only*)
(* later evidence lifts its block.                                         *)
(*                                                                         *)
(* Invariant (FableInv): the record notes a rejection at once, and its one *)
(* lease is out exactly to the request that will return it.                *)
(***************************************************************************)

\* The record's failure is never older than the latest rejection, and the
\* lease that is out belongs to one request.
OneProbe ==
  /\ rejectedAt <= model.lastFailure
  /\ \A r \in Requests : lease[r] => model.inFlight
  /\ \A r, s \in Requests : lease[r] /\ lease[s] => r = s

FableInv == FableTypeOK /\ OneProbe

\* An instant and a duration make a deadline.
LEMMA DeadlineIsNat == ASSUME NEW t \in Nat, NEW d \in Nat PROVE t + d \in Nat
OBVIOUS

\* A new process has seen no rejection and no probe.
LEMMA InitFableInv == ASSUME FableInit PROVE FableInv
<1>1. 0 \in Instants /\ 1 \in Instants \ {0}
  BY FableQuotaAssumption DEF Instants
<1>2. account \in Accounts /\ model \in Models
  BY <1>1 DEF FableInit, Accounts, Models
<1> QED BY <1>1, <1>2 DEF FableInit, FableInv, FableTypeOK, OneProbe, Steps

\* The clock never goes back and stays within its horizon.
LEMMA ClockIsTyped ==
  ASSUME FableInv, Advance
  PROVE  now' \in Instants \ {0} /\ now <= now'
BY FableQuotaAssumption DEF FableInv, FableTypeOK, Advance, Instants

\* A request goes on, or is forgotten, within the types.
LEMMA GoesTypes ==
  ASSUME FableInv, NEW r \in Requests, NEW next \in Steps, Goes(r, next)
  PROVE  /\ pc' \in [Requests -> Steps]
         /\ fable' \in [Requests -> BOOLEAN]
         /\ started' \in [Requests -> Instants]
<1>1. 0 \in Instants
  BY FableQuotaAssumption DEF Instants
<1>2. pc' \in [Requests -> Steps]
  BY DEF FableInv, FableTypeOK, Goes
<1>3. fable' = fable \/ fable' = [fable EXCEPT ![r] = FALSE]
  BY DEF Goes
<1>4. started' = started \/ started' = [started EXCEPT ![r] = 0]
  BY DEF Goes
<1> QED BY <1>1, <1>2, <1>3, <1>4 DEF FableInv, FableTypeOK

\* Each action keeps the invariant: the gate,
LEMMA CheckFableInv == ASSUME FableInv, NEW r \in Requests, Check(r) PROVE FableInv'
<1>1. now' \in Instants \ {0}
  BY ClockIsTyped DEF Check
<1>2. account' \in Accounts
  BY <1>1 DEF Check, ExpiredAccount, FableInv, FableTypeOK, Accounts
<1>3. PICK isFable \in BOOLEAN :
        /\ model' = IF isFable /\ account'.until = 0 THEN ExpiredModel(model, now') ELSE model
        /\ fable' = [fable EXCEPT ![r] = isFable]
  BY DEF Check
<1>4. /\ ExpiredModel(model, now') \in Models
      /\ ExpiredModel(model, now').lastFailure = model.lastFailure
      /\ ExpiredModel(model, now').inFlight = model.inFlight
  <2>1. 0 \in Instants /\ model \in Models
    BY FableQuotaAssumption DEF Instants, FableInv, FableTypeOK
  <2> QED BY <1>1, <2>1 DEF ExpiredModel, Unblocked, Models
<1>5. model' \in Models /\ model'.lastFailure = model.lastFailure /\ model'.inFlight = model.inFlight
  BY <1>3, <1>4 DEF FableInv, FableTypeOK
<1>6. pc' \in [Requests -> Steps] /\ fable' \in [Requests -> BOOLEAN]
  BY <1>3 DEF Check, FableInv, FableTypeOK, Steps
<1> QED BY <1>1, <1>2, <1>5, <1>6 DEF Check, FableInv, FableTypeOK, OneProbe

\* the request that is sent, with the lease if the probe was due,
LEMMA SendFableInv == ASSUME FableInv, NEW r \in Requests, Send(r) PROVE FableInv'
<1> DEFINE due == fable[r] /\ model.until > now' /\ Ready(account, model, now')
<1>1. now' \in Instants \ {0}
  BY ClockIsTyped DEF Send
<1>2. /\ lease' = [lease EXCEPT ![r] = due]
      /\ model' = IF due THEN Leased(model, now') ELSE model
      /\ UNCHANGED <<account, rejectedAt>>
  BY DEF Send
<1>3. /\ pc' \in [Requests -> Steps]
      /\ fable' \in [Requests -> BOOLEAN]
      /\ started' \in [Requests -> Instants]
  BY <1>1, GoesTypes DEF Send, FableInv, FableTypeOK, Steps
<1>4. Leased(model, now') \in Models /\ Leased(model, now').lastFailure = model.lastFailure
      /\ Leased(model, now').inFlight
  BY <1>1 DEF Leased, Models, FableInv, FableTypeOK
<1>5. due \in BOOLEAN /\ lease' \in [Requests -> BOOLEAN]
  BY <1>2 DEF FableInv, FableTypeOK, Ready
<1>6. CASE due
  <2>1. ~model.inFlight
    BY <1>6 DEF Ready
  <2>2. \A s \in Requests : ~lease[s]
    BY <2>1 DEF FableInv, OneProbe
  <2>3. OneProbe'
    BY <1>2, <1>4, <1>6, <2>2 DEF FableInv, FableTypeOK, OneProbe
  <2> QED BY <1>1, <1>2, <1>3, <1>4, <1>5, <1>6, <2>3 DEF FableInv, FableTypeOK
<1>7. CASE ~due
  <2>1. OneProbe'
    BY <1>2, <1>7 DEF FableInv, FableTypeOK, OneProbe
  <2> QED BY <1>1, <1>2, <1>3, <1>5, <1>7, <2>1 DEF FableInv, FableTypeOK
<1> QED BY <1>6, <1>7

\* the end of an attempt, which gives back what it had,
LEMMA ReleaseFableInv ==
  ASSUME FableInv, NEW r \in Requests, NEW next \in Steps, Release(r, next)
  PROVE  FableInv'
<1>1. Returned(model) \in Models /\ Returned(model).lastFailure = model.lastFailure
  BY DEF Returned, Models, FableInv, FableTypeOK
<1>2. /\ pc' \in [Requests -> Steps]
      /\ fable' \in [Requests -> BOOLEAN]
      /\ started' \in [Requests -> Instants]
  BY GoesTypes DEF Release
<1>3. lease' = [lease EXCEPT ![r] = FALSE] /\ lease' \in [Requests -> BOOLEAN]
  BY DEF Release, FableInv, FableTypeOK
<1>4. OneProbe'
  BY <1>1, <1>3 DEF Release, FableInv, FableTypeOK, OneProbe
<1> QED BY <1>1, <1>2, <1>3, <1>4 DEF Release, FableInv, FableTypeOK

\* the body of a rejection,
LEMMA RememberFableInv == ASSUME FableInv, NEW r \in Requests, Remember(r) PROVE FableInv'
<1>1. now' \in Instants \ {0}
  BY ClockIsTyped DEF Remember
<1>2. /\ pc' \in [Requests -> Steps]
      /\ fable' \in [Requests -> BOOLEAN]
      /\ started' \in [Requests -> Instants]
  BY GoesTypes DEF Remember, Steps
<1>3. account' \in Accounts
  <2>1. now' \in Nat /\ AccountTime \in Nat
    BY <1>1, FableQuotaAssumption DEF Instants
  <2>0. account \in Accounts
    BY DEF FableInv, FableTypeOK
  <2>2. CASE UNCHANGED account
    BY <2>0, <2>2
  <2>3. CASE account' = [account EXCEPT !.until = IF now' + AccountTime > @ THEN now' + AccountTime ELSE @,
                                        !.lastFailure = now', !.updated = now']
    <3> DEFINE u == IF now' + AccountTime > account.until THEN now' + AccountTime ELSE account.until
    <3>1. u \in Nat
      <4>1. now' + AccountTime \in Nat
        BY <2>1, DeadlineIsNat
      <4> QED BY <2>0, <4>1 DEF Accounts
    <3>2. account' = [account EXCEPT !.until = u, !.lastFailure = now', !.updated = now']
      BY <2>3
    <3> HIDE DEF u
    <3> QED BY <1>1, <2>0, <3>1, <3>2 DEF Accounts
  <2> QED BY <2>2, <2>3 DEF Remember
<1>4. /\ model' \in Models /\ model'.inFlight = model.inFlight
      /\ rejectedAt' \in Instants /\ rejectedAt' <= model'.lastFailure
  <2>1. CASE UNCHANGED <<model, rejectedAt>>
    BY <2>1 DEF FableInv, FableTypeOK, OneProbe
  <2>2. ASSUME NEW duration \in BlockTimes, model' = Marked(model, now', duration), rejectedAt' = now'
        PROVE  <1>4
    <3>1. duration \in Nat \ {0} /\ now' \in Nat
      BY <1>1, FableQuotaAssumption DEF Instants
    <3>2. model \in Models
      BY DEF FableInv, FableTypeOK
    <3> DEFINE u == now' + duration
    <3>4. u \in Nat
      BY <3>1, DeadlineIsNat
    <3>5. \/ model' = [model EXCEPT !.until = u, !.reason = "quota_or_rate_limit", !.lastFailure = now']
          \/ model' = [model EXCEPT !.lastFailure = now']
      BY <2>2 DEF Marked
    <3> HIDE DEF u
    <3>3. model' \in Models /\ model'.inFlight = model.inFlight /\ model'.lastFailure = now'
      BY <1>1, <3>2, <3>4, <3>5 DEF Models
    <3> QED BY <1>1, <2>2, <3>1, <3>3
  <2> QED BY <2>1, <2>2 DEF Remember
<1> QED BY <1>1, <1>2, <1>3, <1>4 DEF Remember, FableInv, FableTypeOK, OneProbe

\* the headers of an answer,
LEMMA ObserveFableInv == ASSUME FableInv, NEW r \in Requests, Observe(r) PROVE FableInv'
<1>1. now' \in Instants \ {0}
  BY ClockIsTyped DEF Observe
<1>2. /\ pc' \in [Requests -> Steps]
      /\ fable' \in [Requests -> BOOLEAN]
      /\ started' \in [Requests -> Instants]
  BY GoesTypes DEF Observe, Steps
<1>3. account' \in Accounts
  BY <1>1 DEF Observe, FableInv, FableTypeOK, Accounts
<1>4. /\ model' \in Models /\ model'.inFlight = model.inFlight
      /\ rejectedAt' \in Instants /\ rejectedAt' <= model'.lastFailure
  <2>1. CASE UNCHANGED <<model, rejectedAt>>
    BY <2>1 DEF FableInv, FableTypeOK, OneProbe
  <2>2. ASSUME NEW duration \in BlockTimes, model' = HeaderRejected(model, now', duration),
               rejectedAt' = now'
        PROVE  <1>4
    <3>1. duration \in Nat \ {0} /\ now' \in Nat
      BY <1>1, FableQuotaAssumption DEF Instants
    <3>2. model \in Models
      BY DEF FableInv, FableTypeOK
    <3> DEFINE u == now' + duration
    <3>4. u \in Nat
      BY <3>1, DeadlineIsNat
    <3>5. model' = [model EXCEPT !.until = u, !.reason = "fable_quota_rejected", !.lastFailure = now']
      BY <2>2 DEF HeaderRejected
    <3> HIDE DEF u
    <3>3. model' \in Models /\ model'.inFlight = model.inFlight /\ model'.lastFailure = now'
      BY <1>1, <3>2, <3>4, <3>5 DEF Models
    <3> QED BY <1>1, <2>2, <3>1, <3>3
  <2>3. CASE model' = Lifted(model, started[r]) /\ UNCHANGED rejectedAt
    BY <2>3 DEF Lifted, Unblocked, Models, FableInv, FableTypeOK, OneProbe
  <2> QED BY <2>1, <2>2, <2>3 DEF Observe
<1> QED BY <1>1, <1>2, <1>3, <1>4 DEF Observe, FableInv, FableTypeOK, OneProbe

\* a delivered answer,
LEMMA DeliverFableInv == ASSUME FableInv, NEW r \in Requests, Deliver(r) PROVE FableInv'
<1>1. now' \in Instants \ {0}
  BY ClockIsTyped DEF Deliver
<1>2. account' \in Accounts
  BY <1>1 DEF Deliver, FableInv, FableTypeOK, Accounts
<1>3. model' \in Models /\ model'.inFlight = model.inFlight /\ model'.lastFailure = model.lastFailure
  BY DEF Deliver, Lifted, Unblocked, Models, FableInv, FableTypeOK
<1>4. pc' \in [Requests -> Steps]
  BY DEF Deliver, FableInv, FableTypeOK, Steps
<1> QED BY <1>1, <1>2, <1>3, <1>4 DEF Deliver, FableInv, FableTypeOK, OneProbe

\* and what the rest of the gateway does to the account.
LEMMA AccountChangesFableInv == ASSUME FableInv, AccountChanges PROVE FableInv'
<1>1. now' \in Instants \ {0}
  BY ClockIsTyped DEF AccountChanges
<1>2. account' \in Accounts
  <2>1. now' \in Nat /\ AccountTime \in Nat /\ 0 \in Nat
    BY <1>1, FableQuotaAssumption DEF Instants
  <2>2. account \in Accounts
    BY DEF FableInv, FableTypeOK
  <2>3. CASE account' = [account EXCEPT !.until = now' + AccountTime, !.lastFailure = now', !.updated = now']
    <3> DEFINE u == now' + AccountTime
    <3>1. u \in Nat
      BY <2>1, DeadlineIsNat
    <3>2. account' = [account EXCEPT !.until = u, !.lastFailure = now', !.updated = now']
      BY <2>3
    <3> HIDE DEF u
    <3> QED BY <1>1, <2>2, <3>1, <3>2 DEF Accounts
  <2>4. CASE account' = [account EXCEPT !.until = 0, !.updated = now']
    BY <1>1, <2>2, <2>4 DEF Accounts
  <2> QED BY <2>3, <2>4 DEF AccountChanges
<1> QED BY <1>1, <1>2 DEF AccountChanges, FableInv, FableTypeOK, OneProbe

\* Every step keeps the invariant.
LEMMA NextFableInv == ASSUME FableInv, [FableNext]_fableVars PROVE FableInv'
<1>1. CASE UNCHANGED fableVars
  BY <1>1 DEF fableVars, FableInv, FableTypeOK, OneProbe
<1>2. ASSUME NEW r \in Requests, Ends(r) \/ QuotaBody(r) PROVE FableInv'
  BY <1>2, ReleaseFableInv, ObserveFableInv
     DEF Ends, QuotaBody, TransportError, Throttled, Close, Steps
<1>3. CASE FableNext
  BY <1>3, <1>2, CheckFableInv, SendFableInv, RememberFableInv, DeliverFableInv, AccountChangesFableInv
     DEF FableNext
<1> QED BY <1>1, <1>3

\* The invariant holds throughout.
LEMMA SpecFableInv == FableSpec => []FableInv
BY InitFableInv, NextFableInv, PTL DEF FableSpec

\* A blocked model is only asked for by a probe that is due and alone.
LEMMA ProbeStep ==
  ASSUME FableInv, [FableNext]_fableVars, NEW r \in Requests,
         pc[r] = "checked", pc'[r] = "sent", fable[r], now' < model.until
  PROVE  /\ now' - rejectedAt >= Interval
         /\ \A s \in Requests \ {r} : ~lease[s]
         /\ model.probeAt # 0 => now' - model.probeAt >= Interval
<1>1. Send(r)
  <2>1. ASSUME NEW s \in Requests, Check(s) \/ Ends(s) \/ QuotaBody(s) \/ Remember(s) \/ Deliver(s)
        PROVE  FALSE
    BY <2>1 DEF Check, Ends, QuotaBody, TransportError, Throttled, Close, Observe, Remember, Deliver,
                Release, Goes, FableInv, FableTypeOK
  <2>2. ASSUME NEW s \in Requests, Send(s)
        PROVE  s = r
    BY <2>2 DEF Send, Goes, FableInv, FableTypeOK
  <2>3. ~AccountChanges /\ ~UNCHANGED fableVars
    BY DEF AccountChanges, fableVars
  <2> QED BY <2>1, <2>2, <2>3 DEF FableNext
<1>2. Ready(account, model, now')
  BY <1>1 DEF Send, Goes, FableInv, FableTypeOK
<1>3. now' \in Instants
  BY <1>1, ClockIsTyped DEF Send
<1>4. rejectedAt \in Nat /\ model.lastFailure \in Nat /\ now' \in Nat /\ Interval \in Nat
  BY <1>3, FableQuotaAssumption DEF FableInv, FableTypeOK, Models, Instants
<1>5. now' - rejectedAt >= Interval
  <2>1. now' - model.lastFailure >= Interval
    BY <1>2 DEF Ready
  <2>2. rejectedAt <= model.lastFailure
    BY DEF FableInv, OneProbe
  <2> QED BY <1>4, <2>1, <2>2
<1>6. \A s \in Requests : ~lease[s]
  BY <1>2 DEF Ready, FableInv, OneProbe
<1> QED BY <1>2, <1>5, <1>6 DEF Ready

\* A block that still runs is only lifted by a request sent since the rejection.
LEMMA LiftStep ==
  ASSUME FableInv, [FableNext]_fableVars, model.until > now', model'.until = 0
  PROVE  \E r \in Requests : pc'[r] # pc[r] /\ started[r] >= rejectedAt
<1>1. now' \in Nat /\ model.until \in Nat /\ model.until # 0 /\ model \in Models
  BY NextFableInv, FableQuotaAssumption DEF FableInv, FableTypeOK, Models, Instants
<1>2. ASSUME NEW r \in Requests, Observe(r) \/ Deliver(r)
      PROVE  pc'[r] # pc[r] /\ started[r] >= rejectedAt
  <2>1. model' = Lifted(model, started[r])
    <3>1. ASSUME NEW duration \in BlockTimes, model' = HeaderRejected(model, now', duration)
          PROVE FALSE
      BY <3>1, <1>1, FableQuotaAssumption DEF HeaderRejected, Models
    <3> QED BY <1>1, <1>2, <3>1 DEF Observe, Deliver
  <2>2. model.lastFailure <= started[r]
    BY <2>1, <1>1 DEF Lifted
  <2>3. started[r] >= rejectedAt
    BY <2>2, FableQuotaAssumption DEF FableInv, FableTypeOK, OneProbe, Models, Instants
  <2> QED BY <1>2, <2>3 DEF Observe, Deliver, Goes, FableInv, FableTypeOK
<1>3. ASSUME NEW r \in Requests, Check(r) PROVE FALSE
  BY <1>3, <1>1 DEF Check, ExpiredModel
<1>4. ASSUME NEW r \in Requests, NEW next \in Steps, Release(r, next) PROVE FALSE
  BY <1>4, <1>1 DEF Release, Returned, Models
<1>5. ASSUME NEW r \in Requests, Send(r) PROVE FALSE
  BY <1>5, <1>1 DEF Send, Leased, Models
<1>6. ASSUME NEW r \in Requests, Remember(r) PROVE FALSE
  <2>1. ASSUME NEW duration \in BlockTimes, model' = Marked(model, now', duration) PROVE FALSE
    BY <2>1, <1>1, FableQuotaAssumption DEF Marked, Models
  <2> QED BY <1>6, <1>1, <2>1 DEF Remember
<1>7. ~AccountChanges /\ ~UNCHANGED fableVars
  BY <1>1 DEF AccountChanges, fableVars
<1> QED BY <1>2, <1>3, <1>4, <1>5, <1>6, <1>7
        DEF FableNext, Ends, QuotaBody, TransportError, Throttled, Close, Steps

\* The two blocks, the leases and the requests keep their types.
THEOREM FableTypeCorrect == FableSpec => []FableTypeOK
<1>1. FableInv => FableTypeOK
  BY DEF FableInv
<1> QED BY <1>1, SpecFableInv, PTL

\* ProbesAreRare for any requests, interval and block times: two requests that
\* find the probe due do not both send it, and the next one waits its interval.
THEOREM RevalidationIsRare == FableSpec => ProbesAreRare
<1>1. FableInv /\ [FableNext]_fableVars =>
        [\A r \in Requests :
           pc[r] = "checked" /\ pc'[r] = "sent" /\ fable[r] /\ now' < model.until =>
             /\ now' - rejectedAt >= Interval
             /\ \A s \in Requests \ {r} : ~lease[s]
             /\ model.probeAt # 0 => now' - model.probeAt >= Interval]_fableVars
  BY ProbeStep
<1> QED BY <1>1, SpecFableInv, PTL DEF FableSpec, ProbesAreRare

\* LiftedByLaterEvidence: an answer to a request sent before the latest
\* rejection does not lift the model's block.
THEOREM OldEvidenceLiftsNothing == FableSpec => LiftedByLaterEvidence
<1>1. FableInv /\ [FableNext]_fableVars =>
        [model.until > now' /\ model'.until = 0 =>
           \E r \in Requests : pc'[r] # pc[r] /\ started[r] >= rejectedAt]_fableVars
  BY LiftStep
<1> QED BY <1>1, SpecFableInv, PTL DEF FableSpec, LiftedByLaterEvidence
==============================================================================
