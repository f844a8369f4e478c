------------------------ MODULE ResponseStreamProofs ------------------------
(***************************************************************************)
(* Proofs about ResponseStream, for any events, chunks and frames an       *)
(* upstream sends, in any number and order, any priming policies and       *)
(* bounds: a client is told how its message ended, message_stop reaches it *)
(* only when the upstream ended its message and sent whole tool calls, a   *)
(* message cut short costs the leg its circuit, no body is left open, and  *)
(* what reaches the client is a well-formed stream.                        *)
(*                                                                         *)
(* The translator, the filter, the adapter and the client are folds over   *)
(* sequences.  A fold is a table over sets of indices (IsTable); read      *)
(* along 1..n it is a run (IsRun), over which a property of its steps      *)
(* carries by well-founded induction (Upto).                               *)
(*                                                                         *)
(* Invariant (IInv): what is still in the prefix or on the wire was        *)
(* claimed in the order it arrived (AnthropicClaims, TranslatedClaims);    *)
(* the filter and the client know the same of the message, and a terminal  *)
(* event the filter saw completed the client's message, was replaced by an *)
(* error the filter counts against the leg, or was the upstream's own      *)
(* error (Follows); a body copied as it is still holds, or has brought,    *)
(* its message_stop (CopiesWhole).  A client that has left is told         *)
(* nothing more, and nothing is claimed of it.                             *)
(* Besides, the translator's calls hold what was sent of them, counted     *)
(* apart as it came off the wire (Tallied).                                *)
(***************************************************************************)
EXTENDS ResponseStream, FiniteSetTheorems, SequenceTheorems, TLAPS

-----------------------------------------------------------------------------
(* Folds *)

\* The five operators the model folds over a sequence, by name.
Apply(kind, r, e) ==
  CASE kind = "client" -> Receive(r, e)
    [] kind = "filter" -> (IF r.f.failed THEN r ELSE LET n == Filtered(r.f, e) IN Out(n.f, r.out \o n.out))
    [] kind = "tool"   -> Then(r, ToolFragment(r.t, e))
    [] kind = "told"   -> Told(r, e)
    [] OTHER           -> Fragment(r, e)

\* The table FoldLeft computes: what it makes of the entries of s whose
\* indices are in a set.
IsTable(g, kind, b, s, A) ==
  g = [k \in SUBSET A |-> IF k = {} THEN b ELSE Apply(kind, g[k \ {Max(k)}], s[Max(k)])]

Table(kind, b, s, A) == CHOOSE g : IsTable(g, kind, b, s, A)

\* A run of the fold, entry by entry.
IsRun(g, kind, b, s) ==
  g[0] = b /\ \A n \in 1..Len(s) : g[n] = Apply(kind, g[n - 1], s[n])

ToolsFolded(r, s) == FoldLeft(LAMBDA x, f : Then(x, ToolFragment(x.t, f)), r, s)

IsSeq(s) == \E S : s \in Seq(S)

\* A set of numbers has a smallest member.
LEMMA NatMinimum ==
  ASSUME NEW T, T \subseteq Nat, T # {}
  PROVE  \E x \in T : \A y \in T : x <= y
<1>1. PICK x \in T : \A y \in T : <<y, x>> \notin OpToRel(<, Nat)
  BY NatLessThanWellFounded, WFMin
<1>2. ASSUME NEW y \in T PROVE x <= y
  <2>1. x \in Nat /\ y \in Nat  OBVIOUS
  <2>2. ~(y < x)  BY <1>1, <2>1 DEF OpToRel
  <2> QED BY <2>1, <2>2
<1> QED BY <1>2

\* Induction over the numbers up to n: a set with 0 and the successors of its
\* members has n.
LEMMA Upto ==
  ASSUME NEW n \in Nat, NEW N, 0 \in N, \A k \in 0..(n - 1) : k \in N => k + 1 \in N
  PROVE  n \in N
<1> DEFINE T == {k \in 0..n : k \notin N}
<1> SUFFICES ASSUME n \notin N PROVE FALSE
  OBVIOUS
<1>1. PICK k \in T : \A y \in T : k <= y
  <2> T \subseteq Nat /\ n \in T  OBVIOUS
  <2> HIDE DEF T
  <2> QED BY NatMinimum
<1>2. k # 0 /\ k \in 1..n  OBVIOUS
<1>3. k - 1 \notin T /\ k - 1 \in 0..(n - 1)  BY <1>1, <1>2
<1> QED BY <1>2, <1>3

\* A set of numbers up to n has a largest member.
LEMMA MaxOf ==
  ASSUME NEW n \in Nat, NEW k \in SUBSET (1..n), k # {}
  PROVE  Max(k) \in k /\ \A y \in k : Max(k) >= y
<1> DEFINE T == {n - x : x \in k}
<1>1. PICK m \in T : \A y \in T : m <= y
  <2>1. T \subseteq Nat  OBVIOUS
  <2>2. PICK x \in k : TRUE  OBVIOUS
  <2>3. n - x \in T  BY <2>2
  <2> HIDE DEF T
  <2> QED BY <2>1, <2>3, NatMinimum
<1>2. PICK x \in k : m = n - x  OBVIOUS
<1>3. ASSUME NEW y \in k PROVE x >= y
  <2>1. n - y \in T  OBVIOUS
  <2>2. n - x <= n - y  BY <1>1, <1>2, <2>1
  <2> QED BY <2>2
<1>4. \E z \in k : \A y \in k : z >= y  BY <1>3
<1> HIDE DEF T
<1> QED BY <1>4 DEF Max

\* Among sets of indices there is a minimal one.
LEMMA SubsetMinimum ==
  ASSUME NEW S, IsFiniteSet(S), NEW T, T \subseteq SUBSET S, T # {}
  PROVE  \E x \in T : \A y \in T : y \subseteq x => y = x
<1>1. IsWellFoundedOn(StrictSubsetOrdering(S), SUBSET S)
  BY FS_StrictSubsetOrderingWellFounded, FS_FiniteSubsetsOfFinite, Zenon
<1>2. PICK x \in T : \A y \in T : <<y, x>> \notin StrictSubsetOrdering(S)
  BY <1>1, WFMin, Zenon
<1>3. ASSUME NEW y \in T, y \subseteq x, y # x PROVE FALSE
  <2>1. <<y, x>> \in StrictSubsetOrdering(S)  BY <1>3 DEF StrictSubsetOrdering
  <2> QED BY <2>1, <1>2
<1> QED BY <1>3

\* A set without its greatest element is a strict subset.
LEMMA Smaller ==
  ASSUME NEW n \in Nat, NEW k \in SUBSET (1..n), k # {}
  PROVE  Max(k) \in k /\ k \ {Max(k)} \subseteq k /\ k \ {Max(k)} # k
BY MaxOf

\* Two tables say the same of a set both have.
LEMMA TablesAgree ==
  ASSUME NEW n \in Nat, NEW kind, NEW b, NEW s, NEW A \in SUBSET (1..n), NEW B \in SUBSET A,
         NEW g, NEW h, IsTable(g, kind, b, s, A), IsTable(h, kind, b, s, B)
  PROVE  \A k \in SUBSET B : g[k] = h[k]
<1> DEFINE T == {k \in SUBSET B : g[k] # h[k]}
<1> SUFFICES ASSUME T # {} PROVE FALSE
  OBVIOUS
<1>1. PICK k \in T : \A y \in T : y \subseteq k => y = k
  <2> DEFINE I == 1..n
  <2>1. T \subseteq SUBSET I  OBVIOUS
  <2>2. IsFiniteSet(I)  BY FS_Interval, 1 \in Int, n \in Int
  <2> HIDE DEF T, I
  <2> QED BY <2>1, <2>2, SubsetMinimum
<1> DEFINE r == k \ {Max(k)}
<1>2. k \in SUBSET A /\ k \in SUBSET B /\ k \in SUBSET (1..n) /\ g[k] # h[k]  OBVIOUS
<1>3. CASE k = {}  BY <1>2, <1>3 DEF IsTable
<1>4. CASE k # {}
  <2>1. r \subseteq k /\ r # k  BY <1>2, <1>4, Smaller
  <2>2. r \notin T /\ r \in SUBSET B  BY <1>1, <2>1
  <2>3. g[r] = h[r]  BY <2>2
  <2>4. g[k] = Apply(kind, g[r], s[Max(k)]) /\ h[k] = Apply(kind, h[r], s[Max(k)])
    BY <1>2, <1>4 DEF IsTable
  <2> QED BY <1>2, <2>3, <2>4
<1> QED BY <1>3, <1>4

\* Every set of indices has a table: it is made of those of its strict subsets.
LEMMA TableExists ==
  ASSUME NEW n \in Nat, NEW kind, NEW b, NEW s
  PROVE  \A A \in SUBSET (1..n) : IsTable(Table(kind, b, s, A), kind, b, s, A)
<1> DEFINE Tab(A) == Table(kind, b, s, A)
           Is(g, A) == IsTable(g, kind, b, s, A)
           T == {A \in SUBSET (1..n) : ~Is(Tab(A), A)}
<1> SUFFICES ASSUME T # {} PROVE FALSE
  OBVIOUS
<1>1. PICK A \in T : \A y \in T : y \subseteq A => y = A
  <2> DEFINE I == 1..n
  <2>1. T \subseteq SUBSET I  OBVIOUS
  <2>2. IsFiniteSet(I)  BY FS_Interval, 1 \in Int, n \in Int
  <2> HIDE DEF T, I
  <2> QED BY <2>1, <2>2, SubsetMinimum
<1>2. \A k \in SUBSET A : k # A => Is(Tab(k), k)
  <2> SUFFICES ASSUME NEW k \in SUBSET A, k # A PROVE Is(Tab(k), k)
    OBVIOUS
  <2> k \notin T /\ k \in SUBSET (1..n)  BY <1>1
  <2> QED OBVIOUS
<1> DEFINE rest(k) == k \ {Max(k)}
           g == [k \in SUBSET A |-> IF k = {} THEN b ELSE Apply(kind, Tab(rest(k))[rest(k)], s[Max(k)])]
<1>3. ASSUME NEW k \in SUBSET A, k # {} PROVE Tab(rest(k))[rest(k)] = g[rest(k)]
  <2> DEFINE t == rest(k)
  <2>1. t \in SUBSET A /\ t # A /\ t \in SUBSET (1..n)  BY <1>3, Smaller
  <2>2. Is(Tab(t), t)  BY <1>2, <2>1
  <2>3. CASE t = {}
    <3>1. Tab(t)[t] = b  BY <2>2, <2>3 DEF IsTable
    <3> QED BY <3>1, <2>3
  <2>4. CASE t # {}
    <3> DEFINE r == rest(t)
    <3>1. r \in SUBSET t /\ r \in SUBSET A /\ r # A  BY <2>1, <2>4, Smaller
    <3>2. Is(Tab(r), r)  BY <1>2, <3>1
    <3>3. Tab(t)[r] = Tab(r)[r]
      <4> HIDE DEF t, r
      <4>1. \A u \in SUBSET r : Tab(t)[u] = Tab(r)[u]  BY <2>1, <2>2, <3>1, <3>2, TablesAgree
      <4> QED BY <4>1
    <3>4. Tab(t)[t] = Apply(kind, Tab(t)[r], s[Max(t)])  BY <2>2, <2>4 DEF IsTable
    <3>5. g[t] = Apply(kind, Tab(r)[r], s[Max(t)])  BY <2>1, <2>4
    <3> QED BY <3>3, <3>4, <3>5
  <2> QED BY <2>3, <2>4
<1>4. Is(g, A)
  <2> g = [k \in SUBSET A |-> IF k = {} THEN b ELSE Apply(kind, g[rest(k)], s[Max(k)])]
    BY <1>3
  <2> QED BY DEF IsTable
<1>5. Is(Tab(A), A)  
  <2> HIDE DEF g
  <2>1. \E h : IsTable(h, kind, b, s, A)  BY <1>4
  <2> QED BY <2>1 DEF Table
<1> QED BY <1>1, <1>5

\* The table's entries for the first n indices are a run.
LEMMA RunOfTable ==
  ASSUME NEW kind, NEW b, NEW s, IsSeq(s), NEW g, IsTable(g, kind, b, s, DOMAIN s)
  PROVE  \E h : IsRun(h, kind, b, s) /\ g[DOMAIN s] = h[Len(s)]
<1> DEFINE N == Len(s)
           h == [n \in 0..N |-> g[1..n]]
<1>1. N \in Nat /\ DOMAIN s = 1..N  BY LenProperties DEF IsSeq
<1>2. h[0] = b
  <2> 1..0 = {}  OBVIOUS
  <2> QED BY <1>1 DEF IsTable
<1>3. ASSUME NEW n \in 1..N PROVE h[n] = Apply(kind, h[n - 1], s[n])
  <2> HIDE DEF N
  <2>5. N \in Nat  BY <1>1
  <2>6. n \in Nat /\ n >= 1 /\ n <= N  BY <2>5
  <2>7. 1 \in 1..n  BY <2>6
  <2>0. n \in Nat /\ 1..n # {} /\ n - 1 \in 0..N /\ n \in 0..N  BY <2>5, <2>6, <2>7
  <2>1. 1..n \in SUBSET (1..N)  BY <1>1
  <2>2. Max(1..n) = n
    <3>1. Max(1..n) \in 1..n /\ \A y \in 1..n : Max(1..n) >= y  BY <2>0, MaxOf
    <3> QED BY <3>1
  <2>3. (1..n) \ {n} = 1..(n - 1)  OBVIOUS
  <2>4. g[1..n] = Apply(kind, g[(1..n) \ {n}], s[n])  BY <1>1, <2>0, <2>1, <2>2 DEF IsTable
  <2> QED BY <2>0, <2>3, <2>4
<1>4. g[DOMAIN s] = h[N]  BY <1>1
<1> QED BY <1>2, <1>3, <1>4 DEF IsRun

\* Received, AllFiltered and the two folds over fragments are runs.
LEMMA ReceivedRuns ==
  ASSUME NEW c, NEW s, IsSeq(s)
  PROVE  \E h : IsRun(h, "client", c, s) /\ Received(c, s) = h[Len(s)]
<1> DEFINE A == DOMAIN s
           Is(g) == g = [k \in SUBSET A |-> IF k = {} THEN c ELSE Receive(g[k \ {Max(k)}], s[Max(k)])]
           iter == CHOOSE g : Is(g)
<1>1. Received(c, s) = iter[A]
  BY DEF Received, FoldLeft, MapThenFoldSet
<1>2. \E g : IsTable(g, "client", c, s, A)
  <2> PICK n \in Nat : A = 1..n  BY LenProperties DEF IsSeq
  <2> QED BY TableExists
<1>3. \A g : IsTable(g, "client", c, s, A) <=> Is(g)
  BY DEF IsTable, Apply
<1>4. IsTable(iter, "client", c, s, A)
  <2> HIDE DEF Is
  <2> QED BY <1>2, <1>3
<1> HIDE DEF iter
<1> QED BY <1>1, <1>4, RunOfTable

\* The filter's fold over a sequence of frames.
LEMMA FilteredRuns ==
  ASSUME NEW f, NEW s, IsSeq(s)
  PROVE  \E h : IsRun(h, "filter", Out(f, <<>>), s) /\ AllFiltered(f, s) = h[Len(s)]
<1> DEFINE A == DOMAIN s
           Is(g) == g = [k \in SUBSET A |-> IF k = {} THEN Out(f, <<>>) ELSE IF g[k \ {Max(k)}].f.failed THEN g[k \ {Max(k)}]
                           ELSE LET n == Filtered(g[k \ {Max(k)}].f, s[Max(k)]) IN Out(n.f, g[k \ {Max(k)}].out \o n.out)]
           iter == CHOOSE g : Is(g)
<1>1. AllFiltered(f, s) = iter[A]
  BY DEF AllFiltered, FoldLeft, MapThenFoldSet
<1>2. \E g : IsTable(g, "filter", Out(f, <<>>), s, A)
  <2> PICK n \in Nat : A = 1..n  BY LenProperties DEF IsSeq
  <2> QED BY TableExists
<1>3. \A g : IsTable(g, "filter", Out(f, <<>>), s, A) <=> Is(g)
  BY DEF IsTable, Apply
<1>4. IsTable(iter, "filter", Out(f, <<>>), s, A)
  <2> HIDE DEF Is
  <2> QED BY <1>2, <1>3
<1> HIDE DEF iter
<1> QED BY <1>1, <1>4, RunOfTable

\* The translator's fold over the tool calls of a chunk.
LEMMA ToolsRun ==
  ASSUME NEW r, NEW s, IsSeq(s)
  PROVE  \E h : IsRun(h, "tool", r, s) /\ ToolsFolded(r, s) = h[Len(s)]
<1> DEFINE A == DOMAIN s
           Is(g) == g = [k \in SUBSET A |-> IF k = {} THEN r ELSE Then(g[k \ {Max(k)}], ToolFragment(g[k \ {Max(k)}].t, s[Max(k)]))]
           iter == CHOOSE g : Is(g)
<1>1. ToolsFolded(r, s) = iter[A]
  BY DEF ToolsFolded, FoldLeft, MapThenFoldSet
<1>2. \E g : IsTable(g, "tool", r, s, A)
  <2> PICK n \in Nat : A = 1..n  BY LenProperties DEF IsSeq
  <2> QED BY TableExists
<1>3. \A g : IsTable(g, "tool", r, s, A) <=> Is(g)
  BY DEF IsTable, Apply
<1>4. IsTable(iter, "tool", r, s, A)
  <2> HIDE DEF Is
  <2> QED BY <1>2, <1>3
<1> HIDE DEF iter
<1> QED BY <1>1, <1>4, RunOfTable

\* The adapter's fold over the fragments of a frame.
LEMMA FragmentsRun ==
  ASSUME NEW r, NEW s, IsSeq(s)
  PROVE  \E h : IsRun(h, "fragment", r, s) /\ FoldLeft(Fragment, r, s) = h[Len(s)]
<1> DEFINE A == DOMAIN s
           Is(g) == g = [k \in SUBSET A |-> IF k = {} THEN r ELSE Fragment(g[k \ {Max(k)}], s[Max(k)])]
           iter == CHOOSE g : Is(g)
<1>1. FoldLeft(Fragment, r, s) = iter[A]
  BY DEF FoldLeft, MapThenFoldSet
<1>2. \E g : IsTable(g, "fragment", r, s, A)
  <2> PICK n \in Nat : A = 1..n  BY LenProperties DEF IsSeq
  <2> QED BY TableExists
<1>3. \A g : IsTable(g, "fragment", r, s, A) <=> Is(g)
  BY DEF IsTable, Apply
<1>4. IsTable(iter, "fragment", r, s, A)
  <2> HIDE DEF Is
  <2> QED BY <1>2, <1>3
<1> HIDE DEF iter
<1> QED BY <1>1, <1>4, RunOfTable

\* What the fragments of a chunk tell of their calls.
LEMMA ToldRun ==
  ASSUME NEW r, NEW s, IsSeq(s)
  PROVE  \E h : IsRun(h, "told", r, s) /\ FoldLeft(Told, r, s) = h[Len(s)]
<1> DEFINE A == DOMAIN s
           Is(g) == g = [k \in SUBSET A |-> IF k = {} THEN r ELSE Told(g[k \ {Max(k)}], s[Max(k)])]
           iter == CHOOSE g : Is(g)
<1>1. FoldLeft(Told, r, s) = iter[A]
  BY DEF FoldLeft, MapThenFoldSet
<1>2. \E g : IsTable(g, "told", r, s, A)
  <2> PICK n \in Nat : A = 1..n  BY LenProperties DEF IsSeq
  <2> QED BY TableExists
<1>3. \A g : IsTable(g, "told", r, s, A) <=> Is(g)
  BY DEF IsTable, Apply
<1>4. IsTable(iter, "told", r, s, A)
  <2> HIDE DEF Is
  <2> QED BY <1>2, <1>3
<1> HIDE DEF iter
<1> QED BY <1>1, <1>4, RunOfTable

\* The client after no event, and after one more.
LEMMA ReceivedNone ==
  ASSUME NEW c
  PROVE  Received(c, <<>>) = c
<1>1. IsSeq(<<>>)  BY EmptySeq DEF IsSeq
<1> QED BY <1>1, ReceivedRuns DEF IsRun

\* The filter after no frame.
LEMMA FilteredNone ==
  ASSUME NEW f
  PROVE  AllFiltered(f, <<>>) = Out(f, <<>>)
<1>1. IsSeq(<<>>)  BY EmptySeq DEF IsSeq
<1> QED BY <1>1, FilteredRuns DEF IsRun

\* The client after one event more.
LEMMA ReceivedMore ==
  ASSUME NEW c, NEW s, IsSeq(s), NEW e
  PROVE  /\ IsSeq(s \o <<e>>)
         /\ Received(c, s \o <<e>>) = Receive(Received(c, s), e)
<1> DEFINE t == s \o <<e>>
<1>1. PICK S : s \in Seq(S)  BY DEF IsSeq
<1>2. /\ t \in Seq(S \cup {e}) /\ Len(s) \in Nat /\ Len(t) = Len(s) + 1
      /\ \A i \in 1..Len(s) : t[i] = s[i]
      /\ t[Len(s) + 1] = e
  <2> s \in Seq(S \cup {e}) /\ <<e>> \in Seq(S \cup {e})  BY <1>1, SeqMonotonic
  <2> QED BY ConcatProperties, LenProperties
<1>3. IsSeq(t)  BY <1>2 DEF IsSeq
<1> HIDE DEF t
<1>4. PICK g : IsRun(g, "client", c, s) /\ Received(c, s) = g[Len(s)]  BY ReceivedRuns
<1>5. PICK h : IsRun(h, "client", c, t) /\ Received(c, t) = h[Len(t)]  BY <1>3, ReceivedRuns
<1> DEFINE N == {n \in 0..Len(s) : h[n] = g[n]}
<1>6. Len(s) \in N
  <2>1. 0 \in N  BY <1>2, <1>4, <1>5 DEF IsRun
  <2>2. ASSUME NEW k \in 0..(Len(s) - 1), k \in N PROVE k + 1 \in N
    <3>1. k + 1 \in 1..Len(s) /\ k + 1 \in 1..Len(t) /\ (k + 1) - 1 = k  BY <1>2
    <3>2. g[k + 1] = Apply("client", g[k], s[k + 1]) /\ h[k + 1] = Apply("client", h[k], t[k + 1])
      BY <1>4, <1>5, <3>1 DEF IsRun
    <3>3. h[k] = g[k] /\ t[k + 1] = s[k + 1]  BY <1>2, <2>2, <3>1
    <3> QED BY <3>1, <3>2, <3>3
  <2> HIDE DEF N
  <2> QED BY <1>2, <2>1, <2>2, Upto
<1>7. h[Len(t)] = Apply("client", h[Len(s)], e)
  <2> Len(t) \in 1..Len(t) /\ Len(t) - 1 = Len(s)  BY <1>2
  <2> QED BY <1>2, <1>5 DEF IsRun
<1>8. h[Len(t)] = Receive(g[Len(s)], e)  BY <1>6, <1>7 DEF Apply
<1> QED BY <1>3, <1>4, <1>5, <1>8 DEF t

\* The client after one event.
LEMMA ReceivedOne ==
  ASSUME NEW c, NEW e
  PROVE  IsSeq(<<e>>) /\ Received(c, <<e>>) = Receive(c, e)
<1>1. IsSeq(<<>>)  BY EmptySeq DEF IsSeq
<1>2. <<>> \o <<e>> = <<e>>  BY <<e>> \in Seq({e}), ConcatEmptySeq
<1>3. IsSeq(<<>> \o <<e>>) /\ Received(c, <<>> \o <<e>>) = Receive(Received(c, <<>>), e)
  BY <1>1, ReceivedMore
<1>4. Received(c, <<>>) = c  BY ReceivedNone
<1> QED BY <1>2, <1>3, <1>4

-----------------------------------------------------------------------------
(* The translator *)

Pieces == [tool : Tools, id : BOOLEAN, name : BOOLEAN, args : Nat]
Completions == [type : {"choices"}, text : BOOLEAN, finish : BOOLEAN, tools : Seq(Pieces)]

Calls == [seen : BOOLEAN, id : BOOLEAN, name : BOOLEAN, args : Nat, block : Int]
Translators == [started : BOOLEAN, ended : BOOLEAN, text : Int, next : Int,
                tools : [Tools -> Calls], order : Seq(Tools), finish : BOOLEAN, done : BOOLEAN]

\* What the translator writes before the end of a message.
Content == [type : BlockEvents \cup {"message_start"}, index : Int,
            kind : {"none", "text", "tool_use"}, reason : {"none"}]
Steps == [t : Translators, out : Seq(Content), failed : BOOLEAN]

\* A step that neither ends the message nor ends the stream.
Kept(t, u) == u.ended = t.ended /\ u.done = t.done /\ u.finish = t.finish

\* The events the translator writes while a message goes on.
LEMMA EventsTyped ==
  ASSUME NEW i \in Int
  PROVE  /\ Plain("message_start") \in Content
         /\ Event("content_block_start", i, "text") \in Content
         /\ Event("content_block_delta", i, "text") \in Content
         /\ Event("content_block_stop", i, "text") \in Content
         /\ Event("content_block_start", i, "tool_use") \in Content
         /\ Event("content_block_delta", i, "tool_use") \in Content
         /\ Event("content_block_stop", i, "tool_use") \in Content
BY DEF Plain, Event, Content, BlockEvents, NoBlock

\* The deltas of a tool call's arguments.
LEMMA DeltasTyped ==
  ASSUME NEW i \in Int, NEW n \in Nat
  PROVE  ArgumentDeltas(i, n) \in Seq(Content)
<1> DEFINE e == Event("content_block_delta", i, "tool_use")
<1>1. e \in Content  BY EventsTyped
<1>2. ArgumentDeltas(i, n) = [k \in 1..n |-> e]  BY DEF ArgumentDeltas
<1> HIDE DEF e
<1> QED BY <1>1, <1>2

\* message_start, once.
LEMMA OpenedTyped ==
  ASSUME NEW t \in Translators
  PROVE  Opened(t) \in Steps /\ Kept(t, Opened(t).t)
<1>1. <<>> \in Seq(Content) /\ <<Plain("message_start")>> \in Seq(Content)  BY EventsTyped, 0 \in Int
<1> QED BY <1>1 DEF Opened, Steps, Step, Kept, Translators

\* A piece of text.
LEMMA TextTyped ==
  ASSUME NEW t \in Translators
  PROVE  Text(t) \in Steps /\ Kept(t, Text(t).t)
<1> DEFINE i == IF t.text = NoBlock THEN t.next ELSE t.text
<1>1. i \in Int  BY DEF Translators
<1>2. /\ <<Event("content_block_delta", i, "text")>> \in Seq(Content)
      /\ <<Event("content_block_start", i, "text"), Event("content_block_delta", i, "text")>> \in Seq(Content)
  BY <1>1, EventsTyped
<1> HIDE DEF i
<1>3. Text(t) = IF t.text # NoBlock THEN Step(t, <<Event("content_block_delta", i, "text")>>, FALSE)
     ELSE Step([t EXCEPT !.text = i, !.next = @ + 1],
               <<Event("content_block_start", i, "text"), Event("content_block_delta", i, "text")>>, FALSE)
  BY DEF Text, i
<1> DEFINE u == [t EXCEPT !.text = i, !.next = @ + 1]
<1>4. u \in Translators /\ Kept(t, u)
  <2>1. t.next + 1 \in Int  BY DEF Translators
  <2>2. u \in Translators  BY <1>1, <2>1 DEF Translators
  <2>3. Kept(t, u)  BY DEF Translators, Kept
  <2> QED BY <2>2, <2>3
<1>5. Kept(t, t)  BY DEF Kept
<1> QED BY <1>2, <1>3, <1>4, <1>5 DEF Steps, Step

\* A fragment of a tool call, also one that breaks a bound.
LEMMA FragmentTyped ==
  ASSUME NEW t \in Translators, NEW c \in Pieces
  PROVE  ToolFragment(t, c) \in Steps /\ Kept(t, ToolFragment(t, c).t)
<1> DEFINE old == t.tools[c.tool]
           new == [old EXCEPT !.seen = TRUE, !.id = @ \/ c.id, !.name = @ \/ c.name, !.args = @ + c.args]
           kept == [t EXCEPT !.tools[c.tool] = new]
           begun == [kept EXCEPT !.tools[c.tool].block = t.next, !.next = @ + 1, !.text = NoBlock,
                                 !.order = Append(@, c.tool)]
           closeText == IF t.text = NoBlock THEN <<>> ELSE <<Event("content_block_stop", t.text, "text")>>
           few == ArgumentDeltas(old.block, IF c.args > 0 THEN 1 ELSE 0)
           many == closeText \o <<Event("content_block_start", t.next, "tool_use")>> \o ArgumentDeltas(t.next, new.args)
<1>1. c.tool \in Tools /\ c.args \in Nat /\ c.id \in BOOLEAN /\ c.name \in BOOLEAN  BY DEF Pieces
<1>2. old \in Calls /\ t.next \in Int /\ t.text \in Int /\ t.order \in Seq(Tools)  BY <1>1 DEF Translators
<1>3. new \in Calls /\ new.args \in Nat
  <2> DEFINE id == old.id \/ c.id
             name == old.name \/ c.name
  <2>1. id \in BOOLEAN /\ name \in BOOLEAN  OBVIOUS
  <2>2. old.args + c.args \in Nat  BY <1>1, <1>2 DEF Calls
  <2>3. new = [old EXCEPT !.seen = TRUE, !.id = id, !.name = name, !.args = @ + c.args]  OBVIOUS
  <2> HIDE DEF id, name, new, old
  <2> QED BY <1>2, <2>1, <2>2, <2>3 DEF Calls
<1>4. kept \in Translators /\ Kept(t, kept) /\ kept.tools[c.tool] = new
  <2> HIDE DEF new
  <2> QED BY <1>1, <1>3 DEF Translators, Kept
<1>5. begun \in Translators /\ Kept(t, begun)
  <2>1. [new EXCEPT !.block = t.next] \in Calls  BY <1>2, <1>3 DEF Calls
  <2>2. Append(kept.order, c.tool) \in Seq(Tools)  BY <1>1, <1>4 DEF Translators
  <2>3. begun = [kept EXCEPT !.tools = [kept.tools EXCEPT ![c.tool] = [new EXCEPT !.block = t.next]],
                             !.next = kept.next + 1, !.text = NoBlock, !.order = Append(kept.order, c.tool)]
    BY <1>4 DEF Translators
  <2> HIDE DEF begun, kept, new
  <2>4. [kept.tools EXCEPT ![c.tool] = [new EXCEPT !.block = t.next]] \in [Tools -> Calls]
    BY <2>1, <1>4 DEF Translators
  <2> DEFINE tools == [kept.tools EXCEPT ![c.tool] = [new EXCEPT !.block = t.next]]
             order == Append(kept.order, c.tool)
             next == kept.next + 1
  <2>5. next \in Int /\ NoBlock \in Int  BY <1>4 DEF Translators, NoBlock
  <2>6. begun = [kept EXCEPT !.tools = tools, !.next = next, !.text = NoBlock, !.order = order]  BY <2>3
  <2>7. tools \in [Tools -> Calls] /\ order \in Seq(Tools)  BY <2>2, <2>4
  <2> HIDE DEF tools, order, next
  <2>8. begun \in Translators  BY <1>4, <2>5, <2>6, <2>7 DEF Translators
  <2>9. Kept(kept, begun)  BY <1>4, <2>6 DEF Translators, Kept
  <2> QED BY <1>4, <2>8, <2>9 DEF Kept
<1>6. few \in Seq(Content)  BY <1>2, DeltasTyped DEF Calls
<1>7. many \in Seq(Content)
  <2>1. closeText \in Seq(Content)  BY <1>2, EventsTyped
  <2>2. <<Event("content_block_start", t.next, "tool_use")>> \in Seq(Content)  BY <1>2, EventsTyped
  <2>3. ArgumentDeltas(t.next, new.args) \in Seq(Content)  BY <1>2, <1>3, DeltasTyped
  <2> HIDE DEF closeText, new
  <2> QED BY <2>1, <2>2, <2>3, ConcatProperties
<1> DEFINE over == (~old.seen /\ Cardinality(Seen(t)) >= MaxToolCalls) \/ Arguments(kept) > MaxArguments
<1>8. ToolFragment(t, c) =
        IF over THEN Step(kept, <<>>, TRUE)
        ELSE IF old.block # NoBlock THEN Step(kept, few, FALSE)
        ELSE IF ~(new.id /\ new.name) THEN Step(kept, <<>>, FALSE)
        ELSE Step(begun, many, FALSE)
  BY DEF ToolFragment
<1>9. <<>> \in Seq(Content)  OBVIOUS
<1> HIDE DEF old, new, kept, begun, few, many, over
<1> QED BY <1>4, <1>5, <1>6, <1>7, <1>8, <1>9 DEF Steps, Step

\* One step after another.
LEMMA ThenTyped ==
  ASSUME NEW a \in Steps, NEW b \in Steps, NEW t, Kept(t, a.t), Kept(a.t, b.t)
  PROVE  Then(a, b) \in Steps /\ Kept(t, Then(a, b).t)
<1>1. a.out \o b.out \in Seq(Content)  BY ConcatProperties DEF Steps
<1>2. Step(b.t, a.out \o b.out, b.failed) \in Steps  BY <1>1 DEF Steps, Step
<1>3. Step(b.t, a.out \o b.out, b.failed).t = b.t  BY DEF Step
<1> QED BY <1>2, <1>3 DEF Then, Kept

\* The tool calls of a chunk.
LEMMA ToolsTyped ==
  ASSUME NEW r \in Steps, NEW tools \in Seq(Pieces)
  PROVE  ToolsFolded(r, tools) \in Steps /\ Kept(r.t, ToolsFolded(r, tools).t)
<1>1. PICK h : IsRun(h, "tool", r, tools) /\ ToolsFolded(r, tools) = h[Len(tools)]
  BY ToolsRun DEF IsSeq
<1> DEFINE N == {n \in 0..Len(tools) : h[n] \in Steps /\ Kept(r.t, h[n].t)}
<1>2. 0 \in N  BY <1>1 DEF IsRun, Kept
<1>3. ASSUME NEW k \in 0..(Len(tools) - 1), k \in N PROVE k + 1 \in N
  <2>1. k + 1 \in 1..Len(tools) /\ k + 1 \in 0..Len(tools) /\ (k + 1) - 1 = k  OBVIOUS
  <2>2. h[k + 1] = Apply("tool", h[k], tools[k + 1])  BY <1>1, <2>1 DEF IsRun
  <2> DEFINE a == h[k]
             b == ToolFragment(h[k].t, tools[k + 1])
  <2>3. tools[k + 1] \in Pieces  BY <2>1
  <2>4. a \in Steps /\ a.t \in Translators /\ Kept(r.t, a.t)  BY <1>3 DEF Steps
  <2>5. b \in Steps /\ Kept(a.t, b.t)  BY <2>3, <2>4, FragmentTyped
  <2>6. h[k + 1] = Then(a, b)  BY <2>2 DEF Apply
  <2> HIDE DEF a, b
  <2>7. h[k + 1] \in Steps /\ Kept(r.t, h[k + 1].t)  BY <2>4, <2>5, <2>6, ThenTyped
  <2> QED BY <2>1, <2>7
<1> HIDE DEF N
<1>4. Len(tools) \in N  BY <1>2, <1>3, Upto, LenProperties
<1> QED BY <1>1, <1>4 DEF N

\* A chunk ends neither the message nor the stream, and only its own finish
\* reason can be noted.
LEMMA ChunkTyped ==
  ASSUME NEW t \in Translators, NEW c \in Completions
  PROVE  LET s == ProcessChunk(t, c)
         IN s \in Steps /\ s.t.ended = t.ended /\ s.t.done = t.done /\ (s.t.finish => t.finish \/ c.finish)
<1> DEFINE opened == Opened(t)
           text == IF c.text THEN Then(opened, Text(opened.t)) ELSE opened
           tools == ToolsFolded(text, c.tools)
           noted == [tools.t EXCEPT !.finish = @ \/ c.finish]
<1>1. opened \in Steps /\ Kept(t, opened.t) /\ opened.t \in Translators  BY OpenedTyped DEF Steps
<1>2. Text(opened.t) \in Steps /\ Kept(opened.t, Text(opened.t).t)  BY <1>1, TextTyped
<1>3. text \in Steps /\ Kept(t, text.t)
  <2> HIDE DEF opened
  <2> QED BY <1>1, <1>2, ThenTyped
<1>4. tools \in Steps /\ Kept(t, tools.t) /\ tools.t \in Translators
  <2>1. c.tools \in Seq(Pieces)  BY DEF Completions
  <2> HIDE DEF text
  <2> QED BY <1>3, <2>1, ToolsTyped DEF Kept, Steps
<1>5. ProcessChunk(t, c) = Then(tools, Step(noted, <<>>, FALSE))
  BY DEF ProcessChunk, ToolsFolded
<1> HIDE DEF tools
<1>6. noted \in Translators /\ noted.ended = t.ended /\ noted.done = t.done /\ (noted.finish => t.finish \/ c.finish)
  <2> DEFINE finish == tools.t.finish \/ c.finish
  <2>1. finish \in BOOLEAN /\ (finish => t.finish \/ c.finish)  BY <1>4 DEF Kept
  <2>2. noted = [tools.t EXCEPT !.finish = finish]  OBVIOUS
  <2> HIDE DEF finish, noted
  <2> QED BY <1>4, <2>1, <2>2 DEF Translators, Kept
<1>7. Then(tools, Step(noted, <<>>, FALSE)) = IF tools.failed THEN tools ELSE Step(noted, tools.out, FALSE)
  <2> tools.out \o <<>> = tools.out  BY <1>4, ConcatEmptySeq DEF Steps
  <2> QED BY DEF Then, Step
<1> HIDE DEF noted
<1>8. CASE tools.failed  BY <1>4, <1>5, <1>7, <1>8 DEF Kept
<1>9. CASE ~tools.failed
  <2>1. Step(noted, tools.out, FALSE) \in Steps  BY <1>4, <1>6 DEF Steps, Step
  <2> QED BY <1>5, <1>6, <1>7, <1>9, <2>1 DEF Step
<1> QED BY <1>8, <1>9

\* A step that ends the message with an error event.
Failing(t, s) ==
  /\ s.t = [t EXCEPT !.ended = TRUE]
  /\ s.out = <<Plain("error")>> /\ s.failed \in BOOLEAN

\* A step that completes it: every call of it is whole.
WholeCalls(t) == \A i \in Seen(t) : WholeArguments(t.tools[i]) /\ ~Incomplete(t.tools[i])
Completing(t, s) ==
  /\ s.t = [t EXCEPT !.ended = TRUE, !.text = NoBlock] /\ s.failed = FALSE /\ WholeCalls(t)
  /\ \E reason : \E stops \in Seq(Content) : s.out = stops \o <<StopDelta(reason), Plain("message_stop")>>

\* The translator gives up.
LEMMA QuitTyped ==
  ASSUME NEW t \in Translators
  PROVE  Failing(t, Quit(t, <<>>))
<1>1. <<>> \o <<Plain("error")>> = <<Plain("error")>>
  BY <<Plain("error")>> \in Seq({Plain("error")}), ConcatEmptySeq
<1> QED BY <1>1 DEF Quit, Step, Failing

\* The message is finished, or a tool call of it is not whole.
LEMMA FinishedTyped ==
  ASSUME NEW t \in Translators, NEW reason
  PROVE  Failing(t, Finished(t, reason)) \/ Completing(t, Finished(t, reason))
<1> DEFINE bad == \E i \in Seen(t) : ~WholeArguments(t.tools[i]) \/ Incomplete(t.tools[i])
           a == IF t.text = NoBlock THEN <<>> ELSE <<Event("content_block_stop", t.text, "text")>>
           b == [k \in 1..Len(t.order) |-> Event("content_block_stop", t.tools[t.order[k]].block, "tool_use")]
           e == <<StopDelta(reason), Plain("message_stop")>>
           u == [t EXCEPT !.ended = TRUE, !.text = NoBlock]
<1>1. CASE bad
  <2>1. Finished(t, reason) = Step([t EXCEPT !.ended = TRUE], <<Plain("error")>>, FALSE)  BY <1>1 DEF Finished
  <2> QED BY <2>1 DEF Failing, Step
<1>2. CASE ~bad
  <2>1. Finished(t, reason) = Step(u, a \o b \o e, FALSE)  BY <1>2 DEF Finished
  <2>2. a \in Seq(Content)
    <3>1. t.text \in Int  BY DEF Translators
    <3> QED BY <3>1, EventsTyped
  <2>3. b \in Seq(Content)
    <3>1. ASSUME NEW k \in 1..Len(t.order)
          PROVE  Event("content_block_stop", t.tools[t.order[k]].block, "tool_use") \in Content
      <4>1. t.order[k] \in Tools  BY DEF Translators
      <4>2. t.tools[t.order[k]].block \in Int  BY <4>1 DEF Translators, Calls
      <4> QED BY <4>2, EventsTyped
    <3>2. Len(t.order) \in Nat  BY LenProperties DEF Translators
    <3> QED BY <3>1, <3>2
  <2>4. a \o b \in Seq(Content)  BY <2>2, <2>3, ConcatProperties
  <2>5. Finished(t, reason).out = (a \o b) \o e
    <3> HIDE DEF a, b, e, u
    <3> QED BY <2>1 DEF Step
  <2>6. Finished(t, reason).t = u /\ Finished(t, reason).failed = FALSE  BY <2>1 DEF Step
  <2> HIDE DEF a, b, e, u
  <2>7. \E x : \E stops \in Seq(Content) : Finished(t, reason).out = stops \o <<StopDelta(x), Plain("message_stop")>>
    BY <2>4, <2>5 DEF e
  <2>8. WholeCalls(t)  BY <1>2 DEF WholeCalls
  <2> QED BY <2>6, <2>7, <2>8 DEF Completing, u
<1> QED BY <1>1, <1>2

\* A message is completed only after a finish reason or a [DONE].
LEMMA ConcludedTyped ==
  ASSUME NEW t \in Translators, NEW broken \in BOOLEAN
  PROVE  LET s == Concluded(t, broken)
         IN Failing(t, s) \/ (Completing(t, s) /\ (t.done \/ t.finish) /\ ~broken)
<1> DEFINE reason == IF ~t.finish /\ t.order # <<>> THEN "tool_use" ELSE "end_turn"
<1>1. CASE broken \/ ~t.started \/ (~t.done /\ ~t.finish)
  BY <1>1, QuitTyped DEF Concluded
<1>2. CASE ~(broken \/ ~t.started \/ (~t.done /\ ~t.finish))
  <2>1. Concluded(t, broken) = Finished(t, reason)  BY <1>2 DEF Concluded
  <2> HIDE DEF reason
  <2> QED BY <1>2, <2>1, FinishedTyped
<1> QED BY <1>1, <1>2

-----------------------------------------------------------------------------
(* The filter and the client *)

\* The fields the proofs speak of, whatever the indices and the block numbers.
IsFilter(f) ==
  f \in [started : BOOLEAN, terminal : BOOLEAN, reason : BOOLEAN, stop : BOOLEAN,
         drop : {f.drop}, remap : {f.remap}, next : {f.next},
         protocolError : BOOLEAN, missingStop : BOOLEAN, failed : BOOLEAN]
IsClient(c) ==
  c \in [started : BOOLEAN, complete : BOOLEAN, failed : BOOLEAN, open : {c.open}, blocks : {c.blocks},
         gap : BOOLEAN, stray : BOOLEAN, late : BOOLEAN]

IsEvent(e) == e \in [type : {e.type}, index : {e.index}, kind : {e.kind}, reason : {e.reason}]

SameFlags(f, g) ==
  /\ g.started = f.started /\ g.terminal = f.terminal /\ g.reason = f.reason
  /\ g.protocolError = f.protocolError /\ g.missingStop = f.missingStop /\ g.failed = f.failed

\* What the client saw is what the filter let pass: a client whose message the
\* filter ended was told so.
Linked(f, c) ==
  /\ c.started = f.started
  /\ f.terminal \/ f.failed \/ f.missingStop => c.complete \/ c.failed
  /\ f.failed => f.protocolError

\* A terminal event completed the client's message, was replaced by an error
\* the filter knows of, or was the upstream's own error.
Ends(f, c, error) == f.terminal => c.complete \/ f.missingStop \/ error

\* What an event tells the client.
LEMMA ReceiveTyped ==
  ASSUME NEW c, IsClient(c), NEW e
  PROVE  LET d == Receive(c, e)
         IN /\ IsClient(d)
            /\ d.started = (c.started \/ e.type = "message_start")
            /\ d.complete = (c.complete \/ e.type = "message_stop")
            /\ d.failed = (c.failed \/ e.type = "error")
<1> DEFINE late == (c.complete \/ c.failed) /\ e.type \notin {"ping", "comment", "error"}
           placed == [c EXCEPT !.late = @ \/ late]
           block == [placed EXCEPT !.gap = @ \/ e.index > c.blocks,
                                   !.blocks = IF e.index >= @ THEN e.index + 1 ELSE @]
           Same(x) == x.started = c.started /\ x.complete = c.complete /\ x.failed = c.failed
<1>1. IsClient(placed) /\ Same(placed)
  <2> DEFINE b == c.late \/ late
  <2>1. placed = [c EXCEPT !.late = b] /\ b \in BOOLEAN  OBVIOUS
  <2> HIDE DEF b, placed
  <2> QED BY <2>1 DEF IsClient
<1>2. IsClient(block) /\ Same(block)
  <2> DEFINE g == placed.gap \/ e.index > c.blocks
             n == IF e.index >= placed.blocks THEN e.index + 1 ELSE placed.blocks
  <2>1. block = [placed EXCEPT !.gap = g, !.blocks = n] /\ g \in BOOLEAN  OBVIOUS
  <2> HIDE DEF g, n, block, placed
  <2> QED BY <1>1, <2>1 DEF IsClient
<1> DEFINE d == Receive(c, e)
<1>3. d = CASE e.type = "message_start" -> [placed EXCEPT !.started = TRUE]
       [] e.type = "message_stop"  -> [placed EXCEPT !.complete = TRUE]
       [] e.type = "error"         -> [placed EXCEPT !.failed = TRUE]
       [] e.type = "content_block_start" -> [block EXCEPT !.open = @ \cup {e.index}, !.gap = @ \/ e.index < c.blocks]
       [] e.type = "content_block_delta" -> [block EXCEPT !.stray = @ \/ e.index \notin c.open]
       [] e.type = "content_block_stop"  -> [block EXCEPT !.stray = @ \/ e.index \notin c.open, !.open = @ \ {e.index}]
       [] OTHER -> placed
  BY DEF Receive
<1> HIDE DEF d, placed, block
<1>4. CASE e.type = "message_start"
  <2> d = [placed EXCEPT !.started = TRUE]  BY <1>3, <1>4
  <2> QED BY <1>1, <1>4 DEF IsClient, d
<1>5. CASE e.type = "message_stop"
  <2> d = [placed EXCEPT !.complete = TRUE]  BY <1>3, <1>5
  <2> QED BY <1>1, <1>5 DEF IsClient, d
<1>6. CASE e.type = "error"
  <2> d = [placed EXCEPT !.failed = TRUE]  BY <1>3, <1>6
  <2> QED BY <1>1, <1>6 DEF IsClient, d
<1>7. CASE e.type = "content_block_start"
  <2> DEFINE g == block.gap \/ e.index < c.blocks
             o == block.open \cup {e.index}
  <2>1. d = [block EXCEPT !.open = o, !.gap = g] /\ g \in BOOLEAN  BY <1>3, <1>7
  <2> HIDE DEF g, o
  <2> QED BY <1>2, <1>7, <2>1 DEF IsClient, d
<1>8. CASE e.type = "content_block_delta"
  <2> DEFINE g == block.stray \/ e.index \notin c.open
  <2>1. d = [block EXCEPT !.stray = g] /\ g \in BOOLEAN  BY <1>3, <1>8
  <2> HIDE DEF g
  <2> QED BY <1>2, <1>8, <2>1 DEF IsClient, d
<1>9. CASE e.type = "content_block_stop"
  <2> DEFINE g == block.stray \/ e.index \notin c.open
             o == block.open \ {e.index}
  <2>1. d = [block EXCEPT !.stray = g, !.open = o] /\ g \in BOOLEAN  BY <1>3, <1>9
  <2> HIDE DEF g, o
  <2> QED BY <1>2, <1>9, <2>1 DEF IsClient, d
<1>10. CASE e.type \notin {"message_start", "message_stop", "error", "content_block_start",
                          "content_block_delta", "content_block_stop"}
  <2> d = placed  BY <1>3, <1>10
  <2> QED BY <1>1, <1>10 DEF IsClient, d
<1> QED BY <1>4, <1>5, <1>6, <1>7, <1>8, <1>9, <1>10

\* What the filter makes of one frame: it leaves it out, ends the stream with
\* an error event, passes on a block's event, replaces a message_stop by an
\* error event, or passes the frame on.
Passing(f, e, g, out) ==
  \/ out = <<>> /\ SameFlags(f, g)
  \/ /\ out = <<Plain("error")>> /\ g.failed /\ g.protocolError
     /\ g.reason = f.reason /\ g.started = f.started /\ g.missingStop = f.missingStop /\ g.terminal = f.terminal
  \/ \E x : out = <<x>> /\ x.type \in BlockEvents /\ SameFlags(f, g)
  \/ /\ e.type = "message_stop" /\ ~f.reason /\ out = <<Plain("error")>>
     /\ g.terminal /\ g.missingStop
     /\ g.started = f.started /\ g.failed = f.failed /\ g.reason = f.reason /\ g.protocolError = f.protocolError
  \/ /\ out = <<e>> /\ e.type \notin BlockEvents /\ (e.type = "message_stop" => f.reason)
     /\ g.started = (f.started \/ e.type = "message_start")
     /\ g.terminal = (f.terminal \/ e.type \in {"message_stop", "error"})
     /\ g.reason = (f.reason \/ (e.type = "message_delta" /\ e.reason # "none"))
     /\ g.missingStop = f.missingStop /\ g.protocolError = f.protocolError /\ g.failed = f.failed

\* Every case of the filter is one of Passing.
LEMMA FilteredCases ==
  ASSUME NEW f, IsFilter(f), NEW e, IsEvent(e)
  PROVE  IsFilter(Filtered(f, e).f) /\ Passing(f, e, Filtered(f, e).f, Filtered(f, e).out)
<1> DEFINE goal(r) == IsFilter(r.f) /\ Passing(f, e, r.f, r.out)
           r == Filtered(f, e)
<1> SUFFICES goal(r)
  OBVIOUS
<1> USE DEF SameFlags, Passing
<1> DEFINE Same(g) == SameFlags(f, g)
           ignored == e.type = "done" /\ f.stop /\ f.reason
<1>1. CASE ignored
  <2>1. r = Out(f, <<>>)  BY <1>1 DEF Filtered, BlockEvents
  <2>2. r.out = <<>> /\ r.f = f  BY <2>1 DEF Out
  <2> HIDE DEF r
  <2> QED BY <2>2
<1>2. CASE ~ignored /\ ~Valid(f, e)
  <2> DEFINE g == [f EXCEPT !.protocolError = TRUE, !.failed = TRUE]
  <2>1. r = Out(g, <<Plain("error")>>)  BY <1>2 DEF Filtered
  <2>2. IsFilter(g) /\ g.failed /\ g.protocolError /\ g.reason = f.reason /\ g.started = f.started
        /\ g.missingStop = f.missingStop /\ g.terminal = f.terminal
    BY DEF IsFilter
  <2> HIDE DEF g
  <2> QED BY <2>1, <2>2 DEF Out
<1>3. CASE ~ignored /\ Valid(f, e) /\ e.type \in BlockEvents
  <2>1. r = Block(f, e)  BY <1>3 DEF Filtered, BlockEvents
  <2>2. ASSUME NEW i, NEW to PROVE IsFilter(Remapped(f, i, to)) /\ Same(Remapped(f, i, to))
    <3> DEFINE m == [f.remap EXCEPT ![i] = to]
               n == IF to = f.next THEN to + 1 ELSE f.next
    <3>1. Remapped(f, i, to) = [f EXCEPT !.remap = m, !.next = n]  BY DEF Remapped
    <3> HIDE DEF m, n
    <3> QED BY <3>1 DEF IsFilter
  <2> DEFINE dropped == [f EXCEPT !.drop = @ \cup {e.index}]
  <2>3. IsFilter(dropped) /\ Same(dropped)
    <3> DEFINE s == f.drop \cup {e.index}
    <3>1. dropped = [f EXCEPT !.drop = s]  OBVIOUS
    <3> HIDE DEF s, dropped
    <3> QED BY <3>1 DEF IsFilter
  <2>4. ASSUME NEW i PROVE [e EXCEPT !.index = i].type = e.type
    BY DEF IsEvent
  <2> DEFINE Passed(g, i) == r = Out(g, <<[e EXCEPT !.index = i]>>)
  <2>5. \/ \E i, to : Passed(Remapped(f, i, to), to)
        \/ r = Out(dropped, <<>>)
        \/ r = Out(f, <<>>)
    <3> HIDE DEF r
    <3>1. CASE e.type = "content_block_start" /\ e.kind \in DropTypes
      <4> r = Out(dropped, <<>>)  BY <2>1, <3>1 DEF Block
      <4> QED OBVIOUS
    <3>2. CASE e.type = "content_block_start" /\ e.kind \notin DropTypes
      <4> Passed(Remapped(f, e.index, f.next), f.next)  BY <2>1, <3>2 DEF Block
      <4> QED OBVIOUS
    <3>3. CASE e.type # "content_block_start" /\ e.index \in f.drop
      <4> r = Out(f, <<>>)  BY <2>1, <3>3 DEF Block
      <4> QED OBVIOUS
    <3>4. CASE e.type # "content_block_start" /\ e.index \notin f.drop
      <4> Passed(Remapped(f, e.index, Mapped(f, e.index)), Mapped(f, e.index))  BY <2>1, <3>4 DEF Block
      <4> QED OBVIOUS
    <3> QED BY <3>1, <3>2, <3>3, <3>4
  <2>6. CASE \E i, to : Passed(Remapped(f, i, to), to)
    <3>1. PICK i, to : Passed(Remapped(f, i, to), to)  BY <2>6
    <3> DEFINE g == Remapped(f, i, to)
               x == [e EXCEPT !.index = to]
    <3>2. r.out = <<x>> /\ r.f = g  BY <3>1 DEF Out
    <3>3. x.type \in BlockEvents /\ IsFilter(g) /\ Same(g)  BY <1>3, <2>2, <2>4
    <3> HIDE DEF r, g, x
    <3> QED BY <3>2, <3>3
  <2>7. CASE r = Out(dropped, <<>>) \/ r = Out(f, <<>>)
    <3> HIDE DEF r, dropped
    <3>1. r.out = <<>> /\ (r.f = dropped \/ r.f = f)  BY <2>7 DEF Out
    <3>2. Same(f)  OBVIOUS
    <3> QED BY <2>3, <3>1, <3>2
  <2> QED BY <2>5, <2>6, <2>7
<1> DEFINE n == Noted(f, e)
<1>4. CASE ~ignored /\ Valid(f, e) /\ e.type = "message_stop" /\ ~f.reason
  <2>1. r = Out(n, <<Plain("error")>>)  BY <1>4 DEF Filtered, BlockEvents
  <2>2. n = [f EXCEPT !.terminal = TRUE, !.stop = TRUE, !.missingStop = TRUE]  BY <1>4 DEF Noted, IsFilter
  <2> HIDE DEF n
  <2>3. /\ IsFilter(n) /\ n.terminal /\ n.missingStop /\ n.started = f.started /\ n.failed = f.failed
        /\ n.reason = f.reason /\ n.protocolError = f.protocolError
    BY <2>2 DEF IsFilter
  <2>4. r.out = <<Plain("error")>> /\ r.f = n  BY <2>1 DEF Out
  <2> HIDE DEF r
  <2> QED BY <1>4, <2>3, <2>4
<1>5. CASE ~ignored /\ Valid(f, e) /\ e.type \notin BlockEvents /\ (e.type = "message_stop" => f.reason)
  <2>1. r = Out(n, <<e>>)  BY <1>5 DEF Filtered
  <2>2. r.out = <<e>> /\ r.f = n  BY <2>1 DEF Out
  <2>3. /\ IsFilter(n)
        /\ n.started = (f.started \/ e.type = "message_start")
        /\ n.terminal = (f.terminal \/ e.type \in {"message_stop", "error"})
        /\ n.reason = (f.reason \/ (e.type = "message_delta" /\ e.reason # "none"))
        /\ n.missingStop = f.missingStop /\ n.protocolError = f.protocolError /\ n.failed = f.failed
    <3>1. CASE e.type = "message_start"
      <4> n = [f EXCEPT !.started = TRUE]  BY <3>1 DEF Noted
      <4> HIDE DEF n
      <4> QED BY <3>1 DEF IsFilter
    <3>2. CASE e.type = "message_delta"
      <4> DEFINE b == f.reason \/ e.reason # "none"
      <4> n = [f EXCEPT !.reason = b] /\ b \in BOOLEAN  BY <3>2 DEF Noted
      <4> b = (f.reason \/ (e.type = "message_delta" /\ e.reason # "none"))  BY <3>2
      <4> HIDE DEF n, b
      <4> QED BY <3>2 DEF IsFilter
    <3>3. CASE e.type = "message_stop"
      <4> n = [f EXCEPT !.terminal = TRUE, !.stop = TRUE, !.missingStop = f.missingStop]
        BY <1>5, <3>3 DEF Noted, IsFilter
      <4> HIDE DEF n
      <4> QED BY <3>3 DEF IsFilter
    <3>4. CASE e.type = "error"
      <4> n = [f EXCEPT !.terminal = TRUE]  BY <3>4 DEF Noted
      <4> HIDE DEF n
      <4> QED BY <3>4 DEF IsFilter
    <3>5. CASE e.type \notin {"message_start", "message_delta", "message_stop", "error"}
      <4> n = f  BY <3>5 DEF Noted
      <4> HIDE DEF n
      <4> QED BY <3>5 DEF IsFilter
    <3> QED BY <3>1, <3>2, <3>3, <3>4, <3>5
  <2> HIDE DEF r, n
  <2> QED BY <1>5, <2>2, <2>3
<1> QED BY <1>1, <1>2, <1>3, <1>4, <1>5

\* One frame: the link between filter and client survives, and the client's
\* message is completed only by a message_stop that a stop reason preceded.
LEMMA FilteredFollows ==
  ASSUME NEW f, IsFilter(f), NEW c, IsClient(c), NEW e, IsEvent(e), NEW error \in BOOLEAN
  PROVE  LET g == Filtered(f, e).f
             out == Filtered(f, e).out
             d == Received(c, out)
         IN /\ IsFilter(g) /\ IsClient(d)
            /\ out = <<>> \/ (\E x : out = <<x>>)
            /\ c.complete => d.complete
            /\ d.complete => c.complete \/ (e.type = "message_stop" /\ f.reason)
            /\ g.reason => f.reason \/ (e.type = "message_delta" /\ e.reason # "none")
            /\ Linked(f, c) => Linked(g, d)
            /\ Linked(f, c) /\ Ends(f, c, error) => Ends(g, d, error \/ e.type = "error")
<1> DEFINE g == Filtered(f, e).f
           out == Filtered(f, e).out
           d == Received(c, out)
           goal == /\ IsFilter(g) /\ IsClient(d)
                   /\ out = <<>> \/ (\E x : out = <<x>>)
                   /\ c.complete => d.complete
                   /\ d.complete => c.complete \/ (e.type = "message_stop" /\ f.reason)
                   /\ g.reason => f.reason \/ (e.type = "message_delta" /\ e.reason # "none")
                   /\ Linked(f, c) => Linked(g, d)
                   /\ Linked(f, c) /\ Ends(f, c, error) => Ends(g, d, error \/ e.type = "error")
<1> SUFFICES goal
  OBVIOUS
<1>1. IsFilter(g) /\ Passing(f, e, g, out)  BY FilteredCases
<1>2. Received(c, <<>>) = c  BY ReceivedNone
<1>3. ASSUME NEW x
      PROVE  LET y == Received(c, <<x>>)
             IN /\ IsClient(y)
                /\ y.started = (c.started \/ x.type = "message_start")
                /\ y.complete = (c.complete \/ x.type = "message_stop")
                /\ y.failed = (c.failed \/ x.type = "error")
  <2> Received(c, <<x>>) = Receive(c, x)  BY ReceivedOne
  <2> QED BY ReceiveTyped
<1>4. Plain("error").type = "error"  BY DEF Plain, Event
<1> HIDE DEF g, out
<1> USE DEF Linked, Ends, SameFlags, BlockEvents
<1>5. CASE out = <<>> /\ SameFlags(f, g)
  <2> d = c  BY <1>2, <1>5
  <2> QED BY <1>1, <1>5
<1>6. CASE /\ out = <<Plain("error")>> /\ g.failed /\ g.protocolError
           /\ g.reason = f.reason /\ g.started = f.started /\ g.missingStop = f.missingStop /\ g.terminal = f.terminal
  <2>1. IsClient(d) /\ d.started = c.started /\ d.complete = c.complete /\ d.failed
    BY <1>3, <1>4, <1>6 DEF IsClient
  <2> HIDE DEF d
  <2> QED BY <1>1, <1>6, <2>1
<1>7. CASE \E x : out = <<x>> /\ x.type \in BlockEvents /\ SameFlags(f, g)
  <2>1. PICK x : out = <<x>> /\ x.type \in BlockEvents /\ SameFlags(f, g)  BY <1>7
  <2>2. IsClient(d) /\ d.started = c.started /\ d.complete = c.complete /\ d.failed = c.failed
    BY <1>3, <2>1 DEF IsClient
  <2> HIDE DEF d
  <2> QED BY <1>1, <2>1, <2>2
<1>8. CASE /\ e.type = "message_stop" /\ ~f.reason /\ out = <<Plain("error")>>
           /\ g.terminal /\ g.missingStop
           /\ g.started = f.started /\ g.failed = f.failed /\ g.reason = f.reason /\ g.protocolError = f.protocolError
  <2>1. IsClient(d) /\ d.started = c.started /\ d.complete = c.complete /\ d.failed
    BY <1>3, <1>4, <1>8 DEF IsClient
  <2> HIDE DEF d
  <2> QED BY <1>1, <1>8, <2>1
<1>9. CASE /\ out = <<e>> /\ e.type \notin BlockEvents /\ (e.type = "message_stop" => f.reason)
           /\ g.started = (f.started \/ e.type = "message_start")
           /\ g.terminal = (f.terminal \/ e.type \in {"message_stop", "error"})
           /\ g.reason = (f.reason \/ (e.type = "message_delta" /\ e.reason # "none"))
           /\ g.missingStop = f.missingStop /\ g.protocolError = f.protocolError /\ g.failed = f.failed
  <2>1. /\ IsClient(d)
        /\ d.started = (c.started \/ e.type = "message_start")
        /\ d.complete = (c.complete \/ e.type = "message_stop")
        /\ d.failed = (c.failed \/ e.type = "error")
    BY <1>3, <1>9
  <2> HIDE DEF d
  <2> QED BY <1>1, <1>9, <2>1
<1> HIDE DEF goal
<1> QED BY <1>1, <1>5, <1>6, <1>7, <1>8, <1>9 DEF Passing

\* Sequences of different elements, one after the other.
LEMMA ConcatSeqs ==
  ASSUME NEW s, IsSeq(s), NEW t, IsSeq(t)
  PROVE  /\ IsSeq(s \o t) /\ Len(s) \in Nat /\ Len(s \o t) = Len(s) + Len(t)
         /\ \A i \in 1..(Len(s) + Len(t)) : (s \o t)[i] = IF i <= Len(s) THEN s[i] ELSE t[i - Len(s)]
<1>1. PICK S : s \in Seq(S)  BY DEF IsSeq
<1>2. PICK T : t \in Seq(T)  BY DEF IsSeq
<1>3. s \in Seq(S \cup T) /\ t \in Seq(S \cup T)  BY <1>1, <1>2, SeqMonotonic
<1> QED BY <1>3, ConcatProperties, LenProperties DEF IsSeq

\* The client after what a step of the filter adds.
LEMMA ReceivedAdds ==
  ASSUME NEW c, NEW s, IsSeq(s), NEW t, t = <<>> \/ (\E x : t = <<x>>)
  PROVE  IsSeq(s \o t) /\ Received(c, s \o t) = Received(Received(c, s), t)
<1>1. CASE t = <<>>
  <2> s \o t = s  BY <1>1, ConcatEmptySeq DEF IsSeq
  <2> QED BY <1>1, ReceivedNone
<1>2. CASE \E x : t = <<x>>
  <2>1. PICK x : t = <<x>>  BY <1>2
  <2>2. Received(Received(c, s), <<x>>) = Receive(Received(c, s), x)  BY ReceivedOne
  <2> QED BY <2>1, <2>2, ReceivedMore
<1> QED BY <1>1, <1>2

\* The same of the frames of a sequence.
LEMMA AllFilteredFollows ==
  ASSUME NEW f, IsFilter(f), NEW c, IsClient(c), NEW error \in BOOLEAN,
         NEW s, IsSeq(s), \A k \in 1..Len(s) : IsEvent(s[k])
  PROVE  LET r == AllFiltered(f, s)
             d == Received(c, r.out)
         IN /\ IsFilter(r.f) /\ IsClient(d) /\ IsSeq(r.out)
            /\ d.complete => c.complete \/ (\E k \in 1..Len(s) : s[k].type = "message_stop")
            /\ Linked(f, c) => Linked(r.f, d)
            /\ Linked(f, c) /\ Ends(f, c, error) => Ends(r.f, d, error \/ (\E k \in 1..Len(s) : s[k].type = "error"))
<1> DEFINE stops == \E k \in 1..Len(s) : s[k].type = "message_stop"
           errors == \E k \in 1..Len(s) : s[k].type = "error"
           err == error \/ errors
           Good(r) == LET d == Received(c, r.out)
                      IN /\ IsFilter(r.f) /\ IsClient(d) /\ IsSeq(r.out)
                         /\ d.complete => c.complete \/ stops
                         /\ Linked(f, c) => Linked(r.f, d)
                         /\ Linked(f, c) /\ Ends(f, c, error) => Ends(r.f, d, err)
<1>1. PICK h : IsRun(h, "filter", Out(f, <<>>), s) /\ AllFiltered(f, s) = h[Len(s)]  BY FilteredRuns
<1> DEFINE N == {n \in 0..Len(s) : Good(h[n])}
<1>2. Len(s) \in Nat  BY LenProperties DEF IsSeq
<1>3. 0 \in N
  <2>1. h[0].f = f /\ h[0].out = <<>>  BY <1>1 DEF IsRun, Out
  <2>2. IsSeq(<<>>) /\ Received(c, <<>>) = c  BY EmptySeq, ReceivedNone DEF IsSeq
  <2>3. Linked(f, c) /\ Ends(f, c, error) => Ends(f, c, err)  BY DEF Ends
  <2> HIDE DEF stops, err
  <2>4. Good(h[0])  BY <2>1, <2>2, <2>3
  <2> QED BY <1>2, <2>4
<1>4. ASSUME NEW n \in 0..(Len(s) - 1), n \in N PROVE n + 1 \in N
  <2> DEFINE r == h[n]
             e == s[n + 1]
             x == Filtered(r.f, e)
             d == Received(c, r.out)
             D == Received(d, x.out)
  <2>1. n + 1 \in 1..Len(s) /\ n + 1 \in 0..Len(s) /\ (n + 1) - 1 = n /\ IsEvent(e)  BY <1>2
  <2>2. h[n + 1] = IF r.f.failed THEN r ELSE Out(x.f, r.out \o x.out)
    BY <1>1, <2>1 DEF IsRun, Apply
  <2>3. Good(r)  BY <1>4
  <2>4. CASE r.f.failed  BY <2>1, <2>2, <2>3, <2>4
  <2>5. CASE ~r.f.failed
    <3>1. h[n + 1].f = x.f /\ h[n + 1].out = r.out \o x.out
      <4> DEFINE a == Out(x.f, r.out \o x.out)
      <4>1. a.f = x.f /\ a.out = r.out \o x.out  BY DEF Out
      <4> HIDE DEF a
      <4>2. h[n + 1] = a  BY <2>2, <2>5 DEF a
      <4> QED BY <4>1, <4>2
    <3>0. IsFilter(r.f) /\ IsClient(d) /\ IsSeq(r.out)  BY <2>3
    <3>2. /\ IsFilter(x.f) /\ IsClient(D)
          /\ x.out = <<>> \/ (\E y : x.out = <<y>>)
          /\ D.complete => d.complete \/ e.type = "message_stop"
          /\ Linked(r.f, d) => Linked(x.f, D)
          /\ Linked(r.f, d) /\ Ends(r.f, d, err) => Ends(x.f, D, err \/ e.type = "error")
      <4> err \in BOOLEAN  OBVIOUS
      <4> DEFINE g == r.f
      <4> HIDE DEF err, e, d, g
      <4>1. /\ IsFilter(Filtered(g, e).f) /\ IsClient(Received(d, Filtered(g, e).out))
            /\ Filtered(g, e).out = <<>> \/ (\E y : Filtered(g, e).out = <<y>>)
            /\ Received(d, Filtered(g, e).out).complete => d.complete \/ (e.type = "message_stop" /\ g.reason)
            /\ Linked(g, d) => Linked(Filtered(g, e).f, Received(d, Filtered(g, e).out))
            /\ Linked(g, d) /\ Ends(g, d, err) =>
                 Ends(Filtered(g, e).f, Received(d, Filtered(g, e).out), err \/ e.type = "error")
        BY <2>1, <3>0, FilteredFollows DEF g
      <4> QED BY <4>1 DEF g
    <3>3. (e.type = "error" => err) /\ (e.type = "message_stop" => stops)  BY <2>1
    <3>4. IsSeq(r.out \o x.out) /\ Received(c, r.out \o x.out) = D
      <4> DEFINE y == x.out
                 z == r.out
      <4>1. IsSeq(z) /\ (y = <<>> \/ (\E a : y = <<a>>))  BY <3>0, <3>2
      <4> HIDE DEF y, z
      <4>2. IsSeq(z \o y) /\ Received(c, z \o y) = Received(Received(c, z), y)  BY <4>1, ReceivedAdds
      <4> QED BY <4>2 DEF y, z
    <3>5. Good(h[n + 1])
      <4> HIDE DEF x, e, D, r, err, stops
      <4>1. Linked(r.f, d) /\ Ends(r.f, d, err) => Ends(x.f, D, err)  BY <3>2, <3>3 DEF Ends
      <4> QED BY <2>3, <3>1, <3>2, <3>3, <3>4, <4>1
    <3> QED BY <2>1, <3>5
  <2> QED BY <2>4, <2>5
<1> HIDE DEF N
<1>5. Len(s) \in N  BY <1>2, <1>3, <1>4, Upto
<1> QED BY <1>1, <1>5 DEF N

\* The end of the source: the filter has ended the client's message.
LEMMA SourceEndedFollows ==
  ASSUME NEW f, IsFilter(f), NEW c, IsClient(c), NEW error \in BOOLEAN
  PROVE  LET g == SourceEnded(f).f
             out == SourceEnded(f).out
             d == Received(c, out)
         IN /\ IsFilter(g) /\ IsClient(d)
            /\ out = <<>> \/ (\E x : out = <<x>>)
            /\ d.complete = c.complete
            /\ g.failed = f.failed
            /\ g.started => g.terminal \/ g.missingStop
            /\ Linked(f, c) => Linked(g, d)
            /\ Linked(f, c) /\ Ends(f, c, error) => Ends(g, d, error)
<1> DEFINE cut == f.started /\ ~f.terminal
           g == [f EXCEPT !.missingStop = TRUE]
           e == Plain("error")
           d == Received(c, <<e>>)
<1>1. CASE ~cut
  <2>1. SourceEnded(f).f = f /\ SourceEnded(f).out = <<>>  BY <1>1 DEF SourceEnded, Out
  <2> QED BY <1>1, <2>1, ReceivedNone
<1>2. CASE cut
  <2>1. SourceEnded(f).f = g /\ SourceEnded(f).out = <<e>>  BY <1>2 DEF SourceEnded, Out
  <2>2. IsFilter(g) /\ g.missingStop /\ g.started = f.started /\ g.terminal = f.terminal
        /\ g.failed = f.failed /\ g.protocolError = f.protocolError
    BY DEF IsFilter
  <2>3. e.type = "error"  BY DEF Plain, Event
  <2> HIDE DEF g, e
  <2>4. IsClient(d) /\ d.started = c.started /\ d.complete = c.complete /\ d.failed
    <3>1. d = Receive(c, e)  BY ReceivedOne
    <3>2. /\ IsClient(Receive(c, e))
          /\ Receive(c, e).started = (c.started \/ e.type = "message_start")
          /\ Receive(c, e).complete = (c.complete \/ e.type = "message_stop")
          /\ Receive(c, e).failed = (c.failed \/ e.type = "error")
      BY ReceiveTyped
    <3> HIDE DEF d
    <3> QED BY <2>3, <3>1, <3>2 DEF IsClient
  <2> HIDE DEF d
  <2>5. (Linked(f, c) => Linked(g, d)) /\ (Linked(f, c) /\ Ends(f, c, error) => Ends(g, d, error))
    BY <2>2, <2>4 DEF Linked, Ends
  <2> QED BY <1>2, <2>1, <2>2, <2>4, <2>5 DEF d
<1> QED BY <1>1, <1>2

-----------------------------------------------------------------------------
(* The Devin adapter *)

DevinFragments == [id : STRING, name : STRING, args : Nat]
DevinFrames == [text : BOOLEAN, finish : {"none", "normal", "other"}, fragments : Seq(DevinFragments)]
Requests == [calls : Seq(DevinFragments), active : Nat, finish : {"none", "normal", "other"},
             started : BOOLEAN, over : BOOLEAN, refused : BOOLEAN]
IsRequest(d) == d \in Requests /\ d.active <= Len(d.calls) /\ Len(d.calls) <= MaxDevinCalls

\* What an OpenAI upstream, or the adapter, may put on the wire.
Wires == Completions \cup {[type |-> "error"], [type |-> "done"]}

\* A chunk that says the message is complete.
Concludes(c) == c.type = "done" \/ (c.type = "choices" /\ c.finish)
Open(out) == \A k \in 1..Len(out) : ~Concludes(out[k])

\* Nothing concludes the message in either of two sequences, nor in both.
LEMMA OpenConcat ==
  ASSUME NEW s \in Seq(Wires), NEW t \in Seq(Wires)
  PROVE  s \o t \in Seq(Wires) /\ (Open(s) /\ Open(t) => Open(s \o t))
<1>1. /\ s \o t \in Seq(Wires) /\ Len(s \o t) = Len(s) + Len(t) /\ Len(s) \in Nat /\ Len(t) \in Nat
      /\ \A i \in 1..(Len(s) + Len(t)) : (s \o t)[i] = IF i <= Len(s) THEN s[i] ELSE t[i - Len(s)]
  BY ConcatProperties, LenProperties
<1>2. ASSUME Open(s), Open(t), NEW i \in 1..Len(s \o t) PROVE ~Concludes((s \o t)[i])
  <2>1. CASE i <= Len(s)
    <3> i \in 1..Len(s)  BY <1>1, <2>1
    <3> QED BY <1>1, <1>2, <2>1 DEF Open
  <2>2. CASE ~(i <= Len(s))
    <3> i - Len(s) \in 1..Len(t)  BY <1>1, <2>2
    <3> QED BY <1>1, <1>2, <2>2 DEF Open
  <2> QED BY <2>1, <2>2
<1> QED BY <1>1, <1>2 DEF Open

\* The call an id names is one of those kept.
LEMMA CallOfTyped ==
  ASSUME NEW d, IsRequest(d), NEW id
  PROVE  CallOf(d, id) \in 0..Len(d.calls)
<1> DEFINE I == {i \in 1..Len(d.calls) : d.calls[i].id = id}
<1>1. CallOf(d, id) = IF I # {} THEN Min(I) ELSE 0  BY DEF CallOf, SelectInSeq
<1>2. Len(d.calls) \in Nat  BY LenProperties DEF IsRequest, Requests
<1>3. CASE I # {}
  <2>1. I \subseteq Nat  BY <1>2
  <2>2. I \subseteq 1..Len(d.calls)  OBVIOUS
  <2>5. CallOf(d, id) = Min(I)  BY <1>1, <1>3
  <2> HIDE DEF I
  <2>3. \E x \in I : \A y \in I : x <= y  BY <1>3, <2>1, NatMinimum
  <2>4. Min(I) \in I  BY <2>3 DEF Min
  <2>6. ASSUME NEW m, m \in I PROVE m \in 0..Len(d.calls)  BY <1>2, <2>2, <2>6
  <2>7. Min(I) \in 0..Len(d.calls)  BY <2>4, <2>6
  <2> HIDE DEF Min
  <2> QED BY <2>5, <2>7
<1>4. CASE I = {}
  <2> HIDE DEF I
  <2> QED BY <1>1, <1>2, <1>4
<1> QED BY <1>3, <1>4

\* A step of the fold over a frame's fragments.
IsPart(d, r) ==
  /\ IsRequest(r.d) /\ r.d.over = d.over /\ r.d.started = d.started /\ r.d.refused = d.refused
  /\ r.d.finish = d.finish /\ r.out \in Seq(Pieces) /\ r.failed \in BOOLEAN

\* A fragment keeps the request within its bound of calls.
LEMMA PartTyped ==
  ASSUME NEW d, NEW r, IsPart(d, r), NEW f \in DevinFragments
  PROVE  IsPart(d, Fragment(r, f))
<1> DEFINE k == Target(r.d, f)
           n == Len(r.d.calls)
           new == k > n
           c == [id |-> f.id, name |-> f.name, args |-> f.args]
           calls == IF new THEN Append(r.d.calls, c) ELSE [r.d.calls EXCEPT ![k].args = @ + f.args]
           bad == r.failed \/ Ambiguous(r.d, f) \/ Unexpected(r.d, f)
           piece == [tool |-> k - 1, id |-> new, name |-> new, args |-> f.args]
           e == [r.d EXCEPT !.calls = calls, !.active = k]
<1>1. Fragment(r, f) = IF bad THEN Said(r.d, r.out, TRUE) ELSE Said(e, Append(r.out, piece), FALSE)
  BY DEF Fragment
<1>2. CASE bad
  <2> Fragment(r, f) = Said(r.d, r.out, TRUE)  BY <1>1, <1>2
  <2> QED BY DEF Said, IsPart
<1>3. CASE ~bad
  <2>1. Fragment(r, f) = Said(e, Append(r.out, piece), FALSE)  BY <1>1, <1>3
  <2>2. /\ r.d \in Requests /\ r.d.calls \in Seq(DevinFragments) /\ n \in Nat /\ r.d.active \in Nat
        /\ r.d.active <= n /\ n <= MaxDevinCalls /\ MaxDevinCalls \in Nat
    BY LenProperties, StreamAssumption DEF IsPart, IsRequest, Requests
  <2>3. k \in 1..(n + 1) /\ k <= MaxDevinCalls
    <3>1. CASE f.id = ""
      <4>1. k = r.d.active /\ r.d.active # 0  BY <1>3, <3>1 DEF Target, Ambiguous, NoCall
      <4> QED BY <2>2, <4>1
    <3>2. CASE f.id # "" /\ Known(r.d, f.id)
      <4>1. k = CallOf(r.d, f.id) /\ k # 0  BY <3>2 DEF Target, Known
      <4>2. CallOf(r.d, f.id) \in 0..n  BY CallOfTyped DEF IsPart
      <4> QED BY <2>2, <4>1, <4>2
    <3>3. CASE f.id # "" /\ ~Known(r.d, f.id)
      <4>1. k = n + 1  BY <3>3 DEF Target
      <4>2. ~(n >= MaxDevinCalls)  BY <1>3, <3>3 DEF Unexpected
      <4> QED BY <2>2, <4>1, <4>2
    <3> QED BY <3>1, <3>2, <3>3
  <2>4. calls \in Seq(DevinFragments) /\ Len(calls) <= MaxDevinCalls /\ k <= Len(calls)
    <3>1. CASE new
      <4>1. c \in DevinFragments  BY DEF DevinFragments
      <4>2. k = n + 1  BY <2>2, <2>3, <3>1
      <4> HIDE DEF k, c
      <4>3. calls = Append(r.d.calls, c)  BY <3>1
      <4> HIDE DEF calls
      <4> QED BY <2>2, <2>3, <4>1, <4>2, <4>3, AppendProperties
    <3>2. CASE ~new
      <4> DEFINE old == r.d.calls[k]
                 more == [old EXCEPT !.args = @ + f.args]
      <4>1. k \in 1..n  BY <2>2, <2>3, <3>2
      <4>2. old \in DevinFragments  BY <2>2, <4>1
      <4>3. more \in DevinFragments  BY <4>2 DEF DevinFragments
      <4>4. calls = [r.d.calls EXCEPT ![k] = more]  BY <3>2
      <4> HIDE DEF k, more, calls
      <4> QED BY <2>2, <2>3, <4>1, <4>3, <4>4, ExceptSeq
    <3> QED BY <3>1, <3>2
  <2>5. piece \in Pieces
    <3>1. k - 1 \in Tools  BY <2>2, <2>3, StreamAssumption
    <3>2. f.args \in Nat  BY DEF DevinFragments
    <3> DEFINE b == new
    <3>3. b \in BOOLEAN  OBVIOUS
    <3> HIDE DEF b
    <3>4. [tool |-> k - 1, id |-> b, name |-> b, args |-> f.args] \in Pieces  BY <3>1, <3>2, <3>3 DEF Pieces
    <3> QED BY <3>4 DEF b
  <2> HIDE DEF calls, k, piece
  <2>6. IsRequest(e) /\ e.over = d.over /\ e.started = d.started /\ e.refused = d.refused /\ e.finish = d.finish
    <3>1. k \in Nat  BY <2>2, <2>3
    <3> QED BY <2>2, <2>4, <3>1 DEF IsRequest, IsPart, Requests
  <2>7. Append(r.out, piece) \in Seq(Pieces)  BY <2>5, AppendProperties DEF IsPart
  <2> HIDE DEF e
  <2> QED BY <2>1, <2>6, <2>7 DEF Said, IsPart
<1> QED BY <1>2, <1>3

\* So do the fragments of a frame.
LEMMA PartsTyped ==
  ASSUME NEW d, IsRequest(d), NEW fs \in Seq(DevinFragments)
  PROVE  IsPart(d, FoldLeft(Fragment, Said(d, <<>>, FALSE), fs))
<1> DEFINE b == Said(d, <<>>, FALSE)
           all == FoldLeft(Fragment, b, fs)
<1>1. PICK h : IsRun(h, "fragment", b, fs) /\ all = h[Len(fs)]  BY FragmentsRun DEF IsSeq
<1> HIDE DEF all
<1> DEFINE N == {n \in 0..Len(fs) : IsPart(d, h[n])}
<1>2. 0 \in N
  <2>1. IsPart(d, b)  BY DEF IsPart, Said
  <2>2. h[0] = b /\ 0 \in 0..Len(fs)  BY <1>1, LenProperties DEF IsRun
  <2> QED BY <2>1, <2>2
<1>3. ASSUME NEW k \in 0..(Len(fs) - 1), k \in N PROVE k + 1 \in N
  <2>1. k + 1 \in 1..Len(fs) /\ k + 1 \in 0..Len(fs) /\ (k + 1) - 1 = k  OBVIOUS
  <2>2. h[k + 1] = Apply("fragment", h[k], fs[k + 1])  BY <1>1, <2>1 DEF IsRun
  <2>3. h[k + 1] = Fragment(h[k], fs[k + 1])  BY <2>2 DEF Apply
  <2>4. fs[k + 1] \in DevinFragments  BY <2>1
  <2>5. IsPart(d, h[k + 1])  BY <1>3, <2>3, <2>4, PartTyped
  <2> QED BY <2>1, <2>5
<1> HIDE DEF N
<1>4. Len(fs) \in N  BY <1>2, <1>3, Upto, LenProperties
<1> QED BY <1>1, <1>4 DEF N, all

\* A frame without a fragment leaves the calls as they are.
LEMMA PartsNone ==
  ASSUME NEW d
  PROVE  FoldLeft(Fragment, Said(d, <<>>, FALSE), <<>>) = Said(d, <<>>, FALSE)
<1>1. IsSeq(<<>>)  BY DEF IsSeq
<1>2. PICK h : /\ IsRun(h, "fragment", Said(d, <<>>, FALSE), <<>>)
               /\ FoldLeft(Fragment, Said(d, <<>>, FALSE), <<>>) = h[Len(<<>>)]
  BY <1>1, FragmentsRun
<1>3. Len(<<>>) = 0  OBVIOUS
<1> QED BY <1>2, <1>3 DEF IsRun

\* The chunks the adapter writes.
LEMMA ChunkOf ==
  ASSUME NEW text \in BOOLEAN, NEW tools \in Seq(Pieces), NEW finish \in BOOLEAN
  PROVE  Chunk(text, tools, finish) \in Wires /\ Concludes(Chunk(text, tools, finish)) = finish
BY DEF Chunk, Wires, Completions, Concludes

\* A request whose stream may end in a completion, and a frame that lets it.
Earns(d) == d.calls # <<>> \/ d.finish = "normal"
Promises(frame) == frame.finish = "normal" \/ frame.fragments # <<>>

\* What the adapter writes while its own stream goes on completes nothing.
LEMMA ConsumedTyped ==
  ASSUME NEW d, IsRequest(d), NEW frame \in DevinFrames
  PROVE  LET r == Consumed(d, frame)
         IN /\ IsRequest(r.d) /\ r.d.over = d.over /\ r.out \in Seq(Wires) /\ Open(r.out)
            /\ Earns(r.d) => Earns(d) \/ Promises(frame)
<1> DEFINE p == FoldLeft(Fragment, Said(d, <<>>, FALSE), frame.fragments)
           next == [p.d EXCEPT !.finish = IF frame.finish = "none" THEN @ ELSE frame.finish]
           begun == [next EXCEPT !.started = TRUE]
           delta == frame.text \/ p.out # <<>>
           head == IF d.started THEN <<>> ELSE <<Chunk(FALSE, <<>>, FALSE)>>
           out == head \o <<Chunk(frame.text, p.out, FALSE)>>
           r == Consumed(d, frame)
<1>1. IsPart(d, p)
  <2>1. frame.fragments \in Seq(DevinFragments)  BY DEF DevinFrames
  <2> QED BY <2>1, PartsTyped
<1>2. r = IF p.failed THEN Said(next, <<>>, TRUE) ELSE IF ~delta THEN Said(next, <<>>, FALSE)
          ELSE Said(begun, out, FALSE)
  BY DEF Consumed
<1> HIDE DEF p, r
<1>3. IsRequest(next) /\ next.over = d.over
  <2> DEFINE x == IF frame.finish = "none" THEN p.d.finish ELSE frame.finish
  <2>1. x \in {"none", "normal", "other"}  BY <1>1 DEF IsPart, IsRequest, Requests, DevinFrames
  <2>2. next = [p.d EXCEPT !.finish = x]  OBVIOUS
  <2> HIDE DEF x, next
  <2> QED BY <1>1, <2>1, <2>2 DEF IsPart, IsRequest, Requests
<1>10. Earns(next) => Earns(d) \/ Promises(frame)
  <2>1. p.d.finish = d.finish  BY <1>1 DEF IsPart
  <2>2. frame.fragments = <<>> => p = Said(d, <<>>, FALSE)  BY PartsNone DEF p
  <2>3. frame.fragments = <<>> => p.d.calls = d.calls  BY <2>2 DEF Said
  <2> QED BY <1>1, <2>1, <2>3 DEF Earns, Promises, IsPart, IsRequest, Requests
<1> HIDE DEF next
<1>4. IsRequest(begun) /\ begun.over = d.over /\ (Earns(begun) => Earns(next))
  BY <1>3 DEF IsRequest, Requests, Earns
<1>5. <<>> \in Seq(Wires) /\ Open(<<>>)  BY DEF Open
<1>6. out \in Seq(Wires) /\ Open(out)
  <2> DEFINE a == Chunk(FALSE, <<>>, FALSE)
             b == Chunk(frame.text, p.out, FALSE)
  <2>1. a \in Wires /\ ~Concludes(a)
    <3> <<>> \in Seq(Pieces)  OBVIOUS
    <3> QED BY ChunkOf
  <2>2. b \in Wires /\ ~Concludes(b)
    <3> frame.text \in BOOLEAN /\ p.out \in Seq(Pieces)  BY <1>1 DEF DevinFrames, IsPart
    <3> QED BY ChunkOf
  <2> HIDE DEF a, b
  <2>3. head = <<>> \/ head = <<a>>  BY DEF a
  <2>4. head \in Seq(Wires) /\ Open(head)
    <3>1. <<a>> \in Seq(Wires) /\ Open(<<a>>)  BY <2>1 DEF Open
    <3> HIDE DEF head
    <3>2. CASE head = <<>>  BY <1>5, <3>2
    <3>3. CASE head = <<a>>  BY <3>1, <3>3
    <3> QED BY <2>3, <3>2, <3>3
  <2>5. <<b>> \in Seq(Wires) /\ Open(<<b>>)  BY <2>2 DEF Open
  <2>6. out = head \o <<b>>  BY DEF b
  <2> HIDE DEF head, out
  <2> QED BY <2>4, <2>5, <2>6, OpenConcat
<1> DEFINE goal(x) == /\ IsRequest(x.d) /\ x.d.over = d.over /\ x.out \in Seq(Wires) /\ Open(x.out)
                      /\ Earns(x.d) => Earns(d) \/ Promises(frame)
<1> HIDE DEF out, delta, begun
<1>7. goal(Said(next, <<>>, TRUE)) /\ goal(Said(next, <<>>, FALSE))  BY <1>3, <1>5, <1>10 DEF Said
<1>8. goal(Said(begun, out, FALSE))  BY <1>4, <1>6, <1>10 DEF Said
<1>9. goal(r)
  <2> HIDE DEF goal
  <2> QED BY <1>2, <1>7, <1>8
<1> QED BY <1>9 DEF r

\* A request that broke says so and concludes nothing.
LEMMA InterruptedTyped ==
  ASSUME NEW d, IsRequest(d)
  PROVE  LET r == Interrupted(d)
         IN /\ IsRequest(r.d) /\ r.d.over /\ r.out \in Seq(Wires) /\ Open(r.out) /\ r.failed = TRUE
            /\ Earns(r.d) = Earns(d)
<1> DEFINE e == [type |-> "error"]
           x == [d EXCEPT !.over = TRUE, !.refused = ~d.started]
           out == IF d.started THEN <<e>> ELSE <<>>
<1>1. Interrupted(d) = Said(x, out, TRUE)  BY DEF Interrupted
<1>2. IsRequest(x) /\ x.over /\ Earns(x) = Earns(d)
  <2> DEFINE b == ~d.started
  <2>1. b \in BOOLEAN /\ x = [d EXCEPT !.over = TRUE, !.refused = b]  OBVIOUS
  <2> HIDE DEF b, x
  <2> QED BY <2>1 DEF IsRequest, Requests, Earns
<1>3. out \in Seq(Wires) /\ Open(out)
  <2>1. e \in Wires /\ ~Concludes(e)  BY DEF Wires, Concludes
  <2> HIDE DEF e
  <2> QED BY <2>1 DEF Open
<1> HIDE DEF x, out
<1> QED BY <1>1, <1>2, <1>3 DEF Said

\* A request concludes when Devin's stream was complete.
LEMMA ClosedTyped ==
  ASSUME NEW d, IsRequest(d), NEW full \in BOOLEAN
  PROVE  LET r == Closed(d, full)
         IN /\ IsRequest(r.d) /\ r.d.over /\ r.out \in Seq(Wires) /\ Earns(r.d) = Earns(d)
            /\ Open(r.out) \/ Earns(d) \/ full
<1> DEFINE x == [d EXCEPT !.over = TRUE, !.started = TRUE]
           a == Chunk(FALSE, <<>>, TRUE)
           b == [type |-> "done"]
<1>1. CASE Completes(d, full)
  <2>1. Closed(d, full) = Said(x, <<a, b>>, FALSE)  BY <1>1 DEF Closed
  <2>2. IsRequest(x) /\ x.over /\ Earns(x) = Earns(d)  BY DEF IsRequest, Requests, Earns
  <2>5. Earns(d) \/ full  BY <1>1 DEF Completes, Earns
  <2>3. a \in Wires /\ b \in Wires
    <3> <<>> \in Seq(Pieces)  OBVIOUS
    <3> a \in Wires  BY ChunkOf
    <3> QED BY DEF Wires
  <2> HIDE DEF x, a, b
  <2>4. <<a, b>> \in Seq(Wires)  BY <2>3
  <2> QED BY <2>1, <2>2, <2>4, <2>5 DEF Said
<1>2. CASE ~Completes(d, full)
  <2> Closed(d, full) = Interrupted(d)  BY <1>2 DEF Closed
  <2> QED BY InterruptedTyped
<1> QED BY <1>1, <1>2

-----------------------------------------------------------------------------
(* The invariant *)

IsClaim(s) == s \in [reason : BOOLEAN, end : BOOLEAN, error : BOOLEAN, calls : {s.calls}]
Primes == [reason : BOOLEAN, start : BOOLEAN, term : BOOLEAN, empty : BOOLEAN]
Incoming == IF OpenAI THEN Chunks \cup Wires ELSE Events

Typed ==
  /\ format \in {"anthropic", "openai", "devin"}
  /\ pc \in {"headers", "priming", "primed", "buffering", "streaming", "ended", "failed", "done"}
  /\ gone \in BOOLEAN /\ bypass \in BOOLEAN
  /\ IsClaim(said) /\ prime \in Primes
  /\ tr \in Translators /\ IsFilter(fl) /\ IsClient(client)
  /\ IsRequest(devin) /\ wire \in Seq(Wires) /\ prefix \in Seq(Incoming)

\* Nothing passes before the stream is committed.
Fresh ==
  pc \in {"headers", "priming", "primed", "buffering"} =>
    fl = NewFilter /\ client = NewClient /\ tr = NoStream

\* A body copied as it is was an empty turn, whose message_stop is still to be
\* replayed or has been.
CopiesWhole ==
  /\ policy.empty => format = "anthropic"
  /\ prime.empty => policy.empty /\ said.reason
  /\ bypass => /\ pc \in {"primed", "streaming", "ended", "done"}
               /\ policy.empty /\ said.end
               /\ \/ gone \/ client.complete
                  \/ pc \in {"primed", "streaming"} /\ prefix # <<>> /\ prefix[Len(prefix)].type = "message_stop"

\* What was read and not replayed, or passed by the filter, was claimed.
Gives(e) == e.type = "message_delta" /\ e.reason # "none"
AnthropicClaims ==
  ~OpenAI =>
    /\ fl.reason => said.reason
    /\ \A k \in 1..Len(prefix) :
         /\ prefix[k].type = "error" => said.error
         /\ Gives(prefix[k]) => said.reason
         /\ prefix[k].type = "message_stop" /\ (fl.reason \/ \E j \in 1..(k - 1) : Gives(prefix[j])) => said.end
TranslatedClaims ==
  OpenAI =>
    /\ tr.done \/ tr.finish => said.end
    /\ said.end \/ (Open(wire) /\ Open(prefix))
    /\ format = "devin" => (said.end => devin.over) /\ (Earns(devin) => said.reason)

\* The client was told what the filter knows, and how its message ended.
Terminated(f) == f.started => f.terminal \/ f.failed \/ f.missingStop
Follows ==
  \/ gone \/ bypass
  \/ /\ Linked(fl, client)
     /\ pc \notin {"ended", "done"} => Ends(fl, client, said.error /\ ~OpenAI)
     /\ pc \in {"ended", "done"} =>
          Ends(fl, client, fl.protocolError \/ (said.error /\ ~OpenAI)) /\ Terminated(fl)

EndClaimed == client.complete => said.end

IInv ==
  /\ Typed /\ Fresh /\ CopiesWhole /\ AnthropicClaims /\ TranslatedClaims /\ Follows
  /\ EndClaimed /\ TruncationIsPenalised

\* What the gateway reads, by the format of the route.
LEMMA ReadTyped ==
  ASSUME NEW c \in Incoming
  PROVE  /\ ~OpenAI => IsEvent(c)
         /\ OpenAI /\ c.type = "choices" => c \in Completions
<1>1. CASE ~OpenAI
  <2>1. c \in [type : STRING, index : Blocks \cup {NoBlock}, kind : STRING, reason : STRING]
    BY <1>1, StreamAssumption DEF Incoming
  <2> QED BY <1>1, <2>1 DEF IsEvent
<1>2. CASE OpenAI /\ c \in Chunks
  BY <1>2, StreamAssumption DEF Completions, Pieces
<1>3. CASE OpenAI /\ c \in Wires
  BY <1>3 DEF Wires
<1> QED BY <1>1, <1>2, <1>3 DEF Incoming

\* One frame of an Anthropic stream.
LEMMA PipedAnthropic ==
  ASSUME Typed, ~OpenAI, NEW c \in Incoming, NEW error \in BOOLEAN
  PROVE  LET p == Piped(c)
             d == Received(client, p.out)
         IN /\ p.t = tr /\ IsFilter(p.f) /\ IsClient(d)
            /\ client.complete => d.complete
            /\ d.complete => client.complete \/ (c.type = "message_stop" /\ fl.reason)
            /\ p.f.reason => fl.reason \/ Gives(c)
            /\ p.over => Terminated(p.f)
            /\ Linked(fl, client) => Linked(p.f, d)
            /\ Linked(fl, client) /\ Ends(fl, client, error) => Ends(p.f, d, error \/ c.type = "error")
<1> DEFINE r == Filtered(fl, c)
<1>1. IsEvent(c) /\ IsFilter(fl) /\ IsClient(client)  BY ReadTyped DEF Typed
<1>2. Piped(c) = [t |-> tr, f |-> r.f, out |-> r.out, over |-> r.f.failed, err |-> r.f.failed]
  BY DEF Piped
<1>3. Piped(c).t = tr /\ Piped(c).f = r.f /\ Piped(c).out = r.out /\ Piped(c).over = r.f.failed
  BY <1>2
<1> DEFINE d == Received(client, r.out)
<1>4. /\ IsFilter(r.f) /\ IsClient(d)
      /\ client.complete => d.complete
      /\ d.complete => client.complete \/ (c.type = "message_stop" /\ fl.reason)
      /\ r.f.reason => fl.reason \/ (c.type = "message_delta" /\ c.reason # "none")
      /\ Linked(fl, client) => Linked(r.f, d)
      /\ Linked(fl, client) /\ Ends(fl, client, error) => Ends(r.f, d, error \/ c.type = "error")
  BY <1>1, FilteredFollows
<1> HIDE DEF r, d
<1>5. Received(client, Piped(c).out) = d  BY <1>3 DEF d
<1> QED BY <1>3, <1>4, <1>5 DEF Gives, Terminated

\* A sequence of events with none of the types K.
Lacks(s, K) == IsSeq(s) /\ \A k \in 1..Len(s) : IsEvent(s[k]) /\ s[k].type \notin K

\* What two sequences both lack, their concatenation lacks.
LEMMA LacksConcat ==
  ASSUME NEW s, NEW t, NEW K, NEW L, Lacks(s, K), Lacks(t, L)
  PROVE  Lacks(s \o t, K \cap L)
<1>1. /\ IsSeq(s \o t) /\ Len(s) \in Nat /\ Len(s \o t) = Len(s) + Len(t)
      /\ \A i \in 1..(Len(s) + Len(t)) : (s \o t)[i] = IF i <= Len(s) THEN s[i] ELSE t[i - Len(s)]
  BY ConcatSeqs DEF Lacks
<1>2. Len(t) \in Nat  BY LenProperties DEF Lacks, IsSeq
<1>3. ASSUME NEW i \in 1..Len(s \o t) PROVE IsEvent((s \o t)[i]) /\ (s \o t)[i].type \notin K \cap L
  <2>1. CASE i <= Len(s)
    <3> i \in 1..Len(s)  BY <1>1, <2>1
    <3> (s \o t)[i] = s[i]  BY <1>1, <2>1
    <3> QED BY DEF Lacks
  <2>2. CASE ~(i <= Len(s))
    <3> i - Len(s) \in 1..Len(t)  BY <1>1, <1>2, <2>2
    <3> (s \o t)[i] = t[i - Len(s)]  BY <1>1, <2>2
    <3> QED BY DEF Lacks
  <2> QED BY <2>1, <2>2
<1> QED BY <1>1, <1>3 DEF Lacks

\* A sequence of one event.
LEMMA LacksOne ==
  ASSUME NEW e, IsEvent(e), NEW K, e.type \notin K
  PROVE  Lacks(<<e>>, K) /\ <<e>> # <<>> /\ Last(<<e>>) = e
<1>1. <<e>> \in Seq({e}) /\ Len(<<e>>) = 1 /\ <<e>>[1] = e /\ <<e>> # <<>>  OBVIOUS
<1>2. IsSeq(<<e>>)  BY <1>1 DEF IsSeq
<1>3. ASSUME NEW k \in 1..Len(<<e>>) PROVE <<e>>[k] = e
  <2> k = 1  BY <1>1
  <2> QED BY <1>1
<1>4. \A k \in 1..Len(<<e>>) : IsEvent(<<e>>[k]) /\ <<e>>[k].type \notin K  BY <1>3
<1> QED BY <1>1, <1>2, <1>4 DEF Lacks, Last

\* What the translator writes while a message goes on does not end it.
LEMMA ContentLacks ==
  ASSUME NEW s \in Seq(Content)
  PROVE  Lacks(s, {"message_stop", "error"})
<1>1. ASSUME NEW k \in 1..Len(s) PROVE IsEvent(s[k]) /\ s[k].type \notin {"message_stop", "error"}
  <2>1. s[k] \in Content  BY <1>1
  <2> DEFINE e == s[k]
  <2>2. e \in Content  BY <2>1
  <2> HIDE DEF e
  <2>3. IsEvent(e) /\ e.type \notin {"message_stop", "error"}  BY <2>2 DEF Content, IsEvent, BlockEvents
  <2> QED BY <2>3 DEF e
<1> QED BY <1>1 DEF Lacks, IsSeq

\* An event without a block.
LEMMA PlainTyped ==
  ASSUME NEW type
  PROVE  IsEvent(Plain(type)) /\ Plain(type).type = type
BY DEF Plain, Event, IsEvent

\* A failing step says so and does not complete the message; a completing one
\* carries no error.
LEMMA FailingWrites ==
  ASSUME NEW t, NEW s, Failing(t, s)
  PROVE  Lacks(s.out, {"message_stop"}) /\ s.out # <<>> /\ Last(s.out).type = "error"
<1> DEFINE e == Plain("error")
<1>1. s.out = <<e>> /\ e.type = "error" /\ IsEvent(e)  BY PlainTyped DEF Failing
<1> HIDE DEF e
<1> QED BY <1>1, LacksOne

\* A step that completes the message writes no error.
LEMMA CompletingWrites ==
  ASSUME NEW t, NEW s, Completing(t, s)
  PROVE  Lacks(s.out, {"error"})
<1>1. PICK reason : \E stops \in Seq(Content) : s.out = stops \o <<StopDelta(reason), Plain("message_stop")>>
  BY DEF Completing
<1>2. PICK stops \in Seq(Content) : s.out = stops \o <<StopDelta(reason), Plain("message_stop")>>
  BY <1>1
<1> DEFINE a == StopDelta(reason)
           b == Plain("message_stop")
<1>3. IsEvent(a) /\ a.type = "message_delta"  BY DEF StopDelta, Plain, Event, IsEvent
<1>4. IsEvent(b) /\ b.type = "message_stop"  BY PlainTyped
<1>5. s.out = stops \o <<a, b>>  BY <1>2
<1> HIDE DEF a, b
<1>6. <<a, b>> \in Seq({a, b}) /\ Len(<<a, b>>) = 2 /\ <<a, b>>[1] = a /\ <<a, b>>[2] = b  OBVIOUS
<1>7. ASSUME NEW k \in 1..Len(<<a, b>>) PROVE <<a, b>>[k] = a \/ <<a, b>>[k] = b
  <2> k = 1 \/ k = 2  BY <1>6
  <2> QED BY <1>6
<1>8. Lacks(<<a, b>>, {"error"})
  <2>1. IsSeq(<<a, b>>)  BY <1>6 DEF IsSeq
  <2>2. \A k \in 1..Len(<<a, b>>) : IsEvent(<<a, b>>[k]) /\ <<a, b>>[k].type \notin {"error"}  BY <1>3, <1>4, <1>7
  <2> QED BY <2>1, <2>2 DEF Lacks
<1>9. Lacks(stops, {"message_stop", "error"})  BY ContentLacks
<1>10. Lacks(stops \o <<a, b>>, {"message_stop", "error"} \cap {"error"})  BY <1>8, <1>9, LacksConcat
<1>11. {"message_stop", "error"} \cap {"error"} = {"error"}  OBVIOUS
<1> QED BY <1>5, <1>10, <1>11

\* One chunk through the translator's loop.
LEMMA TranslatedTyped ==
  ASSUME NEW t \in Translators, NEW c, c.type = "choices" => c \in Completions
  PROVE  LET s == Translated(t, c)
         IN \/ Failing(t, s) /\ s.failed
            \/ /\ s \in Steps /\ s.t.ended = t.ended /\ (s.t.done => t.done \/ c.type = "done")
               /\ s.t.done \/ s.t.finish => t.done \/ t.finish \/ Concludes(c)
<1> DEFINE s == Translated(t, c)
           goal == \/ Failing(t, s) /\ s.failed
                   \/ /\ s \in Steps /\ s.t.ended = t.ended /\ (s.t.done => t.done \/ c.type = "done")
                      /\ s.t.done \/ s.t.finish => t.done \/ t.finish \/ Concludes(c)
<1> SUFFICES goal
  OBVIOUS
<1>1. CASE c.type = "choices"
  <2>1. s = ProcessChunk(t, c)  BY <1>1 DEF Translated
  <2>2. LET u == ProcessChunk(t, c)
        IN u \in Steps /\ u.t.ended = t.ended /\ u.t.done = t.done /\ (u.t.finish => t.finish \/ c.finish)
    BY <1>1, ChunkTyped
  <2> HIDE DEF s
  <2> QED BY <1>1, <2>1, <2>2 DEF Concludes
<1>2. CASE c.type = "done"
  <2> DEFINE u == [t EXCEPT !.done = TRUE]
  <2>1. s = Step(u, <<>>, FALSE)  BY <1>2 DEF Translated
  <2>2. u \in Translators /\ u.ended = t.ended  BY DEF Translators
  <2>3. <<>> \in Seq(Content)  OBVIOUS
  <2> HIDE DEF s, u
  <2> QED BY <1>2, <2>1, <2>2, <2>3 DEF Step, Steps, Concludes
<1>3. CASE c.type = "comment"
  <2>1. s = Step(t, <<>>, FALSE)  BY <1>3 DEF Translated
  <2>3. <<>> \in Seq(Content)  OBVIOUS
  <2> HIDE DEF s
  <2> QED BY <2>1, <2>3 DEF Step, Steps
<1>4. CASE c.type \notin {"choices", "done", "comment"}
  <2>1. s = Quit(t, <<>>)  BY <1>4 DEF Translated
  <2>2. Quit(t, <<>>).failed  BY DEF Quit, Step
  <2> HIDE DEF s
  <2> QED BY <2>1, <2>2, QuitTyped
<1> QED BY <1>1, <1>2, <1>3, <1>4

\* What the end of the translator's message writes: either an error that the
\* gateway notes, or a message_stop that a finish or a [DONE] preceded.
Says(e) == e.out # <<>> /\ Last(e.out).type = "error"
Finishes(e) == e.t.ended /\ ~e.failed /\ WholeCalls(e.t)
Yields(e, s, may) ==
  /\ e.t \in Translators /\ (e.t.done \/ e.t.finish => may)
  /\ \/ Lacks(s, {"message_stop", "error"})
     \/ Lacks(s, {"message_stop"}) /\ e.t.ended /\ Says(e)
     \/ Lacks(s, {"error"}) /\ Finishes(e) /\ may

\* A step that fails.
LEMMA FailingYields ==
  ASSUME NEW t \in Translators, NEW s, Failing(t, s), NEW may \in BOOLEAN, t.done \/ t.finish => may
  PROVE  /\ s.t \in Translators /\ s.t.ended /\ (s.t.done \/ s.t.finish => may)
         /\ Lacks(s.out, {"message_stop"}) /\ Says(s)
<1>1. s.t = [t EXCEPT !.ended = TRUE]  BY DEF Failing
<1>2. s.t \in Translators /\ s.t.ended /\ s.t.done = t.done /\ s.t.finish = t.finish  BY <1>1 DEF Translators
<1> QED BY <1>2, FailingWrites DEF Says

\* A step that completes.
LEMMA CompletingYields ==
  ASSUME NEW t \in Translators, NEW s, Completing(t, s), NEW may \in BOOLEAN, t.done \/ t.finish => may
  PROVE  /\ s.t \in Translators /\ Finishes(s) /\ s.t.ended /\ (s.t.done \/ s.t.finish => may)
         /\ Lacks(s.out, {"error"})
<1>1. s.t = [t EXCEPT !.ended = TRUE, !.text = NoBlock]  BY DEF Completing
<1>2. /\ s.t \in Translators /\ s.t.ended /\ s.t.done = t.done /\ s.t.finish = t.finish
      /\ s.t.tools = t.tools
  <2>1. NoBlock \in Int  BY DEF NoBlock
  <2> QED BY <1>1, <2>1 DEF Translators
<1>3. Finishes(s)  BY <1>2 DEF Completing, Finishes, WholeCalls, Seen
<1> QED BY <1>2, <1>3, CompletingWrites

\* The step that ends the source of a translated stream.
LEMMA ConcludedYields ==
  ASSUME NEW t \in Translators, NEW broken \in BOOLEAN, NEW may \in BOOLEAN, t.done \/ t.finish => may
  PROVE  LET e == Concluded(t, broken) IN Yields(e, e.out, may) /\ e.t.ended
<1> DEFINE e == Concluded(t, broken)
<1>1. Failing(t, e) \/ (Completing(t, e) /\ (t.done \/ t.finish))  BY ConcludedTyped
<1> HIDE DEF e
<1>2. CASE Failing(t, e)  BY <1>2, FailingYields DEF Yields, e
<1>3. CASE Completing(t, e) /\ (t.done \/ t.finish)  BY <1>3, CompletingYields DEF Yields, e
<1> QED BY <1>1, <1>2, <1>3

\* The input of the filter for one chunk.
Ran(t, c) == LET s == Translated(t, c) IN IF ~s.failed /\ s.t.done THEN Concluded(s.t, FALSE) ELSE s
Fed(t, c) == LET s == Translated(t, c) IN IF Ran(t, c) = s THEN s.out ELSE s.out \o Ran(t, c).out

\* One chunk.
LEMMA ChunkYields ==
  ASSUME NEW t \in Translators, NEW c, c.type = "choices" => c \in Completions, NEW may \in BOOLEAN,
         t.done \/ t.finish \/ Concludes(c) => may
  PROVE  Yields(Ran(t, c), Fed(t, c), may)
<1> DEFINE s == Translated(t, c)
           more == ~s.failed /\ s.t.done
           e == Concluded(s.t, FALSE)
<1>1. CASE Failing(t, s) /\ s.failed
  <2>1. Ran(t, c) = s /\ Fed(t, c) = s.out  BY <1>1 DEF Ran, Fed
  <2>2. /\ s.t \in Translators /\ s.t.ended /\ (s.t.done \/ s.t.finish => may)
        /\ Lacks(s.out, {"message_stop"}) /\ Says(s)
    BY <1>1, FailingYields
  <2> HIDE DEF s
  <2> QED BY <2>1, <2>2 DEF Yields
<1>2. CASE s \in Steps /\ (s.t.done \/ s.t.finish => t.done \/ t.finish \/ Concludes(c))
  <2>1. s.t \in Translators /\ s.out \in Seq(Content) /\ (s.t.done \/ s.t.finish => may)  BY <1>2 DEF Steps
  <2>2. Lacks(s.out, {"message_stop", "error"})  BY <2>1, ContentLacks
  <2>3. CASE ~more
    <3>1. Ran(t, c) = s /\ Fed(t, c) = s.out  BY <2>3 DEF Ran, Fed
    <3> HIDE DEF s
    <3> QED BY <2>1, <2>2, <3>1 DEF Yields
  <2>4. CASE more
    <3>1. Ran(t, c) = e /\ (Fed(t, c) = s.out \/ Fed(t, c) = s.out \o e.out)  BY <2>4 DEF Ran, Fed
    <3>2. Yields(e, e.out, may)
      <4> HIDE DEF s
      <4> QED BY <2>1, ConcludedYields
    <3> HIDE DEF s, e
    <3>3. CASE Fed(t, c) = s.out  BY <2>2, <3>1, <3>2, <3>3 DEF Yields
    <3>4. CASE Fed(t, c) = s.out \o e.out
      <4> DEFINE A == {"message_stop", "error"}
      <4>1. ASSUME NEW K \in SUBSET A, Lacks(e.out, K) PROVE Lacks(s.out \o e.out, K)
        <5>1. Lacks(s.out \o e.out, A \cap K)  BY <2>2, <4>1, LacksConcat
        <5>2. A \cap K = K  OBVIOUS
        <5> QED BY <5>1, <5>2
      <4>2. /\ Lacks(e.out, {"message_stop", "error"}) => Lacks(s.out \o e.out, {"message_stop", "error"})
            /\ Lacks(e.out, {"message_stop"}) => Lacks(s.out \o e.out, {"message_stop"})
            /\ Lacks(e.out, {"error"}) => Lacks(s.out \o e.out, {"error"})
        BY <4>1
      <4> QED BY <3>1, <3>2, <3>4, <4>2 DEF Yields
    <3> QED BY <3>1, <3>3, <3>4
  <2> QED BY <2>3, <2>4
<1>3. \/ Failing(t, s) /\ s.failed
      \/ s \in Steps /\ (s.t.done \/ s.t.finish => t.done \/ t.finish \/ Concludes(c))
  BY TranslatedTyped
<1> QED BY <1>1, <1>2, <1>3

\* What the filter lets pass of the translator's step, and, if the stream is
\* over, its own ending.
Shown(r, over) == IF over /\ ~r.f.failed THEN SourceEnded(r.f) ELSE Out(r.f, <<>>)
Marked(f, e) == [f EXCEPT !.protocolError = @ \/ (e.t.ended /\ Says(e))]

\* The link of filter and client after it; may: the upstream claimed an end.
Shows(f, c, e, s, may, over) ==
  LET r == AllFiltered(f, s)
      z == Shown(r, over)
      g == Marked(z.f, e)
      d == Received(c, r.out \o z.out)
  IN /\ IsFilter(g) /\ IsClient(d)
     /\ d.complete => c.complete \/ (may /\ Finishes(e))
     /\ over \/ r.f.failed => Terminated(g)
     /\ Linked(f, c) => Linked(g, d)
     /\ Linked(f, c) /\ Ends(f, c, FALSE) =>
          Ends(g, d, g.protocolError) /\ (~over /\ ~r.f.failed => Ends(g, d, FALSE))

\* The filter follows the translator's step.
LEMMA ShownFollows ==
  ASSUME NEW f, IsFilter(f), NEW c, IsClient(c), NEW e, NEW s, NEW may \in BOOLEAN, Yields(e, s, may),
         NEW over \in BOOLEAN, e.t.ended => over
  PROVE  Shows(f, c, e, s, may, over)
<1> DEFINE r == AllFiltered(f, s)
           z == Shown(r, over)
           g == Marked(z.f, e)
           d == Received(c, r.out)
           D == Received(c, r.out \o z.out)
           marks == e.t.ended /\ Says(e)
           stops == \E k \in 1..Len(s) : s[k].type = "message_stop"
           errors == \E k \in 1..Len(s) : s[k].type = "error"
<1>1. IsSeq(s) /\ (\A k \in 1..Len(s) : IsEvent(s[k])) /\ (stops => may /\ Finishes(e)) /\ (errors => marks)
  BY DEF Yields, Lacks
<1>2. /\ IsFilter(r.f) /\ IsClient(d) /\ IsSeq(r.out)
      /\ d.complete => c.complete \/ stops
      /\ Linked(f, c) => Linked(r.f, d)
      /\ Linked(f, c) /\ Ends(f, c, FALSE) => Ends(r.f, d, FALSE \/ errors)
  BY <1>1, AllFilteredFollows
<1> HIDE DEF r, d, stops, errors, marks
<1>3. /\ IsFilter(z.f) /\ (z.out = <<>> \/ (\E x : z.out = <<x>>)) /\ z.f.failed = r.f.failed
      /\ IsClient(D)
      /\ D.complete => c.complete \/ stops
      /\ over \/ r.f.failed => Terminated(z.f)
      /\ Linked(f, c) => Linked(z.f, D)
      /\ Linked(f, c) /\ Ends(f, c, FALSE) => Ends(z.f, D, errors)
  <2>1. CASE over /\ ~r.f.failed
    <3> DEFINE w == SourceEnded(r.f)
               x == Received(d, w.out)
    <3>1. z = w  BY <2>1 DEF Shown
    <3>2. errors \in BOOLEAN  BY DEF errors
    <3>3. /\ IsFilter(w.f) /\ IsClient(x)
          /\ w.out = <<>> \/ (\E y : w.out = <<y>>)
          /\ x.complete = d.complete
          /\ w.f.failed = r.f.failed
          /\ w.f.started => w.f.terminal \/ w.f.missingStop
          /\ Linked(r.f, d) => Linked(w.f, x)
          /\ Linked(r.f, d) /\ Ends(r.f, d, errors) => Ends(w.f, x, errors)
      <4> DEFINE h == r.f
      <4> HIDE DEF h
      <4> SUFFICES LET u == SourceEnded(h)
                       y == Received(d, u.out)
                   IN /\ IsFilter(u.f) /\ IsClient(y)
                      /\ u.out = <<>> \/ (\E v : u.out = <<v>>)
                      /\ y.complete = d.complete
                      /\ u.f.failed = h.failed
                      /\ u.f.started => u.f.terminal \/ u.f.missingStop
                      /\ Linked(h, d) => Linked(u.f, y)
                      /\ Linked(h, d) /\ Ends(h, d, errors) => Ends(u.f, y, errors)
        BY DEF h
      <4>1. IsFilter(h) /\ IsClient(d)  BY <1>2 DEF h
      <4>2. LET u == SourceEnded(h)
                y == Received(d, u.out)
            IN /\ IsFilter(u.f) /\ IsClient(y)
               /\ u.out = <<>> \/ (\E v : u.out = <<v>>)
               /\ y.complete = d.complete
               /\ u.f.failed = h.failed
               /\ u.f.started => u.f.terminal \/ u.f.missingStop
               /\ Linked(h, d) => Linked(u.f, y)
               /\ Linked(h, d) /\ Ends(h, d, FALSE) => Ends(u.f, y, FALSE)
        BY <4>1, SourceEndedFollows
      <4>3. CASE errors
        <5> Ends(SourceEnded(h).f, Received(d, SourceEnded(h).out), errors)  BY <4>3 DEF Ends
        <5> QED BY <4>2
      <4>4. CASE ~errors
        <5> Ends(h, d, errors) => Ends(h, d, FALSE)  BY <4>4 DEF Ends
        <5> Ends(SourceEnded(h).f, Received(d, SourceEnded(h).out), FALSE)
              => Ends(SourceEnded(h).f, Received(d, SourceEnded(h).out), errors)  BY DEF Ends
        <5> QED BY <4>2
      <4> QED BY <3>2, <4>3, <4>4
    <3> HIDE DEF w, z
    <3>4. D = x
      <4> DEFINE y == w.out
                 o == r.out
      <4>1. IsSeq(o) /\ (y = <<>> \/ (\E v : y = <<v>>))  BY <1>2, <3>3
      <4> HIDE DEF y, o
      <4>2. Received(c, o \o y) = Received(Received(c, o), y)  BY <4>1, ReceivedAdds
      <4>3. Received(c, r.out \o w.out) = Received(Received(c, r.out), w.out)  BY <4>2 DEF o, y
      <4> QED BY <3>1, <4>3 DEF d
    <3> HIDE DEF x, D
    <3>5. Linked(f, c) /\ Ends(f, c, FALSE) => Ends(z.f, D, errors)
      <4> Ends(r.f, d, FALSE \/ errors) => Ends(r.f, d, errors)  BY DEF Ends
      <4> QED BY <1>2, <3>1, <3>3, <3>4
    <3>6. Terminated(w.f)  BY <3>3 DEF Terminated
    <3> QED BY <1>2, <3>1, <3>3, <3>4, <3>5, <3>6
  <2>2. CASE ~(over /\ ~r.f.failed)
    <3>1. z = Out(r.f, <<>>)  BY <2>2 DEF Shown
    <3>2. z.f = r.f /\ z.out = <<>>  BY <3>1 DEF Out
    <3> HIDE DEF z
    <3>3. D = d
      <4> r.out \o z.out = r.out  BY <1>2, <3>2, ConcatEmptySeq DEF IsSeq
      <4> QED BY DEF d
    <3> HIDE DEF D
    <3>4. Ends(r.f, d, FALSE \/ errors) => Ends(z.f, D, errors)  BY <3>2, <3>3 DEF Ends
    <3>5. over \/ r.f.failed => Terminated(z.f)  BY <2>2, <3>2 DEF Terminated
    <3> QED BY <1>2, <3>2, <3>3, <3>4, <3>5
  <2> QED BY <2>1, <2>2
<1> HIDE DEF z, D
<1>4. /\ IsFilter(g) /\ g.started = z.f.started /\ g.terminal = z.f.terminal /\ g.missingStop = z.f.missingStop
      /\ g.failed = z.f.failed /\ g.protocolError = (z.f.protocolError \/ marks)
  <2> DEFINE b == z.f.protocolError \/ marks
  <2>1. g = [z.f EXCEPT !.protocolError = b]  BY DEF Marked, marks
  <2>2. b \in BOOLEAN  OBVIOUS
  <2>3. b = (z.f.protocolError \/ marks)  OBVIOUS
  <2> HIDE DEF b, g
  <2> QED BY <1>3, <2>1, <2>2, <2>3 DEF IsFilter
<1>5. marks => over  BY DEF marks
<1> HIDE DEF g
<1>6. Linked(f, c) => Linked(g, D)  BY <1>3, <1>4 DEF Linked
<1>7. Linked(f, c) /\ Ends(f, c, FALSE) =>
        Ends(g, D, g.protocolError) /\ (~over /\ ~r.f.failed => Ends(g, D, FALSE))
  BY <1>1, <1>3, <1>4, <1>5 DEF Ends
<1>8. over \/ r.f.failed => Terminated(g)  BY <1>3, <1>4 DEF Terminated
<1>9. D.complete => c.complete \/ (may /\ Finishes(e))  BY <1>1, <1>3
<1> QED BY <1>3, <1>4, <1>6, <1>7, <1>8, <1>9 DEF Shows, r, z, g, D

\* The pipeline's answer to a chunk.
LEMMA PipedShape ==
  ASSUME OpenAI, NEW c
  PROVE  LET e == Ran(tr, c)
             over == e.failed \/ e.t.ended
             r == AllFiltered(fl, Fed(tr, c))
             p == Piped(c)
         IN /\ p.t = e.t /\ p.f = Marked(Shown(r, over).f, e) /\ p.out = r.out \o Shown(r, over).out
            /\ p.over = (over \/ r.f.failed)
<1> DEFINE e == Ran(tr, c)
           s == Fed(tr, c)
           over == e.failed \/ e.t.ended
           r == AllFiltered(fl, s)
           y == Shown(r, over)
           p == Piped(c)
           g == Marked(y.f, e)
           out == r.out \o y.out
<1>1. p = [t |-> e.t, f |-> g, out |-> out, over |-> over \/ r.f.failed, err |-> e.failed \/ r.f.failed]
  BY DEF Piped, Ran, Fed, Shown, Marked, Says
<1> HIDE DEF e, s, over, r, y, p, g, out
<1>2. p.t = e.t /\ p.f = g /\ p.out = out /\ p.over = (over \/ r.f.failed)  BY <1>1
<1> QED BY <1>2 DEF e, s, over, r, y, p, g, out

\* One chunk through translator and filter.
LEMMA PipedTranslated ==
  ASSUME Typed, OpenAI, NEW c \in Incoming, NEW may \in BOOLEAN, tr.done \/ tr.finish \/ Concludes(c) => may
  PROVE  LET p == Piped(c)
             d == Received(client, p.out)
         IN /\ p.t \in Translators /\ (p.t.done \/ p.t.finish => may)
            /\ IsFilter(p.f) /\ IsClient(d) /\ p.over \in BOOLEAN
            /\ d.complete => client.complete \/ (may /\ Finishes(Ran(tr, c)))
            /\ p.over => Terminated(p.f)
            /\ Linked(fl, client) => Linked(p.f, d)
            /\ Linked(fl, client) /\ Ends(fl, client, FALSE) =>
                 Ends(p.f, d, p.f.protocolError) /\ (~p.over => Ends(p.f, d, FALSE))
<1> DEFINE e == Ran(tr, c)
           s == Fed(tr, c)
           over == e.failed \/ e.t.ended
<1>0. PICK o \in BOOLEAN : o = over  OBVIOUS
<1> DEFINE r == AllFiltered(fl, s)
           z == Shown(r, o)
           g == Marked(z.f, e)
           out == r.out \o z.out
           d == Received(client, out)
           p == Piped(c)
<1>1. p = [t |-> e.t, f |-> g, out |-> out, over |-> over \/ r.f.failed, err |-> e.failed \/ r.f.failed]
  <2> DEFINE y == Shown(r, over)
  <2>1. p = [t |-> e.t, f |-> Marked(y.f, e), out |-> r.out \o y.out, over |-> over \/ r.f.failed,
             err |-> e.failed \/ r.f.failed]
    BY DEF Piped, Ran, Fed, Shown, Marked, Says
  <2>2. y = z  BY <1>0 DEF Shown
  <2> HIDE DEF y, r, p, e, over
  <2> QED BY <2>1, <2>2
<1>2. c.type = "choices" => c \in Completions  BY ReadTyped
<1>3. tr \in Translators /\ IsFilter(fl) /\ IsClient(client)  BY DEF Typed
<1>4. Yields(e, s, may)  BY <1>2, <1>3, ChunkYields
<1>5. o \in BOOLEAN /\ (e.t.ended => o)  BY <1>0
<1> HIDE DEF e, s, over
<1>6. /\ IsFilter(g) /\ IsClient(d)
      /\ d.complete => client.complete \/ (may /\ Finishes(e))
      /\ o \/ r.f.failed => Terminated(g)
      /\ Linked(fl, client) => Linked(g, d)
      /\ Linked(fl, client) /\ Ends(fl, client, FALSE) =>
           Ends(g, d, g.protocolError) /\ (~o /\ ~r.f.failed => Ends(g, d, FALSE))
  <2>1. Shows(fl, client, e, s, may, o)  BY <1>3, <1>4, <1>5, ShownFollows
  <2> QED BY <2>1 DEF Shows
<1> HIDE DEF p, r, z, g, out, d
<1>7. p.t = e.t /\ p.f = g /\ p.out = out /\ p.over = (over \/ r.f.failed)  BY <1>1
<1>8. e.t \in Translators /\ (e.t.done \/ e.t.finish => may)  BY <1>4 DEF Yields
<1>9. Received(client, p.out) = d  BY <1>7 DEF d
<1> QED BY <1>0, <1>6, <1>7, <1>8, <1>9 DEF p, e

\* The end of the source of a translated stream, and of an Anthropic one.
Finale(s) ==
  LET r == AllFiltered(fl, s.out)
      z == IF r.f.failed THEN r ELSE Out(SourceEnded(r.f).f, r.out \o SourceEnded(r.f).out)
  IN [f |-> [z.f EXCEPT !.protocolError = @ \/ Says(s)], out |-> z.out]

\* The end of a translated stream.
LEMMA FinaleFollows ==
  ASSUME Typed, NEW s, NEW may \in BOOLEAN, Yields(s, s.out, may), s.t.ended
  PROVE  LET z == Finale(s)
             d == Received(client, z.out)
         IN /\ IsFilter(z.f) /\ IsClient(d)
            /\ d.complete => client.complete \/ (may /\ Finishes(s))
            /\ Terminated(z.f)
            /\ Linked(fl, client) => Linked(z.f, d)
            /\ Linked(fl, client) /\ Ends(fl, client, FALSE) => Ends(z.f, d, z.f.protocolError)
<1> DEFINE r == AllFiltered(fl, s.out)
           z == Shown(r, TRUE)
           g == Marked(z.f, s)
           out == r.out \o z.out
           d == Received(client, out)
           v == Finale(s)
<1>1. IsFilter(fl) /\ IsClient(client)  BY DEF Typed
<1>2. /\ IsFilter(g) /\ IsClient(d)
      /\ d.complete => client.complete \/ (may /\ Finishes(s))
      /\ TRUE \/ r.f.failed => Terminated(g)
      /\ Linked(fl, client) => Linked(g, d)
      /\ Linked(fl, client) /\ Ends(fl, client, FALSE) =>
           Ends(g, d, g.protocolError) /\ (~TRUE /\ ~r.f.failed => Ends(g, d, FALSE))
  <2>1. Shows(fl, client, s, s.out, may, TRUE)  BY <1>1, ShownFollows
  <2> QED BY <2>1 DEF Shows
<1>3. IsSeq(r.out)
  <2>1. IsSeq(s.out) /\ \A k \in 1..Len(s.out) : IsEvent(s.out[k])  BY DEF Yields, Lacks
  <2> QED BY <1>1, <2>1, AllFilteredFollows
<1>4. v.f = g /\ v.out = out
  <2> DEFINE x == SourceEnded(r.f)
             w == IF r.f.failed THEN r ELSE Out(x.f, r.out \o x.out)
  <2>1. v = [f |-> [w.f EXCEPT !.protocolError = @ \/ Says(s)], out |-> w.out]  BY DEF Finale
  <2>2. g = [z.f EXCEPT !.protocolError = @ \/ Says(s)]  BY DEF Marked
  <2>3. w.f = z.f /\ w.out = out
    <3>1. CASE r.f.failed
      <4>1. z = Out(r.f, <<>>) /\ w = r  BY <3>1 DEF Shown
      <4>3. r.out \o <<>> = r.out  BY <1>3, ConcatEmptySeq DEF IsSeq
      <4> HIDE DEF r, z, w
      <4>2. z.f = r.f /\ z.out = <<>>  BY <4>1 DEF Out
      <4> QED BY <4>1, <4>2, <4>3
    <3>2. CASE ~r.f.failed
      <4>1. z = x /\ w = Out(x.f, r.out \o x.out)  BY <3>2 DEF Shown
      <4> HIDE DEF r, z, w, x
      <4> QED BY <4>1 DEF Out
    <3> QED BY <3>1, <3>2
  <2> HIDE DEF w, v, g, z, out
  <2> QED BY <2>1, <2>2, <2>3
<1> HIDE DEF v, g, out, d, r, z
<1>5. Received(client, v.out) = d  BY <1>4 DEF d
<1> QED BY <1>2, <1>4, <1>5 DEF v

\* The end of an Anthropic stream: nothing is left to translate.
LEMMA PlainFinaleFollows ==
  ASSUME Typed, NEW s, s.out = <<>>, NEW error \in BOOLEAN
  PROVE  LET z == Finale(s)
             d == Received(client, z.out)
         IN /\ IsFilter(z.f) /\ IsClient(d)
            /\ d.complete => client.complete
            /\ Terminated(z.f)
            /\ z.f.reason => fl.reason
            /\ Linked(fl, client) => Linked(z.f, d)
            /\ Linked(fl, client) /\ Ends(fl, client, error) => Ends(z.f, d, error)
<1> DEFINE x == SourceEnded(fl)
           v == Finale(s)
           d == Received(client, x.out)
           r == Out(fl, <<>>)
           z == IF r.f.failed THEN r ELSE Out(SourceEnded(r.f).f, r.out \o SourceEnded(r.f).out)
           y == IF fl.failed THEN r ELSE Out(x.f, x.out)
           says == Says(s)
           g == [y.f EXCEPT !.protocolError = @ \/ says]
<1>1. IsFilter(fl) /\ IsClient(client)  BY DEF Typed
<1>2. AllFiltered(fl, s.out) = r  BY FilteredNone
<1>3. says = FALSE  BY DEF Says
<1>4. /\ IsFilter(x.f) /\ IsClient(d)
      /\ x.out = <<>> \/ (\E u : x.out = <<u>>)
      /\ d.complete = client.complete
      /\ x.f.failed = fl.failed
      /\ x.f.started => x.f.terminal \/ x.f.missingStop
      /\ Linked(fl, client) => Linked(x.f, d)
      /\ Linked(fl, client) /\ Ends(fl, client, error) => Ends(x.f, d, error)
  BY <1>1, SourceEndedFollows
<1>5. x.f.reason => fl.reason
  <2> DEFINE m == [fl EXCEPT !.missingStop = TRUE]
  <2>1. m.reason = fl.reason  BY <1>1 DEF IsFilter
  <2>2. x.f = m \/ x.f = fl  BY DEF SourceEnded, Out
  <2> HIDE DEF x, m
  <2> QED BY <2>1, <2>2
<1>6. v = [f |-> [z.f EXCEPT !.protocolError = @ \/ says], out |-> z.out]
  BY <1>2 DEF Finale
<1>7. r.f = fl /\ r.out = <<>>  BY DEF Out
<1>8. z = y
  <2>1. <<>> \o x.out = x.out
    <3>1. CASE x.out = <<>>  BY <3>1, EmptySeq, ConcatEmptySeq
    <3>2. CASE \E u : x.out = <<u>>
      <4> PICK u : x.out = <<u>>  BY <3>2
      <4> QED BY <<u>> \in Seq({u}), ConcatEmptySeq
    <3> QED BY <1>4, <3>1, <3>2
  <2>2. SourceEnded(r.f) = x  BY <1>7
  <2> HIDE DEF r, x
  <2> QED BY <1>7, <2>1, <2>2
<1>9. v.f = g /\ v.out = y.out
  <2> HIDE DEF z, y, says, v
  <2> QED BY <1>6, <1>8
<1> HIDE DEF says, z, v, x, d
<1>10. CASE fl.failed
  <2>1. y.f = fl /\ y.out = <<>>  BY <1>7, <1>10
  <2> HIDE DEF y
  <2>2. g = fl  BY <1>1, <1>3, <2>1 DEF IsFilter
  <2>3. Received(client, v.out) = client  BY <1>9, <2>1, ReceivedNone
  <2>4. v.f = fl  BY <1>9, <2>2
  <2> HIDE DEF g
  <2> QED BY <1>1, <1>10, <2>3, <2>4 DEF Terminated, v
<1>11. CASE ~fl.failed
  <2>1. y.f = x.f /\ y.out = x.out  BY <1>11 DEF Out
  <2> HIDE DEF y
  <2>2. g = x.f  BY <1>3, <1>4, <2>1 DEF IsFilter
  <2>3. Received(client, v.out) = d  BY <1>9, <2>1 DEF d
  <2>4. v.f = x.f  BY <1>9, <2>2
  <2> HIDE DEF g
  <2>5. Terminated(v.f)  BY <1>4, <2>4 DEF Terminated
  <2> QED BY <1>4, <1>5, <2>3, <2>4, <2>5 DEF v
<1> QED BY <1>10, <1>11

\* Claims are not taken back.
Grows == IsClaim(said') /\ (said.reason => said'.reason) /\ (said.end => said'.end) /\ (said.error => said'.error)

\* One frame through the pipeline, from the prefix or from the wire, whose
\* claims are noted.
LEMMA CarryKeeps ==
  ASSUME IInv, pc = "streaming", NEW c \in Incoming, Carry(c), UNCHANGED <<format, gone, bypass>>, Grows,
         ~OpenAI => /\ c.type = "error" => said'.error
                    /\ c.type = "message_stop" /\ fl.reason => said'.end,
         OpenAI => (Concludes(c) => said'.end)
  PROVE  /\ pc' \in {"streaming", "ended"} /\ tr' \in Translators /\ IsFilter(fl') /\ IsClient(client')
         /\ Follows' /\ EndClaimed'
         /\ OpenAI => (tr'.done \/ tr'.finish => said'.end)
         /\ ~OpenAI => (fl'.reason => fl.reason \/ Gives(c))
         /\ bypass => /\ client.complete => client'.complete
                      /\ c.type = "message_stop" => gone \/ client'.complete
<1>0. format' = format /\ gone' = gone /\ bypass' = bypass  OBVIOUS
<1>1. Typed /\ IsClient(client)  BY DEF IInv, Typed
<1>2. CASE bypass
  <2>1. ~OpenAI /\ said.end  BY <1>2 DEF IInv, CopiesWhole, OpenAI
  <2>2. client' = IF gone THEN client ELSE Received(client, <<c>>)  BY <1>2 DEF Carry, Tell
  <2>3. tr' = tr /\ fl' = fl /\ pc' = pc  BY <1>2 DEF Carry
  <2>4. Received(client, <<c>>) = Receive(client, c)  BY ReceivedOne
  <2>5. LET d == Receive(client, c)
        IN /\ IsClient(d)
           /\ d.started = (client.started \/ c.type = "message_start")
           /\ d.complete = (client.complete \/ c.type = "message_stop")
           /\ d.failed = (client.failed \/ c.type = "error")
    BY <1>1, ReceiveTyped
  <2>6. IsClient(client') /\ (client.complete => client'.complete) /\ (c.type = "message_stop" => gone \/ client'.complete)
    BY <1>1, <2>2, <2>4, <2>5
  <2>7. Follows' /\ EndClaimed'  BY <1>2, <2>1 DEF Follows, EndClaimed, Grows
  <2> QED BY <1>1, <2>1, <2>3, <2>6, <2>7 DEF Typed
<1>3. CASE ~bypass
  <2> DEFINE p == Piped(c)
             d == Received(client, p.out)
  <2>1. tr' = p.t /\ fl' = p.f /\ client' = (IF gone THEN client ELSE d) /\ pc' = IF p.over THEN "ended" ELSE pc
    BY <1>3 DEF Carry, Tell
  <2>2. gone \/ (Linked(fl, client) /\ Ends(fl, client, said.error /\ ~OpenAI))
    BY <1>3 DEF IInv, Follows
  <2>3. client.complete => said'.end  BY DEF IInv, EndClaimed, Grows
  <2>4. CASE ~OpenAI
    <3>1. PICK error \in BOOLEAN : error = said.error  BY DEF IInv, Typed, IsClaim
    <3>2. /\ p.t = tr /\ IsFilter(p.f) /\ IsClient(d)
          /\ client.complete => d.complete
          /\ d.complete => client.complete \/ (c.type = "message_stop" /\ fl.reason)
          /\ p.f.reason => fl.reason \/ Gives(c)
          /\ p.over => Terminated(p.f)
          /\ Linked(fl, client) => Linked(p.f, d)
          /\ Linked(fl, client) /\ Ends(fl, client, error) => Ends(p.f, d, error \/ c.type = "error")
      BY <1>1, <2>4, PipedAnthropic
    <3> HIDE DEF p, d
    <3>3. IsClient(client') /\ (client'.complete => said'.end)  BY <1>1, <2>1, <2>3, <2>4, <3>2
    <3>4. ASSUME ~gone PROVE Follows'
      <4>1. client' = d  BY <2>1, <3>4
      <4>2. Linked(fl', client')  BY <2>1, <2>2, <3>2, <3>4, <4>1
      <4>3. Ends(fl', client', said'.error)
        <5>1. Ends(fl, client, error)  BY <2>2, <2>4, <3>1, <3>4 DEF Ends
        <5>2. Ends(p.f, d, error \/ c.type = "error")  BY <2>2, <3>2, <3>4, <5>1
        <5>3. error \/ c.type = "error" => said'.error  BY <2>4, <3>1 DEF Grows
        <5> QED BY <2>1, <4>1, <5>2, <5>3 DEF Ends
      <4>4. pc' = "ended" => Terminated(fl')  BY <2>1, <3>2
      <4>5. pc' \in {"streaming", "ended"}  BY <2>1
      <4>6. ~OpenAI'  BY <2>4 DEF OpenAI
      <4>7. Ends(fl', client', said'.error /\ ~OpenAI')  BY <4>3, <4>6 DEF Ends
      <4>8. Ends(fl', client', fl'.protocolError \/ (said'.error /\ ~OpenAI'))  BY <4>3, <4>6 DEF Ends
      <4> QED BY <4>2, <4>4, <4>5, <4>7, <4>8 DEF Follows
    <3>5. ASSUME gone PROVE Follows'  BY <1>0, <3>5 DEF Follows
    <3>6. Follows'  BY <3>4, <3>5
    <3> QED BY <1>1, <1>3, <2>1, <2>4, <3>2, <3>3, <3>6 DEF Typed, EndClaimed
  <2>5. CASE OpenAI
    <3>1. PICK may \in BOOLEAN : may = said'.end  BY DEF Grows, IsClaim
    <3>2. tr.done \/ tr.finish \/ Concludes(c) => may
      BY <2>5, <3>1 DEF IInv, TranslatedClaims, Grows
    <3>3. /\ p.t \in Translators /\ (p.t.done \/ p.t.finish => may)
          /\ IsFilter(p.f) /\ IsClient(d) /\ p.over \in BOOLEAN
          /\ d.complete => client.complete \/ may
          /\ p.over => Terminated(p.f)
          /\ Linked(fl, client) => Linked(p.f, d)
          /\ Linked(fl, client) /\ Ends(fl, client, FALSE) =>
               Ends(p.f, d, p.f.protocolError) /\ (~p.over => Ends(p.f, d, FALSE))
      BY <1>1, <2>5, <3>2, PipedTranslated
    <3> HIDE DEF p, d
    <3>4. IsClient(client') /\ (client'.complete => said'.end)  BY <1>1, <2>1, <2>3, <3>1, <3>3
    <3>5. ASSUME ~gone PROVE Follows'
      <4>1. client' = d  BY <2>1, <3>5
      <4>2. Linked(fl', client')  BY <2>1, <2>2, <3>3, <3>5, <4>1
      <4>3. Linked(fl, client) /\ Ends(fl, client, FALSE)  BY <2>2, <2>5, <3>5 DEF Ends
      <4>4. Ends(fl', client', fl'.protocolError) /\ (pc' # "ended" => Ends(fl', client', FALSE))
        BY <2>1, <3>3, <4>1, <4>3
      <4>5. pc' = "ended" => Terminated(fl')  BY <2>1, <3>3
      <4>6. pc' \in {"streaming", "ended"}  BY <2>1
      <4>7. pc' # "ended" => Ends(fl', client', said'.error /\ ~OpenAI')  BY <4>4 DEF Ends
      <4>8. Ends(fl', client', fl'.protocolError \/ (said'.error /\ ~OpenAI'))  BY <4>4 DEF Ends
      <4> QED BY <4>2, <4>5, <4>6, <4>7, <4>8 DEF Follows
    <3>6. ASSUME gone PROVE Follows'  BY <1>0, <3>6 DEF Follows
    <3>7. Follows'  BY <3>5, <3>6
    <3> QED BY <1>1, <1>3, <2>1, <2>5, <3>1, <3>3, <3>4, <3>7 DEF EndClaimed
  <2> QED BY <2>4, <2>5
<1> QED BY <1>2, <1>3

-----------------------------------------------------------------------------
(* The steps *)

\* What the invariant speaks of.
held == <<format, policy, pc, gone, bypass, said, prime, tr, fl, client, devin, wire, prefix, verdict>>
still == <<format, policy, gone, bypass, said, tr, fl, client, devin, wire, prefix, verdict>>

\* Timers, the watchdog, answers, and the upstream's end.
LEMMA QuietKeeps ==
  ASSUME IInv, UNCHANGED held
  PROVE  IInv'
<1> USE DEF IInv, held
<1>1. Typed'  BY DEF Typed, Incoming, OpenAI
<1>2. Fresh'  BY DEF Fresh
<1>3. CopiesWhole'  BY DEF CopiesWhole
<1>4. AnthropicClaims'  BY DEF AnthropicClaims, OpenAI
<1>5. TranslatedClaims'  BY DEF TranslatedClaims, OpenAI
<1>6. Follows'  BY DEF Follows, OpenAI
<1>7. EndClaimed'  BY DEF EndClaimed
<1>8. TruncationIsPenalised'  BY DEF TruncationIsPenalised, Over, OpenAI
<1> QED BY <1>1, <1>2, <1>3, <1>4, <1>5, <1>6, <1>7, <1>8

\* A client that left is told nothing more.
LEMMA ClientLeavesKeeps ==
  ASSUME IInv, ClientLeaves
  PROVE  IInv'
<1> USE DEF IInv, ClientLeaves, route, upstream, pipe, result
<1>1. Typed'  BY DEF Typed, Incoming, OpenAI
<1>2. Fresh'  BY DEF Fresh
<1>3. CopiesWhole'  BY DEF CopiesWhole
<1>4. AnthropicClaims'  BY DEF AnthropicClaims, OpenAI
<1>5. TranslatedClaims'  BY DEF TranslatedClaims, OpenAI
<1>6. Follows'  BY DEF Follows
<1>7. EndClaimed'  BY DEF EndClaimed
<1>8. TruncationIsPenalised'  BY DEF TruncationIsPenalised, Over
<1> QED BY <1>1, <1>2, <1>3, <1>4, <1>5, <1>6, <1>7, <1>8

\* The attempt moves on before anything passed, or fails.
LEMMA MovesKeeps ==
  ASSUME IInv, UNCHANGED still, prime' = prime \/ prime' = Unprimed,
         \/ pc \in {"headers", "priming", "buffering"} /\ pc' \in {"priming", "buffering", "failed"}
         \/ pc = "primed" /\ pc' = "streaming"
  PROVE  IInv'
<1> USE DEF IInv, still
<1>1. Typed'
  <2>1. Unprimed \in Primes  BY DEF Primes, Unprimed
  <2>2. prime \in Primes  BY DEF Typed
  <2>3. prime' \in Primes  BY <2>1, <2>2
  <2> QED BY <2>3 DEF Typed, Incoming, OpenAI
<1>2. Fresh'  BY DEF Fresh
<1>3. CopiesWhole'  BY DEF CopiesWhole, Unprimed
<1>4. AnthropicClaims'  BY DEF AnthropicClaims, OpenAI
<1>5. TranslatedClaims'  BY DEF TranslatedClaims, OpenAI
<1>6. Follows'  BY DEF Follows, OpenAI
<1>7. EndClaimed'  BY DEF EndClaimed
<1>8. TruncationIsPenalised'  BY DEF TruncationIsPenalised, Over
<1> QED BY <1>1, <1>2, <1>3, <1>4, <1>5, <1>6, <1>7, <1>8

\* The verdict.
LEMMA JudgeKeeps ==
  ASSUME IInv, NEW local \in BOOLEAN, Judge(local)
  PROVE  IInv'
<1> USE DEF IInv, Judge, route, upstream, pipe
<1>1. Typed'  BY DEF Typed, Incoming, OpenAI
<1>2. Fresh'  BY DEF Fresh
<1>3. CopiesWhole'  BY DEF CopiesWhole
<1>4. AnthropicClaims'  BY DEF AnthropicClaims, OpenAI
<1>5. TranslatedClaims'  BY DEF TranslatedClaims, OpenAI
<1>6. Follows'  BY DEF Follows, OpenAI
<1>7. EndClaimed'  BY DEF EndClaimed
<1>8. TruncationIsPenalised'
  <2> SUFFICES ASSUME ~gone, client.started, ~client.complete, ~(said.error /\ ~OpenAI)
               PROVE  verdict' = "tripped"
    BY DEF TruncationIsPenalised, Over, OpenAI
  <2>1. ~bypass  BY DEF CopiesWhole
  <2>2. /\ Linked(fl, client) /\ Terminated(fl)
        /\ Ends(fl, client, fl.protocolError \/ (said.error /\ ~OpenAI))
    BY <2>1 DEF Follows
  <2>3. Faulty  BY <2>2 DEF Linked, Terminated, Ends, Faulty
  <2>4. Verdict(local) = "tripped"  BY <2>3 DEF Verdict
  <2> QED BY <2>4
<1> QED BY <1>1, <1>2, <1>3, <1>4, <1>5, <1>6, <1>7, <1>8

\* A body that was no stream: at most its protocol error is noted.
LEMMA BufferBodyKeeps ==
  ASSUME IInv, NEW b \in JSONBodies, BufferBody(b)
  PROVE  IInv'
<1> USE DEF IInv, BufferBody, route, upstream
<1>0. fl = NewFilter /\ client = NewClient /\ ~bypass /\ pc' \in {"ended", "failed"}
  BY DEF Fresh, CopiesWhole
<1>1. /\ IsFilter(fl') /\ fl'.reason = FALSE /\ fl'.started = FALSE /\ fl'.terminal = FALSE
      /\ fl'.failed = FALSE /\ fl'.missingStop = FALSE
  <2>1. PICK x \in BOOLEAN : x = (pc' = "ended" /\ OpenAI /\ Untranslatable(b))  OBVIOUS
  <2>2. fl' = [fl EXCEPT !.protocolError = x]  BY <2>1
  <2> QED BY <1>0, <2>2 DEF IsFilter, NewFilter
<1>2. Typed'
  <2> HIDE DEF BufferBody
  <2> pc' \in {"ended", "failed"} /\ UNCHANGED <<format, gone, bypass, said, prime, tr, client, devin, wire, prefix>>
    BY <1>0 DEF BufferBody
  <2> QED BY <1>1 DEF Typed, Incoming, OpenAI
<1>3. Fresh' /\ CopiesWhole' /\ EndClaimed'
  BY <1>0 DEF Fresh, CopiesWhole, EndClaimed
<1>4. AnthropicClaims'  BY <1>0, <1>1 DEF AnthropicClaims, OpenAI, NewFilter
<1>5. TranslatedClaims'  BY DEF TranslatedClaims, OpenAI
<1>6. Follows'  BY <1>0, <1>1 DEF Follows, Linked, Ends, Terminated, NewClient
<1>7. TruncationIsPenalised'  BY <1>0 DEF TruncationIsPenalised, Over, NewClient
<1> QED BY <1>2, <1>3, <1>4, <1>5, <1>6, <1>7

\* The adapter writes a completion only when its own stream completed.
LEMMA DevinWrites ==
  ASSUME IInv, NEW d, IsRequest(d), NEW out \in Seq(Wires), devin' = d, wire' = wire \o out,
         format = "devin", ~devin.over, IsClaim(said'),
         said'.error = said.error, Open(out) \/ said'.end, said'.end => d.over, Earns(d) => said'.reason,
         UNCHANGED <<format, policy, pc, gone, bypass, prime, tr, fl, client, prefix, verdict>>
  PROVE  IInv'
<1> USE DEF IInv
<1>1. OpenAI /\ OpenAI' /\ ~said.end /\ ~bypass
  BY DEF OpenAI, TranslatedClaims, CopiesWhole
<1>2. wire' \in Seq(Wires) /\ (Open(wire) /\ Open(out) => Open(wire'))
  BY OpenConcat DEF Typed
<1>3. Typed'  BY <1>2 DEF Typed, Incoming, OpenAI
<1>4. Fresh'  BY DEF Fresh
<1>5. CopiesWhole'  BY <1>1 DEF CopiesWhole
<1>6. AnthropicClaims'  BY <1>1 DEF AnthropicClaims
<1>7. TranslatedClaims'  BY <1>1, <1>2 DEF TranslatedClaims
<1>8. Follows'  BY <1>1 DEF Follows
<1>9. EndClaimed'  BY <1>1 DEF EndClaimed
<1>10. TruncationIsPenalised'  BY <1>1 DEF TruncationIsPenalised, Over
<1> QED BY <1>3, <1>4, <1>5, <1>6, <1>7, <1>8, <1>9, <1>10

\* A frame of Devin.
LEMMA DevinSendsKeeps ==
  ASSUME IInv, NEW frame \in Frames, DevinSends(frame)
  PROVE  IInv'
<1> DEFINE r == Consumed(devin, frame)
           s == IF r.failed THEN Interrupted(r.d) ELSE r
<1>1. /\ format = "devin" /\ ~devin.over /\ devin' = s.d /\ wire' = wire \o s.out
      /\ said' = [said EXCEPT !.reason = @ \/ frame.finish = "normal" \/ frame.fragments # <<>>]
      /\ UNCHANGED <<format, policy, pc, gone, bypass, prime, tr, fl, client, prefix, verdict>>
  BY DEF DevinSends, route, pipe, result
<1>2. frame \in DevinFrames  BY StreamAssumption DEF DevinFrames, DevinFragments
<1>3. IsRequest(devin) /\ IsClaim(said)  BY DEF IInv, Typed
<1>4. IsRequest(r.d) /\ r.out \in Seq(Wires) /\ Open(r.out) /\ (Earns(r.d) => Earns(devin) \/ Promises(frame))
  BY <1>2, <1>3, ConsumedTyped
<1>5. LET i == Interrupted(r.d)
      IN IsRequest(i.d) /\ i.out \in Seq(Wires) /\ Open(i.out) /\ Earns(i.d) = Earns(r.d)
  <2> HIDE DEF r
  <2> QED BY <1>4, InterruptedTyped
<1>6. IsRequest(s.d) /\ s.out \in Seq(Wires) /\ Open(s.out) /\ (Earns(s.d) => Earns(devin) \/ Promises(frame))
  <2> HIDE DEF r
  <2> QED BY <1>4, <1>5
<1>7. ~said.end /\ (Earns(devin) => said.reason)  BY <1>1 DEF IInv, TranslatedClaims, OpenAI
<1> HIDE DEF s
<1>8. IsClaim(said') /\ said'.error = said.error /\ ~said'.end /\ (Earns(s.d) => said'.reason)
  <2> DEFINE b == said.reason \/ Promises(frame)
  <2>1. b \in BOOLEAN /\ said' = [said EXCEPT !.reason = b]  BY <1>1 DEF Promises
  <2>2. Earns(s.d) => b  BY <1>6, <1>7
  <2> HIDE DEF b
  <2> QED BY <1>3, <1>7, <2>1, <2>2 DEF IsClaim
<1> QED BY <1>1, <1>6, <1>8, DevinWrites

\* The end of Devin's stream.
LEMMA DevinEndsKeeps ==
  ASSUME IInv, NEW broken \in BOOLEAN, NEW full \in BOOLEAN, DevinEnds(broken, full)
  PROVE  IInv'
<1> DEFINE r == IF broken THEN Interrupted(devin) ELSE Closed(devin, full)
<1>1. /\ format = "devin" /\ ~devin.over /\ devin' = r.d /\ wire' = wire \o r.out
      /\ said' = [said EXCEPT !.end = ~broken /\ (said.reason \/ full)]
      /\ UNCHANGED <<format, policy, pc, gone, bypass, prime, tr, fl, client, prefix, verdict>>
  BY DEF DevinEnds, route, pipe, result
<1>2. IsRequest(devin) /\ IsClaim(said)  BY DEF IInv, Typed
<1>3. /\ IsRequest(r.d) /\ r.d.over /\ r.out \in Seq(Wires) /\ Earns(r.d) = Earns(devin)
      /\ Open(r.out) \/ (~broken /\ (Earns(devin) \/ full))
  BY <1>2, InterruptedTyped, ClosedTyped
<1> HIDE DEF r
<1>4. Earns(devin) => said.reason  BY <1>1 DEF IInv, TranslatedClaims, OpenAI
<1>5. /\ IsClaim(said') /\ said'.reason = said.reason /\ said'.error = said.error
      /\ said'.end = (~broken /\ (said.reason \/ full))
  <2> DEFINE b == ~broken /\ (said.reason \/ full)
  <2>1. b \in BOOLEAN /\ said' = [said EXCEPT !.end = b]  BY <1>1
  <2> HIDE DEF b
  <2>2. IsClaim(said') /\ said'.reason = said.reason /\ said'.error = said.error /\ said'.end = b
    BY <1>2, <2>1 DEF IsClaim
  <2> QED BY <2>2 DEF b
<1>6. Open(r.out) \/ said'.end  BY <1>3, <1>4, <1>5
<1> QED BY <1>1, <1>3, <1>4, <1>5, <1>6, DevinWrites

\* What a frame of an OpenAI upstream tells of the calls.
Tally(calls, c) == IF c.type = "choices" THEN FoldLeft(Told, calls, c.tools) ELSE calls

\* A frame off the wire, its claims noted.
LEMMA ArrivesKeeps ==
  ASSUME IInv, NEW c \in Wired, NEW counts, Arrives(c, counts)
  PROVE  /\ c \in Incoming /\ Grows /\ devin' = devin /\ (OpenAI => said'.calls = Tally(said.calls, c))
         /\ wire' \in Seq(Wires) /\ (Open(wire) => Open(wire'))
         /\ ~OpenAI => /\ c.type = "error" => said'.error
                       /\ Gives(c) => said'.reason
                       /\ c.type = "message_stop" /\ said.reason => said'.end
         /\ OpenAI => /\ Concludes(c) => said'.end
                      /\ format = "devin" /\ said'.end => said.end
<1>0. wire \in Seq(Wires) /\ IsClaim(said) /\ format \in {"anthropic", "openai", "devin"}  BY DEF IInv, Typed
<1>1. devin' = devin /\ said' = Claims(c)  BY DEF Arrives
<1>2. CASE format = "anthropic"
  <2>1. c \in Events /\ c \in Incoming /\ wire' = wire  BY <1>2 DEF Wired, Incoming, OpenAI, Arrives
  <2>2. /\ c.type = "message_delta" => said' = [said EXCEPT !.reason = @ \/ c.reason # "none"]
        /\ c.type = "message_stop" => said' = [said EXCEPT !.end = @ \/ said.reason]
        /\ c.type = "error" => said' = [said EXCEPT !.error = TRUE]
        /\ c.type \notin {"message_delta", "message_stop", "error"} => said' = said
    BY <1>1, <1>2 DEF Claims, OpenAI
  <2>3. Grows /\ (c.type = "error" => said'.error) /\ (Gives(c) => said'.reason)
        /\ (c.type = "message_stop" /\ said.reason => said'.end)
    <3> USE DEF IsClaim, Grows, Gives
    <3>1. CASE c.type = "message_delta"
      <4> DEFINE b == said.reason \/ c.reason # "none"
      <4>1. b \in BOOLEAN /\ said' = [said EXCEPT !.reason = b] /\ (said.reason \/ c.reason # "none" => b)
        BY <2>2, <3>1
      <4> HIDE DEF b
      <4> QED BY <1>0, <3>1, <4>1
    <3>2. CASE c.type = "message_stop"
      <4> DEFINE b == said.end \/ said.reason
      <4>1. b \in BOOLEAN /\ said' = [said EXCEPT !.end = b] /\ (said.end \/ said.reason => b)
        BY <2>2, <3>2
      <4> HIDE DEF b
      <4> QED BY <1>0, <3>2, <4>1
    <3>3. CASE c.type = "error"  BY <1>0, <2>2, <3>3
    <3>4. CASE c.type \notin {"message_delta", "message_stop", "error"}  BY <1>0, <2>2, <3>4
    <3> QED BY <3>1, <3>2, <3>3, <3>4
  <2> QED BY <1>0, <1>1, <1>2, <2>1, <2>3 DEF OpenAI
<1>3. CASE format # "anthropic"
  <2>1. CASE format = "openai"
    <3>1. c \in Incoming /\ wire' = wire  BY <2>1 DEF Wired, Incoming, OpenAI, Arrives
    <3>2. \/ c.type # "choices" /\ ~Concludes(c) /\ (said' = said \/ said' = [said EXCEPT !.error = TRUE])
          \/ c.type # "choices" /\ Concludes(c) /\ said' = [said EXCEPT !.end = TRUE]
          \/ /\ c.type = "choices" /\ (Concludes(c) => c.finish)
             /\ said' = [said EXCEPT !.end = @ \/ c.finish, !.calls = FoldLeft(Told, @, c.tools)]
      BY <1>1, <2>1 DEF Claims, Concludes, OpenAI
    <3>3. Grows /\ (Concludes(c) => said'.end) /\ said'.calls = Tally(said.calls, c)
      <4>1. CASE c.type # "choices"  BY <1>0, <3>2, <4>1 DEF IsClaim, Grows, Tally
      <4>2. CASE c.type = "choices"
        <5> DEFINE b == said.end \/ c.finish
                   told == FoldLeft(Told, said.calls, c.tools)
        <5>1. b \in BOOLEAN /\ (said.end => b) /\ (Concludes(c) => b) /\ said' = [said EXCEPT !.end = b, !.calls = told]
          BY <3>2, <4>2
        <5>2. Tally(said.calls, c) = told  BY <4>2 DEF Tally
        <5> HIDE DEF b, told
        <5> QED BY <1>0, <5>1, <5>2 DEF IsClaim, Grows
      <4> QED BY <4>1, <4>2
    <3> QED BY <1>0, <1>1, <2>1, <3>1, <3>3 DEF OpenAI
  <2>2. CASE format = "devin"
    <3>1. wire # <<>> /\ c = Head(wire) /\ wire' = Tail(wire)  BY <2>2 DEF Wired, Arrives
    <3>2. /\ c = wire[1] /\ 1 \in 1..Len(wire) /\ c \in Wires /\ wire' \in Seq(Wires)
          /\ Len(wire') = Len(wire) - 1 /\ Len(wire) \in Nat
          /\ \A i \in 1..Len(wire') : wire'[i] = wire[i + 1] /\ i + 1 \in 1..Len(wire)
      BY <1>0, <3>1, HeadTailProperties, LenProperties
    <3>3. \/ c.type # "choices" /\ (said' = said \/ said' = [said EXCEPT !.error = TRUE])
          \/ /\ c.type = "choices"
             /\ said' = [said EXCEPT !.end = @ \/ FALSE, !.calls = FoldLeft(Told, @, c.tools)]
      BY <1>1, <2>2 DEF Claims, OpenAI
    <3>4. Grows /\ said'.end = said.end /\ said'.calls = Tally(said.calls, c)
      <4>1. CASE c.type # "choices"  BY <1>0, <3>3, <4>1 DEF IsClaim, Grows, Tally
      <4>2. CASE c.type = "choices"
        <5> DEFINE told == FoldLeft(Told, said.calls, c.tools)
                   b == said.end \/ FALSE
        <5>1. said' = [said EXCEPT !.end = b, !.calls = told] /\ b = said.end  BY <1>0, <3>3, <4>2 DEF IsClaim
        <5>2. Tally(said.calls, c) = told  BY <4>2 DEF Tally
        <5> HIDE DEF told, b
        <5> QED BY <1>0, <5>1, <5>2 DEF IsClaim, Grows
      <4> QED BY <4>1, <4>2
    <3>5. Concludes(c) => said.end  BY <2>2, <3>2 DEF IInv, TranslatedClaims, OpenAI, Open
    <3>6. Open(wire) => Open(wire')  BY <3>2 DEF Open
    <3>7. c \in Incoming  BY <2>2, <3>2 DEF Incoming, OpenAI
    <3> QED BY <1>1, <2>2, <3>2, <3>4, <3>5, <3>6, <3>7 DEF OpenAI
  <2> QED BY <1>0, <1>3, <2>1, <2>2
<1> QED BY <1>2, <1>3

\* A body is copied as it is only for the message_stop of an empty turn.
LEMMA BypassClass ==
  ASSUME NEW c, Class(c) = "bypass"
  PROVE  prime.empty /\ c.type = "message_stop" /\ ~InitialError(c)
<1>1. Useful(c) # "bypass"
  BY DEF Useful
<1>2. Prelude(c) # "bypass"
  BY DEF Prelude
<1> QED BY <1>1, <1>2 DEF Class

\* A frame read and judged while priming.
LEMMA PrimeFrameKeeps ==
  ASSUME IInv, NEW c \in Wired, PrimeFrame(c)
  PROVE  IInv'
<1> USE DEF IInv
<1>1. /\ c \in Incoming /\ Grows /\ devin' = devin /\ (OpenAI => said'.calls = Tally(said.calls, c))
      /\ wire' \in Seq(Wires) /\ (Open(wire) => Open(wire'))
      /\ ~OpenAI => /\ c.type = "error" => said'.error
                    /\ Gives(c) => said'.reason
                    /\ c.type = "message_stop" /\ said.reason => said'.end
      /\ OpenAI => /\ Concludes(c) => said'.end
                   /\ format = "devin" /\ said'.end => said.end
  BY ArrivesKeeps DEF PrimeFrame
<1>2. /\ pc = "priming" /\ prefix' = Append(prefix, c)
      /\ UNCHANGED <<format, policy, tr, fl, client, gone, verdict>>
  BY DEF PrimeFrame, route
<1>3. pc' \in {"primed", "priming", "failed"}
  BY DEF PrimeFrame
<1>4. \/ c.type = "comment" /\ pc' # "primed" /\ UNCHANGED <<prime, bypass>>
      \/ c.type # "comment" /\ prime' = Primed(c) /\ bypass' = (Class(c) = "bypass") /\ (bypass' => pc' = "primed")
  BY DEF PrimeFrame
<1>5. ~bypass /\ prime \in Primes /\ (policy.empty => ~OpenAI) /\ (prime.empty => policy.empty /\ said.reason)
  BY <1>2 DEF CopiesWhole, Typed, OpenAI
<1>6. prime' \in Primes /\ (prime'.empty => prime.empty \/ EmptyTurn(c))
  <2>1. CASE prime' = prime  BY <1>5, <2>1
  <2>2. CASE prime' = Primed(c)
    <3> DEFINE a == prime.reason \/ (c.type = "message_delta" /\ c.reason # "none")
               b == prime.start \/ c.type = "message_start"
               d == prime.term \/ c.type \in {"message_stop", "error"}
               e == prime.empty \/ (Class(c) = "empty" /\ EmptyTurn(c))
    <3>1. prime' = [prime EXCEPT !.reason = a, !.start = b, !.term = d, !.empty = e]  BY <2>2 DEF Primed
    <3>2. a \in BOOLEAN /\ b \in BOOLEAN /\ d \in BOOLEAN /\ e \in BOOLEAN  OBVIOUS
    <3>3. e => prime.empty \/ EmptyTurn(c)  OBVIOUS
    <3> HIDE DEF a, b, d, e
    <3> QED BY <1>5, <3>1, <3>2, <3>3 DEF Primes
  <2> QED BY <1>4, <2>1, <2>2
<1>7. prime'.empty => policy.empty /\ said'.reason
  <2>1. EmptyTurn(c) => policy.empty /\ Gives(c)  BY DEF EmptyTurn, Gives
  <2> QED BY <1>1, <1>5, <1>6, <2>1 DEF Grows
<1>8. /\ prefix \in Seq(Incoming) /\ prefix' \in Seq(Incoming) /\ prefix' # <<>> /\ Len(prefix) \in Nat
      /\ Len(prefix') = Len(prefix) + 1 /\ prefix'[Len(prefix) + 1] = c
      /\ \A i \in 1..Len(prefix) : prefix'[i] = prefix[i]
  <2> prefix \in Seq(Incoming)  BY DEF Typed
  <2> QED BY <1>1, <1>2, AppendProperties, LenProperties
<1>9. bypass' => /\ pc' = "primed" /\ policy.empty /\ said'.end
                 /\ prefix' # <<>> /\ prefix'[Len(prefix')].type = "message_stop"
  <2> SUFFICES ASSUME bypass' PROVE /\ pc' = "primed" /\ policy.empty /\ said'.end
                                    /\ prefix' # <<>> /\ prefix'[Len(prefix')].type = "message_stop"
    OBVIOUS
  <2>1. prime.empty /\ c.type = "message_stop" /\ pc' = "primed"  BY <1>4, <1>5, BypassClass
  <2> QED BY <1>1, <1>5, <1>8, <2>1
<1>10. bypass' \in BOOLEAN
  <2>1. bypass \in BOOLEAN  BY DEF Typed
  <2>2. bypass' = bypass \/ bypass' = (Class(c) = "bypass")  BY <1>4
  <2> QED BY <2>1, <2>2
<1>11. Typed'
  <2>1. Incoming' = Incoming  BY <1>2 DEF Incoming, OpenAI
  <2> QED BY <1>1, <1>2, <1>3, <1>6, <1>8, <1>10, <2>1 DEF Typed, Grows
<1>12. Fresh'  BY <1>2 DEF Fresh
<1>13. CopiesWhole'  BY <1>2, <1>5, <1>7, <1>9 DEF CopiesWhole
<1>14. AnthropicClaims'
  <2> SUFFICES ASSUME ~OpenAI
               PROVE  /\ fl.reason => said'.reason
                      /\ \A k \in 1..Len(prefix') :
                           /\ prefix'[k].type = "error" => said'.error
                           /\ Gives(prefix'[k]) => said'.reason
                           /\ prefix'[k].type = "message_stop" /\ (fl.reason \/ \E j \in 1..(k - 1) : Gives(prefix'[j]))
                                => said'.end
    BY <1>2 DEF AnthropicClaims, OpenAI
  <2>1. fl.reason => said.reason  BY DEF AnthropicClaims
  <2>2. \A k \in 1..Len(prefix) :
          /\ prefix[k].type = "error" => said.error
          /\ Gives(prefix[k]) => said.reason
          /\ prefix[k].type = "message_stop" /\ (fl.reason \/ \E j \in 1..(k - 1) : Gives(prefix[j])) => said.end
    BY DEF AnthropicClaims
  <2>3. ASSUME NEW k \in 1..Len(prefix')
        PROVE  /\ prefix'[k].type = "error" => said'.error
               /\ Gives(prefix'[k]) => said'.reason
               /\ prefix'[k].type = "message_stop" /\ (fl.reason \/ \E j \in 1..(k - 1) : Gives(prefix'[j])) => said'.end
    <3>1. CASE k \in 1..Len(prefix)
      <4>1. prefix'[k] = prefix[k] /\ \A j \in 1..(k - 1) : prefix'[j] = prefix[j]  BY <1>8, <3>1
      <4> QED BY <1>1, <2>2, <3>1, <4>1 DEF Grows
    <3>2. CASE k = Len(prefix) + 1
      <4>1. prefix'[k] = c /\ \A j \in 1..(k - 1) : prefix'[j] = prefix[j] /\ j \in 1..Len(prefix)  BY <1>8, <3>2
      <4>2. (\E j \in 1..(k - 1) : Gives(prefix'[j])) => said.reason  BY <2>2, <4>1
      <4> QED BY <1>1, <2>1, <4>1, <4>2
    <3> QED BY <1>8, <3>1, <3>2
  <2> QED BY <1>1, <2>1, <2>3 DEF Grows
<1>15. TranslatedClaims'
  <2> SUFFICES ASSUME OpenAI
               PROVE  /\ tr.done \/ tr.finish => said'.end
                      /\ said'.end \/ (Open(wire') /\ Open(prefix'))
                      /\ format = "devin" => (said'.end => devin.over) /\ (Earns(devin) => said'.reason)
    BY <1>1, <1>2 DEF TranslatedClaims, OpenAI
  <2>1. tr.done \/ tr.finish => said'.end  BY <1>1 DEF TranslatedClaims, Grows
  <2>2. format = "devin" => (said'.end => devin.over) /\ (Earns(devin) => said'.reason)
    BY <1>1 DEF TranslatedClaims, Grows
  <2>3. ASSUME ~said'.end PROVE Open(wire') /\ Open(prefix')
    <3>1. Open(wire) /\ Open(prefix)  BY <1>1, <2>3 DEF TranslatedClaims, Grows
    <3>2. ASSUME NEW k \in 1..Len(prefix') PROVE ~Concludes(prefix'[k])
      <4>1. CASE k \in 1..Len(prefix)  BY <1>8, <3>1, <4>1 DEF Open
      <4>2. CASE k = Len(prefix) + 1  BY <1>1, <1>8, <2>3, <4>2
      <4> QED BY <1>8, <4>1, <4>2
    <3> QED BY <1>1, <3>1, <3>2 DEF Open
  <2> QED BY <2>1, <2>2, <2>3
<1>16. Follows'
  <2>1. gone \/ (Linked(fl, client) /\ Ends(fl, client, said.error /\ ~OpenAI))  BY <1>2, <1>5 DEF Follows
  <2>2. Ends(fl, client, said.error /\ ~OpenAI) => Ends(fl, client, said'.error /\ ~OpenAI)  BY <1>1 DEF Ends, Grows
  <2>3. OpenAI' <=> OpenAI  BY <1>2 DEF OpenAI
  <2>4. Ends(fl, client, said'.error /\ ~OpenAI) => Ends(fl, client, said'.error /\ ~OpenAI')  BY <2>3 DEF Ends
  <2> QED BY <1>2, <1>3, <2>1, <2>2, <2>4 DEF Follows
<1>17. EndClaimed'  BY <1>1, <1>2 DEF EndClaimed, Grows
<1>18. TruncationIsPenalised'  BY <1>3 DEF TruncationIsPenalised, Over
<1> QED BY <1>11, <1>12, <1>13, <1>14, <1>15, <1>16, <1>17, <1>18

\* A frame of the prefix is replayed: it was read before the ones that follow.
LEMMA ReplayKeeps ==
  ASSUME IInv, Replay
  PROVE  IInv'
<1> USE DEF IInv
<1> DEFINE c == prefix[1]
<1>1. /\ pc = "streaming" /\ prefix # <<>> /\ Carry(Head(prefix)) /\ prefix' = Tail(prefix)
      /\ UNCHANGED <<format, policy, gone, bypass, said, prime, devin, wire, verdict>>
  BY DEF Replay, route, upstream, result
<1>2. /\ prefix \in Seq(Incoming) /\ Head(prefix) = c /\ c \in Incoming /\ prefix' \in Seq(Incoming)
      /\ Len(prefix) \in Nat /\ 1 \in 1..Len(prefix) /\ Len(prefix') = Len(prefix) - 1
      /\ \A i \in 1..Len(prefix') : prefix'[i] = prefix[i + 1] /\ i + 1 \in 1..Len(prefix)
  <2> prefix \in Seq(Incoming)  BY DEF Typed
  <2> QED BY <1>1, HeadTailProperties, LenProperties
<1> HIDE DEF c
<1>3. Grows  BY <1>1 DEF Grows, Typed
<1>4. ~OpenAI => /\ c.type = "error" => said'.error
                 /\ c.type = "message_stop" /\ fl.reason => said'.end
  BY <1>1, <1>2 DEF AnthropicClaims, c
<1>5. OpenAI => (Concludes(c) => said'.end)
  BY <1>1, <1>2 DEF TranslatedClaims, Open, c
<1>6. /\ pc' \in {"streaming", "ended"} /\ tr' \in Translators /\ IsFilter(fl') /\ IsClient(client')
      /\ Follows' /\ EndClaimed'
      /\ OpenAI => (tr'.done \/ tr'.finish => said'.end)
      /\ ~OpenAI => (fl'.reason => fl.reason \/ Gives(c))
      /\ bypass => /\ client.complete => client'.complete
                   /\ c.type = "message_stop" => gone \/ client'.complete
  <2> Carry(c)  BY <1>1, <1>2
  <2> QED BY <1>1, <1>2, <1>3, <1>4, <1>5, CarryKeeps
<1>7. Typed'
  <2>1. Incoming' = Incoming  BY <1>1 DEF Incoming, OpenAI
  <2> QED BY <1>1, <1>2, <1>6, <2>1 DEF Typed
<1>8. Fresh'  BY <1>6 DEF Fresh
<1>9. CopiesWhole'
  <2>1. ASSUME bypass
        PROVE  /\ pc' = "streaming"
               /\ gone \/ client'.complete \/ (prefix' # <<>> /\ prefix'[Len(prefix')].type = "message_stop")
    <3>1. pc' = pc  BY <1>1, <2>1 DEF Carry
    <3>2. gone \/ client.complete \/ prefix[Len(prefix)].type = "message_stop"  BY <2>1 DEF CopiesWhole
    <3>3. CASE Len(prefix') = 0
      <4>1. Len(prefix) = 1  BY <1>2, <3>3
      <4> QED BY <1>1, <1>6, <2>1, <3>1, <3>2, <4>1 DEF c
    <3>4. CASE Len(prefix') # 0
      <4>1. Len(prefix') \in 1..Len(prefix') /\ Len(prefix') + 1 = Len(prefix)  BY <1>2, <3>4, LenProperties
      <4>2. prefix'[Len(prefix')] = prefix[Len(prefix)] /\ prefix' # <<>>  BY <1>2, <4>1, <3>4
      <4> QED BY <1>1, <1>6, <2>1, <3>1, <3>2, <4>2
    <3> QED BY <3>3, <3>4
  <2> QED BY <1>1, <2>1 DEF CopiesWhole
<1>10. AnthropicClaims'
  <2> SUFFICES ASSUME ~OpenAI
               PROVE  /\ fl'.reason => said.reason
                      /\ \A k \in 1..Len(prefix') :
                           /\ prefix'[k].type = "error" => said.error
                           /\ Gives(prefix'[k]) => said.reason
                           /\ prefix'[k].type = "message_stop" /\ (fl'.reason \/ \E j \in 1..(k - 1) : Gives(prefix'[j]))
                                => said.end
    BY <1>1 DEF AnthropicClaims, OpenAI
  <2>1. /\ fl.reason => said.reason
        /\ \A k \in 1..Len(prefix) :
             /\ prefix[k].type = "error" => said.error
             /\ Gives(prefix[k]) => said.reason
             /\ prefix[k].type = "message_stop" /\ (fl.reason \/ \E j \in 1..(k - 1) : Gives(prefix[j])) => said.end
    BY DEF AnthropicClaims
  <2>2. fl'.reason => said.reason  BY <1>2, <1>6, <2>1 DEF c
  <2>3. ASSUME NEW k \in 1..Len(prefix')
        PROVE  /\ prefix'[k].type = "error" => said.error
               /\ Gives(prefix'[k]) => said.reason
               /\ prefix'[k].type = "message_stop" /\ (fl'.reason \/ \E j \in 1..(k - 1) : Gives(prefix'[j])) => said.end
    <3>1. prefix'[k] = prefix[k + 1] /\ k + 1 \in 1..Len(prefix)  BY <1>2
    <3>2. fl'.reason => fl.reason \/ \E j \in 1..((k + 1) - 1) : Gives(prefix[j])
      <4> 1 \in 1..((k + 1) - 1)  BY <1>2
      <4> QED BY <1>6 DEF c
    <3>3. (\E j \in 1..(k - 1) : Gives(prefix'[j])) => \E j \in 1..((k + 1) - 1) : Gives(prefix[j])
      <4> SUFFICES ASSUME NEW j \in 1..(k - 1), Gives(prefix'[j]) PROVE \E i \in 1..((k + 1) - 1) : Gives(prefix[i])
        OBVIOUS
      <4>1. j \in 1..Len(prefix') /\ j + 1 \in 1..((k + 1) - 1)  BY <1>2
      <4>2. prefix'[j] = prefix[j + 1]  BY <1>2, <4>1
      <4> QED BY <4>1, <4>2
    <3> QED BY <2>1, <3>1, <3>2, <3>3
  <2> QED BY <2>2, <2>3
<1>11. TranslatedClaims'
  <2>1. OpenAI' <=> OpenAI  BY <1>1 DEF OpenAI
  <2>2. OpenAI /\ Open(prefix) => Open(prefix')  BY <1>2 DEF Open
  <2> QED BY <1>1, <1>6, <2>1, <2>2 DEF TranslatedClaims
<1>12. TruncationIsPenalised'  BY <1>6 DEF TruncationIsPenalised, Over
<1> QED BY <1>6, <1>7, <1>8, <1>9, <1>10, <1>11, <1>12

\* A frame is read and passed on.
LEMMA DeliverKeeps ==
  ASSUME IInv, NEW c \in Wired, Deliver(c)
  PROVE  IInv'
<1> USE DEF IInv
<1>1. /\ pc = "streaming" /\ prefix = <<>> /\ prefix' = prefix /\ Arrives(c, Changes) /\ Carry(c)
      /\ UNCHANGED <<format, policy, gone, bypass, prime, verdict>>
  BY DEF Deliver, route, result
<1>2. /\ c \in Incoming /\ Grows /\ devin' = devin /\ (OpenAI => said'.calls = Tally(said.calls, c))
      /\ wire' \in Seq(Wires) /\ (Open(wire) => Open(wire'))
      /\ ~OpenAI => /\ c.type = "error" => said'.error
                    /\ Gives(c) => said'.reason
                    /\ c.type = "message_stop" /\ said.reason => said'.end
      /\ OpenAI => /\ Concludes(c) => said'.end
                   /\ format = "devin" /\ said'.end => said.end
  BY <1>1, ArrivesKeeps
<1>3. ~OpenAI => /\ c.type = "error" => said'.error
                 /\ c.type = "message_stop" /\ fl.reason => said'.end
  BY <1>2 DEF AnthropicClaims
<1>4. /\ pc' \in {"streaming", "ended"} /\ tr' \in Translators /\ IsFilter(fl') /\ IsClient(client')
      /\ Follows' /\ EndClaimed'
      /\ OpenAI => (tr'.done \/ tr'.finish => said'.end)
      /\ ~OpenAI => (fl'.reason => fl.reason \/ Gives(c))
      /\ bypass => /\ client.complete => client'.complete
                   /\ c.type = "message_stop" => gone \/ client'.complete
  BY <1>1, <1>2, <1>3, CarryKeeps
<1>5. OpenAI' <=> OpenAI  BY <1>1 DEF OpenAI
<1>6. Typed'
  <2>1. Incoming' = Incoming  BY <1>1 DEF Incoming, OpenAI
  <2> QED BY <1>1, <1>2, <1>4, <2>1 DEF Typed, Grows
<1>7. Fresh'  BY <1>4 DEF Fresh
<1>8. CopiesWhole'
  <2>1. ASSUME bypass PROVE pc' = "streaming" /\ (gone \/ client'.complete)
    <3>1. pc' = pc  BY <1>1, <2>1 DEF Carry
    <3>2. gone \/ client.complete  BY <1>1, <2>1 DEF CopiesWhole
    <3> QED BY <1>1, <1>4, <2>1, <3>1, <3>2
  <2> QED BY <1>1, <1>2, <2>1 DEF CopiesWhole, Grows
<1>9. Len(prefix') = 0  BY <1>1
<1>10. AnthropicClaims'
  <2>1. ~OpenAI => (fl'.reason => said'.reason)  BY <1>2, <1>4 DEF AnthropicClaims, Grows
  <2> QED BY <1>5, <1>9, <2>1 DEF AnthropicClaims
<1>11. TranslatedClaims'
  <2>1. Open(prefix')  BY <1>9 DEF Open
  <2>2. OpenAI => said'.end \/ Open(wire')  BY <1>2 DEF TranslatedClaims, Grows
  <2>3. OpenAI /\ format' = "devin" => (said'.end => devin'.over) /\ (Earns(devin') => said'.reason)
    BY <1>1, <1>2 DEF TranslatedClaims, Grows
  <2> QED BY <1>4, <1>5, <2>1, <2>2, <2>3 DEF TranslatedClaims
<1>12. TruncationIsPenalised'  BY <1>4 DEF TruncationIsPenalised, Over
<1> QED BY <1>4, <1>6, <1>7, <1>8, <1>10, <1>11, <1>12

\* The source has ended.
LEMMA StreamEndsKeeps ==
  ASSUME IInv, StreamEnds
  PROVE  IInv'
<1> USE DEF IInv
<1> DEFINE s == IF OpenAI THEN Concluded(tr, Broken) ELSE Step(tr, <<>>, Broken)
           z == Finale(s)
           d == Received(client, z.out)
<1>1. /\ pc = "streaming" /\ prefix = <<>> /\ prefix' = prefix /\ pc' = "ended"
      /\ UNCHANGED <<format, policy, gone, bypass, prime, verdict, wire, devin, said>>
  BY DEF StreamEnds, route, upstream, result
<1>2. tr' = s.t /\ fl' = z.f /\ client' = (IF bypass \/ gone THEN client ELSE d)
  <2> DEFINE r == AllFiltered(fl, s.out)
             x == IF r.f.failed THEN r ELSE Out(SourceEnded(r.f).f, r.out \o SourceEnded(r.f).out)
  <2>1. /\ tr' = s.t
        /\ fl' = [x.f EXCEPT !.protocolError = @ \/ (s.out # <<>> /\ Last(s.out).type = "error")]
        /\ IF bypass THEN UNCHANGED client ELSE Tell(x.out)
    BY DEF StreamEnds
  <2>2. z = [f |-> [x.f EXCEPT !.protocolError = @ \/ (s.out # <<>> /\ Last(s.out).type = "error")], out |-> x.out]
    BY DEF Finale, Says
  <2> HIDE DEF s, z, x
  <2> QED BY <2>1, <2>2 DEF Tell
<1>3. Typed  OBVIOUS
<1>4. ~gone /\ ~bypass => Linked(fl, client) /\ Ends(fl, client, said.error /\ ~OpenAI)
  BY <1>1 DEF Follows
<1>5. OpenAI' <=> OpenAI  BY <1>1 DEF OpenAI
<1>6. /\ tr' \in Translators /\ IsFilter(z.f) /\ IsClient(d)
      /\ d.complete => said.end
      /\ Terminated(z.f)
      /\ Linked(fl, client) => Linked(z.f, d)
      /\ Linked(fl, client) /\ Ends(fl, client, said.error /\ ~OpenAI) =>
           Ends(z.f, d, z.f.protocolError \/ (said.error /\ ~OpenAI))
      /\ OpenAI => (tr'.done \/ tr'.finish => said.end)
      /\ ~OpenAI => (z.f.reason => fl.reason)
  <2>1. CASE OpenAI
    <3>1. PICK may \in BOOLEAN : may = said.end  BY DEF Typed, IsClaim
    <3>2. PICK b \in BOOLEAN : b = Broken  BY DEF Broken
    <3>3. tr.done \/ tr.finish => may  BY <2>1, <3>1 DEF TranslatedClaims
    <3>4. LET e == Concluded(tr, b) IN Yields(e, e.out, may) /\ e.t.ended
      BY <3>3, ConcludedYields DEF Typed
    <3>5. s = Concluded(tr, b)  BY <2>1, <3>2
    <3> HIDE DEF s
    <3>6. Yields(s, s.out, may) /\ s.t.ended  BY <3>4, <3>5
    <3>7. /\ IsFilter(z.f) /\ IsClient(d)
          /\ d.complete => client.complete \/ may
          /\ Terminated(z.f)
          /\ Linked(fl, client) => Linked(z.f, d)
          /\ Linked(fl, client) /\ Ends(fl, client, FALSE) => Ends(z.f, d, z.f.protocolError)
      BY <1>3, <3>6, FinaleFollows
    <3>8. tr' \in Translators /\ (tr'.done \/ tr'.finish => said.end)  BY <1>2, <3>1, <3>6 DEF Yields
    <3> HIDE DEF z, d
    <3>9. Ends(fl, client, said.error /\ ~OpenAI) => Ends(fl, client, FALSE)  BY <2>1 DEF Ends
    <3>10. Ends(z.f, d, z.f.protocolError) => Ends(z.f, d, z.f.protocolError \/ (said.error /\ ~OpenAI))  BY DEF Ends
    <3>11. d.complete => said.end  BY <3>1, <3>7 DEF EndClaimed
    <3> QED BY <2>1, <3>7, <3>8, <3>9, <3>10, <3>11
  <2>2. CASE ~OpenAI
    <3>1. PICK error \in BOOLEAN : error = said.error  BY DEF Typed, IsClaim
    <3>2. s.t = tr /\ s.out = <<>>  BY <2>2 DEF Step
    <3> HIDE DEF s
    <3>3. /\ IsFilter(z.f) /\ IsClient(d)
          /\ d.complete => client.complete
          /\ Terminated(z.f)
          /\ z.f.reason => fl.reason
          /\ Linked(fl, client) => Linked(z.f, d)
          /\ Linked(fl, client) /\ Ends(fl, client, error) => Ends(z.f, d, error)
      BY <1>3, <3>2, PlainFinaleFollows
    <3> HIDE DEF z, d
    <3>4. tr' \in Translators  BY <1>2, <3>2 DEF Typed
    <3>5. Ends(fl, client, said.error /\ ~OpenAI) => Ends(fl, client, error)  BY <2>2, <3>1 DEF Ends
    <3>6. Ends(z.f, d, error) => Ends(z.f, d, z.f.protocolError \/ (said.error /\ ~OpenAI))  BY <2>2, <3>1 DEF Ends
    <3>7. d.complete => said.end  BY <3>3 DEF EndClaimed
    <3> QED BY <2>2, <3>3, <3>4, <3>5, <3>6, <3>7
  <2> QED BY <2>1, <2>2
<1> HIDE DEF s, z, d
<1>7. IsClient(client') /\ (client'.complete => said.end) /\ (bypass => client' = client)
  BY <1>2, <1>6 DEF EndClaimed, Typed
<1>8. Typed'
  <2>1. Incoming' = Incoming  BY <1>1 DEF Incoming, OpenAI
  <2> QED BY <1>1, <1>2, <1>6, <1>7, <2>1 DEF Typed
<1>9. Fresh'  BY <1>1 DEF Fresh
<1>10. CopiesWhole'  BY <1>1, <1>7 DEF CopiesWhole
<1>11. Len(prefix') = 0 /\ Open(prefix')  BY <1>1 DEF Open
<1>12. AnthropicClaims'
  <2>1. ~OpenAI => (fl'.reason => said'.reason)  BY <1>1, <1>2, <1>6 DEF AnthropicClaims
  <2> QED BY <1>5, <1>11, <2>1 DEF AnthropicClaims
<1>13. TranslatedClaims'  BY <1>1, <1>5, <1>6, <1>11 DEF TranslatedClaims
<1>14. Follows'
  <2>1. CASE gone \/ bypass  BY <1>1, <2>1 DEF Follows
  <2>2. CASE ~gone /\ ~bypass
    <3>1. fl' = z.f /\ client' = d  BY <1>2, <2>2
    <3>2. Linked(fl', client') /\ Terminated(fl') /\ Ends(fl', client', fl'.protocolError \/ (said.error /\ ~OpenAI))
      BY <1>4, <1>6, <2>2, <3>1
    <3>3. Ends(fl', client', fl'.protocolError \/ (said'.error /\ ~OpenAI'))  BY <1>1, <1>5, <3>2 DEF Ends
    <3> QED BY <1>1, <3>2, <3>3 DEF Follows
  <2> QED BY <2>1, <2>2
<1>15. EndClaimed'  BY <1>1, <1>7 DEF EndClaimed
<1>16. TruncationIsPenalised'  BY <1>1 DEF TruncationIsPenalised, Over
<1> QED BY <1>8, <1>9, <1>10, <1>12, <1>13, <1>14, <1>15, <1>16

\* The invariant holds of a new attempt.
LEMMA Initially == Init => IInv
<1> SUFFICES ASSUME Init PROVE IInv
  OBVIOUS
<1> USE DEF Init
<1>1. NoStream \in Translators
  <2>1. NoTool \in Calls  BY DEF NoTool, Calls, NoBlock
  <2>2. [i \in Tools |-> NoTool] \in [Tools -> Calls] /\ <<>> \in Seq(Tools) /\ NoBlock \in Int  BY <2>1 DEF NoBlock
  <2> QED BY <2>2 DEF NoStream, Translators
<1>2. IsFilter(NewFilter)  BY DEF IsFilter, NewFilter
<1>3. IsClient(NewClient)  BY DEF IsClient, NewClient
<1>4. IsRequest(NoRequest)
  <2> <<>> \in Seq(DevinFragments) /\ Len(<<>>) = 0  OBVIOUS
  <2> QED BY StreamAssumption DEF IsRequest, NoRequest, Requests, NoCall
<1>5. Unprimed \in Primes /\ ~Unprimed.empty  BY DEF Primes, Unprimed
<1>6. IsClaim(said)  BY DEF IsClaim
<1>7. Typed
  <2> <<>> \in Seq(Wires) /\ <<>> \in Seq(Incoming)  OBVIOUS
  <2> QED BY <1>1, <1>2, <1>3, <1>4, <1>5, <1>6 DEF Typed
<1>8. Fresh  BY DEF Fresh
<1>9. CopiesWhole  BY <1>5 DEF CopiesWhole
<1>10. AnthropicClaims  BY DEF AnthropicClaims, NewFilter
<1>11. TranslatedClaims
  <2>1. Open(wire) /\ Open(prefix)  BY DEF Open
  <2>2. ~tr.done /\ ~tr.finish /\ ~said.end /\ ~Earns(devin)  BY DEF NoStream, NoRequest, Earns
  <2> QED BY <2>1, <2>2 DEF TranslatedClaims
<1>12. Follows  BY DEF Follows, Linked, Ends, NewFilter, NewClient
<1>13. EndClaimed  BY DEF EndClaimed, NewClient
<1>14. TruncationIsPenalised  BY DEF TruncationIsPenalised, Over
<1> QED BY <1>7, <1>8, <1>9, <1>10, <1>11, <1>12, <1>13, <1>14 DEF IInv

\* Every action preserves the invariant.
LEMMA Inductive == IInv /\ [Next]_vars => IInv'
<1> SUFFICES ASSUME IInv, [Next]_vars PROVE IInv'
  OBVIOUS
<1> USE DEF route, upstream, pipe, result
<1>1. CASE UNCHANGED vars
  <2> UNCHANGED held  BY <1>1 DEF vars, held
  <2> QED BY QuietKeeps
<1>2. ASSUME Upstream PROVE IInv'
  <2>1. ASSUME NEW f \in Frames, DevinSends(f) PROVE IInv'  BY <2>1, DevinSendsKeeps
  <2>2. ASSUME NEW b \in BOOLEAN, NEW u \in BOOLEAN, DevinEnds(b, u) PROVE IInv'  BY <2>2, DevinEndsKeeps
  <2>3. ASSUME NEW k, Answer(k) PROVE IInv'
    <3> UNCHANGED held  BY <2>3 DEF Answer, held
    <3> QED BY QuietKeeps
  <2>4. ASSUME NEW h, SourceStops(h) PROVE IInv'
    <3> UNCHANGED held  BY <2>4 DEF SourceStops, held
    <3> QED BY QuietKeeps
  <2> QED BY <1>2, <2>1, <2>2, <2>3, <2>4 DEF Upstream
<1>3. ASSUME Gateway PROVE IInv'
  <2>1. CASE Cancelled
    <3> UNCHANGED held  BY <2>1 DEF Cancelled, held
    <3> QED BY QuietKeeps
  <2>2. CASE ReturnHeaders
    <3>1. UNCHANGED still /\ prime' = prime /\ pc = "headers"  BY <2>2 DEF ReturnHeaders, still
    <3>2. pc' \in {"priming", "buffering", "failed"}  BY <2>2 DEF ReturnHeaders
    <3> QED BY <3>1, <3>2, MovesKeeps
  <2>3. CASE PrimeEnds
    <3> UNCHANGED still /\ prime' = prime /\ pc = "priming" /\ pc' = "failed"  BY <2>3 DEF PrimeEnds, still
    <3> QED BY MovesKeeps
  <2>4. CASE Commit
    <3> UNCHANGED still /\ prime' = Unprimed /\ pc = "primed" /\ pc' = "streaming"  BY <2>4 DEF Commit, still
    <3> QED BY MovesKeeps
  <2>5. ASSUME NEW b \in JSONBodies, BufferBody(b) PROVE IInv'  BY <2>5, BufferBodyKeeps
  <2>6. CASE Replay  BY <2>6, ReplayKeeps
  <2>7. CASE StreamEnds  BY <2>7, StreamEndsKeeps
  <2>8. ASSUME NEW l \in BOOLEAN, Judge(l) PROVE IInv'  BY <2>8, JudgeKeeps
  <2> QED BY <1>3, <2>1, <2>2, <2>3, <2>4, <2>5, <2>6, <2>7, <2>8 DEF Gateway
<1>4. ASSUME Deadlines PROVE IInv'
  <2> UNCHANGED held
    BY <1>4 DEF Deadlines, HeaderTimeout, PrimeTimeout, ReadTimeout, IdleTimeout, WatchdogExpires, held
  <2> QED BY QuietKeeps
<1>5. ASSUME ClientLeaves PROVE IInv'  BY <1>5, ClientLeavesKeeps
<1>6. ASSUME NEW w, Waits(w) PROVE IInv'
  <2> UNCHANGED held  BY <1>6 DEF Waits, held
  <2> QED BY QuietKeeps
<1>7. ASSUME NEW c \in Wired, PrimeFrame(c) PROVE IInv'  BY <1>7, PrimeFrameKeeps
<1>8. ASSUME NEW c \in Wired, Deliver(c) PROVE IInv'  BY <1>8, DeliverKeeps
<1>9. ASSUME Stopped PROVE IInv'  BY <1>1, <1>9 DEF Stopped
<1> HIDE DEF route, upstream, pipe, result
<1> QED BY <1>1, <1>2, <1>3, <1>4, <1>5, <1>6, <1>7, <1>8, <1>9 DEF Next

\* The invariant of every attempt.
LEMMA Invariantly == Spec => []IInv
<1>1. Init => IInv  BY Initially
<1>2. IInv /\ [Next]_vars => IInv'  BY Inductive
<1> QED BY <1>1, <1>2, PTL DEF Spec

\* A client whose message began is told how it ended.
THEOREM AlwaysTerminated == Spec => []EndsWithTerminal
<1>1. IInv => EndsWithTerminal
  <2> SUFFICES ASSUME IInv, pc = "done", ~gone, client.started
               PROVE  client.complete \/ client.failed
    BY DEF EndsWithTerminal, Over
  <2>1. CASE bypass  BY <2>1 DEF IInv, CopiesWhole
  <2>2. CASE ~bypass
    <3>1. Linked(fl, client) /\ Terminated(fl)  BY <2>2 DEF IInv, Follows
    <3> QED BY <3>1 DEF Linked, Terminated
  <2> QED BY <2>1, <2>2
<1> QED BY <1>1, Invariantly, PTL

\* A message that began and did not complete costs the leg its circuit.
THEOREM AlwaysPenalised == Spec => []TruncationIsPenalised
<1>1. IInv => TruncationIsPenalised  BY DEF IInv
<1> QED BY <1>1, Invariantly, PTL

\* An attempt that is over holds no open body.
THEOREM NeverLeaks == Spec => []NoLeakedBody
<1>1. Init => NoLeakedBody  BY DEF Init, NoLeakedBody
<1>2. ASSUME NoLeakedBody, [Next]_vars PROVE NoLeakedBody'
  <2> USE DEF NoLeakedBody
  <2>1. CASE UNCHANGED vars  BY <1>2, <2>1 DEF vars
  <2>2. ASSUME Upstream PROVE NoLeakedBody'
    BY <1>2, <2>2 DEF Upstream, DevinSends, DevinEnds, Answer, SourceStops
  <2>3. ASSUME Gateway PROVE NoLeakedBody'
    <3>1. CASE Cancelled  BY <3>1 DEF Cancelled
    <3>2. CASE ReturnHeaders  BY <3>2 DEF ReturnHeaders
    <3>3. CASE PrimeEnds \/ Commit  BY <3>3 DEF PrimeEnds, Commit
    <3>4. ASSUME NEW b \in JSONBodies, BufferBody(b) PROVE NoLeakedBody'  BY <3>4 DEF BufferBody
    <3>5. ASSUME Replay \/ (\E c : Deliver(c)) PROVE NoLeakedBody'  BY <3>5 DEF Replay, Deliver, Carry
    <3>6. CASE StreamEnds  BY <3>6 DEF StreamEnds
    <3>7. ASSUME NEW l \in BOOLEAN, Judge(l) PROVE NoLeakedBody'  BY <3>7 DEF Judge
    <3> QED BY <2>3, <3>1, <3>2, <3>3, <3>4, <3>5, <3>6, <3>7 DEF Gateway
  <2>4. ASSUME Deadlines PROVE NoLeakedBody'
    BY <2>4 DEF Deadlines, HeaderTimeout, PrimeTimeout, ReadTimeout, IdleTimeout, WatchdogExpires
  <2>5. ASSUME ClientLeaves \/ (\E w : Waits(w)) PROVE NoLeakedBody'  BY <1>2, <2>5 DEF ClientLeaves, Waits
  <2>6. ASSUME NEW c \in Wired, PrimeFrame(c) PROVE NoLeakedBody'  BY <2>6 DEF PrimeFrame
  <2>7. ASSUME NEW c \in Wired, Deliver(c) PROVE NoLeakedBody'  BY <2>7 DEF Deliver, Carry
  <2>8. ASSUME Stopped PROVE NoLeakedBody'  BY <2>1, <2>8 DEF Stopped
  <2> QED BY <1>2, <2>1, <2>2, <2>3, <2>4, <2>5, <2>6, <2>7, <2>8 DEF Next
<1> QED BY <1>1, <1>2, PTL DEF Spec

-----------------------------------------------------------------------------
(***************************************************************************)
(* What was sent of the tool calls.                                        *)
(*                                                                         *)
(* Invariant (Tallied): while the stream goes on, the calls the translator *)
(* keeps, with what the prefix still holds of them, are those that came    *)
(* off the wire (Trail), and no frame of the prefix can conclude the       *)
(* message, as a [DONE] is refused while priming.  So the translator       *)
(* judges the calls when it has all that was sent of them.                 *)
(***************************************************************************)
\* What the translator was told of its calls.
Counts(t) == [i \in Tools |-> [id |-> t.tools[i].id, name |-> t.tools[i].name, args |-> t.tools[i].args]]

\* A call with a block has its id and its name, and one not seen has nothing.
Tidy(t) ==
  \A i \in Tools :
    /\ t.tools[i].block # NoBlock => t.tools[i].id /\ t.tools[i].name
    /\ ~t.tools[i].seen => ~t.tools[i].id /\ ~t.tools[i].name /\ t.tools[i].args = 0

\* A step that did not fail was told these calls.
Tells(s, calls) == s.failed \/ (Tidy(s.t) /\ Counts(s.t) = calls)

\* The calls of a message that may be completed are calls, or nothing.
LEMMA WholeCounts ==
  ASSUME NEW t \in Translators, Tidy(t), WholeCalls(t), NEW i \in Tools
  PROVE  Whole(Counts(t)[i])
<1>1. t.tools[i] \in Calls  BY DEF Translators
<1>2. Counts(t)[i] = [id |-> t.tools[i].id, name |-> t.tools[i].name, args |-> t.tools[i].args]  BY DEF Counts
<1>3. CASE t.tools[i].seen
  <2>1. WholeArguments(t.tools[i]) /\ ~Incomplete(t.tools[i])  BY <1>3 DEF WholeCalls, Seen
  <2> QED BY <1>1, <1>2, <1>3, <2>1 DEF WholeArguments, Incomplete, Whole, Tidy, Calls
<1>4. CASE ~t.tools[i].seen  BY <1>2, <1>4 DEF Whole, Tidy
<1> QED BY <1>3, <1>4

\* The translator keeps of a fragment what the fragment tells, also of one
\* that breaks a bound.
LEMMA FragmentTells ==
  ASSUME NEW t \in Translators, Tidy(t), NEW c \in Pieces
  PROVE  Tells(ToolFragment(t, c), Told(Counts(t), c))
<1> DEFINE k == c.tool
           old == t.tools[c.tool]
           id == old.id \/ c.id
           name == old.name \/ c.name
           args == old.args + c.args
           new == [old EXCEPT !.seen = TRUE, !.id = @ \/ c.id, !.name = @ \/ c.name, !.args = @ + c.args]
           kept == [t EXCEPT !.tools[c.tool] = new]
           begun == [kept EXCEPT !.tools[c.tool].block = t.next, !.next = @ + 1, !.text = NoBlock,
                                 !.order = Append(@, c.tool)]
           u == ToolFragment(t, c).t
<1>1. k \in Tools /\ old \in Calls /\ t.tools \in [Tools -> Calls]  BY DEF Pieces, Translators
<1>2. /\ new.seen = TRUE /\ new.id = id /\ new.name = name /\ new.args = args /\ new.block = old.block
      /\ new \in [seen : {new.seen}, id : {new.id}, name : {new.name}, args : {new.args}, block : {new.block}]
  <2>1. new = [old EXCEPT !.seen = TRUE, !.id = id, !.name = name, !.args = args]  OBVIOUS
  <2> HIDE DEF id, name, args, new, old
  <2> QED BY <1>1, <2>1 DEF Calls
<1> HIDE DEF new
<1> DEFINE opened == [new EXCEPT !.block = t.next]
<1>3. /\ opened.seen = TRUE /\ opened.id = id /\ opened.name = name /\ opened.args = args
  <2> HIDE DEF id, name, args
  <2> QED BY <1>2
<1>4. kept.tools = [t.tools EXCEPT ![k] = new]  BY DEF Translators
<1>5. begun.tools = [t.tools EXCEPT ![k] = opened]
  <2>1. kept \in [started : {kept.started}, ended : {kept.ended}, text : {kept.text}, next : {kept.next},
                  tools : {kept.tools}, order : {kept.order}, finish : {kept.finish}, done : {kept.done}]
    BY DEF Translators
  <2> DEFINE tools == [kept.tools EXCEPT ![c.tool] = [kept.tools[c.tool] EXCEPT !.block = t.next]]
             order == Append(kept.order, c.tool)
             next == kept.next + 1
  <2>2. begun = [kept EXCEPT !.tools = tools, !.next = next, !.text = NoBlock, !.order = order]  OBVIOUS
  <2>3. kept.tools[k] = new /\ DOMAIN kept.tools = Tools  BY <1>1, <1>4
  <2> HIDE DEF order, next, begun, kept
  <2>4. begun.tools = tools  BY <2>1, <2>2
  <2>5. tools = [[t.tools EXCEPT ![k] = new] EXCEPT ![k] = opened]  BY <1>4, <2>3
  <2> HIDE DEF tools, opened, new
  <2>6. [[t.tools EXCEPT ![k] = new] EXCEPT ![k] = opened] = [t.tools EXCEPT ![k] = opened]  BY <1>1
  <2> QED BY <2>4, <2>5, <2>6
<1>6. \/ u = kept /\ (ToolFragment(t, c).failed \/ old.block # NoBlock \/ ~(new.id /\ new.name))
      \/ u = begun /\ new.id /\ new.name
  <2> HIDE DEF kept, begun
  <2> QED BY DEF ToolFragment, Step, new, kept, begun
<1> HIDE DEF kept, begun, opened, u, old
<1> DEFINE Is(n) == /\ u.tools = [t.tools EXCEPT ![k] = n] /\ n.seen = TRUE /\ n.id = id /\ n.name = name /\ n.args = args
                    /\ n.block # NoBlock => n.id /\ n.name
<1>7. \E n : Is(n)
  <2>1. CASE u = kept
    <3>1. old.block # NoBlock => old.id /\ old.name  BY <1>1 DEF Tidy, old
    <3>2. Is(new)  BY <1>2, <1>4, <2>1, <3>1
    <3> QED BY <3>2
  <2>2. CASE u = begun /\ new.id /\ new.name
    <3>1. Is(opened)  BY <1>2, <1>3, <1>5, <2>2
    <3> QED BY <3>1
  <2> QED BY <1>6, <2>1, <2>2
<1> HIDE DEF id, name, args
<1>8. PICK n : Is(n)  BY <1>7
<1>9. \A i \in Tools : u.tools[i] = IF i = k THEN n ELSE t.tools[i]  BY <1>1, <1>8
<1>10. Tidy(u)  BY <1>8, <1>9 DEF Tidy
<1>11. Counts(u) = Told(Counts(t), c)
  <2> DEFINE told == [id |-> Counts(t)[k].id \/ c.id, name |-> Counts(t)[k].name \/ c.name,
                      args |-> Counts(t)[k].args + c.args]
  <2>1. Told(Counts(t), c) = [Counts(t) EXCEPT ![k] = told]  BY DEF Told
  <2>2. told = [id |-> id, name |-> name, args |-> args]  BY <1>1 DEF Counts, id, name, args, old
  <2> HIDE DEF told
  <2>3. ASSUME NEW i \in Tools PROVE Counts(u)[i] = [Counts(t) EXCEPT ![k] = told][i]
    <3>1. Counts(u)[i] = [id |-> u.tools[i].id, name |-> u.tools[i].name, args |-> u.tools[i].args]  BY DEF Counts
    <3>2. DOMAIN Counts(t) = Tools
          /\ Counts(t)[i] = [id |-> t.tools[i].id, name |-> t.tools[i].name, args |-> t.tools[i].args]
      BY DEF Counts
    <3>3. CASE i = k  BY <1>1, <1>8, <1>9, <2>2, <3>1, <3>2, <3>3
    <3>4. CASE i # k  BY <1>9, <3>1, <3>2, <3>4
    <3> QED BY <3>3, <3>4
  <2> QED BY <2>1, <2>3 DEF Counts
<1> QED BY <1>10, <1>11 DEF Tells, u

\* So it does of the fragments of a chunk.
LEMMA ToolsTell ==
  ASSUME NEW r \in Steps, Tidy(r.t), NEW tools \in Seq(Pieces)
  PROVE  Tells(ToolsFolded(r, tools), FoldLeft(Told, Counts(r.t), tools))
<1> DEFINE calls == Counts(r.t)
           all == FoldLeft(Told, calls, tools)
<1>0. IsSeq(tools)  BY DEF IsSeq
<1>1. PICK h : IsRun(h, "tool", r, tools) /\ ToolsFolded(r, tools) = h[Len(tools)]
  BY <1>0, ToolsRun
<1>2. PICK g : IsRun(g, "told", calls, tools) /\ all = g[Len(tools)]
  BY <1>0, ToldRun
<1> HIDE DEF all
<1> DEFINE N == {n \in 0..Len(tools) : h[n] \in Steps /\ Tells(h[n], g[n])}
<1>3. 0 \in N
  <2>1. h[0] = r /\ g[0] = calls /\ 0 \in 0..Len(tools)  BY <1>1, <1>2, LenProperties DEF IsRun
  <2> QED BY <2>1 DEF Tells
<1>4. ASSUME NEW k \in 0..(Len(tools) - 1), k \in N PROVE k + 1 \in N
  <2>1. k + 1 \in 1..Len(tools) /\ k + 1 \in 0..Len(tools) /\ (k + 1) - 1 = k  OBVIOUS
  <2> DEFINE a == h[k]
             f == tools[k + 1]
             b == ToolFragment(a.t, f)
  <2>2. h[k + 1] = Then(a, b)
    <3>1. h[k + 1] = Apply("tool", h[k], tools[k + 1])  BY <1>1, <2>1 DEF IsRun
    <3> QED BY <3>1 DEF Apply
  <2>3. g[k + 1] = Told(g[k], f)
    <3>1. g[k + 1] = Apply("told", g[k], tools[k + 1])  BY <1>2, <2>1 DEF IsRun
    <3> QED BY <3>1 DEF Apply
  <2>4. f \in Pieces  BY <2>1
  <2>5. a \in Steps /\ a.t \in Translators /\ Tells(a, g[k])  BY <1>4 DEF Steps
  <2>6. b \in Steps /\ Kept(a.t, b.t)  BY <2>4, <2>5, FragmentTyped
  <2>7. ~a.failed => Tells(b, Told(g[k], f))
    <3>1. ~a.failed => Tidy(a.t) /\ Counts(a.t) = g[k]  BY <2>5 DEF Tells
    <3>2. Tidy(a.t) => Tells(b, Told(Counts(a.t), f))  BY <2>4, <2>5, FragmentTells
    <3> QED BY <3>1, <3>2
  <2> HIDE DEF a, b, f
  <2>8. Then(a, b) \in Steps
    <3> Kept(a.t, a.t)  BY DEF Kept
    <3> QED BY <2>5, <2>6, ThenTyped
  <2>9. Tells(Then(a, b), Told(g[k], f))
    <3>1. CASE a.failed  BY <3>1 DEF Then, Tells
    <3>2. CASE ~a.failed
      <4>1. Then(a, b).t = b.t /\ Then(a, b).failed = b.failed  BY <3>2 DEF Then, Step
      <4> QED BY <2>7, <3>2, <4>1 DEF Tells
    <3> QED BY <3>1, <3>2
  <2> QED BY <2>1, <2>2, <2>3, <2>8, <2>9
<1> HIDE DEF N
<1>5. Len(tools) \in N  BY <1>3, <1>4, Upto, LenProperties
<1> QED BY <1>1, <1>2, <1>5 DEF N, all

\* A step that leaves the calls alone.
LEMMA SameCalls ==
  ASSUME NEW t, NEW u, u.tools = t.tools
  PROVE  Counts(u) = Counts(t) /\ (Tidy(t) => Tidy(u)) /\ WholeCalls(u) = WholeCalls(t)
BY DEF Counts, Tidy, WholeCalls, Seen

\* A chunk.
LEMMA ChunkTells ==
  ASSUME NEW t \in Translators, Tidy(t), NEW c \in Completions
  PROVE  Tells(ProcessChunk(t, c), FoldLeft(Told, Counts(t), c.tools))
<1> DEFINE opened == Opened(t)
           spoken == Text(opened.t)
           text == IF c.text THEN Then(opened, spoken) ELSE opened
           tools == ToolsFolded(text, c.tools)
           noted == [tools.t EXCEPT !.finish = @ \/ c.finish]
           last == Step(noted, <<>>, FALSE)
           s == ProcessChunk(t, c)
<1>1. opened \in Steps /\ Kept(t, opened.t) /\ opened.t \in Translators /\ opened.t.tools = t.tools /\ ~opened.failed
  <2>1. opened.t.tools = t.tools /\ ~opened.failed  BY DEF Opened, Step, Translators
  <2> HIDE DEF opened
  <2> QED BY <2>1, OpenedTyped DEF opened, Steps
<1>2. spoken \in Steps /\ Kept(opened.t, spoken.t) /\ spoken.t.tools = t.tools
  <2> DEFINE v == opened.t
             i == IF v.text = NoBlock THEN v.next ELSE v.text
             w == [v EXCEPT !.text = i, !.next = @ + 1]
  <2>1. Text(v).t = v \/ Text(v).t = w  BY DEF Text, Step
  <2> HIDE DEF v, i
  <2>2. v \in Translators /\ v.tools = t.tools  BY <1>1 DEF v
  <2>3. w.tools = v.tools  BY <2>2 DEF Translators
  <2>4. Text(v).t.tools = t.tools  BY <2>1, <2>2, <2>3
  <2>5. Text(v) \in Steps /\ Kept(v, Text(v).t)  BY <2>2, TextTyped
  <2> QED BY <2>4, <2>5 DEF v
<1>3. text \in Steps /\ text.t.tools = t.tools
  <2> HIDE DEF opened, spoken
  <2>1. Then(opened, spoken) = Step(spoken.t, opened.out \o spoken.out, spoken.failed)  BY <1>1 DEF Then
  <2>2. Then(opened, spoken).t = spoken.t  BY <2>1 DEF Step
  <2>3. Then(opened, spoken) \in Steps  BY <1>1, <1>2, ThenTyped
  <2> QED BY <1>1, <1>2, <2>2, <2>3
<1> HIDE DEF text
<1>4. Counts(text.t) = Counts(t) /\ Tidy(text.t)  BY <1>3, SameCalls
<1>5. c.tools \in Seq(Pieces)  BY DEF Completions
<1>6. Tells(tools, FoldLeft(Told, Counts(t), c.tools)) /\ tools \in Steps
  <2>1. Tells(tools, FoldLeft(Told, Counts(text.t), c.tools))  BY <1>3, <1>4, <1>5, ToolsTell
  <2>2. tools \in Steps  BY <1>3, <1>5, ToolsTyped
  <2> QED BY <1>4, <2>1, <2>2
<1>7. s = Then(tools, last)  BY DEF ProcessChunk, ToolsFolded, text
<1> HIDE DEF tools, s
<1>8. noted.tools = tools.t.tools  BY <1>6 DEF Steps, Translators
<1>9. last.t = noted /\ ~last.failed  BY DEF Step
<1> HIDE DEF noted, last
<1>10. CASE tools.failed
  <2> s = tools  BY <1>7, <1>10 DEF Then
  <2> QED BY <1>10 DEF s, Tells
<1>11. CASE ~tools.failed
  <2>1. s = Step(last.t, tools.out \o last.out, last.failed)  BY <1>7, <1>11 DEF Then
  <2>2. s.t = noted  BY <1>9, <2>1 DEF Step
  <2>3. Counts(s.t) = Counts(tools.t) /\ (Tidy(tools.t) => Tidy(s.t))  BY <1>8, <2>2, SameCalls
  <2> QED BY <1>6, <1>11, <2>3 DEF Tells, s
<1> QED BY <1>10, <1>11

\* A frame of the upstream, and what the translator makes of a [DONE].
LEMMA RanTells ==
  ASSUME NEW t \in Translators, Tidy(t), ~t.done, ~t.ended, NEW c, c.type = "choices" => c \in Completions,
         ~Ran(t, c).failed
  PROVE  LET e == Ran(t, c)
         IN /\ Tidy(e.t) /\ Counts(e.t) = Tally(Counts(t), c)
            /\ e.t.ended => c.type = "done"
            /\ ~e.t.ended => ~e.t.done
<1> DEFINE s == Translated(t, c)
           e == Ran(t, c)
           more == ~s.failed /\ s.t.done
           z == Concluded(s.t, FALSE)
<1>1. e = IF more THEN z ELSE s  BY DEF Ran
<1>2. s \in Steps => (Failing(s.t, z) \/ Completing(s.t, z))
  <2> HIDE DEF s
  <2> QED BY ConcludedTyped DEF Steps
<1>3. ~s.failed /\ s \in Steps /\ s.t.ended = FALSE /\ (s.t.done => c.type = "done")
  <2>1. \/ Failing(t, s) /\ s.failed
        \/ s \in Steps /\ s.t.ended = t.ended /\ (s.t.done => t.done \/ c.type = "done")
    BY TranslatedTyped
  <2>2. t.ended \in BOOLEAN  BY DEF Translators
  <2> HIDE DEF s, z
  <2> QED BY <1>1, <2>1, <2>2
<1>4. Tidy(s.t) /\ Counts(s.t) = Tally(Counts(t), c)
  <2>1. CASE c.type = "choices"
    <3>1. s = ProcessChunk(t, c)  BY <2>1 DEF Translated
    <3>2. Tells(ProcessChunk(t, c), FoldLeft(Told, Counts(t), c.tools))  BY <2>1, ChunkTells
    <3>3. Tally(Counts(t), c) = FoldLeft(Told, Counts(t), c.tools)  BY <2>1 DEF Tally
    <3> HIDE DEF s
    <3> QED BY <1>3, <3>1, <3>2, <3>3 DEF Tells
  <2>2. CASE c.type # "choices"
    <3>1. s.t.tools = t.tools
      <4>1. CASE c.type = "done"  BY <4>1 DEF Translated, Step, Translators
      <4>2. CASE c.type = "comment"  BY <4>2 DEF Translated, Step
      <4>3. CASE c.type \notin {"choices", "done", "comment"}
        <5>1. s = Quit(t, <<>>)  BY <4>3 DEF Translated
        <5>2. s.failed  BY <5>1 DEF Quit, Step
        <5> QED BY <1>3, <5>2
      <4> QED BY <2>2, <4>1, <4>2, <4>3
    <3>2. Counts(s.t) = Counts(t) /\ Tidy(s.t)  BY <3>1, SameCalls
    <3> QED BY <2>2, <3>2 DEF Tally
  <2> QED BY <2>1, <2>2
<1> HIDE DEF s, z, e
<1>5. CASE more
  <2>1. z.t.ended /\ z.t.tools = s.t.tools  BY <1>2, <1>3 DEF Failing, Completing, Steps, Translators
  <2>2. Counts(z.t) = Counts(s.t) /\ Tidy(z.t)  BY <1>4, <2>1, SameCalls
  <2> QED BY <1>1, <1>3, <1>4, <1>5, <2>1, <2>2 DEF e
<1>6. CASE ~more  BY <1>1, <1>3, <1>4, <1>6 DEF e
<1> QED BY <1>5, <1>6

\* The tallies of a prefix, from what the translator was told to what was sent.
Trail(h, calls, frames) == h[0] = calls /\ \A k \in 1..Len(frames) : h[k] = Tally(h[k - 1], frames[k])

GoesOnward == pc \in {"headers", "priming", "primed", "streaming"}
Tallied ==
  OpenAI =>
    /\ GoesOnward =>
         /\ Tidy(tr) /\ ~tr.done /\ ~tr.ended /\ ~client.complete
         /\ \A k \in 1..Len(prefix) : prefix[k].type # "done"
         /\ \E h : Trail(h, Counts(tr), prefix) /\ h[Len(prefix)] = said.calls
    /\ client.complete => \A i \in Tools : Whole(said.calls[i])

\* Most steps move neither.
LEMMA QuietTallies ==
  ASSUME Tallied, UNCHANGED <<format, client, tr, prefix>>, said'.calls = said.calls, GoesOnward' => GoesOnward
  PROVE  Tallied'
<1> USE DEF Tallied, OpenAI
<1>1. GoesOnward' /\ OpenAI => \E h : Trail(h, Counts(tr'), prefix') /\ h[Len(prefix')] = said'.calls
  <2> HIDE DEF GoesOnward
  <2> QED OBVIOUS
<1> QED BY <1>1

\* A frame read while priming is tallied last; a [DONE] fails the attempt.
LEMMA PrimeTallies ==
  ASSUME IInv, Tallied, NEW c \in Wired, PrimeFrame(c)
  PROVE  Tallied'
<1>1. /\ pc = "priming" /\ prefix' = Append(prefix, c) /\ UNCHANGED <<format, tr, client>> /\ Arrives(c, TRUE)
  BY DEF PrimeFrame, route
<1> SUFFICES ASSUME OpenAI PROVE Tallied'
  BY <1>1 DEF Tallied, OpenAI
<1>2. said'.calls = Tally(said.calls, c) /\ c \in Incoming  BY <1>1, ArrivesKeeps
<1>3. c.type = "done" => pc' = "failed"
  <2> SUFFICES ASSUME c.type = "done" PROVE pc' = "failed"
    OBVIOUS
  <2>1. Class(c) = "refuse"  BY DEF Class, InitialError
  <2> QED BY <2>1 DEF PrimeFrame
<1>4. /\ Len(prefix) \in Nat /\ Len(prefix') = Len(prefix) + 1 /\ prefix'[Len(prefix) + 1] = c
      /\ \A i \in 1..Len(prefix) : prefix'[i] = prefix[i]
  <2> prefix \in Seq(Incoming)  BY DEF IInv, Typed
  <2> QED BY <1>1, <1>2, AppendProperties, LenProperties
<1>5. /\ Tidy(tr) /\ ~tr.done /\ ~tr.ended /\ ~client.complete
      /\ \A k \in 1..Len(prefix) : prefix[k].type # "done"
  BY <1>1 DEF Tallied, GoesOnward
<1>6. PICK h : Trail(h, Counts(tr), prefix) /\ h[Len(prefix)] = said.calls  BY <1>1 DEF Tallied, GoesOnward
<1> DEFINE n == Len(prefix)
           g == [k \in 0..(n + 1) |-> IF k = n + 1 THEN said'.calls ELSE h[k]]
<1>7. Trail(g, Counts(tr), prefix') /\ g[Len(prefix')] = said'.calls
  <2>1. n \in Nat /\ Len(prefix') = n + 1 /\ g[n + 1] = said'.calls  BY <1>4
  <2>2. \A k \in 0..n : g[k] = h[k]  BY <1>4
  <2> HIDE DEF g
  <2>3. g[0] = Counts(tr)  BY <1>6, <2>1, <2>2 DEF Trail
  <2>4. ASSUME NEW k \in 1..(n + 1) PROVE g[k] = Tally(g[k - 1], prefix'[k])
    <3>1. CASE k = n + 1
      <4>1. k - 1 = n /\ n \in 0..n /\ prefix'[k] = c  BY <1>4, <3>1
      <4> HIDE DEF n
      <4>2. g[k - 1] = said.calls  BY <1>6, <2>2, <4>1 DEF n
      <4> QED BY <1>2, <2>1, <3>1, <4>1, <4>2
    <3>2. CASE k # n + 1
      <4>1. k \in 1..n /\ k \in 0..n /\ k - 1 \in 0..n  BY <2>1, <3>2
      <4> QED BY <1>4, <1>6, <2>2, <4>1 DEF Trail
    <3> QED BY <3>1, <3>2
  <2> QED BY <2>1, <2>3, <2>4 DEF Trail
<1> HIDE DEF n, g
<1>8. \E x : Trail(x, Counts(tr'), prefix') /\ x[Len(prefix')] = said'.calls
  <2> tr' = tr  BY <1>1
  <2> QED BY <1>7
<1>9. GoesOnward' => \A k \in 1..Len(prefix') : prefix'[k].type # "done"
  <2>1. ASSUME GoesOnward', NEW k \in 1..Len(prefix') PROVE prefix'[k].type # "done"
    <3>1. CASE k \in 1..Len(prefix)  BY <1>4, <1>5, <3>1
    <3>2. CASE k = Len(prefix) + 1  BY <1>3, <1>4, <2>1, <3>2 DEF GoesOnward
    <3> QED BY <1>4, <3>1, <3>2
  <2> QED BY <2>1
<1> QED BY <1>1, <1>5, <1>8, <1>9 DEF Tallied

\* A frame through the pipeline: only a [DONE] completes the message, with
\* calls that are whole.
LEMMA CarryTallies ==
  ASSUME IInv, Tallied, OpenAI, pc = "streaming", NEW c \in Incoming, Carry(c)
  PROVE  /\ pc' = "streaming" => /\ Tidy(tr') /\ ~tr'.done /\ ~tr'.ended /\ ~client'.complete
                                 /\ Counts(tr') = Tally(Counts(tr), c)
         /\ client'.complete => /\ pc' = "ended" /\ c.type = "done"
                                /\ \A i \in Tools : Whole(Tally(Counts(tr), c)[i])
<1> DEFINE p == Piped(c)
           d == Received(client, p.out)
           e == Ran(tr, c)
<1>1. Typed /\ ~bypass  BY DEF IInv, CopiesWhole, OpenAI
<1>2. tr' = p.t /\ client' = (IF gone THEN client ELSE d) /\ pc' = IF p.over THEN "ended" ELSE pc
  BY <1>1 DEF Carry, Tell
<1>3. tr \in Translators /\ Tidy(tr) /\ ~tr.done /\ ~tr.ended /\ ~client.complete
  BY <1>1 DEF Tallied, GoesOnward, Typed
<1>4. c.type = "choices" => c \in Completions  BY ReadTyped
<1>5. /\ p.t \in Translators
      /\ d.complete => client.complete \/ Finishes(e)
  <2>1. tr.done \/ tr.finish \/ Concludes(c) => TRUE  OBVIOUS
  <2> QED BY <1>1, <2>1, PipedTranslated
<1>6. p.t = e.t /\ (e.failed \/ e.t.ended => p.over)  BY PipedShape
<1>7. ~e.failed => /\ Tidy(e.t) /\ Counts(e.t) = Tally(Counts(tr), c)
                   /\ e.t.ended => c.type = "done"
                   /\ ~e.t.ended => ~e.t.done
  BY <1>3, <1>4, RanTells
<1> HIDE DEF p, d, e
<1>8. ASSUME pc' = "streaming"
      PROVE  Tidy(tr') /\ ~tr'.done /\ ~tr'.ended /\ ~client'.complete /\ Counts(tr') = Tally(Counts(tr), c)
  <2>1. ~e.failed /\ ~e.t.ended  BY <1>2, <1>6, <1>8
  <2> QED BY <1>2, <1>3, <1>5, <1>6, <1>7, <2>1 DEF Finishes
<1>9. ASSUME client'.complete
      PROVE  pc' = "ended" /\ c.type = "done" /\ \A i \in Tools : Whole(Tally(Counts(tr), c)[i])
  <2>1. Finishes(e)  BY <1>2, <1>3, <1>5, <1>9
  <2>2. ~e.failed /\ e.t.ended /\ WholeCalls(e.t)  BY <2>1 DEF Finishes
  <2>3. \A i \in Tools : Whole(Counts(e.t)[i])  BY <1>5, <1>6, <1>7, <2>2, WholeCounts
  <2> QED BY <1>2, <1>6, <1>7, <2>2, <2>3
<1> QED BY <1>8, <1>9

\* A frame of the prefix is replayed: the trail begins with the next one.
LEMMA ReplayTallies ==
  ASSUME IInv, Tallied, Replay
  PROVE  Tallied'
<1>1. /\ pc = "streaming" /\ prefix # <<>> /\ Carry(Head(prefix)) /\ prefix' = Tail(prefix)
      /\ UNCHANGED <<format, gone, bypass, said>>
  BY DEF Replay, route, upstream, result
<1> SUFFICES ASSUME OpenAI PROVE Tallied'
  BY <1>1 DEF Tallied, OpenAI
<1> DEFINE c == Head(prefix)
           n == Len(prefix)
<1>2. /\ c \in Incoming /\ c = prefix[1] /\ n \in Nat /\ 1 \in 1..n /\ Len(prefix') = n - 1
      /\ \A i \in 1..(n - 1) : prefix'[i] = prefix[i + 1] /\ i + 1 \in 1..n
  <2> prefix \in Seq(Incoming)  BY DEF IInv, Typed
  <2> QED BY <1>1, HeadTailProperties, LenProperties
<1> HIDE DEF c
<1>3. /\ \A k \in 1..n : prefix[k].type # "done"
      /\ \E h : Trail(h, Counts(tr), prefix) /\ h[n] = said.calls
  BY <1>1 DEF Tallied, GoesOnward
<1>4. /\ pc' = "streaming" => /\ Tidy(tr') /\ ~tr'.done /\ ~tr'.ended /\ ~client'.complete
                              /\ Counts(tr') = Tally(Counts(tr), c)
      /\ client'.complete => c.type = "done"
  BY <1>1, <1>2, CarryTallies DEF c
<1>5. ~client'.complete  BY <1>2, <1>3, <1>4
<1>6. pc' \in {"streaming", "ended"}  BY <1>1 DEF Carry
<1>7. PICK h : Trail(h, Counts(tr), prefix) /\ h[n] = said.calls  BY <1>3
<1> DEFINE g == [k \in 0..(n - 1) |-> h[k + 1]]
<1>8. g[0] = Tally(Counts(tr), c) /\ (\A k \in 1..(n - 1) : g[k] = Tally(g[k - 1], prefix'[k])) /\ g[n - 1] = said.calls
  <2>1. n \in Nat /\ n >= 1  BY <1>2
  <2> HIDE DEF n
  <2>2. \A k \in 0..(n - 1) : g[k] = h[k + 1]  OBVIOUS
  <2> HIDE DEF g
  <2>3. h[0] = Counts(tr) /\ \A k \in 1..n : h[k] = Tally(h[k - 1], prefix[k])  BY <1>7 DEF Trail, n
  <2>4. 0 \in 0..(n - 1) /\ n - 1 \in 0..(n - 1) /\ 1 \in 1..n /\ (n - 1) + 1 = n /\ 0 + 1 = 1 /\ 1 - 1 = 0
    BY <2>1
  <2>5. g[0] = h[1] /\ g[n - 1] = h[n]  BY <2>2, <2>4
  <2>6. h[1] = Tally(h[0], prefix[1])  BY <2>3, <2>4
  <2>7. ASSUME NEW k \in 1..(n - 1) PROVE g[k] = Tally(g[k - 1], prefix'[k])
    <3>1. k \in 0..(n - 1) /\ k - 1 \in 0..(n - 1) /\ k + 1 \in 1..n /\ (k - 1) + 1 = k /\ (k + 1) - 1 = k  BY <2>1
    <3>2. g[k] = h[k + 1] /\ g[k - 1] = h[k]  BY <2>2, <3>1
    <3>3. h[k + 1] = Tally(h[k], prefix[k + 1])  BY <2>3, <3>1
    <3> QED BY <1>2, <3>2, <3>3 DEF n
  <2> QED BY <1>2, <1>7, <2>3, <2>5, <2>6, <2>7
<1> HIDE DEF g
<1>9. ASSUME pc' = "streaming" PROVE \E x : Trail(x, Counts(tr'), prefix') /\ x[Len(prefix')] = said'.calls
  <2>1. Trail(g, Counts(tr'), prefix') /\ g[Len(prefix')] = said'.calls  BY <1>1, <1>2, <1>4, <1>8, <1>9 DEF Trail
  <2> QED BY <2>1
<1>10. \A k \in 1..Len(prefix') : prefix'[k].type # "done"  BY <1>2, <1>3
<1> QED BY <1>4, <1>5, <1>6, <1>9, <1>10 DEF Tallied, GoesOnward

\* A frame is read and passed on: the translator knows all that was sent.
LEMMA DeliverTallies ==
  ASSUME IInv, Tallied, NEW c \in Wired, Deliver(c)
  PROVE  Tallied'
<1>1. /\ pc = "streaming" /\ prefix = <<>> /\ prefix' = prefix /\ Arrives(c, Changes) /\ Carry(c)
      /\ UNCHANGED <<format, gone, bypass>>
  BY DEF Deliver, route, result
<1> SUFFICES ASSUME OpenAI PROVE Tallied'
  BY <1>1 DEF Tallied, OpenAI
<1>2. said'.calls = Tally(said.calls, c) /\ c \in Incoming  BY <1>1, ArrivesKeeps
<1>3. Len(prefix) = 0 /\ Len(prefix') = 0  BY <1>1
<1>4. said.calls = Counts(tr)
  <2>1. PICK h : Trail(h, Counts(tr), prefix) /\ h[Len(prefix)] = said.calls  BY <1>1 DEF Tallied, GoesOnward
  <2> QED BY <1>3, <2>1 DEF Trail
<1>5. /\ pc' = "streaming" => /\ Tidy(tr') /\ ~tr'.done /\ ~tr'.ended /\ ~client'.complete
                              /\ Counts(tr') = Tally(Counts(tr), c)
      /\ client'.complete => /\ pc' = "ended" /\ c.type = "done"
                             /\ \A i \in Tools : Whole(Tally(Counts(tr), c)[i])
  BY <1>1, <1>2, CarryTallies
<1>6. pc' \in {"streaming", "ended"}  BY <1>1 DEF Carry
<1>7. ASSUME pc' = "streaming" PROVE \E x : Trail(x, Counts(tr'), prefix') /\ x[Len(prefix')] = said'.calls
  <2> DEFINE g == [k \in {0} |-> said'.calls]
  <2>1. g[0] = said'.calls  OBVIOUS
  <2> HIDE DEF g
  <2>2. Trail(g, Counts(tr'), prefix') /\ g[Len(prefix')] = said'.calls
    BY <1>2, <1>3, <1>4, <1>5, <1>7, <2>1 DEF Trail
  <2> QED BY <2>2
<1>8. client'.complete => \A i \in Tools : Whole(said'.calls[i])  BY <1>2, <1>4, <1>5
<1> QED BY <1>3, <1>5, <1>6, <1>7, <1>8 DEF Tallied, GoesOnward

\* The source has ended: the message is completed with what was sent.
LEMMA StreamEndsTallies ==
  ASSUME IInv, Tallied, StreamEnds
  PROVE  Tallied'
<1>1. pc = "streaming" /\ prefix = <<>> /\ pc' = "ended" /\ UNCHANGED <<format, said>>
  BY DEF StreamEnds, route, upstream
<1> SUFFICES ASSUME OpenAI, client'.complete, NEW i \in Tools PROVE Whole(said'.calls[i])
  BY <1>1 DEF Tallied, OpenAI, GoesOnward
<1> DEFINE s == Concluded(tr, Broken)
           z == Finale(s)
           d == Received(client, z.out)
<1>2. client' = client \/ client' = d
  BY DEF StreamEnds, Finale, Tell
<1>3. Typed /\ tr \in Translators /\ Tidy(tr) /\ ~client.complete
  BY <1>1 DEF Tallied, GoesOnward, IInv, Typed
<1>4. said.calls = Counts(tr)
  <2>1. PICK h : Trail(h, Counts(tr), prefix) /\ h[Len(prefix)] = said.calls  BY <1>1 DEF Tallied, GoesOnward
  <2>2. Len(prefix) = 0  BY <1>1
  <2> QED BY <2>1, <2>2 DEF Trail
<1>5. PICK b \in BOOLEAN : b = Broken  BY DEF Broken
<1>6. Failing(tr, s) \/ Completing(tr, s)  BY <1>3, <1>5, ConcludedTyped
<1>7. s.t.tools = tr.tools  BY <1>3, <1>6 DEF Failing, Completing, Translators
<1>8. d.complete => client.complete \/ Finishes(s)
  <2>1. Yields(s, s.out, TRUE) /\ s.t.ended  BY <1>3, <1>5, ConcludedYields
  <2> HIDE DEF s
  <2> QED BY <1>3, <2>1, FinaleFollows
<1> HIDE DEF s, z, d
<1>9. WholeCalls(tr)  BY <1>2, <1>3, <1>7, <1>8, SameCalls DEF Finishes
<1> QED BY <1>1, <1>3, <1>4, <1>9, WholeCounts

\* Every action keeps the tally.
LEMMA Tallying == IInv /\ Tallied /\ [Next]_vars => Tallied'
<1> SUFFICES ASSUME IInv, Tallied, [Next]_vars PROVE Tallied'
  OBVIOUS
<1> USE DEF route, upstream, pipe, result
<1> DEFINE quiet == UNCHANGED <<format, client, tr, prefix>> /\ said'.calls = said.calls /\ (GoesOnward' => GoesOnward)
<1>0. quiet => Tallied'  BY QuietTallies
<1>1. CASE UNCHANGED vars
  <2> quiet  BY <1>1 DEF vars, GoesOnward
  <2> QED BY <1>0
<1>2. ASSUME Upstream PROVE Tallied'
  <2>1. IsClaim(said)  BY DEF IInv, Typed
  <2>2. said'.calls = said.calls  BY <1>2, <2>1 DEF Upstream, DevinSends, DevinEnds, Answer, SourceStops, IsClaim
  <2>3. quiet  BY <1>2, <2>2 DEF Upstream, DevinSends, DevinEnds, Answer, SourceStops, GoesOnward
  <2> QED BY <1>0, <2>3
<1>3. ASSUME Deadlines \/ ClientLeaves \/ (\E w : Waits(w)) PROVE Tallied'
  <2> quiet
    BY <1>3 DEF Deadlines, HeaderTimeout, PrimeTimeout, ReadTimeout, IdleTimeout, WatchdogExpires,
                ClientLeaves, Waits, GoesOnward
  <2> QED BY <1>0
<1>4. ASSUME NEW c \in Wired, PrimeFrame(c) PROVE Tallied'  BY <1>4, PrimeTallies
<1>5. ASSUME NEW c \in Wired, Deliver(c) PROVE Tallied'  BY <1>5, DeliverTallies
<1>6. ASSUME Gateway PROVE Tallied'
  <2>1. CASE Cancelled \/ ReturnHeaders \/ PrimeEnds \/ Commit
    <3> quiet  BY <2>1 DEF Cancelled, ReturnHeaders, PrimeEnds, Commit, GoesOnward
    <3> QED BY <1>0
  <2>2. ASSUME NEW b \in JSONBodies, BufferBody(b) PROVE Tallied'
    <3> quiet  BY <2>2 DEF BufferBody, GoesOnward
    <3> QED BY <1>0
  <2>3. CASE Replay  BY <2>3, ReplayTallies
  <2>4. CASE StreamEnds  BY <2>4, StreamEndsTallies
  <2>5. ASSUME NEW l \in BOOLEAN, Judge(l) PROVE Tallied'
    <3> quiet  BY <2>5 DEF Judge, GoesOnward
    <3> QED BY <1>0
  <2> QED BY <1>6, <2>1, <2>2, <2>3, <2>4, <2>5 DEF Gateway
<1>7. ASSUME Stopped PROVE Tallied'  BY <1>1, <1>7 DEF Stopped
<1> HIDE DEF route, upstream, pipe, result
<1> QED BY <1>1, <1>2, <1>3, <1>4, <1>5, <1>6, <1>7 DEF Next

\* It holds of a new attempt.
LEMMA NewTally == Init => Tallied
<1> SUFFICES ASSUME Init PROVE Tallied
  OBVIOUS
<1>1. tr = NoStream /\ client = NewClient /\ prefix = <<>> /\ said.calls = [i \in Tools |-> NothingTold]
  BY DEF Init
<1>2. Tidy(tr) /\ ~tr.done /\ ~tr.ended  BY <1>1 DEF Tidy, NoStream, NoTool
<1>3. Counts(tr) = said.calls  BY <1>1 DEF Counts, NoStream, NoTool, NothingTold
<1>4. ~client.complete  BY <1>1 DEF NewClient
<1> DEFINE g == [k \in {0} |-> said.calls]
<1>5. g[0] = said.calls /\ Len(prefix) = 0  BY <1>1
<1> HIDE DEF g
<1>6. Trail(g, Counts(tr), prefix) /\ g[Len(prefix)] = said.calls  BY <1>3, <1>5 DEF Trail
<1> QED BY <1>2, <1>4, <1>5, <1>6 DEF Tallied

\* message_stop reaches a client only after the upstream ended its message,
\* whatever it sent and wherever it broke, and, through the translator, only
\* if what it sent of every tool call adds up to a call.
THEOREM NeverFalselyComplete == Spec => []NoFalseCompletion
<1>1. Init => Tallied  BY NewTally
<1>2. IInv /\ Tallied /\ [Next]_vars => Tallied'  BY Tallying
<1>3. IInv /\ Tallied => NoFalseCompletion  BY DEF IInv, EndClaimed, Tallied, NoFalseCompletion
<1> QED BY <1>1, <1>2, <1>3, Invariantly, PTL DEF Spec

-----------------------------------------------------------------------------
(***************************************************************************)
(* The form of what the client is sent.                                    *)
(*                                                                         *)
(* Invariant (Formed): the client was sent no block out of turn and, of a  *)
(* translated stream, no piece of a closed block (Safe, Even).  While the  *)
(* stream goes on, the client's next number is the filter's (Numbered),    *)
(* the client's open blocks are the translator's, under the filter's       *)
(* numbers, but for those left out (Tracks), and the translator's own      *)
(* blocks are apart, below its next number and no more than its bound on   *)
(* calls allows (Sound).                                                   *)
(***************************************************************************)
\* A client sent nothing out of turn, and its numbers.
Safe(c) == ~c.gap /\ ~c.late
Numbered(f, c) ==
  /\ f.remap \in [Blocks -> Int] /\ f.next \in Nat /\ c.blocks = f.next
  /\ \A i \in Blocks : f.remap[i] = Unmapped \/ f.remap[i] \in 0..(f.next - 1)
  /\ c.complete \/ c.failed => f.terminal

\* A client sent no piece of a closed block; v: the translator's open blocks and
\* its next number.
Even(c) == ~c.stray /\ (c.complete => c.open = {})
Tracks(f, c, v) ==
  /\ v.next \in Nat /\ v.open \subseteq Blocks /\ (\A i \in v.open : i < v.next)
  /\ f.drop \subseteq Blocks
  /\ \A i \in Blocks : i >= v.next => f.remap[i] = Unmapped /\ i \notin f.drop
  /\ \A i \in Blocks : \A j \in Blocks : f.remap[i] = f.remap[j] /\ f.remap[i] # Unmapped => i = j
  /\ \A i \in v.open \ f.drop : f.remap[i] # Unmapped
  /\ c.open = {f.remap[i] : i \in v.open \ f.drop}

\* The calls of a translator that have a block, and what it has open.
Used(t) == {i \in Tools : t.tools[i].block # NoBlock}
View(t) == [open |-> {t.tools[i].block : i \in Used(t)} \cup ({t.text} \ {NoBlock}), next |-> t.next]
Sound(t) ==
  /\ t.next \in Nat
  /\ t.text = NoBlock \/ t.text \in 0..(t.next - 1)
  /\ \A i \in Used(t) : t.tools[i].block \in 0..(t.next - 1) /\ t.tools[i].block # t.text /\ t.tools[i].seen
  /\ \A i \in Used(t) : \A j \in Used(t) : t.tools[i].block = t.tools[j].block => i = j
  /\ \A i \in Tools : i \in Used(t) <=> \E k \in 1..Len(t.order) : t.order[k] = i
  /\ \A j \in 1..Len(t.order) : \A k \in 1..Len(t.order) : t.order[j] = t.order[k] => j = k
  /\ IsFiniteSet(Seen(t)) /\ Cardinality(Seen(t)) <= MaxToolCalls
  /\ t.next <= 2 * Cardinality(Used(t)) + (IF t.text = NoBlock THEN 0 ELSE 1)

Formed ==
  /\ ~bypass => Safe(client) /\ (OpenAI => Even(client))
  /\ pc = "streaming" => ~fl.failed
  /\ pc = "streaming" /\ OpenAI => Sound(tr)
  /\ pc = "streaming" /\ ~bypass /\ ~gone =>
       Numbered(fl, client) /\ (OpenAI => Tracks(fl, client, View(tr)))

\* What an event does to the client's blocks.
LEMMA ReceiveBlocks ==
  ASSUME NEW c, IsClient(c), NEW e
  PROVE  LET d == Receive(c, e)
         IN /\ d.late = (c.late \/ ((c.complete \/ c.failed) /\ e.type \notin {"ping", "comment", "error"}))
            /\ e.type \notin BlockEvents =>
                 d.open = c.open /\ d.blocks = c.blocks /\ d.gap = c.gap /\ d.stray = c.stray
            /\ e.type \in BlockEvents => d.blocks = IF e.index >= c.blocks THEN e.index + 1 ELSE c.blocks
            /\ e.type = "content_block_start" =>
                 /\ d.open = c.open \cup {e.index} /\ d.stray = c.stray
                 /\ d.gap = (c.gap \/ e.index > c.blocks \/ e.index < c.blocks)
            /\ e.type = "content_block_delta" =>
                 /\ d.open = c.open /\ d.stray = (c.stray \/ e.index \notin c.open)
                 /\ d.gap = (c.gap \/ e.index > c.blocks)
            /\ e.type = "content_block_stop" =>
                 /\ d.open = c.open \ {e.index} /\ d.stray = (c.stray \/ e.index \notin c.open)
                 /\ d.gap = (c.gap \/ e.index > c.blocks)
<1> DEFINE late == (c.complete \/ c.failed) /\ e.type \notin {"ping", "comment", "error"}
           after == c.late \/ late
           placed == [c EXCEPT !.late = @ \/ late]
           gap == c.gap \/ e.index > c.blocks
           blocks == IF e.index >= c.blocks THEN e.index + 1 ELSE c.blocks
           block == [placed EXCEPT !.gap = @ \/ e.index > c.blocks,
                                   !.blocks = IF e.index >= @ THEN e.index + 1 ELSE @]
           d == Receive(c, e)
<1>1. /\ IsClient(placed) /\ placed.late = after
      /\ placed.open = c.open /\ placed.blocks = c.blocks /\ placed.gap = c.gap /\ placed.stray = c.stray
  <2>1. placed = [c EXCEPT !.late = after] /\ after \in BOOLEAN  BY DEF IsClient
  <2> HIDE DEF after, placed
  <2> QED BY <2>1 DEF IsClient
<1>2. /\ IsClient(block) /\ block.late = after
      /\ block.open = c.open /\ block.blocks = blocks /\ block.gap = gap /\ block.stray = c.stray
  <2>1. block = [placed EXCEPT !.gap = placed.gap \/ e.index > c.blocks,
                               !.blocks = IF e.index >= placed.blocks THEN e.index + 1 ELSE placed.blocks]
    OBVIOUS
  <2>2. block = [placed EXCEPT !.gap = gap, !.blocks = blocks] /\ gap \in BOOLEAN
    <3> HIDE DEF placed, block
    <3> QED BY <1>1, <2>1 DEF IsClient
  <2> HIDE DEF gap, blocks, block, placed, after
  <2> QED BY <1>1, <2>2 DEF IsClient
<1>3. d = CASE e.type = "message_start" -> [placed EXCEPT !.started = TRUE]
       [] e.type = "message_stop"  -> [placed EXCEPT !.complete = TRUE]
       [] e.type = "error"         -> [placed EXCEPT !.failed = TRUE]
       [] e.type = "content_block_start" -> [block EXCEPT !.open = @ \cup {e.index}, !.gap = @ \/ e.index < c.blocks]
       [] e.type = "content_block_delta" -> [block EXCEPT !.stray = @ \/ e.index \notin c.open]
       [] e.type = "content_block_stop"  -> [block EXCEPT !.stray = @ \/ e.index \notin c.open, !.open = @ \ {e.index}]
       [] OTHER -> placed
  BY DEF Receive
<1> HIDE DEF d, placed, block
<1>4. CASE e.type \notin BlockEvents
  <2>1. \/ d = [placed EXCEPT !.started = TRUE] \/ d = [placed EXCEPT !.complete = TRUE]
        \/ d = [placed EXCEPT !.failed = TRUE] \/ d = placed
    BY <1>3, <1>4 DEF BlockEvents
  <2>2. d.late = placed.late /\ d.open = placed.open /\ d.blocks = placed.blocks /\ d.gap = placed.gap
        /\ d.stray = placed.stray
    BY <1>1, <2>1 DEF IsClient
  <2> QED BY <1>1, <1>4, <2>2 DEF d, BlockEvents
<1>5. CASE e.type = "content_block_start"
  <2> DEFINE g == block.gap \/ e.index < c.blocks
             o == block.open \cup {e.index}
  <2>1. d = [block EXCEPT !.open = o, !.gap = g] /\ g \in BOOLEAN  BY <1>3, <1>5
  <2>2. d.late = block.late /\ d.open = o /\ d.gap = g /\ d.blocks = block.blocks /\ d.stray = block.stray
    <3> HIDE DEF g, o
    <3> QED BY <1>2, <2>1 DEF IsClient
  <2> QED BY <1>2, <1>5, <2>2 DEF d, BlockEvents
<1>6. CASE e.type = "content_block_delta"
  <2> DEFINE g == block.stray \/ e.index \notin c.open
  <2>1. d = [block EXCEPT !.stray = g] /\ g \in BOOLEAN  BY <1>3, <1>6
  <2>2. d.late = block.late /\ d.open = block.open /\ d.gap = block.gap /\ d.blocks = block.blocks /\ d.stray = g
    <3> HIDE DEF g
    <3> QED BY <1>2, <2>1 DEF IsClient
  <2> QED BY <1>2, <1>6, <2>2 DEF d, BlockEvents
<1>7. CASE e.type = "content_block_stop"
  <2> DEFINE g == block.stray \/ e.index \notin c.open
             o == block.open \ {e.index}
  <2>1. d = [block EXCEPT !.stray = g, !.open = o] /\ g \in BOOLEAN  BY <1>3, <1>7
  <2>2. d.late = block.late /\ d.open = o /\ d.gap = block.gap /\ d.blocks = block.blocks /\ d.stray = g
    <3> HIDE DEF g, o
    <3> QED BY <1>2, <2>1 DEF IsClient
  <2> QED BY <1>2, <1>7, <2>2 DEF d, BlockEvents
<1> QED BY <1>4, <1>5, <1>6, <1>7 DEF BlockEvents

\* What the filter does to the numbers of the blocks.
Maps(f, g) == g.remap = f.remap /\ g.next = f.next /\ g.drop = f.drop
Forms(f, e, g, out) ==
  \/ out = <<>> /\ g = f /\ (e.type \in BlockEvents => e.type # "content_block_start" /\ e.index \in f.drop)
  \/ out = <<Plain("error")>> /\ g.failed
  \/ /\ ~f.terminal /\ e.type = "content_block_start"
     /\ out = <<>> /\ g = [f EXCEPT !.drop = @ \cup {e.index}]
  \/ /\ ~f.terminal /\ e.type = "content_block_start"
     /\ g = Remapped(f, e.index, f.next) /\ out = <<[e EXCEPT !.index = f.next]>>
  \/ /\ ~f.terminal /\ e.type \in {"content_block_delta", "content_block_stop"} /\ e.index \notin f.drop
     /\ g = Remapped(f, e.index, Mapped(f, e.index)) /\ out = <<[e EXCEPT !.index = Mapped(f, e.index)]>>
  \/ out = <<Plain("error")>> /\ e.type = "message_stop" /\ g.terminal /\ Maps(f, g)
  \/ /\ out = <<e>> /\ e.type \notin BlockEvents /\ Maps(f, g)
     /\ f.terminal => g.terminal /\ e.type \in {"ping", "comment"}
     /\ e.type \in {"message_stop", "error"} => g.terminal

\* Every case of the filter is one of Forms.
LEMMA FilteredForms ==
  ASSUME NEW f, IsFilter(f), NEW e, IsEvent(e)
  PROVE  Forms(f, e, Filtered(f, e).f, Filtered(f, e).out)
<1> DEFINE r == Filtered(f, e)
           ignored == e.type = "done" /\ f.stop /\ f.reason
           n == Noted(f, e)
<1> SUFFICES Forms(f, e, r.f, r.out)
  OBVIOUS
<1>1. CASE ignored
  <2>1. r = Out(f, <<>>)  BY <1>1 DEF Filtered, BlockEvents
  <2>2. r.out = <<>> /\ r.f = f  BY <2>1 DEF Out
  <2> HIDE DEF r
  <2> QED BY <1>1, <2>2 DEF Forms, BlockEvents
<1>2. CASE ~ignored /\ ~Valid(f, e)
  <2> DEFINE g == [f EXCEPT !.protocolError = TRUE, !.failed = TRUE]
  <2>1. r = Out(g, <<Plain("error")>>)  BY <1>2 DEF Filtered
  <2>2. g.failed  BY DEF IsFilter
  <2>3. r.f = g /\ r.out = <<Plain("error")>>
    <3> HIDE DEF g
    <3> QED BY <2>1 DEF Out
  <2> HIDE DEF g, r
  <2> QED BY <2>2, <2>3 DEF Forms
<1>3. CASE ~ignored /\ Valid(f, e) /\ e.type \in BlockEvents
  <2>1. r = Block(f, e)  BY <1>3 DEF Filtered, BlockEvents
  <2>2. ~f.terminal  BY <1>3 DEF Valid, BlockEvents
  <2>3. ASSUME NEW g, NEW o, r = Out(g, o) PROVE r.f = g /\ r.out = o
    <3> HIDE DEF r
    <3> QED BY <2>3 DEF Out
  <2> HIDE DEF r
  <2>4. CASE e.type = "content_block_start" /\ e.kind \in DropTypes
    <3> DEFINE g == [f EXCEPT !.drop = @ \cup {e.index}]
    <3>1. r = Out(g, <<>>)  BY <2>1, <2>4 DEF Block
    <3>2. r.f = g /\ r.out = <<>>  BY <2>3, <3>1
    <3> QED BY <2>2, <2>4, <3>2 DEF Forms
  <2>5. CASE e.type = "content_block_start" /\ e.kind \notin DropTypes
    <3> DEFINE g == Remapped(f, e.index, f.next)
               x == [e EXCEPT !.index = f.next]
    <3>1. r = Out(g, <<x>>)  BY <2>1, <2>5 DEF Block
    <3>2. r.f = g /\ r.out = <<x>>  BY <2>3, <3>1
    <3> QED BY <2>2, <2>5, <3>2 DEF Forms
  <2>6. CASE e.type # "content_block_start" /\ e.index \in f.drop
    <3>1. r = Out(f, <<>>)  BY <2>1, <2>6 DEF Block
    <3>2. r.f = f /\ r.out = <<>>  BY <2>3, <3>1
    <3> QED BY <2>6, <3>2 DEF Forms
  <2>7. CASE e.type # "content_block_start" /\ e.index \notin f.drop
    <3> DEFINE to == Mapped(f, e.index)
               g == Remapped(f, e.index, to)
               x == [e EXCEPT !.index = to]
    <3>1. r = Out(g, <<x>>)  BY <2>1, <2>7 DEF Block
    <3>2. r.f = g /\ r.out = <<x>>  BY <2>3, <3>1
    <3>3. e.type \in {"content_block_delta", "content_block_stop"}  BY <1>3, <2>7 DEF BlockEvents
    <3> QED BY <2>2, <2>7, <3>2, <3>3 DEF Forms
  <2> QED BY <2>4, <2>5, <2>6, <2>7
<1>4. CASE ~ignored /\ Valid(f, e) /\ e.type = "message_stop" /\ ~f.reason
  <2>1. r = Out(n, <<Plain("error")>>)  BY <1>4 DEF Filtered, BlockEvents
  <2>2. n = [f EXCEPT !.terminal = TRUE, !.stop = TRUE, !.missingStop = TRUE]  BY <1>4 DEF Noted, IsFilter
  <2>3. n.terminal /\ Maps(f, n)  BY <2>2 DEF Maps, IsFilter
  <2>4. r.f = n /\ r.out = <<Plain("error")>>
    <3> HIDE DEF n
    <3> QED BY <2>1 DEF Out
  <2> HIDE DEF n, r
  <2> QED BY <1>4, <2>3, <2>4 DEF Forms
<1>5. CASE ~ignored /\ Valid(f, e) /\ e.type \notin BlockEvents /\ (e.type = "message_stop" => f.reason)
  <2>1. r = Out(n, <<e>>)  BY <1>5 DEF Filtered
  <2>2. r.f = n /\ r.out = <<e>>
    <3> HIDE DEF n
    <3> QED BY <2>1 DEF Out
  <2>3. f.terminal => e.type \in {"ping", "comment"}  BY <1>5 DEF Valid
  <2>4. Maps(f, n) /\ (f.terminal => n.terminal) /\ (e.type \in {"message_stop", "error"} => n.terminal)
    BY <1>5 DEF Noted, IsFilter, Maps
  <2> HIDE DEF n, r
  <2> QED BY <1>5, <2>2, <2>3, <2>4 DEF Forms
<1> QED BY <1>1, <1>2, <1>3, <1>4, <1>5

\* What a renumbering changes, and what it leaves.
LEMMA RemappedIndex ==
  ASSUME NEW f, IsFilter(f), NEW i, NEW to
  PROVE  Remapped(f, i, to).remap = [f.remap EXCEPT ![i] = to]
BY DEF Remapped, IsFilter

\* The number the next new block gets.
LEMMA RemappedNext ==
  ASSUME NEW f, IsFilter(f), NEW i, NEW to
  PROVE  Remapped(f, i, to).next = (IF to = f.next THEN to + 1 ELSE f.next)
BY DEF Remapped, IsFilter

\* The rest of the filter.
LEMMA RemappedRest ==
  ASSUME NEW f, IsFilter(f), NEW i, NEW to
  PROVE  Remapped(f, i, to).drop = f.drop /\ Remapped(f, i, to).terminal = f.terminal
BY DEF Remapped, IsFilter

\* An event of a block in the numbers of the client.
LEMMA NumbersGrow ==
  ASSUME NEW f, IsFilter(f), NEW c, IsClient(c), NEW e, IsEvent(e), Numbered(f, c), Safe(c),
         ~f.terminal, e.type \in BlockEvents, NEW i \in Blocks, NEW to \in 0..f.next,
         e.type = "content_block_start" => to = f.next
  PROVE  LET g == Remapped(f, i, to)
             d == Receive(c, [e EXCEPT !.index = to])
         IN Safe(d) /\ Numbered(g, d)
<1> DEFINE g == Remapped(f, i, to)
           x == [e EXCEPT !.index = to]
           d == Receive(c, x)
<1>1. x.type = e.type /\ x.index = to  BY DEF IsEvent
<1>2. /\ g.remap = [f.remap EXCEPT ![i] = to] /\ g.next = (IF to = f.next THEN to + 1 ELSE f.next)
      /\ g.terminal = f.terminal
  <2>1. g.remap = [f.remap EXCEPT ![i] = to]  BY RemappedIndex
  <2>2. g.next = (IF to = f.next THEN to + 1 ELSE f.next)  BY RemappedNext
  <2>3. g.terminal = f.terminal  BY RemappedRest
  <2> HIDE DEF g
  <2> QED BY <2>1, <2>2, <2>3
<1>3. /\ d.late = (c.late \/ ((c.complete \/ c.failed) /\ x.type \notin {"ping", "comment", "error"}))
      /\ d.blocks = (IF to >= c.blocks THEN to + 1 ELSE c.blocks)
      /\ d.gap => c.gap \/ to > c.blocks \/ (e.type = "content_block_start" /\ to < c.blocks)
  <2>1. x.type \in BlockEvents => d.blocks = IF x.index >= c.blocks THEN x.index + 1 ELSE c.blocks
    <3> HIDE DEF x
    <3> QED BY ReceiveBlocks
  <2>2. /\ x.type = "content_block_start" => d.gap = (c.gap \/ x.index > c.blocks \/ x.index < c.blocks)
        /\ x.type = "content_block_delta" => d.gap = (c.gap \/ x.index > c.blocks)
        /\ x.type = "content_block_stop" => d.gap = (c.gap \/ x.index > c.blocks)
        /\ d.late = (c.late \/ ((c.complete \/ c.failed) /\ x.type \notin {"ping", "comment", "error"}))
    <3> HIDE DEF x
    <3> QED BY ReceiveBlocks
  <2> HIDE DEF x, d
  <2> QED BY <1>1, <2>1, <2>2 DEF BlockEvents
<1>4. (d.complete => c.complete) /\ (d.failed => c.failed) /\ IsClient(d)
  <2>1. /\ IsClient(d)
        /\ d.complete = (c.complete \/ x.type = "message_stop")
        /\ d.failed = (c.failed \/ x.type = "error")
    BY ReceiveTyped
  <2> HIDE DEF x, d
  <2> QED BY <1>1, <2>1 DEF BlockEvents
<1> HIDE DEF g, x, d
<1>5. f.next \in Nat /\ c.blocks = f.next /\ f.remap \in [Blocks -> Int]  BY DEF Numbered
<1>6. Safe(d)
  <2>1. ~c.complete /\ ~c.failed  BY DEF Numbered
  <2>2. ~d.late  BY <1>3, <2>1 DEF Safe
  <2>3. ~(to > c.blocks) /\ (e.type = "content_block_start" => ~(to < c.blocks))  BY <1>5
  <2> QED BY <1>3, <2>2, <2>3 DEF Safe
<1>7. g.next \in Nat /\ d.blocks = g.next  BY <1>2, <1>3, <1>5
<1>8. g.remap \in [Blocks -> Int]
  <2> to \in Int  BY <1>5
  <2> QED BY <1>2, <1>5
<1>9. ASSUME NEW j \in Blocks PROVE g.remap[j] = Unmapped \/ g.remap[j] \in 0..(g.next - 1)
  <2>1. f.remap[j] = Unmapped \/ f.remap[j] \in 0..(f.next - 1)  BY DEF Numbered
  <2>2. g.remap[j] = IF j = i THEN to ELSE f.remap[j]  BY <1>2, <1>5
  <2> QED BY <1>2, <1>5, <2>1, <2>2
<1>10. Numbered(g, d)  BY <1>2, <1>4, <1>7, <1>8, <1>9 DEF Numbered
<1> QED BY <1>6, <1>10 DEF g, x, d

\* An event of no block, passed or put by the filter.
LEMMA OthersNumber ==
  ASSUME NEW f, IsFilter(f), NEW c, IsClient(c), NEW x, IsEvent(x), Numbered(f, c), Safe(c), NEW g,
         x.type \notin BlockEvents, x.type \in {"message_stop", "error"} => g.failed \/ g.terminal,
         f.terminal => g.failed \/ g.terminal,
         f.terminal => x.type \in {"ping", "comment", "error"},
         g.failed \/ Maps(f, g)
  PROVE  LET d == Receive(c, x)
         IN /\ Safe(d) /\ (g.failed \/ Numbered(g, d)) /\ d.open = c.open /\ d.stray = c.stray
            /\ d.complete => c.complete \/ x.type = "message_stop"
<1> DEFINE d == Receive(c, x)
<1>1. /\ d.open = c.open /\ d.blocks = c.blocks /\ d.gap = c.gap /\ d.stray = c.stray
      /\ d.late = (c.late \/ ((c.complete \/ c.failed) /\ x.type \notin {"ping", "comment", "error"}))
  BY ReceiveBlocks
<1>2. /\ d.complete = (c.complete \/ x.type = "message_stop")
      /\ d.failed = (c.failed \/ x.type = "error")
  BY ReceiveTyped
<1> HIDE DEF d
<1>3. Safe(d)  BY <1>1 DEF Safe, Numbered
<1>4. ASSUME ~g.failed PROVE Numbered(g, d)
  <2>1. d.complete \/ d.failed => g.terminal  BY <1>2, <1>4 DEF Numbered
  <2> QED BY <1>1, <1>4, <2>1 DEF Numbered, Maps
<1> QED BY <1>1, <1>2, <1>3, <1>4 DEF d

\* One frame: the client is sent no block out of turn and nothing after the end.
LEMMA FilteredNumbers ==
  ASSUME NEW f, IsFilter(f), NEW c, IsClient(c), NEW e, IsEvent(e), Numbered(f, c), Safe(c),
         e.type \in BlockEvents => e.index \in Blocks
  PROVE  LET g == Filtered(f, e).f
             d == Received(c, Filtered(f, e).out)
         IN Safe(d) /\ (g.failed \/ Numbered(g, d))
<1> DEFINE g == Filtered(f, e).f
           out == Filtered(f, e).out
           d == Received(c, out)
           error == Plain("error")
<1>1. Forms(f, e, g, out)  BY FilteredForms
<1>2. Received(c, <<>>) = c /\ \A x : Received(c, <<x>>) = Receive(c, x)  BY ReceivedNone, ReceivedOne
<1>3. IsEvent(error) /\ error.type = "error"  BY PlainTyped
<1>4. Filtered(f, e).f = g /\ Filtered(f, e).out = out  OBVIOUS
<1> HIDE DEF g, out, error
<1>5. f.next \in Nat  BY DEF Numbered
<1>6. CASE out = <<>> /\ g = f
  BY <1>2, <1>4, <1>6
<1>7. CASE out = <<Plain("error")>> /\ g.failed
  <2>1. Safe(Receive(c, error))  BY <1>3, <1>7, OthersNumber DEF BlockEvents
  <2> QED BY <1>2, <1>4, <1>7, <2>1 DEF error
<1>8. CASE out = <<>> /\ ~f.terminal /\ g = [f EXCEPT !.drop = @ \cup {e.index}]
  <2> DEFINE s == f.drop \cup {e.index}
  <2>1. g = [f EXCEPT !.drop = s]  BY <1>8
  <2> HIDE DEF s
  <2>2. g.remap = f.remap /\ g.next = f.next /\ g.terminal = f.terminal  BY <2>1 DEF IsFilter
  <2>3. Numbered(g, c)  BY <2>2 DEF Numbered
  <2> QED BY <1>2, <1>4, <1>8, <2>3
<1>9. CASE /\ ~f.terminal /\ e.type = "content_block_start"
           /\ g = Remapped(f, e.index, f.next) /\ out = <<[e EXCEPT !.index = f.next]>>
  <2>1. f.next \in 0..f.next /\ e.type \in BlockEvents  BY <1>5, <1>9 DEF BlockEvents
  <2>2. Safe(Receive(c, [e EXCEPT !.index = f.next])) /\ Numbered(g, Receive(c, [e EXCEPT !.index = f.next]))
    BY <1>9, <2>1, NumbersGrow
  <2> QED BY <1>2, <1>4, <1>9, <2>2
<1>10. CASE /\ ~f.terminal /\ e.type \in {"content_block_delta", "content_block_stop"} /\ e.index \notin f.drop
            /\ g = Remapped(f, e.index, Mapped(f, e.index)) /\ out = <<[e EXCEPT !.index = Mapped(f, e.index)]>>
  <2> DEFINE to == Mapped(f, e.index)
  <2>1. e.type \in BlockEvents /\ e.index \in Blocks  BY <1>10 DEF BlockEvents
  <2>2. to \in 0..f.next  BY <1>5, <2>1 DEF Mapped, Numbered
  <2>3. g = Remapped(f, e.index, to) /\ out = <<[e EXCEPT !.index = to]>>  BY <1>10
  <2> HIDE DEF to
  <2>4. Safe(Receive(c, [e EXCEPT !.index = to])) /\ Numbered(g, Receive(c, [e EXCEPT !.index = to]))
    BY <1>10, <2>1, <2>2, <2>3, NumbersGrow
  <2> QED BY <1>2, <1>4, <2>3, <2>4
<1>11. CASE out = <<Plain("error")>> /\ e.type = "message_stop" /\ g.terminal /\ Maps(f, g)
  <2>1. Safe(Receive(c, error)) /\ (g.failed \/ Numbered(g, Receive(c, error)))
    BY <1>3, <1>11, OthersNumber DEF BlockEvents
  <2> QED BY <1>2, <1>4, <1>11, <2>1 DEF error
<1>12. CASE /\ out = <<e>> /\ e.type \notin BlockEvents /\ Maps(f, g)
            /\ f.terminal => g.terminal /\ e.type \in {"ping", "comment"}
            /\ e.type \in {"message_stop", "error"} => g.terminal
  <2>1. Safe(Receive(c, e)) /\ (g.failed \/ Numbered(g, Receive(c, e)))
    BY <1>12, OthersNumber
  <2> QED BY <1>2, <1>4, <1>12, <2>1
<1> QED BY <1>1, <1>6, <1>7, <1>8, <1>9, <1>10, <1>11, <1>12 DEF Forms

\* One event of a translator whose open blocks and next number are v's, which
\* are then w's.
Move(e, v, w) ==
  \/ /\ e.type = "content_block_start" /\ e.index = v.next /\ e.index \in Blocks
     /\ w.open = v.open \cup {v.next} /\ w.next = v.next + 1
  \/ e.type = "content_block_delta" /\ e.index \in v.open /\ w.open = v.open /\ w.next = v.next
  \/ e.type = "content_block_stop" /\ e.index \in v.open /\ w.open = v.open \ {e.index} /\ w.next = v.next
  \/ /\ e.type \notin BlockEvents /\ (e.type = "message_stop" => v.open = {})
     /\ w.open = v.open /\ w.next = v.next

\* A block is opened, and the client shown it.
LEMMA StartTracks ==
  ASSUME NEW f, IsFilter(f), NEW c, NEW v, NEW w, Numbered(f, c), Tracks(f, c, v), v.next \in Blocks,
         w.open = v.open \cup {v.next}, w.next = v.next + 1, NEW d, d.open = c.open \cup {f.next}
  PROVE  Tracks(Remapped(f, v.next, f.next), d, w)
<1> DEFINE g == Remapped(f, v.next, f.next)
           n == v.next
<1>1. g.remap = [f.remap EXCEPT ![n] = f.next]  BY RemappedIndex
<1>2. g.drop = f.drop  BY RemappedRest
<1>3. /\ f.remap \in [Blocks -> Int] /\ f.next \in Nat /\ n \in Nat /\ n \in Blocks /\ Blocks \subseteq Int
      /\ \A i \in Blocks : f.remap[i] = Unmapped \/ f.remap[i] \in 0..(f.next - 1)
  BY StreamAssumption DEF Numbered, Tracks
<1> HIDE DEF g
<1>4. \A i \in Blocks : g.remap[i] = IF i = n THEN f.next ELSE f.remap[i]  BY <1>1, <1>3
<1>5. n \notin f.drop /\ n \notin v.open /\ f.remap[n] = Unmapped /\ f.next # Unmapped
  <2>1. n \notin f.drop /\ f.remap[n] = Unmapped  BY <1>3 DEF Tracks
  <2>2. ~(n < n)  BY <1>3
  <2>3. n \notin v.open  BY <2>2 DEF Tracks
  <2> QED BY <1>3, <2>1, <2>3 DEF Unmapped
<1>6. ASSUME NEW i \in Blocks, i >= w.next PROVE g.remap[i] = Unmapped /\ i \notin g.drop
  <2>1. i # n /\ i >= n  BY <1>3, <1>6
  <2> QED BY <1>2, <1>4, <2>1 DEF Tracks
<1>7. ASSUME NEW i \in Blocks, NEW j \in Blocks, g.remap[i] = g.remap[j], g.remap[i] # Unmapped PROVE i = j
  <2>1. \A k \in Blocks : f.remap[k] # f.next  BY <1>3 DEF Unmapped
  <2> QED BY <1>4, <1>7, <2>1 DEF Tracks
<1>8. w.open \subseteq Blocks /\ \A i \in w.open : i < w.next
  <2>1. v.open \subseteq Blocks /\ \A i \in v.open : i < n  BY DEF Tracks
  <2>2. ASSUME NEW i \in w.open PROVE i \in Blocks /\ i < w.next
    <3>1. CASE i = n  BY <1>3, <3>1
    <3>2. CASE i \in v.open
      <4>1. i \in Int /\ i < n /\ w.next = n + 1  BY <1>3, <2>1, <3>2
      <4> QED BY <1>3, <2>1, <3>2, <4>1
    <3> QED BY <3>1, <3>2
  <2> QED BY <2>2
<1>9. \A i \in w.open \ g.drop : g.remap[i] # Unmapped
  <2>1. \A i \in v.open \ f.drop : f.remap[i] # Unmapped /\ i \in Blocks  BY DEF Tracks
  <2> QED BY <1>2, <1>3, <1>4, <1>5, <2>1
<1>10. d.open = {g.remap[i] : i \in w.open \ g.drop}
  <2>1. c.open = {f.remap[i] : i \in v.open \ f.drop} /\ v.open \subseteq Blocks  BY DEF Tracks
  <2>2. \A i \in v.open : g.remap[i] = f.remap[i]  BY <1>4, <1>5, <2>1
  <2>3. w.open \ g.drop = (v.open \ f.drop) \cup {n}  BY <1>2, <1>5
  <2>4. g.remap[n] = f.next  BY <1>3, <1>4
  <2> HIDE DEF n
  <2> QED BY <2>1, <2>2, <2>3, <2>4
<1>11. f.drop \subseteq Blocks /\ w.next \in Nat  BY <1>3 DEF Tracks
<1> QED BY <1>2, <1>6, <1>7, <1>8, <1>9, <1>10, <1>11 DEF Tracks, g

\* A block is opened that the client is not shown.
LEMMA DropTracks ==
  ASSUME NEW f, IsFilter(f), NEW c, NEW v, NEW w, Numbered(f, c), Tracks(f, c, v), v.next \in Blocks,
         w.open = v.open \cup {v.next}, w.next = v.next + 1
  PROVE  Tracks([f EXCEPT !.drop = @ \cup {v.next}], c, w)
<1> DEFINE n == v.next
           s == f.drop \cup {n}
           g == [f EXCEPT !.drop = @ \cup {v.next}]
<1>1. g.remap = f.remap /\ g.drop = s
  <2>1. g = [f EXCEPT !.drop = s]  OBVIOUS
  <2> HIDE DEF s, g
  <2> QED BY <2>1 DEF IsFilter
<1>2. n \in Nat /\ n \in Blocks /\ Blocks \subseteq Int  BY StreamAssumption DEF Tracks
<1> HIDE DEF g
<1>3. n \notin v.open
  <2>1. ~(n < n)  BY <1>2
  <2> QED BY <2>1 DEF Tracks
<1>4. ASSUME NEW i \in Blocks, i >= w.next PROVE g.remap[i] = Unmapped /\ i \notin g.drop
  <2>1. i # n /\ i >= n  BY <1>2, <1>4
  <2> QED BY <1>1, <2>1 DEF Tracks
<1>5. w.open \subseteq Blocks /\ \A i \in w.open : i < w.next
  <2>1. v.open \subseteq Blocks /\ \A i \in v.open : i < n  BY DEF Tracks
  <2>2. ASSUME NEW i \in w.open PROVE i \in Blocks /\ i < w.next
    <3>1. CASE i = n  BY <1>2, <3>1
    <3>2. CASE i \in v.open
      <4>1. i \in Int /\ i < n /\ w.next = n + 1  BY <1>2, <2>1, <3>2
      <4> QED BY <1>2, <2>1, <3>2, <4>1
    <3> QED BY <3>1, <3>2
  <2> QED BY <2>2
<1>6. w.open \ g.drop = v.open \ f.drop  BY <1>1, <1>3
<1>7. g.drop \subseteq Blocks /\ w.next \in Nat  BY <1>1, <1>2 DEF Tracks
<1> QED BY <1>1, <1>4, <1>5, <1>6, <1>7 DEF Tracks, g

\* A piece or the end of an open block that the client was shown.
LEMMA PieceTracks ==
  ASSUME NEW f, IsFilter(f), NEW c, NEW v, NEW w, Numbered(f, c), Tracks(f, c, v),
         NEW i \in v.open, i \notin f.drop, w.open \in {v.open, v.open \ {i}}, w.next = v.next,
         NEW d, d.open = IF w.open = v.open THEN c.open ELSE c.open \ {f.remap[i]}
  PROVE  /\ Mapped(f, i) \in c.open /\ Mapped(f, i) = f.remap[i]
         /\ Tracks(Remapped(f, i, Mapped(f, i)), d, w)
<1> DEFINE to == f.remap[i]
           g == Remapped(f, i, to)
<1>1. /\ f.remap \in [Blocks -> Int] /\ f.next \in Nat /\ i \in Blocks /\ Blocks \subseteq Int
      /\ to # Unmapped /\ to \in 0..(f.next - 1)
  BY StreamAssumption DEF Numbered, Tracks
<1>2. Mapped(f, i) = to  BY <1>1 DEF Mapped
<1>3. to \in c.open  BY DEF Tracks
<1>4. g.remap = f.remap
  <2>1. g.remap = [f.remap EXCEPT ![i] = to]  BY RemappedIndex
  <2> HIDE DEF g
  <2> QED BY <1>1, <2>1
<1>5. g.drop = f.drop  BY RemappedRest
<1> HIDE DEF g
<1>6. d.open = {f.remap[j] : j \in w.open \ f.drop}
  <2>0. c.open = {f.remap[j] : j \in v.open \ f.drop} /\ v.open \subseteq Blocks  BY DEF Tracks
  <2>1. CASE w.open = v.open  BY <2>0, <2>1
  <2>2. CASE w.open # v.open
    <3>1. w.open = v.open \ {i} /\ d.open = c.open \ {to}  BY <2>2
    <3>2. \A j \in v.open \ f.drop : f.remap[j] = to => j = i  BY <1>1, <2>0 DEF Tracks
    <3> HIDE DEF to
    <3> QED BY <2>0, <3>1, <3>2 DEF to
  <2> QED BY <2>1, <2>2
<1>7. w.open \subseteq v.open  OBVIOUS
<1>8. Tracks(g, d, w)  BY <1>4, <1>5, <1>6, <1>7 DEF Tracks
<1> QED BY <1>2, <1>3, <1>8 DEF g

\* An event that moves no block, or a block the client is not shown.
LEMMA QuietTracks ==
  ASSUME NEW f, NEW c, NEW v, NEW w, Tracks(f, c, v), NEW g, Maps(f, g), NEW d, d.open = c.open,
         w.next = v.next, w.open = v.open \/ (\E i \in f.drop : w.open = v.open \ {i})
  PROVE  Tracks(g, d, w)
<1>1. w.open \ f.drop = v.open \ f.drop /\ w.open \subseteq v.open  OBVIOUS
<1> QED BY <1>1 DEF Tracks, Maps

\* One frame of the translator: the client's open blocks are those of the
\* translator that it was shown.
LEMMA FilteredTracks ==
  ASSUME NEW f, IsFilter(f), NEW c, IsClient(c), NEW e, IsEvent(e), Numbered(f, c), Safe(c), Even(c),
         NEW v, NEW w, Tracks(f, c, v), Move(e, v, w)
  PROVE  LET g == Filtered(f, e).f
             d == Received(c, Filtered(f, e).out)
         IN Even(d) /\ (g.failed \/ Tracks(g, d, w))
<1> DEFINE g == Filtered(f, e).f
           out == Filtered(f, e).out
           d == Received(c, out)
           error == Plain("error")
           goal == Even(d) /\ (g.failed \/ Tracks(g, d, w))
<1> SUFFICES goal
  OBVIOUS
<1>1. Forms(f, e, g, out)  BY FilteredForms
<1>2. Received(c, <<>>) = c /\ \A x : Received(c, <<x>>) = Receive(c, x)  BY ReceivedNone, ReceivedOne
<1>3. IsEvent(error) /\ error.type = "error"  BY PlainTyped
<1> HIDE DEF g, out, error
<1>4. ~f.terminal => ~c.complete  BY DEF Numbered
<1>5. e.type \notin BlockEvents => w.open = v.open /\ w.next = v.next /\ (e.type = "message_stop" => v.open = {})
  BY DEF Move, BlockEvents
<1>6. CASE out = <<>> /\ g = f /\ (e.type \in BlockEvents => e.type # "content_block_start" /\ e.index \in f.drop)
  <2>1. w.next = v.next /\ (w.open = v.open \/ (\E i \in f.drop : w.open = v.open \ {i}))
    BY <1>5, <1>6 DEF Move, BlockEvents
  <2>2. Tracks(g, c, w)  BY <1>6, <2>1, QuietTracks DEF Maps
  <2> QED BY <1>2, <1>6, <2>2
<1>7. CASE out = <<Plain("error")>> /\ g.failed
  <2> DEFINE y == Receive(c, error)
  <2>1. y.open = c.open /\ y.stray = c.stray /\ (y.complete => c.complete \/ error.type = "message_stop")
    BY <1>3, <1>7, OthersNumber DEF BlockEvents
  <2>2. d = y  BY <1>2, <1>7 DEF error
  <2> HIDE DEF y, d
  <2> QED BY <1>3, <1>7, <2>1, <2>2 DEF Even
<1>8. CASE /\ ~f.terminal /\ e.type = "content_block_start"
           /\ out = <<>> /\ g = [f EXCEPT !.drop = @ \cup {e.index}]
  <2>1. e.index = v.next /\ v.next \in Blocks /\ w.open = v.open \cup {v.next} /\ w.next = v.next + 1
    BY <1>8 DEF Move, BlockEvents
  <2>2. Tracks([f EXCEPT !.drop = @ \cup {v.next}], c, w)  BY <2>1, DropTracks
  <2>3. Tracks(g, c, w)  BY <1>8, <2>1, <2>2
  <2> QED BY <1>2, <1>8, <2>3
<1>9. CASE /\ ~f.terminal /\ e.type = "content_block_start"
           /\ g = Remapped(f, e.index, f.next) /\ out = <<[e EXCEPT !.index = f.next]>>
  <2> DEFINE x == [e EXCEPT !.index = f.next]
             y == Receive(c, x)
  <2>1. x.type = e.type /\ x.index = f.next  BY DEF IsEvent
  <2>2. d = y  BY <1>2, <1>9
  <2> HIDE DEF x
  <2>3. x.type = "content_block_start" => y.open = c.open \cup {x.index} /\ y.stray = c.stray  BY ReceiveBlocks
  <2>4. y.complete = (c.complete \/ x.type = "message_stop")  BY ReceiveTyped
  <2> HIDE DEF y, d
  <2>5. d.open = c.open \cup {f.next} /\ d.stray = c.stray /\ ~d.complete
    BY <1>4, <1>9, <2>1, <2>2, <2>3, <2>4
  <2>6. e.index = v.next /\ v.next \in Blocks /\ w.open = v.open \cup {v.next} /\ w.next = v.next + 1
    BY <1>9 DEF Move, BlockEvents
  <2>7. Tracks(Remapped(f, v.next, f.next), d, w)  BY <2>5, <2>6, StartTracks
  <2>8. Tracks(g, d, w)  BY <1>9, <2>6, <2>7
  <2> QED BY <2>5, <2>8 DEF Even
<1>10. CASE /\ ~f.terminal /\ e.type \in {"content_block_delta", "content_block_stop"} /\ e.index \notin f.drop
            /\ g = Remapped(f, e.index, Mapped(f, e.index)) /\ out = <<[e EXCEPT !.index = Mapped(f, e.index)]>>
  <2> DEFINE to == Mapped(f, e.index)
             x == [e EXCEPT !.index = to]
             y == Receive(c, x)
  <2>1. x.type = e.type /\ x.index = to  BY DEF IsEvent
  <2>2. d = y  BY <1>2, <1>10
  <2>3. e.index \in v.open /\ w.open = (IF e.type = "content_block_delta" THEN v.open ELSE v.open \ {e.index})
        /\ w.next = v.next
    BY <1>10 DEF Move, BlockEvents
  <2> HIDE DEF x
  <2>4. /\ x.type = "content_block_delta" =>
             y.open = c.open /\ y.stray = (c.stray \/ x.index \notin c.open)
        /\ x.type = "content_block_stop" =>
             y.open = c.open \ {x.index} /\ y.stray = (c.stray \/ x.index \notin c.open)
    BY ReceiveBlocks
  <2>5. y.complete = (c.complete \/ x.type = "message_stop")  BY ReceiveTyped
  <2> HIDE DEF y, d
  <2>6. e.type = "content_block_delta" => w.open = v.open  BY <2>3
  <2>7. e.type = "content_block_stop" => w.open # v.open  BY <2>3
  <2>8. Mapped(f, e.index) \in c.open /\ Mapped(f, e.index) = f.remap[e.index]
    <3> DEFINE z == [open |-> w.open, next |-> w.next]
               u == [open |-> IF w.open = v.open THEN c.open ELSE c.open \ {f.remap[e.index]}]
    <3>1. u.open = IF w.open = v.open THEN c.open ELSE c.open \ {f.remap[e.index]}  OBVIOUS
    <3>2. w.open \in {v.open, v.open \ {e.index}} /\ w.next = v.next  BY <2>3
    <3> HIDE DEF u
    <3> QED BY <1>10, <2>3, <3>1, <3>2, PieceTracks
  <2>9. d.open = (IF w.open = v.open THEN c.open ELSE c.open \ {f.remap[e.index]}) /\ ~d.stray /\ ~d.complete
    <3>3. ~c.complete /\ ~c.stray  BY <1>4, <1>10 DEF Even
    <3> HIDE DEF to
    <3>4. to \in c.open /\ to = f.remap[e.index]  BY <2>8 DEF to
    <3>5. ~d.complete  BY <1>10, <2>1, <2>2, <2>5, <3>3
    <3>1. CASE e.type = "content_block_delta"
      <4>1. d.open = c.open /\ ~d.stray  BY <2>1, <2>2, <2>4, <3>1, <3>3, <3>4
      <4> QED BY <2>6, <3>1, <3>5, <4>1
    <3>2. CASE e.type = "content_block_stop"
      <4>1. d.open = c.open \ {to} /\ ~d.stray  BY <2>1, <2>2, <2>4, <3>2, <3>3, <3>4
      <4> QED BY <2>7, <3>2, <3>4, <3>5, <4>1
    <3> QED BY <1>10, <3>1, <3>2
  <2>10. Tracks(Remapped(f, e.index, Mapped(f, e.index)), d, w)
    <3>1. w.open \in {v.open, v.open \ {e.index}} /\ w.next = v.next  BY <2>3
    <3> QED BY <1>10, <2>3, <2>9, <3>1, PieceTracks
  <2> QED BY <1>10, <2>9, <2>10 DEF Even
<1>11. CASE out = <<Plain("error")>> /\ e.type = "message_stop" /\ g.terminal /\ Maps(f, g)
  <2> DEFINE y == Receive(c, error)
  <2>1. y.open = c.open /\ y.stray = c.stray /\ (y.complete => c.complete \/ error.type = "message_stop")
    BY <1>3, <1>11, OthersNumber DEF BlockEvents
  <2>2. d = y  BY <1>2, <1>11 DEF error
  <2> HIDE DEF y, d
  <2>3. Tracks(g, d, w)  BY <1>5, <1>11, <2>1, <2>2, QuietTracks DEF BlockEvents
  <2> QED BY <1>3, <2>1, <2>2, <2>3 DEF Even
<1>12. CASE /\ out = <<e>> /\ e.type \notin BlockEvents /\ Maps(f, g)
            /\ f.terminal => g.terminal /\ e.type \in {"ping", "comment"}
            /\ e.type \in {"message_stop", "error"} => g.terminal
  <2> DEFINE y == Receive(c, e)
  <2>1. y.open = c.open /\ y.stray = c.stray /\ (y.complete => c.complete \/ e.type = "message_stop")
    BY <1>12, OthersNumber
  <2>2. d = y  BY <1>2, <1>12
  <2> HIDE DEF y, d
  <2>3. Tracks(g, d, w)  BY <1>5, <1>12, <2>1, <2>2, QuietTracks
  <2>4. e.type = "message_stop" => c.open = {}  BY <1>5, <1>12 DEF Tracks
  <2> QED BY <2>1, <2>2, <2>3, <2>4 DEF Even
<1> HIDE DEF goal
<1> QED BY <1>1, <1>6, <1>7, <1>8, <1>9, <1>10, <1>11, <1>12 DEF Forms

\* The events of a sequence take the translator's blocks from v to w.
Path(v, s, w) ==
  \E g : g[0] = v /\ g[Len(s)] = w /\ \A k \in 1..Len(s) : Move(s[k], g[k - 1], g[k])

\* No event.
LEMMA PathNone ==
  ASSUME NEW v
  PROVE  Path(v, <<>>, v)
<1> DEFINE g == [n \in 0..0 |-> v]
<1>1. g[0] = v /\ Len(<<>>) = 0  OBVIOUS
<1> HIDE DEF g
<1> QED BY <1>1 DEF Path

\* One event.
LEMMA PathOne ==
  ASSUME NEW e, NEW v, NEW w, Move(e, v, w)
  PROVE  Path(v, <<e>>, w)
<1> DEFINE g == [n \in 0..1 |-> IF n = 0 THEN v ELSE w]
<1>1. g[0] = v /\ g[1] = w /\ Len(<<e>>) = 1 /\ <<e>>[1] = e  OBVIOUS
<1> HIDE DEF g
<1>2. \A k \in 1..Len(<<e>>) : k = 1 /\ k - 1 = 0  BY <1>1
<1>3. \A k \in 1..Len(<<e>>) : Move(<<e>>[k], g[k - 1], g[k])  BY <1>1, <1>2
<1> QED BY <1>1, <1>3 DEF Path

\* One sequence after another.
LEMMA PathConcat ==
  ASSUME NEW s, IsSeq(s), NEW t, IsSeq(t), NEW u, NEW v, NEW w, Path(u, s, v), Path(v, t, w)
  PROVE  Path(u, s \o t, w)
<1>1. PICK g : g[0] = u /\ g[Len(s)] = v /\ \A k \in 1..Len(s) : Move(s[k], g[k - 1], g[k])  BY DEF Path
<1>2. PICK h : h[0] = v /\ h[Len(t)] = w /\ \A k \in 1..Len(t) : Move(t[k], h[k - 1], h[k])  BY DEF Path
<1> DEFINE M == Len(s)
           N == Len(t)
           x == [n \in 0..(M + N) |-> IF n <= M THEN g[n] ELSE h[n - M]]
<1>3. /\ M \in Nat /\ N \in Nat /\ Len(s \o t) = M + N
      /\ \A i \in 1..(M + N) : (s \o t)[i] = IF i <= M THEN s[i] ELSE t[i - M]
  <2> N \in Nat  BY LenProperties DEF IsSeq
  <2> QED BY ConcatSeqs
<1> HIDE DEF M, N
<1>4. x[0] = u  BY <1>1, <1>3
<1>5. x[M + N] = w
  <2>1. CASE N = 0
    <3>1. x[M + N] = g[M]  BY <1>3, <2>1
    <3> QED BY <1>1, <1>2, <2>1, <3>1 DEF M, N
  <2>2. CASE N # 0
    <3>1. ~(M + N <= M) /\ (M + N) - M = N  BY <1>3, <2>2
    <3>2. x[M + N] = h[N]  BY <1>3, <3>1
    <3> QED BY <1>2, <3>2 DEF N
  <2> QED BY <2>1, <2>2
<1>6. ASSUME NEW k \in 1..(M + N) PROVE Move((s \o t)[k], x[k - 1], x[k])
  <2>0. k - 1 \in 0..(M + N) /\ k \in 0..(M + N)  BY <1>3
  <2>1. CASE k <= M
    <3>1. k \in 1..M /\ k - 1 <= M  BY <1>3, <2>1
    <3>2. x[k - 1] = g[k - 1] /\ x[k] = g[k]  BY <2>0, <2>1, <3>1
    <3>3. (s \o t)[k] = s[k]  BY <1>3, <2>1
    <3> HIDE DEF x
    <3> QED BY <1>1, <3>1, <3>2, <3>3 DEF M
  <2>2. CASE ~(k <= M)
    <3>1. k - M \in 1..N  BY <1>3, <2>2
    <3>2. x[k] = h[k - M]  BY <2>0, <2>2
    <3>3. x[k - 1] = h[(k - M) - 1]
      <4>1. CASE k - 1 <= M
        <5>1. k - 1 = M /\ (k - M) - 1 = 0  BY <1>3, <2>2, <4>1
        <5>2. x[k - 1] = g[M]  BY <2>0, <4>1, <5>1
        <5> HIDE DEF x
        <5> QED BY <1>1, <1>2, <5>1, <5>2 DEF M
      <4>2. CASE ~(k - 1 <= M)
        <5>1. (k - 1) - M = (k - M) - 1  BY <1>3
        <5> QED BY <2>0, <4>2, <5>1
      <4> QED BY <4>1, <4>2
    <3>4. (s \o t)[k] = t[k - M]  BY <1>3, <2>2
    <3> HIDE DEF x
    <3> QED BY <1>2, <3>1, <3>2, <3>3, <3>4 DEF N
  <2> QED BY <2>1, <2>2
<1> HIDE DEF x
<1> QED BY <1>3, <1>4, <1>5, <1>6 DEF Path

\* The filter and the client follow the translator through a sequence.
LEMMA PathTracks ==
  ASSUME NEW f, IsFilter(f), NEW c, IsClient(c), Numbered(f, c), Safe(c), Even(c),
         NEW v, NEW w, Tracks(f, c, v), NEW s, IsSeq(s), \A k \in 1..Len(s) : IsEvent(s[k]), Path(v, s, w)
  PROVE  LET r == AllFiltered(f, s)
             d == Received(c, r.out)
         IN /\ IsFilter(r.f) /\ IsClient(d) /\ IsSeq(r.out) /\ Safe(d) /\ Even(d)
            /\ r.f.failed \/ (Numbered(r.f, d) /\ Tracks(r.f, d, w))
<1> DEFINE Good(r, x) == LET d == Received(c, r.out)
                         IN /\ IsFilter(r.f) /\ IsClient(d) /\ IsSeq(r.out) /\ Safe(d) /\ Even(d)
                            /\ r.f.failed \/ (Numbered(r.f, d) /\ Tracks(r.f, d, x))
<1>1. PICK h : IsRun(h, "filter", Out(f, <<>>), s) /\ AllFiltered(f, s) = h[Len(s)]  BY FilteredRuns
<1>2. PICK g : g[0] = v /\ g[Len(s)] = w /\ \A k \in 1..Len(s) : Move(s[k], g[k - 1], g[k])  BY DEF Path
<1> DEFINE N == {n \in 0..Len(s) : Good(h[n], g[n])}
<1>3. Len(s) \in Nat  BY LenProperties DEF IsSeq
<1>4. 0 \in N
  <2>1. h[0].f = f /\ h[0].out = <<>>  BY <1>1 DEF IsRun, Out
  <2>2. IsSeq(<<>>) /\ Received(c, <<>>) = c  BY EmptySeq, ReceivedNone DEF IsSeq
  <2>3. Good(h[0], g[0])  BY <1>2, <2>1, <2>2
  <2> QED BY <1>3, <2>3
<1>5. ASSUME NEW n \in 0..(Len(s) - 1), n \in N PROVE n + 1 \in N
  <2> DEFINE r == h[n]
             e == s[n + 1]
             x == Filtered(r.f, e)
             d == Received(c, r.out)
             D == Received(d, x.out)
  <2>1. n + 1 \in 1..Len(s) /\ n + 1 \in 0..Len(s) /\ (n + 1) - 1 = n /\ IsEvent(e)  BY <1>3
  <2>2. h[n + 1] = IF r.f.failed THEN r ELSE Out(x.f, r.out \o x.out)
    BY <1>1, <2>1 DEF IsRun, Apply
  <2>3. Good(r, g[n])  BY <1>5
  <2>4. CASE r.f.failed  BY <2>1, <2>2, <2>3, <2>4
  <2>5. CASE ~r.f.failed
    <3>1. h[n + 1].f = x.f /\ h[n + 1].out = r.out \o x.out
      <4> DEFINE a == Out(x.f, r.out \o x.out)
      <4>1. a.f = x.f /\ a.out = r.out \o x.out  BY DEF Out
      <4> HIDE DEF a
      <4>2. h[n + 1] = a  BY <2>2, <2>5 DEF a
      <4> QED BY <4>1, <4>2
    <3>2. /\ IsFilter(r.f) /\ IsClient(d) /\ IsSeq(r.out) /\ Safe(d) /\ Even(d)
          /\ Numbered(r.f, d) /\ Tracks(r.f, d, g[n])
      BY <2>3, <2>5
    <3>3. Move(e, g[n], g[n + 1])  BY <1>2, <2>1
    <3>4. e.type \in BlockEvents => e.index \in Blocks
      <4> HIDE DEF e, r, d
      <4> QED BY <3>2, <3>3 DEF Move, Tracks, BlockEvents
    <3>5. IsFilter(x.f) /\ IsClient(D) /\ (x.out = <<>> \/ (\E y : x.out = <<y>>))
      <4> DEFINE q == r.f
      <4> HIDE DEF e, d, q
      <4>1. /\ IsFilter(Filtered(q, e).f) /\ IsClient(Received(d, Filtered(q, e).out))
            /\ Filtered(q, e).out = <<>> \/ (\E y : Filtered(q, e).out = <<y>>)
        BY <2>1, <3>2, FilteredFollows DEF q
      <4> QED BY <4>1 DEF q
    <3>6. Safe(D) /\ (x.f.failed \/ Numbered(x.f, D))
      <4> DEFINE q == r.f
      <4> HIDE DEF e, d, q
      <4>1. /\ Safe(Received(d, Filtered(q, e).out))
            /\ Filtered(q, e).f.failed \/ Numbered(Filtered(q, e).f, Received(d, Filtered(q, e).out))
        BY <2>1, <3>2, <3>4, FilteredNumbers DEF q
      <4> QED BY <4>1 DEF q
    <3>7. Even(D) /\ (x.f.failed \/ Tracks(x.f, D, g[n + 1]))
      <4> DEFINE q == r.f
      <4> HIDE DEF e, d, q
      <4>1. /\ Even(Received(d, Filtered(q, e).out))
            /\ Filtered(q, e).f.failed \/ Tracks(Filtered(q, e).f, Received(d, Filtered(q, e).out), g[n + 1])
        BY <2>1, <3>2, <3>3, FilteredTracks DEF q
      <4> QED BY <4>1 DEF q
    <3>8. IsSeq(r.out \o x.out) /\ Received(c, r.out \o x.out) = D
      <4> DEFINE y == x.out
                 z == r.out
      <4>1. IsSeq(z) /\ (y = <<>> \/ (\E a : y = <<a>>))  BY <3>2, <3>5
      <4> HIDE DEF y, z
      <4>2. IsSeq(z \o y) /\ Received(c, z \o y) = Received(Received(c, z), y)  BY <4>1, ReceivedAdds
      <4> QED BY <4>2 DEF y, z
    <3>9. Good(h[n + 1], g[n + 1])
      <4> HIDE DEF x, e, D, r, d
      <4> QED BY <3>1, <3>5, <3>6, <3>7, <3>8
    <3> QED BY <2>1, <3>9
  <2> QED BY <2>4, <2>5
<1> HIDE DEF N
<1>6. Len(s) \in N  BY <1>3, <1>4, <1>5, Upto
<1> QED BY <1>1, <1>2, <1>6 DEF N

-----------------------------------------------------------------------------
(* What the translator writes, as a path over its blocks *)

\* What a fragment of call k leaves of the translator: the call is seen, and
\* its block, if it has none, may be opened.
Sees(t, u, k) == \A j \in Tools : u.tools[j].seen = (t.tools[j].seen \/ j = k)
Widened(t, u, k) ==
  /\ u.text = t.text /\ u.next = t.next /\ u.order = t.order /\ Sees(t, u, k)
  /\ \A j \in Tools : u.tools[j].block = t.tools[j].block
Begins(t, u, k) ==
  /\ u.text = NoBlock /\ u.next = t.next + 1 /\ u.order = Append(t.order, k) /\ Sees(t, u, k)
  /\ \A j \in Tools : u.tools[j].block = IF j = k THEN t.next ELSE t.tools[j].block
Fits(t, k) == t.tools[k].seen \/ ~(Cardinality(Seen(t)) >= MaxToolCalls)
TextEnd(t) == IF t.text = NoBlock THEN <<>> ELSE <<Event("content_block_stop", t.text, "text")>>
ToolStart(t) == <<Event("content_block_start", t.next, "tool_use")>>

\* What a fragment does, by cases.
LEMMA FragmentForms ==
  ASSUME NEW t \in Translators, NEW c \in Pieces
  PROVE  LET r == ToolFragment(t, c)
             k == c.tool
         IN \/ r.failed /\ r.out = <<>> /\ Widened(t, r.t, k)
            \/ /\ ~r.failed /\ Fits(t, k) /\ Widened(t, r.t, k)
               /\ \/ r.out = <<>>
                  \/ t.tools[k].block # NoBlock /\ \E n \in Nat : r.out = ArgumentDeltas(t.tools[k].block, n)
            \/ /\ ~r.failed /\ Fits(t, k) /\ Begins(t, r.t, k) /\ t.tools[k].block = NoBlock
               /\ \E n \in Nat : r.out = (TextEnd(t) \o ToolStart(t)) \o ArgumentDeltas(t.next, n)
<1> DEFINE k == c.tool
           old == t.tools[c.tool]
           new == [old EXCEPT !.seen = TRUE, !.id = @ \/ c.id, !.name = @ \/ c.name, !.args = @ + c.args]
           kept == [t EXCEPT !.tools[c.tool] = new]
           begun == [kept EXCEPT !.tools[c.tool].block = t.next, !.next = @ + 1, !.text = NoBlock,
                                 !.order = Append(@, c.tool)]
           few == ArgumentDeltas(old.block, IF c.args > 0 THEN 1 ELSE 0)
           many == (TextEnd(t) \o ToolStart(t)) \o ArgumentDeltas(t.next, new.args)
           r == ToolFragment(t, c)
<1>1. k \in Tools /\ c.args \in Nat /\ old \in Calls  BY DEF Pieces, Translators
<1>2. /\ new.seen = TRUE /\ new.block = old.block /\ new.args \in Nat
      /\ new \in [seen : {new.seen}, id : {new.id}, name : {new.name}, args : {new.args}, block : {new.block}]
  <2> DEFINE id == old.id \/ c.id
             name == old.name \/ c.name
             args == old.args + c.args
  <2>1. new = [old EXCEPT !.seen = TRUE, !.id = id, !.name = name, !.args = args]  OBVIOUS
  <2>2. args \in Nat  BY <1>1 DEF Calls
  <2> HIDE DEF id, name, args, new, old
  <2> QED BY <1>1, <2>1, <2>2 DEF Calls
<1> HIDE DEF new
<1>3. /\ kept.text = t.text /\ kept.next = t.next /\ kept.order = t.order
      /\ kept.tools = [t.tools EXCEPT ![k] = new]
  BY DEF Translators
<1>4. /\ begun.text = NoBlock /\ begun.next = t.next + 1 /\ begun.order = Append(t.order, k)
      /\ begun.tools = [kept.tools EXCEPT ![k] = [kept.tools[k] EXCEPT !.block = t.next]]
  <2>1. kept \in [started : {kept.started}, ended : {kept.ended}, text : {kept.text}, next : {kept.next},
                  tools : {kept.tools}, order : {kept.order}, finish : {kept.finish}, done : {kept.done}]
    BY DEF Translators
  <2> DEFINE tools == [kept.tools EXCEPT ![c.tool] = [kept.tools[c.tool] EXCEPT !.block = t.next]]
             order == Append(kept.order, c.tool)
             next == kept.next + 1
  <2>2. begun = [kept EXCEPT !.tools = tools, !.next = next, !.text = NoBlock, !.order = order]  OBVIOUS
  <2> HIDE DEF tools, order, next, begun, kept
  <2>3. begun.text = NoBlock /\ begun.next = next /\ begun.order = order /\ begun.tools = tools  BY <2>1, <2>2
  <2> QED BY <1>3, <2>3 DEF tools, order, next
<1>5. t.tools \in [Tools -> Calls]  BY DEF Translators
<1>6. Widened(t, kept, k)
  <2> HIDE DEF kept
  <2>1. \A j \in Tools : kept.tools[j] = IF j = k THEN new ELSE t.tools[j]  BY <1>1, <1>3, <1>5
  <2>2. \A j \in Tools : t.tools[j].seen \in BOOLEAN  BY <1>5 DEF Calls
  <2>3. Sees(t, kept, k)  BY <1>2, <2>1, <2>2 DEF Sees
  <2> QED BY <1>2, <1>3, <2>1, <2>3 DEF Widened
<1>7. Begins(t, begun, k)
  <2> HIDE DEF begun, kept
  <2> DEFINE opened == [new EXCEPT !.block = t.next]
  <2>1. opened.seen = TRUE /\ opened.block = t.next  BY <1>2
  <2> HIDE DEF opened
  <2>2. kept.tools[k] = new /\ DOMAIN kept.tools = Tools  BY <1>1, <1>3, <1>5
  <2>3. begun.tools = [kept.tools EXCEPT ![k] = opened]  BY <1>4, <2>2 DEF opened
  <2>4. \A j \in Tools : begun.tools[j] = IF j = k THEN opened ELSE t.tools[j]  BY <1>1, <1>3, <1>5, <2>2, <2>3
  <2>5. \A j \in Tools : t.tools[j].seen \in BOOLEAN  BY <1>5 DEF Calls
  <2>6. Sees(t, begun, k)  BY <2>1, <2>4, <2>5 DEF Sees
  <2> QED BY <1>4, <2>1, <2>4, <2>6 DEF Begins
<1> DEFINE over == (~old.seen /\ Cardinality(Seen(t)) >= MaxToolCalls) \/ Arguments(kept) > MaxArguments
<1>8. r = IF over THEN Step(kept, <<>>, TRUE)
          ELSE IF old.block # NoBlock THEN Step(kept, few, FALSE)
          ELSE IF ~(new.id /\ new.name) THEN Step(kept, <<>>, FALSE)
          ELSE Step(begun, many, FALSE)
  BY DEF ToolFragment, new, TextEnd, ToolStart
<1>9. ~over => Fits(t, k)  BY DEF Fits
<1> DEFINE args == IF c.args > 0 THEN 1 ELSE 0
<1>10. args \in Nat /\ few = ArgumentDeltas(t.tools[k].block, args)  OBVIOUS
<1> HIDE DEF r, over, args, kept, begun
<1>11. CASE over
  <2> r.failed /\ r.out = <<>> /\ r.t = kept  BY <1>8, <1>11 DEF Step
  <2> QED BY <1>6 DEF r
<1>12. CASE ~over /\ old.block # NoBlock
  <2>1. r = Step(kept, few, FALSE)  BY <1>8, <1>12
  <2> HIDE DEF few
  <2>2. ~r.failed /\ r.out = few /\ r.t = kept  BY <2>1 DEF Step
  <2> QED BY <1>6, <1>9, <1>10, <1>12, <2>2 DEF r
<1>13. CASE ~over /\ old.block = NoBlock /\ ~(new.id /\ new.name)
  <2> ~r.failed /\ r.out = <<>> /\ r.t = kept  BY <1>8, <1>13 DEF Step
  <2> QED BY <1>6, <1>9, <1>13 DEF r
<1>14. CASE ~over /\ old.block = NoBlock /\ (new.id /\ new.name)
  <2>1. r = Step(begun, many, FALSE)  BY <1>8, <1>14
  <2>2. \E n \in Nat : many = (TextEnd(t) \o ToolStart(t)) \o ArgumentDeltas(t.next, n)  BY <1>2
  <2> HIDE DEF many
  <2>3. ~r.failed /\ r.out = many /\ r.t = begun  BY <2>1 DEF Step
  <2> QED BY <1>7, <1>9, <1>14, <2>2, <2>3 DEF r
<1> QED BY <1>11, <1>12, <1>13, <1>14

\* The calls with a block are among those seen.
LEMMA UsedSeen ==
  ASSUME NEW t, Sound(t)
  PROVE  /\ Used(t) \subseteq Seen(t) /\ Used(t) \subseteq Tools /\ IsFiniteSet(Used(t)) /\ IsFiniteSet(Seen(t))
         /\ Cardinality(Used(t)) \in Nat /\ Cardinality(Seen(t)) \in Nat /\ Cardinality(Used(t)) <= Cardinality(Seen(t))
<1>1. Used(t) \subseteq Tools  BY DEF Used
<1>2. Used(t) \subseteq Seen(t)  BY <1>1 DEF Sound, Seen
<1>3. IsFiniteSet(Seen(t))  BY DEF Sound
<1>4. IsFiniteSet(Used(t)) /\ Cardinality(Used(t)) <= Cardinality(Seen(t))  BY <1>2, <1>3, FS_Subset
<1> QED BY <1>1, <1>2, <1>3, <1>4, FS_CardinalityType

\* A block's number is one the filter knows.
LEMMA Room ==
  ASSUME NEW t, Sound(t)
  PROVE  /\ t.text = NoBlock => t.next \in Blocks
         /\ \A k \in Tools : Fits(t, k) /\ t.tools[k].block = NoBlock => t.next \in Blocks
<1> DEFINE u == Cardinality(Used(t))
           m == Cardinality(Seen(t))
           x == IF t.text = NoBlock THEN 0 ELSE 1
<1>1. /\ Used(t) \subseteq Seen(t) /\ IsFiniteSet(Seen(t)) /\ u \in Nat /\ m \in Nat /\ u <= m
      /\ IsFiniteSet(Used(t))
  BY UsedSeen
<1>2. t.next \in Nat /\ t.next <= 2 * u + x /\ m <= MaxToolCalls  BY DEF Sound
<1>3. MaxToolCalls \in Nat /\ 0..(2 * MaxToolCalls) \subseteq Blocks  BY TranslationAssumption, StreamAssumption
<1>4. x \in {0, 1}  OBVIOUS
<1>5. ASSUME t.text = NoBlock PROVE t.next \in Blocks
  <2>1. x = 0  BY <1>5
  <2> HIDE DEF u, m, x
  <2>2. t.next \in 0..(2 * MaxToolCalls)  BY <1>1, <1>2, <1>3, <2>1
  <2> QED BY <1>3, <2>2
<1>6. ASSUME NEW k \in Tools, Fits(t, k), t.tools[k].block = NoBlock PROVE t.next \in Blocks
  <2>1. k \notin Used(t)  BY <1>6 DEF Used
  <2>2. u < MaxToolCalls
    <3>1. CASE t.tools[k].seen
      <4>1. k \in Seen(t)  BY <3>1 DEF Seen
      <4>2. u <= m /\ (m = u => Seen(t) = Used(t))  BY <1>1, FS_Subset
      <4>3. m # u  BY <2>1, <4>1, <4>2
      <4> HIDE DEF u, m
      <4> QED BY <1>1, <1>2, <1>3, <4>2, <4>3
    <3>2. CASE ~t.tools[k].seen
      <4>1. ~(m >= MaxToolCalls)  BY <1>6, <3>2 DEF Fits
      <4> HIDE DEF u, m
      <4> QED BY <1>1, <1>3, <4>1
    <3> QED BY <3>1, <3>2
  <2> HIDE DEF u, m, x
  <2>3. t.next \in 0..(2 * MaxToolCalls)  BY <1>1, <1>2, <1>3, <1>4, <2>2
  <2> QED BY <1>3, <2>3
<1> QED BY <1>5, <1>6

\* One call more is seen.
LEMMA SeesFits ==
  ASSUME NEW t, Sound(t), NEW k \in Tools, Fits(t, k), NEW u, Sees(t, u, k)
  PROVE  IsFiniteSet(Seen(u)) /\ Cardinality(Seen(u)) <= MaxToolCalls
<1>1. IsFiniteSet(Seen(t)) /\ Cardinality(Seen(t)) \in Nat /\ Cardinality(Seen(t)) <= MaxToolCalls
  BY UsedSeen DEF Sound
<1>2. MaxToolCalls \in Nat  BY TranslationAssumption
<1>3. Seen(u) = Seen(t) \cup {k}  BY DEF Sees, Seen
<1>4. /\ IsFiniteSet(Seen(t) \cup {k})
      /\ Cardinality(Seen(t) \cup {k}) = IF k \in Seen(t) THEN Cardinality(Seen(t)) ELSE Cardinality(Seen(t)) + 1
  BY <1>1, FS_AddElement
<1>5. k \notin Seen(t) => ~(Cardinality(Seen(t)) >= MaxToolCalls)  BY DEF Fits, Seen
<1> QED BY <1>1, <1>2, <1>3, <1>4, <1>5

\* A call seen, its blocks as they were.
LEMMA WidenedSound ==
  ASSUME NEW t, Sound(t), NEW k \in Tools, NEW u, Widened(t, u, k)
  PROVE  View(u) = View(t) /\ (Fits(t, k) => Sound(u))
<1>1. /\ u.text = t.text /\ u.next = t.next /\ u.order = t.order /\ Sees(t, u, k)
      /\ \A j \in Tools : u.tools[j].block = t.tools[j].block
  BY DEF Widened
<1>2. Used(u) = Used(t)  BY <1>1 DEF Used
<1>3. Used(t) \subseteq Tools  BY DEF Used
<1>4. View(u) = View(t)
  <2>1. {u.tools[i].block : i \in Used(u)} = {t.tools[i].block : i \in Used(t)}  BY <1>1, <1>2, <1>3
  <2> QED BY <1>1, <2>1 DEF View
<1>5. ASSUME Fits(t, k) PROVE Sound(u)
  <2>1. IsFiniteSet(Seen(u)) /\ Cardinality(Seen(u)) <= MaxToolCalls  BY <1>1, <1>5, SeesFits
  <2>2. \A i \in Used(u) : u.tools[i].block = t.tools[i].block /\ (t.tools[i].seen => u.tools[i].seen)
    BY <1>1, <1>2, <1>3 DEF Sees
  <2>3. \A i \in Used(u) : u.tools[i].block \in 0..(u.next - 1) /\ u.tools[i].block # u.text /\ u.tools[i].seen
    BY <1>1, <1>2, <2>2 DEF Sound
  <2>4. \A i \in Used(u) : \A j \in Used(u) : u.tools[i].block = u.tools[j].block => i = j
    BY <1>2, <2>2 DEF Sound
  <2>5. \A i \in Tools : i \in Used(u) <=> \E n \in 1..Len(u.order) : u.order[n] = i  BY <1>1, <1>2 DEF Sound
  <2>6. \A j \in 1..Len(u.order) : \A n \in 1..Len(u.order) : u.order[j] = u.order[n] => j = n  BY <1>1 DEF Sound
  <2>7. u.next \in Nat /\ (u.text = NoBlock \/ u.text \in 0..(u.next - 1))  BY <1>1 DEF Sound
  <2>8. u.next <= 2 * Cardinality(Used(u)) + (IF u.text = NoBlock THEN 0 ELSE 1)  BY <1>1, <1>2 DEF Sound
  <2> QED BY <2>1, <2>3, <2>4, <2>5, <2>6, <2>7, <2>8 DEF Sound
<1> QED BY <1>4, <1>5

\* A call's block is opened.
LEMMA BeginsSound ==
  ASSUME NEW t \in Translators, Sound(t), NEW k \in Tools, NEW u, Begins(t, u, k), Fits(t, k), t.tools[k].block = NoBlock
  PROVE  /\ View(u).open = (View(t).open \ {t.text}) \cup {t.next} /\ View(u).next = t.next + 1
         /\ Sound(u)
<1>1. /\ u.text = NoBlock /\ u.next = t.next + 1 /\ u.order = Append(t.order, k) /\ Sees(t, u, k)
      /\ \A j \in Tools : u.tools[j].block = IF j = k THEN t.next ELSE t.tools[j].block
  BY DEF Begins
<1>2. t.next \in Nat /\ NoBlock = -1 /\ t.order \in Seq(Tools)  BY DEF Sound, NoBlock, Translators
<1>3. k \notin Used(t) /\ Used(t) \subseteq Tools  BY DEF Used
<1>4. Used(u) = Used(t) \cup {k}
  <2>1. t.next # NoBlock  BY <1>2
  <2> QED BY <1>1, <1>3, <2>1 DEF Used
<1>5. \A i \in Used(t) : u.tools[i].block = t.tools[i].block /\ i # k  BY <1>1, <1>3
<1>6. u.tools[k].block = t.next  BY <1>1
<1>7. {u.tools[i].block : i \in Used(u)} = {t.tools[i].block : i \in Used(t)} \cup {t.next}  BY <1>4, <1>5, <1>6
<1>8. \A i \in Used(t) : t.tools[i].block \in 0..(t.next - 1) /\ t.tools[i].block # t.text /\ t.tools[i].seen
  BY DEF Sound
<1>9. View(u).open = (View(t).open \ {t.text}) \cup {t.next} /\ View(u).next = t.next + 1
  <2>1. View(u).open = {u.tools[i].block : i \in Used(u)} /\ View(u).next = t.next + 1  BY <1>1 DEF View
  <2>2. View(t).open = {t.tools[i].block : i \in Used(t)} \cup ({t.text} \ {NoBlock})  BY DEF View
  <2>3. t.text \notin {t.tools[i].block : i \in Used(t)}  BY <1>8
  <2> QED BY <1>7, <2>1, <2>2, <2>3
<1>10. IsFiniteSet(Seen(u)) /\ Cardinality(Seen(u)) <= MaxToolCalls  BY <1>1, SeesFits
<1>11. \A i \in Used(u) : u.tools[i].block \in 0..(u.next - 1) /\ u.tools[i].block # u.text /\ u.tools[i].seen
  <2>1. ASSUME NEW i \in Used(t)
        PROVE  u.tools[i].block \in 0..(u.next - 1) /\ u.tools[i].block # u.text /\ u.tools[i].seen
    <3>1. u.tools[i].seen  BY <1>1, <1>3, <1>8 DEF Sees
    <3> QED BY <1>1, <1>2, <1>5, <1>8, <3>1
  <2>2. u.tools[k].block \in 0..(u.next - 1) /\ u.tools[k].block # u.text /\ u.tools[k].seen
    <3>1. u.tools[k].seen  BY <1>1 DEF Sees
    <3> QED BY <1>1, <1>2, <1>6, <3>1
  <2> QED BY <1>4, <2>1, <2>2
<1>12. \A i \in Used(u) : \A j \in Used(u) : u.tools[i].block = u.tools[j].block => i = j
  <2>1. \A i \in Used(t) : \A j \in Used(t) : t.tools[i].block = t.tools[j].block => i = j  BY DEF Sound
  <2>2. \A i \in Used(t) : u.tools[i].block # t.next  BY <1>2, <1>5, <1>8
  <2> QED BY <1>4, <1>5, <1>6, <2>1, <2>2
<1> DEFINE n == Len(t.order)
<1>13. /\ n \in Nat /\ Len(u.order) = n + 1 /\ u.order[n + 1] = k
       /\ \A i \in 1..n : u.order[i] = t.order[i]
  BY <1>1, <1>2
<1>14. \A i \in Tools : i \in Used(t) <=> \E j \in 1..n : t.order[j] = i  BY DEF Sound
<1>15. \A i \in Tools : i \in Used(u) <=> \E j \in 1..Len(u.order) : u.order[j] = i
  <2> HIDE DEF n
  <2>1. \A j \in 1..Len(u.order) : j \in 1..n \/ j = n + 1  BY <1>13
  <2>2. n + 1 \in 1..Len(u.order) /\ \A j \in 1..n : j \in 1..Len(u.order)  BY <1>13
  <2> QED BY <1>4, <1>13, <1>14, <2>1, <2>2
<1>16. \A i \in 1..Len(u.order) : \A j \in 1..Len(u.order) : u.order[i] = u.order[j] => i = j
  <2>1. \A i \in 1..n : \A j \in 1..n : t.order[i] = t.order[j] => i = j  BY DEF Sound
  <2> HIDE DEF n
  <2>2. \A j \in 1..Len(u.order) : j \in 1..n \/ j = n + 1  BY <1>13
  <2>3. \A j \in 1..n : u.order[j] # k  BY <1>3, <1>13, <1>14
  <2> QED BY <1>13, <2>1, <2>2, <2>3
<1>17. u.next <= 2 * Cardinality(Used(u)) + (IF u.text = NoBlock THEN 0 ELSE 1)
  <2>1. IsFiniteSet(Used(t)) /\ Cardinality(Used(t)) \in Nat  BY UsedSeen
  <2>2. Cardinality(Used(u)) = Cardinality(Used(t)) + 1  BY <1>3, <1>4, <2>1, FS_AddElement
  <2>3. t.next <= 2 * Cardinality(Used(t)) + 1
    <3> t.next <= 2 * Cardinality(Used(t)) + (IF t.text = NoBlock THEN 0 ELSE 1)  BY DEF Sound
    <3> QED BY <1>2, <2>1
  <2> QED BY <1>1, <1>2, <2>1, <2>2, <2>3
<1>18. u.next \in Nat /\ u.text = NoBlock  BY <1>1, <1>2
<1>19. Sound(u)  BY <1>10, <1>11, <1>12, <1>15, <1>16, <1>17, <1>18 DEF Sound
<1> QED BY <1>9, <1>19

\* A step of the translator: what it wrote takes its blocks to those it left.
Traced(t, s) == s \in Steps /\ Path(View(t), s.out, View(s.t)) /\ (~s.failed => Sound(s.t))

\* A step that moves no block.
LEMMA SameView ==
  ASSUME NEW t, NEW u, u.text = t.text, u.next = t.next, u.tools = t.tools, u.order = t.order
  PROVE  View(u) = View(t) /\ (Sound(t) => Sound(u))
<1>1. Used(u) = Used(t) /\ Seen(u) = Seen(t)  BY DEF Used, Seen
<1>2. View(u) = View(t)  BY <1>1 DEF View
<1>3. Sound(t) => Sound(u)  BY <1>1 DEF Sound
<1> QED BY <1>2, <1>3

\* The pieces of an open block.
LEMMA DeltasPath ==
  ASSUME NEW v, NEW i \in v.open, NEW n \in Nat
  PROVE  Path(v, ArgumentDeltas(i, n), v)
<1> DEFINE s == ArgumentDeltas(i, n)
           e == Event("content_block_delta", i, "tool_use")
           g == [k \in 0..n |-> v]
<1>1. s = [k \in 1..n |-> e]  BY DEF ArgumentDeltas
<1>2. Move(e, v, v)  BY DEF Move, Event
<1> HIDE DEF s, e
<1>3. Len(s) = n /\ \A k \in 1..n : s[k] = e  BY <1>1
<1>4. g[0] = v /\ g[n] = v /\ \A k \in 1..n : g[k] = v /\ g[k - 1] = v  OBVIOUS
<1> HIDE DEF g
<1>5. \A k \in 1..Len(s) : Move(s[k], g[k - 1], g[k])  BY <1>2, <1>3, <1>4
<1>6. Path(v, s, v)  BY <1>3, <1>4, <1>5 DEF Path
<1> QED BY <1>6 DEF s

\* message_start.
LEMMA OpenedTraced ==
  ASSUME NEW t \in Translators, Sound(t)
  PROVE  Traced(t, Opened(t)) /\ ~Opened(t).failed
<1> DEFINE s == Opened(t)
           u == [t EXCEPT !.started = TRUE]
           e == Plain("message_start")
<1>1. s \in Steps  BY OpenedTyped
<1>2. View(u) = View(t) /\ Sound(u)
  <2> u.text = t.text /\ u.next = t.next /\ u.tools = t.tools /\ u.order = t.order  BY DEF Translators
  <2> HIDE DEF u
  <2> QED BY SameView
<1>3. Path(View(t), <<e>>, View(t))
  <2> Move(e, View(t), View(t))  BY DEF Move, Plain, Event, BlockEvents
  <2> HIDE DEF e
  <2> QED BY PathOne
<1>4. Path(View(t), <<>>, View(t))  BY PathNone
<1>5. s = IF t.started THEN Step(t, <<>>, FALSE) ELSE Step(u, <<e>>, FALSE)  BY DEF Opened
<1> HIDE DEF u, e, s
<1>6. CASE t.started
  <2> s.t = t /\ s.out = <<>> /\ ~s.failed  BY <1>5, <1>6 DEF Step
  <2> QED BY <1>1, <1>4 DEF Traced, s
<1>7. CASE ~t.started
  <2> s.t = u /\ s.out = <<e>> /\ ~s.failed  BY <1>5, <1>7 DEF Step
  <2> QED BY <1>1, <1>2, <1>3 DEF Traced, s
<1> QED BY <1>6, <1>7

\* A text block is opened.
LEMMA TextSound ==
  ASSUME NEW t, Sound(t), t.text = NoBlock, NEW u, u.text = t.next, u.next = t.next + 1, u.tools = t.tools, u.order = t.order
  PROVE  View(u).open = View(t).open \cup {t.next} /\ View(u).next = t.next + 1 /\ Sound(u)
<1>1. Used(u) = Used(t) /\ Seen(u) = Seen(t)  BY DEF Used, Seen
<1>2. t.next \in Nat /\ NoBlock = -1  BY DEF Sound, NoBlock
<1>3. View(u).open = View(t).open \cup {t.next} /\ View(u).next = t.next + 1
  <2>1. View(u).open = {t.tools[i].block : i \in Used(t)} \cup ({t.next} \ {NoBlock}) /\ View(u).next = t.next + 1
    BY <1>1 DEF View
  <2>2. View(t).open = {t.tools[i].block : i \in Used(t)} \cup ({NoBlock} \ {NoBlock})  BY DEF View
  <2>3. t.next # NoBlock  BY <1>2
  <2> QED BY <2>1, <2>2, <2>3
<1>4. \A i \in Used(u) : u.tools[i].block \in 0..(u.next - 1) /\ u.tools[i].block # u.text /\ u.tools[i].seen
  <2>1. \A i \in Used(t) : t.tools[i].block \in 0..(t.next - 1) /\ t.tools[i].seen  BY DEF Sound
  <2> QED BY <1>1, <1>2, <2>1
<1>5. u.next <= 2 * Cardinality(Used(u)) + (IF u.text = NoBlock THEN 0 ELSE 1)
  <2>1. Cardinality(Used(t)) \in Nat  BY UsedSeen
  <2>2. t.next <= 2 * Cardinality(Used(t)) + 0  BY DEF Sound
  <2>3. u.text # NoBlock  BY <1>2
  <2> QED BY <1>1, <1>2, <2>1, <2>2, <2>3
<1>6. u.next \in Nat /\ u.text \in 0..(u.next - 1)  BY <1>2
<1>7. /\ \A i \in Used(u) : \A j \in Used(u) : u.tools[i].block = u.tools[j].block => i = j
      /\ \A i \in Tools : i \in Used(u) <=> \E k \in 1..Len(u.order) : u.order[k] = i
      /\ \A j \in 1..Len(u.order) : \A k \in 1..Len(u.order) : u.order[j] = u.order[k] => j = k
      /\ IsFiniteSet(Seen(u)) /\ Cardinality(Seen(u)) <= MaxToolCalls
  BY <1>1 DEF Sound
<1> QED BY <1>3, <1>4, <1>5, <1>6, <1>7 DEF Sound

\* A piece of text.
LEMMA TextTraced ==
  ASSUME NEW t \in Translators, Sound(t)
  PROVE  Traced(t, Text(t))
<1> DEFINE s == Text(t)
           a == Event("content_block_start", t.next, "text")
           b == Event("content_block_delta", t.next, "text")
           c == Event("content_block_delta", t.text, "text")
           u == [t EXCEPT !.text = t.next, !.next = @ + 1]
<1>1. s \in Steps  BY TextTyped
<1>2. s = IF t.text # NoBlock THEN Step(t, <<c>>, FALSE) ELSE Step(u, <<a, b>>, FALSE)
  BY DEF Text
<1>3. CASE t.text # NoBlock
  <2>1. s.t = t /\ s.out = <<c>>
    <3>1. s = Step(t, <<c>>, FALSE)  BY <1>2, <1>3
    <3> HIDE DEF s, c
    <3> QED BY <3>1 DEF Step
  <2>2. t.text \in View(t).open  BY <1>3 DEF View
  <2>3. Move(c, View(t), View(t))  BY <2>2 DEF Move, Event
  <2> HIDE DEF s, c
  <2>4. Path(View(t), s.out, View(s.t))  BY <2>1, <2>3, PathOne
  <2> QED BY <1>1, <2>1, <2>4 DEF Traced, s
<1>4. CASE t.text = NoBlock
  <2>1. s.t = u /\ s.out = <<a, b>>
    <3>1. s = Step(u, <<a, b>>, FALSE)  BY <1>2, <1>4
    <3> HIDE DEF s, a, b, u
    <3> QED BY <3>1 DEF Step
  <2>2. u.text = t.next /\ u.next = t.next + 1 /\ u.tools = t.tools /\ u.order = t.order  BY DEF Translators
  <2> HIDE DEF u
  <2>3. View(u).open = View(t).open \cup {t.next} /\ View(u).next = t.next + 1 /\ Sound(u)
    BY <1>4, <2>2, TextSound
  <2>4. t.next \in Blocks  BY <1>4, Room
  <2>5. View(t).next = t.next  BY DEF View
  <2>6. Move(a, View(t), View(u))  BY <2>3, <2>4, <2>5 DEF Move, Event
  <2>7. Move(b, View(u), View(u))  BY <2>3 DEF Move, Event
  <2> HIDE DEF a, b, s
  <2>8. Path(View(t), <<a>>, View(u)) /\ Path(View(u), <<b>>, View(u))  BY <2>6, <2>7, PathOne
  <2>9. IsSeq(<<a>>) /\ IsSeq(<<b>>) /\ <<a>> \o <<b>> = <<a, b>>
    <3>1. <<a>> \in Seq({a}) /\ <<b>> \in Seq({b})  OBVIOUS
    <3>2. <<a>> \o <<b>> = <<a, b>>
      <4> DEFINE x == <<a>> \o <<b>>
                 y == <<a, b>>
      <4>1. <<a>> \in Seq({a, b}) /\ <<b>> \in Seq({a, b}) /\ y \in Seq({a, b})  OBVIOUS
      <4>2. x \in Seq({a, b}) /\ Len(x) = 2 /\ x[1] = a /\ x[2] = b  BY <4>1
      <4>3. Len(y) = 2 /\ y[1] = a /\ y[2] = b  OBVIOUS
      <4> HIDE DEF x, y
      <4>4. \A i \in 1..2 : x[i] = y[i]
        <5> \A i \in 1..2 : i = 1 \/ i = 2  OBVIOUS
        <5> QED BY <4>2, <4>3
      <4>5. x = y  BY <4>1, <4>2, <4>3, <4>4, SeqEqual
      <4> QED BY <4>5 DEF x, y
    <3> QED BY <3>1, <3>2 DEF IsSeq
  <2>10. Path(View(t), <<a, b>>, View(u))  BY <2>8, <2>9, PathConcat
  <2> QED BY <1>1, <2>1, <2>3, <2>10 DEF Traced, s
<1> QED BY <1>3, <1>4

\* The opening of a call's block.
LEMMA BeginsPath ==
  ASSUME NEW t \in Translators, Sound(t), NEW k \in Tools, NEW u, Begins(t, u, k), Fits(t, k), t.tools[k].block = NoBlock,
         NEW n \in Nat
  PROVE  Path(View(t), (TextEnd(t) \o ToolStart(t)) \o ArgumentDeltas(t.next, n), View(u))
<1> DEFINE w == [open |-> View(t).open \ {t.text}, next |-> t.next]
           a == Event("content_block_stop", t.text, "text")
           b == Event("content_block_start", t.next, "tool_use")
<1>1. View(u).open = (View(t).open \ {t.text}) \cup {t.next} /\ View(u).next = t.next + 1  BY BeginsSound
<1>2. t.next \in Blocks  BY Room
<1>3. Path(View(t), TextEnd(t), w) /\ IsSeq(TextEnd(t))
  <2>1. CASE t.text = NoBlock
    <3>1. TextEnd(t) = <<>>  BY <2>1 DEF TextEnd
    <3>2. NoBlock \notin View(t).open
      <4>1. View(t).open = {t.tools[i].block : i \in Used(t)} \cup ({NoBlock} \ {NoBlock})  BY <2>1 DEF View
      <4> QED BY <4>1 DEF Used
    <3>3. View(t).open \ {t.text} = View(t).open  BY <2>1, <3>2
    <3>4. w = View(t)  BY <3>3 DEF View
    <3> HIDE DEF w
    <3>5. IsSeq(<<>>)  BY EmptySeq DEF IsSeq
    <3> QED BY <3>1, <3>4, <3>5, PathNone
  <2>2. CASE t.text # NoBlock
    <3>1. TextEnd(t) = <<a>>  BY <2>2 DEF TextEnd
    <3>2. t.text \in View(t).open /\ View(t).next = t.next  BY <2>2 DEF View
    <3>3. Move(a, View(t), w)  BY <3>2 DEF Move, Event
    <3> HIDE DEF a, w
    <3>4. IsSeq(<<a>>)
      <4> <<a>> \in Seq({a})  OBVIOUS
      <4> QED BY DEF IsSeq
    <3> QED BY <3>1, <3>3, <3>4, PathOne
  <2> QED BY <2>1, <2>2
<1>4. Path(w, ToolStart(t), View(u)) /\ IsSeq(ToolStart(t))
  <2>1. Move(b, w, View(u))  BY <1>1, <1>2 DEF Move, Event
  <2>2. ToolStart(t) = <<b>>  BY DEF ToolStart
  <2> HIDE DEF b, w
  <2>3. IsSeq(<<b>>)
    <3> <<b>> \in Seq({b})  OBVIOUS
    <3> QED BY DEF IsSeq
  <2> QED BY <2>1, <2>2, <2>3, PathOne
<1>5. Path(View(u), ArgumentDeltas(t.next, n), View(u))
  <2> t.next \in View(u).open  BY <1>1
  <2> QED BY DeltasPath
<1>6. IsSeq(ArgumentDeltas(t.next, n))
  <2> t.next \in Int  BY DEF Translators
  <2> QED BY DeltasTyped DEF IsSeq
<1> HIDE DEF w
<1>7. Path(View(t), TextEnd(t) \o ToolStart(t), View(u))  BY <1>3, <1>4, PathConcat
<1>8. IsSeq(TextEnd(t) \o ToolStart(t))  BY <1>3, <1>4, ConcatSeqs
<1> QED BY <1>5, <1>6, <1>7, <1>8, PathConcat

\* A fragment of a tool call.
LEMMA FragmentTraced ==
  ASSUME NEW t \in Translators, Sound(t), NEW c \in Pieces
  PROVE  Traced(t, ToolFragment(t, c))
<1> DEFINE r == ToolFragment(t, c)
           k == c.tool
<1>1. r \in Steps  BY FragmentTyped
<1>2. \/ r.failed /\ r.out = <<>> /\ Widened(t, r.t, k)
      \/ /\ ~r.failed /\ Fits(t, k) /\ Widened(t, r.t, k)
         /\ \/ r.out = <<>>
            \/ t.tools[k].block # NoBlock /\ \E n \in Nat : r.out = ArgumentDeltas(t.tools[k].block, n)
      \/ /\ ~r.failed /\ Fits(t, k) /\ Begins(t, r.t, k) /\ t.tools[k].block = NoBlock
         /\ \E n \in Nat : r.out = (TextEnd(t) \o ToolStart(t)) \o ArgumentDeltas(t.next, n)
  BY FragmentForms
<1>3. k \in Tools  BY DEF Pieces
<1> HIDE DEF r, k
<1>4. CASE r.failed /\ r.out = <<>> /\ Widened(t, r.t, k)
  <2>1. View(r.t) = View(t)  BY <1>3, <1>4, WidenedSound
  <2> QED BY <1>1, <1>4, <2>1, PathNone DEF Traced, r
<1>5. CASE ~r.failed /\ Fits(t, k) /\ Widened(t, r.t, k) /\ r.out = <<>>
  <2>1. View(r.t) = View(t) /\ Sound(r.t)  BY <1>3, <1>5, WidenedSound
  <2> QED BY <1>1, <1>5, <2>1, PathNone DEF Traced, r
<1>6. CASE /\ ~r.failed /\ Fits(t, k) /\ Widened(t, r.t, k) /\ t.tools[k].block # NoBlock
           /\ \E n \in Nat : r.out = ArgumentDeltas(t.tools[k].block, n)
  <2>1. View(r.t) = View(t) /\ Sound(r.t)  BY <1>3, <1>6, WidenedSound
  <2>2. k \in Used(t)  BY <1>3, <1>6 DEF Used
  <2>3. t.tools[k].block \in View(t).open  BY <2>2 DEF View
  <2>4. Path(View(t), r.out, View(t))  BY <1>6, <2>3, DeltasPath
  <2> QED BY <1>1, <2>1, <2>4 DEF Traced, r
<1>7. CASE /\ ~r.failed /\ Fits(t, k) /\ Begins(t, r.t, k) /\ t.tools[k].block = NoBlock
           /\ \E n \in Nat : r.out = (TextEnd(t) \o ToolStart(t)) \o ArgumentDeltas(t.next, n)
  <2>1. Sound(r.t)  BY <1>3, <1>7, BeginsSound
  <2>2. PICK n \in Nat : r.out = (TextEnd(t) \o ToolStart(t)) \o ArgumentDeltas(t.next, n)  BY <1>7
  <2>3. Path(View(t), r.out, View(r.t))  BY <1>3, <1>7, <2>2, BeginsPath
  <2> QED BY <1>1, <2>1, <2>3 DEF Traced, r
<1> QED BY <1>2, <1>4, <1>5, <1>6, <1>7

\* One step after another.
LEMMA ThenTraced ==
  ASSUME NEW t, NEW a, Traced(t, a), NEW b, b \in Steps, ~a.failed => Traced(a.t, b), Then(a, b) \in Steps
  PROVE  Traced(t, Then(a, b))
<1> DEFINE r == Then(a, b)
<1>1. CASE a.failed
  <2> r = a  BY <1>1 DEF Then
  <2> QED OBVIOUS
<1>2. CASE ~a.failed
  <2>1. r = Step(b.t, a.out \o b.out, b.failed)  BY <1>2 DEF Then
  <2> HIDE DEF r
  <2>2. r.t = b.t /\ r.out = a.out \o b.out /\ r.failed = b.failed  BY <2>1 DEF Step
  <2>3. IsSeq(a.out) /\ IsSeq(b.out)  BY DEF Traced, Steps, IsSeq
  <2>4. Path(View(t), a.out, View(a.t)) /\ Path(View(a.t), b.out, View(b.t)) /\ (~b.failed => Sound(b.t))
    BY <1>2 DEF Traced
  <2>5. Path(View(t), r.out, View(r.t))  BY <2>2, <2>3, <2>4, PathConcat
  <2>6. r \in Steps  BY DEF r
  <2> QED BY <2>2, <2>4, <2>5, <2>6 DEF Traced, r
<1> QED BY <1>1, <1>2

\* The tool calls of a chunk.
LEMMA ToolsTraced ==
  ASSUME NEW t, NEW r, Traced(t, r), NEW tools \in Seq(Pieces)
  PROVE  Traced(t, ToolsFolded(r, tools))
<1>1. PICK h : IsRun(h, "tool", r, tools) /\ ToolsFolded(r, tools) = h[Len(tools)]
  BY ToolsRun DEF IsSeq
<1> DEFINE N == {n \in 0..Len(tools) : Traced(t, h[n])}
<1>2. 0 \in N  BY <1>1 DEF IsRun
<1>3. ASSUME NEW k \in 0..(Len(tools) - 1), k \in N PROVE k + 1 \in N
  <2>1. k + 1 \in 1..Len(tools) /\ k + 1 \in 0..Len(tools) /\ (k + 1) - 1 = k  OBVIOUS
  <2>2. h[k + 1] = Apply("tool", h[k], tools[k + 1])  BY <1>1, <2>1 DEF IsRun
  <2> DEFINE a == h[k]
             b == ToolFragment(h[k].t, tools[k + 1])
  <2>3. tools[k + 1] \in Pieces  BY <2>1
  <2>4. Traced(t, a) /\ a \in Steps /\ a.t \in Translators  BY <1>3 DEF Traced, Steps
  <2>5. b \in Steps /\ Kept(a.t, b.t)  BY <2>3, <2>4, FragmentTyped
  <2>6. ~a.failed => Traced(a.t, b)
    <3>1. ~a.failed => Sound(a.t)  BY <2>4 DEF Traced
    <3> QED BY <2>3, <2>4, <3>1, FragmentTraced
  <2>7. h[k + 1] = Then(a, b)  BY <2>2 DEF Apply
  <2> HIDE DEF a, b
  <2>8. Then(a, b) \in Steps
    <3> Kept(a.t, a.t)  BY DEF Kept
    <3> QED BY <2>4, <2>5, ThenTyped
  <2>9. Traced(t, h[k + 1])  BY <2>4, <2>5, <2>6, <2>7, <2>8, ThenTraced
  <2> QED BY <2>1, <2>9
<1> HIDE DEF N
<1>4. Len(tools) \in N  BY <1>2, <1>3, Upto, LenProperties
<1> QED BY <1>1, <1>4 DEF N

\* A chunk.
LEMMA ChunkTraced ==
  ASSUME NEW t \in Translators, Sound(t), NEW c \in Completions
  PROVE  Traced(t, ProcessChunk(t, c))
<1> DEFINE opened == Opened(t)
           spoken == Text(opened.t)
           text == IF c.text THEN Then(opened, spoken) ELSE opened
           tools == ToolsFolded(text, c.tools)
           noted == [tools.t EXCEPT !.finish = @ \/ c.finish]
           last == Step(noted, <<>>, FALSE)
           s == ProcessChunk(t, c)
<1>1. Traced(t, opened) /\ ~opened.failed /\ opened \in Steps /\ opened.t \in Translators /\ Sound(opened.t)
      /\ Kept(t, opened.t)
  <2>1. Traced(t, opened) /\ ~opened.failed  BY OpenedTraced
  <2>2. opened \in Steps /\ Kept(t, opened.t)  BY OpenedTyped
  <2> HIDE DEF opened
  <2> QED BY <2>1, <2>2 DEF Traced, Steps
<1>2. Traced(t, text)
  <2> HIDE DEF opened
  <2>1. Traced(opened.t, spoken)  BY <1>1, TextTraced
  <2>2. spoken \in Steps /\ Kept(opened.t, spoken.t)  BY <1>1, TextTyped
  <2> HIDE DEF spoken
  <2>3. Then(opened, spoken) \in Steps  BY <1>1, <2>2, ThenTyped
  <2>4. Traced(t, Then(opened, spoken))  BY <1>1, <2>1, <2>2, <2>3, ThenTraced
  <2> QED BY <1>1, <2>4
<1> HIDE DEF text
<1>3. Traced(t, tools)
  <2>1. c.tools \in Seq(Pieces)  BY DEF Completions
  <2> QED BY <1>2, <2>1, ToolsTraced
<1>4. s \in Steps  BY ChunkTyped
<1>5. s = Then(tools, last)  BY DEF ProcessChunk, ToolsFolded, text
<1> HIDE DEF tools, s
<1>6. tools \in Steps /\ tools.t \in Translators /\ tools.out \o <<>> = tools.out
  <2> tools \in Steps  BY <1>3 DEF Traced
  <2> QED BY ConcatEmptySeq DEF Steps
<1>7. View(noted) = View(tools.t) /\ (Sound(tools.t) => Sound(noted))
  <2>1. noted.text = tools.t.text /\ noted.next = tools.t.next /\ noted.tools = tools.t.tools
        /\ noted.order = tools.t.order
    BY <1>6 DEF Translators
  <2> HIDE DEF noted
  <2> QED BY <2>1, SameView
<1>8. last.t = noted /\ last.out = <<>> /\ ~last.failed  BY DEF Step
<1> HIDE DEF noted, last
<1>9. CASE tools.failed
  <2> s = tools  BY <1>5, <1>9 DEF Then
  <2> QED BY <1>3 DEF s
<1>10. CASE ~tools.failed
  <2>1. s = Step(last.t, tools.out \o last.out, last.failed)  BY <1>5, <1>10 DEF Then
  <2>2. s.t = noted /\ s.out = tools.out  BY <1>6, <1>8, <2>1 DEF Step
  <2> QED BY <1>3, <1>4, <1>7, <1>10, <2>2 DEF Traced, s
<1> QED BY <1>9, <1>10

\* An error event alone.
LEMMA ErrorPath ==
  ASSUME NEW v
  PROVE  Path(v, <<Plain("error")>>, v)
<1> Move(Plain("error"), v, v)  BY DEF Move, Plain, Event, BlockEvents
<1> QED BY PathOne

\* The text block, if any, is ended.
LEMMA TextEndPath ==
  ASSUME NEW t, Sound(t)
  PROVE  /\ Path(View(t), TextEnd(t), [open |-> {t.tools[i].block : i \in Used(t)}, next |-> t.next])
         /\ IsSeq(TextEnd(t))
<1> DEFINE w == [open |-> {t.tools[i].block : i \in Used(t)}, next |-> t.next]
           a == Event("content_block_stop", t.text, "text")
<1>1. CASE t.text = NoBlock
  <2>1. TextEnd(t) = <<>> /\ w = View(t)  BY <1>1 DEF TextEnd, View
  <2> HIDE DEF w
  <2>2. IsSeq(<<>>)  BY EmptySeq DEF IsSeq
  <2> QED BY <2>1, <2>2, PathNone DEF w
<1>2. CASE t.text # NoBlock
  <2>1. TextEnd(t) = <<a>>  BY <1>2 DEF TextEnd
  <2>2. View(t).open = w.open \cup {t.text} /\ View(t).next = w.next  BY <1>2 DEF View
  <2>3. t.text \notin w.open  BY DEF Sound
  <2>4. w.open = View(t).open \ {t.text}  BY <2>2, <2>3
  <2> HIDE DEF w
  <2>5. Move(a, View(t), w)  BY <2>2, <2>4 DEF Move, Event
  <2> HIDE DEF a
  <2>6. IsSeq(<<a>>)
    <3> <<a>> \in Seq({a})  OBVIOUS
    <3> QED BY DEF IsSeq
  <2> QED BY <2>1, <2>5, <2>6, PathOne DEF w
<1> QED BY <1>1, <1>2

\* Every call's block is ended.
LEMMA StopsPath ==
  ASSUME NEW t \in Translators, Sound(t)
  PROVE  LET stops == [k \in 1..Len(t.order) |-> Event("content_block_stop", t.tools[t.order[k]].block, "tool_use")]
         IN /\ IsSeq(stops)
            /\ Path([open |-> {t.tools[i].block : i \in Used(t)}, next |-> t.next], stops, [open |-> {}, next |-> t.next])
<1> DEFINE N == Len(t.order)
           B(k) == t.tools[t.order[k]].block
           E(k) == Event("content_block_stop", B(k), "tool_use")
           stops == [k \in 1..N |-> E(k)]
           V(n) == [open |-> {B(j) : j \in (n + 1)..N}, next |-> t.next]
           g == [n \in 0..N |-> V(n)]
           first == [open |-> {t.tools[i].block : i \in Used(t)}, next |-> t.next]
           last == [open |-> {}, next |-> t.next]
<1>1. N \in Nat /\ \A k \in 1..N : t.order[k] \in Tools  BY DEF Translators
<1>2. \A k \in 1..N : t.order[k] \in Used(t)
  <2>1. \A i \in Tools : i \in Used(t) <=> \E k \in 1..N : t.order[k] = i  BY DEF Sound
  <2> HIDE DEF N
  <2> QED BY <1>1, <2>1
<1>3. \A j \in 1..N : \A k \in 1..N : B(j) = B(k) => j = k
  <2>1. \A i \in Used(t) : \A j \in Used(t) : t.tools[i].block = t.tools[j].block => i = j  BY DEF Sound
  <2>2. \A j \in 1..N : \A k \in 1..N : t.order[j] = t.order[k] => j = k  BY DEF Sound
  <2> QED BY <1>2, <2>1, <2>2
<1>4. {B(j) : j \in 1..N} = {t.tools[i].block : i \in Used(t)}
  <2>1. \A i \in Used(t) : \E k \in 1..N : t.order[k] = i
    <3> Used(t) \subseteq Tools  BY DEF Used
    <3> QED BY DEF Sound
  <2> HIDE DEF N
  <2> QED BY <1>2, <2>1
<1>5. IsSeq(stops) /\ Len(stops) = N /\ \A k \in 1..N : stops[k] = E(k)
  <2>1. stops \in Seq({E(k) : k \in 1..N})
    <3> HIDE DEF N, E
    <3> QED BY <1>1
  <2> HIDE DEF E, N
  <2>2. Len(stops) = N /\ \A k \in 1..N : stops[k] = E(k)  BY <1>1
  <2> HIDE DEF stops
  <2> QED BY <2>1, <2>2 DEF IsSeq
<1>6. g[0] = first /\ g[N] = last
  <2>1. 0 \in 0..N /\ N \in 0..N /\ 0 + 1 = 1 /\ (N + 1)..N = {}  BY <1>1
  <2>2. g[0] = V(0) /\ g[N] = V(N)
    <3> HIDE DEF V
    <3> QED BY <2>1
  <2>3. V(0) = first  BY <1>4, <2>1
  <2>4. V(N) = last
    <3> HIDE DEF N
    <3> QED BY <2>1
  <2> QED BY <2>2, <2>3, <2>4
<1>7. ASSUME NEW k \in 1..N PROVE Move(E(k), g[k - 1], g[k])
  <2>1. k - 1 \in 0..N /\ k \in 0..N /\ (k - 1) + 1 = k  BY <1>1
  <2>2. g[k - 1] = V(k - 1) /\ g[k] = V(k)
    <3> HIDE DEF V
    <3> QED BY <2>1
  <2>3. V(k - 1).open = {B(j) : j \in k..N} /\ V(k).open = {B(j) : j \in (k + 1)..N} /\ V(k - 1).next = V(k).next
    BY <2>1
  <2>4. k..N = {k} \cup (k + 1)..N /\ k \notin (k + 1)..N /\ k..N \subseteq 1..N  BY <1>1
  <2>5. {B(j) : j \in (k + 1)..N} = {B(j) : j \in k..N} \ {B(k)} /\ B(k) \in {B(j) : j \in k..N}
    <3> HIDE DEF N, B
    <3> QED BY <1>3, <2>4
  <2>6. E(k).type = "content_block_stop" /\ E(k).index = B(k)  BY DEF Event
  <2> HIDE DEF V, B, E, g
  <2> QED BY <2>2, <2>3, <2>5, <2>6 DEF Move
<1> HIDE DEF g, E, V, first, last
<1>8. \A k \in 1..Len(stops) : Move(stops[k], g[k - 1], g[k])  BY <1>5, <1>7
<1>9. Path(first, stops, last)
  <2> HIDE DEF stops
  <2> QED BY <1>5, <1>6, <1>8 DEF Path
<1> QED BY <1>5, <1>9 DEF first, last, E

\* The end of a message: every block is ended, then the message.
LEMMA FinishedPath ==
  ASSUME NEW t \in Translators, Sound(t), NEW reason
  PROVE  \E w : Path(View(t), Finished(t, reason).out, w)
<1> DEFINE bad == \E i \in Seen(t) : ~WholeArguments(t.tools[i]) \/ Incomplete(t.tools[i])
           a == TextEnd(t)
           b == [k \in 1..Len(t.order) |-> Event("content_block_stop", t.tools[t.order[k]].block, "tool_use")]
           x == StopDelta(reason)
           y == Plain("message_stop")
           e == <<x, y>>
           u == [t EXCEPT !.ended = TRUE, !.text = NoBlock]
           first == [open |-> {t.tools[i].block : i \in Used(t)}, next |-> t.next]
           last == [open |-> {}, next |-> t.next]
<1>1. CASE bad
  <2>1. Finished(t, reason) = Step([t EXCEPT !.ended = TRUE], <<Plain("error")>>, FALSE)  BY <1>1 DEF Finished
  <2>2. Finished(t, reason).out = <<Plain("error")>>  BY <2>1 DEF Step
  <2> QED BY <2>2, ErrorPath
<1>2. CASE ~bad
  <2>1. Finished(t, reason) = Step(u, a \o b \o e, FALSE)  BY <1>2 DEF Finished, TextEnd
  <2>2. Finished(t, reason).out = (a \o b) \o e
    <3> HIDE DEF a, b, e, u
    <3> QED BY <2>1 DEF Step
  <2>3. Path(View(t), a, first) /\ IsSeq(a)  BY TextEndPath
  <2>4. Path(first, b, last) /\ IsSeq(b)  BY StopsPath
  <2>5. Path(last, e, last) /\ IsSeq(e)
    <3>1. x.type = "message_delta" /\ y.type = "message_stop"  BY DEF StopDelta, Plain, Event
    <3>2. last.open = {}  OBVIOUS
    <3> DEFINE g == [n \in 0..2 |-> last]
    <3>3. g[0] = last /\ g[1] = last /\ g[2] = last  OBVIOUS
    <3> HIDE DEF x, y, last, g
    <3>4. Move(x, last, last) /\ Move(y, last, last)  BY <3>1, <3>2 DEF Move, BlockEvents
    <3>5. Len(e) = 2 /\ e[1] = x /\ e[2] = y /\ e \in Seq({x, y})  OBVIOUS
    <3> HIDE DEF e
    <3>6. \A k \in 1..Len(e) : (k = 1 /\ k - 1 = 0) \/ (k = 2 /\ k - 1 = 1)  BY <3>5
    <3>7. \A k \in 1..Len(e) : Move(e[k], g[k - 1], g[k])  BY <3>3, <3>4, <3>5, <3>6
    <3> QED BY <3>3, <3>5, <3>7 DEF Path, IsSeq
  <2> HIDE DEF a, b, e, first, last
  <2>6. Path(View(t), a \o b, last) /\ IsSeq(a \o b)  BY <2>3, <2>4, PathConcat, ConcatSeqs
  <2>7. Path(View(t), (a \o b) \o e, last)  BY <2>5, <2>6, PathConcat
  <2> QED BY <2>2, <2>7
<1> QED BY <1>1, <1>2

\* The translator gives up.
LEMMA QuitPath ==
  ASSUME NEW t \in Translators
  PROVE  Path(View(t), Quit(t, <<>>).out, View(t))
<1>1. Quit(t, <<>>).out = <<Plain("error")>>  BY QuitTyped DEF Failing
<1> QED BY <1>1, ErrorPath

\* The source has ended or said [DONE].
LEMMA ConcludedPath ==
  ASSUME NEW t \in Translators, Sound(t), NEW broken \in BOOLEAN
  PROVE  \E w : Path(View(t), Concluded(t, broken).out, w)
<1> DEFINE reason == IF ~t.finish /\ t.order # <<>> THEN "tool_use" ELSE "end_turn"
           quits == broken \/ ~t.started \/ (~t.done /\ ~t.finish)
<1>1. CASE quits
  <2> Concluded(t, broken) = Quit(t, <<>>)  BY <1>1 DEF Concluded
  <2> QED BY QuitPath
<1>2. CASE ~quits
  <2>1. Concluded(t, broken) = Finished(t, reason)  BY <1>2 DEF Concluded
  <2> HIDE DEF reason
  <2> QED BY <2>1, FinishedPath
<1> QED BY <1>1, <1>2

\* A frame of an OpenAI stream.
LEMMA TranslatedPath ==
  ASSUME NEW t \in Translators, Sound(t), NEW c, c.type = "choices" => c \in Completions
  PROVE  LET s == Translated(t, c)
         IN (\E w : Path(View(t), s.out, w)) /\ (~s.failed => Traced(t, s))
<1> DEFINE s == Translated(t, c)
<1>1. CASE c.type = "choices"
  <2>1. s = ProcessChunk(t, c)  BY <1>1 DEF Translated
  <2>2. Traced(t, ProcessChunk(t, c))  BY <1>1, ChunkTraced
  <2> HIDE DEF s
  <2>3. Traced(t, s)  BY <2>1, <2>2
  <2>4. \E w : Path(View(t), s.out, w)  BY <2>3 DEF Traced
  <2> QED BY <2>3, <2>4 DEF s
<1>2. CASE c.type = "done"
  <2> DEFINE u == [t EXCEPT !.done = TRUE]
  <2>1. s = Step(u, <<>>, FALSE)  BY <1>2 DEF Translated
  <2>2. u \in Translators /\ u.text = t.text /\ u.next = t.next /\ u.tools = t.tools /\ u.order = t.order
    BY DEF Translators
  <2>3. <<>> \in Seq(Content)  OBVIOUS
  <2> HIDE DEF s, u
  <2>4. View(u) = View(t) /\ Sound(u)  BY <2>2, SameView
  <2>5. s.t = u /\ s.out = <<>> /\ ~s.failed /\ s \in Steps  BY <2>1, <2>2, <2>3 DEF Step, Steps
  <2>6. Path(View(t), s.out, View(s.t))  BY <2>4, <2>5, PathNone
  <2> QED BY <2>4, <2>5, <2>6 DEF Traced, s
<1>3. CASE c.type = "comment"
  <2>1. s = Step(t, <<>>, FALSE)  BY <1>3 DEF Translated
  <2>2. <<>> \in Seq(Content)  OBVIOUS
  <2> HIDE DEF s
  <2>3. s.t = t /\ s.out = <<>> /\ ~s.failed /\ s \in Steps  BY <2>1, <2>2 DEF Step, Steps
  <2>4. Path(View(t), s.out, View(s.t))  BY <2>3, PathNone
  <2> QED BY <2>3, <2>4 DEF Traced, s
<1>4. CASE c.type \notin {"choices", "done", "comment"}
  <2>1. s = Quit(t, <<>>)  BY <1>4 DEF Translated
  <2>2. s.failed  BY <2>1 DEF Quit, Step
  <2>3. Path(View(t), s.out, View(t))  BY <2>1, QuitPath
  <2> HIDE DEF s
  <2> QED BY <2>2, <2>3 DEF s
<1> QED BY <1>1, <1>2, <1>3, <1>4

\* What the filter is given of it.
LEMMA FedPath ==
  ASSUME NEW t \in Translators, Sound(t), NEW c, c.type = "choices" => c \in Completions
  PROVE  LET e == Ran(t, c)
         IN \E w : /\ Path(View(t), Fed(t, c), w)
                   /\ ~e.failed /\ ~e.t.ended => w = View(e.t) /\ Sound(e.t)
<1> DEFINE s == Translated(t, c)
           more == ~s.failed /\ s.t.done
           e == Concluded(s.t, FALSE)
           r == Ran(t, c)
           out == Fed(t, c)
<1> SUFFICES \E w : Path(View(t), out, w) /\ (~r.failed /\ ~r.t.ended => w = View(r.t) /\ Sound(r.t))
  OBVIOUS
<1>1. (\E w : Path(View(t), s.out, w)) /\ (~s.failed => Traced(t, s))  BY TranslatedPath
<1>2. CASE ~more
  <2>1. r = s /\ out = s.out  BY <1>2 DEF Ran, Fed
  <2> HIDE DEF r, out, s
  <2>2. CASE s.failed  BY <1>1, <2>1, <2>2
  <2>3. CASE ~s.failed  BY <1>1, <2>1, <2>3 DEF Traced
  <2> QED BY <2>2, <2>3
<1>3. CASE more
  <2>1. r = e /\ (out = s.out \/ out = s.out \o e.out)  BY <1>3 DEF Ran, Fed
  <2>2. Traced(t, s)  BY <1>1, <1>3
  <2> HIDE DEF r, out, s
  <2>3. /\ s.t \in Translators /\ Sound(s.t) /\ IsSeq(s.out) /\ Path(View(t), s.out, View(s.t))
    BY <1>3, <2>2 DEF Traced, Steps, IsSeq
  <2>4. \E w : Path(View(s.t), e.out, w)  BY <2>3, ConcludedPath
  <2>5. Yields(e, e.out, TRUE) /\ e.t.ended  BY <2>3, ConcludedYields
  <2> HIDE DEF e
  <2>6. IsSeq(e.out)  BY <2>5 DEF Yields, Lacks
  <2>7. \E w : Path(View(t), out, w)
    <3>1. CASE out = s.out  BY <2>3, <3>1
    <3>2. CASE out = s.out \o e.out
      <4> PICK w : Path(View(s.t), e.out, w)  BY <2>4
      <4> QED BY <2>3, <2>6, <3>2, PathConcat
    <3> QED BY <2>1, <3>1, <3>2
  <2> QED BY <2>1, <2>5, <2>7
<1> QED BY <1>2, <1>3

-----------------------------------------------------------------------------
(* The pipeline keeps the form *)

\* The filter's own ending is an error event or nothing.
LEMMA EndingForms ==
  ASSUME NEW f, NEW c, IsClient(c), Safe(c)
  PROVE  LET z == SourceEnded(f)
             d == Received(c, z.out)
         IN Safe(d) /\ (Even(c) => Even(d)) /\ (z.out = <<>> \/ (\E x : z.out = <<x>>))
<1> DEFINE z == SourceEnded(f)
           d == Received(c, z.out)
           e == Plain("error")
<1>1. Received(c, <<>>) = c /\ Received(c, <<e>>) = Receive(c, e)  BY ReceivedNone, ReceivedOne
<1>2. z.out = <<>> \/ z.out = <<e>>  BY DEF SourceEnded, Out
<1>3. e.type = "error"  BY PlainTyped
<1>4. LET q == Receive(c, e)
      IN /\ q.late = (c.late \/ ((c.complete \/ c.failed) /\ e.type \notin {"ping", "comment", "error"}))
         /\ e.type \notin BlockEvents => q.open = c.open /\ q.blocks = c.blocks /\ q.gap = c.gap /\ q.stray = c.stray
  BY ReceiveBlocks
<1>5. Receive(c, e).complete = (c.complete \/ e.type = "message_stop")  BY ReceiveTyped
<1> HIDE DEF z, e
<1>6. CASE z.out = <<>>
  <2> d = c  BY <1>1, <1>6
  <2> QED BY <1>6 DEF z
<1>7. CASE z.out = <<e>>
  <2>1. d = Receive(c, e)  BY <1>1, <1>7
  <2> HIDE DEF d
  <2>2. d.late = c.late /\ d.gap = c.gap /\ d.open = c.open /\ d.stray = c.stray
    BY <1>3, <1>4, <2>1 DEF BlockEvents, IsClient
  <2>3. d.complete = c.complete  BY <1>3, <1>5, <2>1 DEF IsClient
  <2>4. Safe(d) /\ (Even(c) => Even(d))  BY <2>2, <2>3 DEF Safe, Even
  <2> QED BY <1>7, <2>4 DEF z, d
<1> QED BY <1>2, <1>6, <1>7

\* What is shown of a step, with the filter's own ending.
LEMMA ShownForms ==
  ASSUME NEW c, NEW r, IsSeq(r.out), IsClient(Received(c, r.out)), Safe(Received(c, r.out)), NEW over \in BOOLEAN
  PROVE  LET D == Received(c, r.out \o Shown(r, over).out)
         IN Safe(D) /\ (Even(Received(c, r.out)) => Even(D))
<1> DEFINE z == Shown(r, over)
           w == SourceEnded(r.f)
           d == Received(c, r.out)
           D == Received(c, r.out \o z.out)
<1>1. CASE over /\ ~r.f.failed
  <2>1. z = w  BY <1>1 DEF Shown
  <2>2. IsClient(d) /\ Safe(d)  OBVIOUS
  <2> DEFINE f == r.f
  <2> HIDE DEF d, f
  <2>3. LET x == SourceEnded(f)
            q == Received(d, x.out)
        IN Safe(q) /\ (Even(d) => Even(q)) /\ (x.out = <<>> \/ (\E y : x.out = <<y>>))
    BY <2>2, EndingForms
  <2>4. Safe(Received(d, w.out)) /\ (Even(d) => Even(Received(d, w.out))) /\ (w.out = <<>> \/ (\E y : w.out = <<y>>))
    BY <2>3 DEF f
  <2> HIDE DEF w
  <2> DEFINE o == r.out
             y == w.out
  <2>5. IsSeq(o) /\ (y = <<>> \/ (\E v : y = <<v>>))  BY <2>4
  <2> HIDE DEF o, y
  <2>6. Received(c, o \o y) = Received(Received(c, o), y)  BY <2>5, ReceivedAdds
  <2>7. D = Received(d, w.out)  BY <2>1, <2>6 DEF o, y, d
  <2> HIDE DEF D
  <2> QED BY <2>4, <2>7 DEF d, D
<1>2. CASE ~(over /\ ~r.f.failed)
  <2>1. z = Out(r.f, <<>>)  BY <1>2 DEF Shown
  <2>2. z.out = <<>>  BY <2>1 DEF Out
  <2> HIDE DEF z
  <2>3. r.out \o z.out = r.out  BY <2>2, ConcatEmptySeq DEF IsSeq
  <2>4. D = d  BY <2>3
  <2> QED BY <2>4 DEF z
<1> QED BY <1>1, <1>2

\* A chunk that does not end the stream leaves no event to add.
LEMMA PipedGoesOn ==
  ASSUME OpenAI, NEW c, ~Piped(c).over, IsFilter(AllFiltered(fl, Fed(tr, c)).f), IsSeq(AllFiltered(fl, Fed(tr, c)).out)
  PROVE  LET r == AllFiltered(fl, Fed(tr, c))
             p == Piped(c)
         IN /\ ~Ran(tr, c).failed /\ ~Ran(tr, c).t.ended /\ ~r.f.failed
            /\ p.out = r.out /\ p.f.remap = r.f.remap /\ p.f.next = r.f.next /\ p.f.drop = r.f.drop
            /\ p.f.terminal = r.f.terminal /\ ~p.f.failed
<1> DEFINE e == Ran(tr, c)
           over == e.failed \/ e.t.ended
           r == AllFiltered(fl, Fed(tr, c))
           z == Shown(r, over)
           p == Piped(c)
<1>1. p.f = Marked(z.f, e) /\ p.out = r.out \o z.out /\ p.over = (over \/ r.f.failed)  BY PipedShape
<1>2. ~over /\ ~r.f.failed  BY <1>1
<1>3. z = Out(r.f, <<>>)  BY <1>2 DEF Shown
<1>4. IsFilter(r.f) /\ IsSeq(r.out)  OBVIOUS
<1> HIDE DEF r, p, z, e
<1>5. z.f = r.f /\ z.out = <<>>  BY <1>3 DEF Out
<1>6. p.out = r.out  BY <1>1, <1>4, <1>5, ConcatEmptySeq DEF IsSeq
<1> DEFINE f == r.f
           marks == f.protocolError \/ (e.t.ended /\ Says(e))
<1>7. p.f = [f EXCEPT !.protocolError = marks] /\ IsFilter(f)  BY <1>1, <1>4, <1>5 DEF Marked
<1> HIDE DEF f, marks
<1>8. p.f.remap = f.remap /\ p.f.next = f.next /\ p.f.drop = f.drop /\ p.f.terminal = f.terminal /\ p.f.failed = f.failed
  BY <1>7 DEF IsFilter
<1> QED BY <1>2, <1>6, <1>8 DEF f, r, p, e

\* What the filter is given of a chunk are events.
LEMMA FedEvents ==
  ASSUME NEW t \in Translators, NEW c, c.type = "choices" => c \in Completions
  PROVE  IsSeq(Fed(t, c)) /\ \A k \in 1..Len(Fed(t, c)) : IsEvent(Fed(t, c)[k])
<1>1. Yields(Ran(t, c), Fed(t, c), TRUE)  BY ChunkYields
<1> QED BY <1>1 DEF Yields, Lacks

\* One chunk: what the client is sent keeps its form, and is in step with the
\* translator while the stream goes on.
LEMMA PipedTracks ==
  ASSUME Typed, OpenAI, NEW c \in Incoming, Sound(tr), Safe(client), Even(client),
         Numbered(fl, client), Tracks(fl, client, View(tr))
  PROVE  LET p == Piped(c)
             d == Received(client, p.out)
         IN /\ Safe(d) /\ Even(d)
            /\ ~p.over => ~p.f.failed /\ Numbered(p.f, d) /\ Tracks(p.f, d, View(p.t))
<1> DEFINE e == Ran(tr, c)
           s == Fed(tr, c)
           over == e.failed \/ e.t.ended
           r == AllFiltered(fl, s)
           p == Piped(c)
           d == Received(client, p.out)
           q == Received(client, r.out)
<1>0. PICK o \in BOOLEAN : o = over  OBVIOUS
<1>1. c.type = "choices" => c \in Completions  BY ReadTyped
<1>2. tr \in Translators /\ IsFilter(fl) /\ IsClient(client)  BY DEF Typed
<1>3. IsSeq(s) /\ \A k \in 1..Len(s) : IsEvent(s[k])  BY <1>1, <1>2, FedEvents
<1>4. PICK w : Path(View(tr), s, w) /\ (~e.failed /\ ~e.t.ended => w = View(e.t) /\ Sound(e.t))
  <2>1. LET x == Ran(tr, c)
        IN \E v : Path(View(tr), Fed(tr, c), v) /\ (~x.failed /\ ~x.t.ended => v = View(x.t) /\ Sound(x.t))
    BY <1>1, <1>2, FedPath
  <2> QED BY <2>1
<1>5. /\ p.t = e.t /\ p.f = Marked(Shown(r, over).f, e) /\ p.out = r.out \o Shown(r, over).out
      /\ p.over = (over \/ r.f.failed)
  BY PipedShape
<1>6. /\ IsFilter(r.f) /\ IsClient(q) /\ IsSeq(r.out) /\ Safe(q) /\ Even(q)
      /\ r.f.failed \/ (Numbered(r.f, q) /\ Tracks(r.f, q, w))
  <2> HIDE DEF s
  <2>1. LET x == AllFiltered(fl, s)
            y == Received(client, x.out)
        IN /\ IsFilter(x.f) /\ IsClient(y) /\ IsSeq(x.out) /\ Safe(y) /\ Even(y)
           /\ x.f.failed \/ (Numbered(x.f, y) /\ Tracks(x.f, y, w))
    BY <1>2, <1>3, <1>4, PathTracks
  <2> QED BY <2>1
<1>7. Safe(d) /\ Even(d)
  <2> HIDE DEF r, e
  <2>1. p.out = r.out \o Shown(r, o).out  BY <1>0, <1>5
  <2>2. Safe(Received(client, r.out \o Shown(r, o).out)) /\ Even(Received(client, r.out \o Shown(r, o).out))
    BY <1>6, ShownForms
  <2> QED BY <2>1, <2>2
<1>8. ASSUME ~p.over PROVE ~p.f.failed /\ Numbered(p.f, d) /\ Tracks(p.f, d, View(p.t))
  <2>1. /\ ~e.failed /\ ~e.t.ended /\ ~r.f.failed
        /\ p.out = r.out /\ p.f.remap = r.f.remap /\ p.f.next = r.f.next /\ p.f.drop = r.f.drop
        /\ p.f.terminal = r.f.terminal /\ ~p.f.failed
    BY <1>6, <1>8, PipedGoesOn
  <2> HIDE DEF e, r, p
  <2>2. d = q /\ w = View(p.t)  BY <1>4, <1>5, <2>1
  <2> HIDE DEF d, q
  <2>3. Numbered(r.f, q) /\ Tracks(r.f, q, w)  BY <1>6, <2>1
  <2>4. Numbered(p.f, q)  BY <2>1, <2>3 DEF Numbered
  <2>5. Tracks(p.f, q, w)  BY <2>1, <2>3 DEF Tracks
  <2> QED BY <2>1, <2>2, <2>4, <2>5
<1> QED BY <1>7, <1>8

\* A chunk that does not end the stream leaves the translator sound, also when
\* nobody reads what it writes.
LEMMA PipedSound ==
  ASSUME Typed, OpenAI, NEW c \in Incoming, Sound(tr), ~Piped(c).over
  PROVE  Sound(Piped(c).t) /\ ~Piped(c).f.failed
<1> DEFINE e == Ran(tr, c)
           s == Fed(tr, c)
           r == AllFiltered(fl, s)
<1>1. c.type = "choices" => c \in Completions  BY ReadTyped
<1>2. tr \in Translators /\ IsFilter(fl) /\ IsClient(client)  BY DEF Typed
<1>3. IsSeq(s) /\ \A k \in 1..Len(s) : IsEvent(s[k])  BY <1>1, <1>2, FedEvents
<1>4. IsFilter(r.f) /\ IsSeq(r.out)
  <2> HIDE DEF s
  <2> QED BY <1>2, <1>3, AllFilteredFollows
<1>5. ~e.failed /\ ~e.t.ended /\ ~Piped(c).f.failed  BY <1>4, PipedGoesOn
<1>6. ~e.failed /\ ~e.t.ended => Sound(e.t)
  <2>1. LET x == Ran(tr, c)
        IN \E v : Path(View(tr), Fed(tr, c), v) /\ (~x.failed /\ ~x.t.ended => v = View(x.t) /\ Sound(x.t))
    BY <1>1, <1>2, FedPath
  <2> QED BY <2>1
<1>7. Piped(c).t = e.t  BY PipedShape
<1> QED BY <1>5, <1>6, <1>7

\* The same of an Anthropic frame.
LEMMA PipedNumbers ==
  ASSUME Typed, ~OpenAI, NEW c \in Incoming
  PROVE  LET p == Piped(c)
             d == Received(client, p.out)
         IN /\ p.over = p.f.failed
            /\ Safe(client) /\ Numbered(fl, client) => Safe(d) /\ (p.over \/ Numbered(p.f, d))
<1> DEFINE r == Filtered(fl, c)
           p == Piped(c)
<1>1. IsEvent(c) /\ IsFilter(fl) /\ IsClient(client)  BY ReadTyped DEF Typed
<1>2. Piped(c) = [t |-> tr, f |-> r.f, out |-> r.out, over |-> r.f.failed, err |-> r.f.failed]
  BY DEF Piped
<1>3. c.type \in BlockEvents => c.index \in Blocks  BY StreamAssumption DEF Incoming
<1>4. ASSUME Safe(client), Numbered(fl, client)
      PROVE  Safe(Received(client, r.out)) /\ (r.f.failed \/ Numbered(r.f, Received(client, r.out)))
  BY <1>1, <1>3, <1>4, FilteredNumbers
<1> HIDE DEF r, p
<1>5. p.f = r.f /\ p.out = r.out /\ p.over = r.f.failed  BY <1>2 DEF p
<1> QED BY <1>4, <1>5 DEF p

\* One frame through the pipeline keeps the form of what the client is sent.
LEMMA CarryForms ==
  ASSUME IInv, Formed, pc = "streaming", NEW c \in Incoming, Carry(c), UNCHANGED <<format, gone, bypass>>
  PROVE  Formed'
<1>0. (OpenAI' <=> OpenAI) /\ gone' = gone /\ bypass' = bypass  BY DEF OpenAI
<1>1. Typed /\ IsClient(client)  BY DEF IInv, Typed
<1>2. /\ ~bypass => Safe(client) /\ (OpenAI => Even(client))
      /\ ~fl.failed
      /\ OpenAI => Sound(tr)
      /\ ~bypass /\ ~gone => Numbered(fl, client) /\ (OpenAI => Tracks(fl, client, View(tr)))
  BY DEF Formed
<1>3. CASE bypass
  <2>1. ~OpenAI  BY <1>3 DEF IInv, CopiesWhole, OpenAI
  <2>2. fl' = fl  BY <1>3 DEF Carry
  <2> QED BY <1>0, <1>2, <1>3, <2>1, <2>2 DEF Formed
<1>4. CASE ~bypass
  <2> DEFINE p == Piped(c)
             d == Received(client, p.out)
  <2>1. tr' = p.t /\ fl' = p.f /\ client' = (IF gone THEN client ELSE d) /\ pc' = IF p.over THEN "ended" ELSE pc
    BY <1>4 DEF Carry, Tell
  <2>2. CASE ~OpenAI
    <3>1. /\ p.over = p.f.failed
          /\ Safe(client) /\ Numbered(fl, client) => Safe(d) /\ (p.over \/ Numbered(p.f, d))
      BY <1>1, <2>2, PipedNumbers
    <3> HIDE DEF p, d
    <3>2. Safe(client')  BY <1>2, <1>4, <2>1, <3>1
    <3>3. ASSUME pc' = "streaming" PROVE ~fl'.failed /\ (~gone => Numbered(fl', client'))
      <4>1. ~p.over  BY <2>1, <3>3
      <4> QED BY <1>2, <1>4, <2>1, <3>1, <4>1
    <3> QED BY <1>0, <2>2, <3>2, <3>3 DEF Formed
  <2>3. CASE OpenAI
    <3>1. ASSUME ~gone
          PROVE  /\ Safe(d) /\ Even(d)
                 /\ ~p.over => ~p.f.failed /\ Numbered(p.f, d) /\ Tracks(p.f, d, View(p.t))
      BY <1>1, <1>2, <1>4, <2>3, <3>1, PipedTracks
    <3>2. ~p.over => Sound(p.t) /\ ~p.f.failed  BY <1>1, <1>2, <2>3, PipedSound
    <3> HIDE DEF p, d
    <3>3. Safe(client') /\ Even(client')  BY <1>2, <1>4, <2>1, <2>3, <3>1
    <3>4. ASSUME pc' = "streaming"
          PROVE  ~fl'.failed /\ Sound(tr') /\ (~gone => Numbered(fl', client') /\ Tracks(fl', client', View(tr')))
      <4>1. ~p.over  BY <2>1, <3>4
      <4> QED BY <2>1, <3>1, <3>2, <4>1
    <3> QED BY <1>0, <2>3, <3>3, <3>4 DEF Formed
  <2> QED BY <2>2, <2>3
<1> QED BY <1>3, <1>4

\* A step that sends the client nothing and passes nothing.
LEMMA QuietForms ==
  ASSUME Formed, UNCHANGED <<bypass, client, format>>,
         pc' # "streaming" \/ (UNCHANGED <<pc, fl, tr>> /\ (gone => gone'))
  PROVE  Formed'
<1>1. OpenAI' <=> OpenAI  BY DEF OpenAI
<1> QED BY <1>1 DEF Formed

\* Nothing was sent, nothing is open.
LEMMA FreshForms ==
  /\ Safe(NewClient) /\ Even(NewClient) /\ ~NewFilter.failed
  /\ Sound(NoStream) /\ Numbered(NewFilter, NewClient) /\ Tracks(NewFilter, NewClient, View(NoStream))
<1>1. Safe(NewClient) /\ Even(NewClient) /\ ~NewFilter.failed  BY DEF Safe, Even, NewClient, NewFilter
<1> DEFINE t == NoStream
<1>2. /\ t.next = 0 /\ t.text = NoBlock /\ t.order = <<>>
      /\ \A i \in Tools : t.tools[i].block = NoBlock /\ ~t.tools[i].seen
  BY DEF NoStream, NoTool
<1> HIDE DEF t
<1>3. Used(t) = {} /\ Seen(t) = {} /\ Len(t.order) = 0  BY <1>2 DEF Used, Seen
<1>4. Sound(t)
  <2>1. IsFiniteSet({}) /\ Cardinality({}) = 0 /\ MaxToolCalls \in Nat  BY FS_EmptySet, TranslationAssumption
  <2>2. t.next <= 2 * Cardinality(Used(t)) + (IF t.text = NoBlock THEN 0 ELSE 1)  BY <1>2, <1>3, <2>1
  <2>3. 1..Len(t.order) = {}  BY <1>3
  <2> QED BY <1>2, <1>3, <2>1, <2>2, <2>3 DEF Sound
<1>5. View(t).open = {} /\ View(t).next = 0  BY <1>2, <1>3 DEF View
<1>6. /\ NewFilter.remap = [i \in Blocks |-> Unmapped] /\ NewFilter.next = 0 /\ NewFilter.drop = {}
      /\ NewClient.open = {} /\ NewClient.blocks = 0 /\ ~NewClient.complete /\ ~NewClient.failed
  BY DEF NewFilter, NewClient
<1>7. Numbered(NewFilter, NewClient)  BY <1>6 DEF Numbered, Unmapped
<1>8. Tracks(NewFilter, NewClient, View(t))
  <2> DEFINE v == View(t)
  <2>1. v.open = {} /\ v.next = 0  BY <1>5
  <2> HIDE DEF v
  <2>2. Tracks(NewFilter, NewClient, v)  BY <1>6, <2>1 DEF Tracks
  <2> QED BY <2>2 DEF v
<1> QED BY <1>1, <1>4, <1>7, <1>8 DEF t

\* The end of the source.
LEMMA StreamEndsForms ==
  ASSUME IInv, Formed, StreamEnds
  PROVE  Formed'
<1> DEFINE s == IF OpenAI THEN Concluded(tr, Broken) ELSE Step(tr, <<>>, Broken)
           r == AllFiltered(fl, s.out)
           x == SourceEnded(r.f)
           z == IF r.f.failed THEN r ELSE Out(x.f, r.out \o x.out)
           d == Received(client, z.out)
           q == Received(client, r.out)
<1>1. /\ pc = "streaming" /\ pc' = "ended" /\ UNCHANGED <<format, gone, bypass>>
      /\ client' = IF bypass \/ gone THEN client ELSE d
  BY DEF StreamEnds, Tell, route, result
<1>2. OpenAI' <=> OpenAI  BY <1>1 DEF OpenAI
<1>3. /\ ~bypass => Safe(client) /\ (OpenAI => Even(client))
      /\ OpenAI => Sound(tr)
      /\ ~bypass /\ ~gone => Numbered(fl, client) /\ (OpenAI => Tracks(fl, client, View(tr)))
  BY <1>1 DEF Formed
<1>4. Typed /\ tr \in Translators /\ IsFilter(fl) /\ IsClient(client)  BY DEF IInv, Typed
<1>5. ASSUME ~bypass, ~gone
      PROVE  /\ IsSeq(r.out) /\ IsClient(q) /\ Safe(q) /\ (OpenAI => Even(q))
  <2>1. CASE ~OpenAI
    <3>1. s = Step(tr, <<>>, Broken)  BY <2>1
    <3>2. s.out = <<>>  BY <3>1 DEF Step
    <3>3. r = Out(fl, <<>>)  BY <3>2, FilteredNone
    <3> HIDE DEF r, s
    <3>4. r.out = <<>> /\ IsSeq(r.out)  BY <3>3, EmptySeq DEF Out, IsSeq
    <3>5. q = client  BY <3>4, ReceivedNone
    <3> QED BY <1>3, <1>4, <1>5, <2>1, <3>4, <3>5
  <2>2. CASE OpenAI
    <3>1. PICK b \in BOOLEAN : b = Broken  BY DEF Broken
    <3>2. s = Concluded(tr, b)  BY <2>2, <3>1
    <3>3. \E w : Path(View(tr), Concluded(tr, b).out, w)  BY <1>3, <1>4, <2>2, ConcludedPath
    <3>4. LET e == Concluded(tr, b) IN Yields(e, e.out, TRUE) /\ e.t.ended  BY <1>4, ConcludedYields
    <3> HIDE DEF s
    <3>5. IsSeq(s.out) /\ \A k \in 1..Len(s.out) : IsEvent(s.out[k])  BY <3>2, <3>4 DEF Yields, Lacks
    <3>6. PICK w : Path(View(tr), s.out, w)  BY <3>2, <3>3
    <3> DEFINE o == s.out
    <3> HIDE DEF o
    <3>7. LET y == AllFiltered(fl, o)
              e == Received(client, y.out)
          IN IsFilter(y.f) /\ IsClient(e) /\ IsSeq(y.out) /\ Safe(e) /\ Even(e)
      <4>1. IsSeq(o) /\ (\A k \in 1..Len(o) : IsEvent(o[k])) /\ Path(View(tr), o, w)  BY <3>5, <3>6 DEF o
      <4> QED BY <1>3, <1>4, <1>5, <2>2, <4>1, PathTracks
    <3> QED BY <3>7 DEF o
  <2> QED BY <2>1, <2>2
<1>6. ASSUME ~bypass, ~gone PROVE Safe(d) /\ (OpenAI => Even(d))
  <2>1. z.out = r.out \o Shown(r, TRUE).out
    <3>1. CASE r.f.failed
      <4> DEFINE y == Shown(r, TRUE)
      <4>1. y = Out(r.f, <<>>) /\ z = r  BY <3>1 DEF Shown
      <4>2. IsSeq(r.out)  BY <1>5, <1>6
      <4> HIDE DEF z, r, y
      <4>3. y.out = <<>>  BY <4>1 DEF Out
      <4>4. r.out \o y.out = r.out  BY <4>2, <4>3, ConcatEmptySeq DEF IsSeq
      <4> QED BY <4>1, <4>4 DEF y
    <3>2. CASE ~r.f.failed
      <4>1. Shown(r, TRUE) = x /\ z = Out(x.f, r.out \o x.out)  BY <3>2 DEF Shown
      <4> HIDE DEF z, x, r
      <4>2. z.out = r.out \o x.out  BY <4>1 DEF Out
      <4> QED BY <4>1, <4>2
    <3> QED BY <3>1, <3>2
  <2>2. IsSeq(r.out) /\ IsClient(q) /\ Safe(q) /\ (OpenAI => Even(q))  BY <1>5, <1>6
  <2> HIDE DEF r, z, x
  <2>3. LET D == Received(client, r.out \o Shown(r, TRUE).out)
        IN Safe(D) /\ (Even(Received(client, r.out)) => Even(D))
    BY <2>2, ShownForms
  <2> QED BY <2>1, <2>2, <2>3
<1> HIDE DEF d
<1>7. ~bypass => Safe(client') /\ (OpenAI => Even(client'))  BY <1>1, <1>3, <1>6
<1> QED BY <1>1, <1>2, <1>7 DEF Formed

\* Every action keeps the form.
LEMMA Forming == IInv /\ Formed /\ [Next]_vars => Formed'
<1> SUFFICES ASSUME IInv, Formed, [Next]_vars PROVE Formed'
  OBVIOUS
<1> USE DEF route, upstream, pipe, result
<1> DEFINE quiet == UNCHANGED <<bypass, client, format>> /\ (pc' # "streaming" \/ (UNCHANGED <<pc, fl, tr>> /\ (gone => gone')))
<1>0. quiet => Formed'  BY QuietForms
<1>1. CASE UNCHANGED vars
  <2> quiet  BY <1>1 DEF vars
  <2> QED BY <1>0
<1>2. ASSUME Upstream PROVE Formed'
  <2> quiet  BY <1>2 DEF Upstream, DevinSends, DevinEnds, Answer, SourceStops
  <2> QED BY <1>0
<1>3. ASSUME Deadlines \/ ClientLeaves \/ (\E w : Waits(w)) PROVE Formed'
  <2> quiet
    BY <1>3 DEF Deadlines, HeaderTimeout, PrimeTimeout, ReadTimeout, IdleTimeout, WatchdogExpires,
                ClientLeaves, Waits
  <2> QED BY <1>0
<1>4. ASSUME NEW c \in Wired, PrimeFrame(c) PROVE Formed'
  <2>1. client = NewClient  BY <1>4 DEF IInv, Fresh, PrimeFrame
  <2>2. pc' # "streaming" /\ client' = client  BY <1>4 DEF PrimeFrame
  <2> QED BY <2>1, <2>2, FreshForms DEF Formed
<1>5. ASSUME NEW c \in Wired, Deliver(c) PROVE Formed'
  <2>1. pc = "streaming" /\ Arrives(c, Changes) /\ Carry(c) /\ UNCHANGED <<format, gone, bypass>>  BY <1>5 DEF Deliver
  <2>2. c \in Incoming  BY <2>1, ArrivesKeeps
  <2> QED BY <2>1, <2>2, CarryForms
<1>6. ASSUME Gateway PROVE Formed'
  <2>1. CASE Cancelled \/ ReturnHeaders \/ PrimeEnds
    <3> quiet  BY <2>1 DEF Cancelled, ReturnHeaders, PrimeEnds
    <3> QED BY <1>0
  <2>2. CASE Commit
    <3>1. fl = NewFilter /\ client = NewClient /\ tr = NoStream  BY <2>2 DEF Commit, IInv, Fresh
    <3>2. fl' = NewFilter /\ client' = NewClient /\ tr' = NoStream  BY <2>2, <3>1 DEF Commit
    <3> QED BY <3>2, FreshForms DEF Formed
  <2>3. ASSUME NEW b \in JSONBodies, BufferBody(b) PROVE Formed'
    <3> quiet  BY <2>3 DEF BufferBody
    <3> QED BY <1>0
  <2>4. CASE Replay
    <3>1. /\ pc = "streaming" /\ prefix # <<>> /\ Carry(Head(prefix)) /\ UNCHANGED <<format, gone, bypass>>
      BY <2>4 DEF Replay
    <3>2. Head(prefix) \in Incoming
      <4>1. prefix \in Seq(Incoming)  BY DEF IInv, Typed
      <4> QED BY <3>1, <4>1
    <3> DEFINE c == Head(prefix)
    <3> HIDE DEF c
    <3>3. c \in Incoming /\ Carry(c)  BY <3>1, <3>2 DEF c
    <3> QED BY <3>1, <3>3, CarryForms
  <2>5. CASE StreamEnds  BY <2>5, StreamEndsForms
  <2>6. ASSUME NEW l \in BOOLEAN, Judge(l) PROVE Formed'
    <3> quiet  BY <2>6 DEF Judge
    <3> QED BY <1>0
  <2> QED BY <1>6, <2>1, <2>2, <2>3, <2>4, <2>5, <2>6 DEF Gateway
<1>7. ASSUME Stopped PROVE Formed'  BY <1>1, <1>7 DEF Stopped
<1> HIDE DEF route, upstream, pipe, result
<1> QED BY <1>1, <1>2, <1>3, <1>4, <1>5, <1>6, <1>7 DEF Next

\* What the client is sent is a well-formed stream.
THEOREM AlwaysWellFormed == Spec => []WellFormed
<1>1. Init => Formed
  <2> SUFFICES ASSUME Init PROVE Formed
    OBVIOUS
  <2>1. pc = "headers" /\ client = NewClient  BY DEF Init
  <2> QED BY <2>1, FreshForms DEF Formed
<1>2. IInv /\ Formed /\ [Next]_vars => Formed'  BY Forming
<1>3. Formed => WellFormed  BY DEF Formed, WellFormed, Safe, Even
<1> QED BY <1>1, <1>2, <1>3, Invariantly, PTL DEF Spec
=============================================================================
