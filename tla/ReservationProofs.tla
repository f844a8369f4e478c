-------------------------- MODULE ReservationProofs --------------------------
(***************************************************************************)
(* Proofs about PaidBudget, for any set of processes, any finite set of    *)
(* attempts, any bounds and budget, a window and a lifetime of any length: *)
(* the upstream never charges more than the limit in one window, and an    *)
(* entry of the ledger gets smaller only by its attempt's settlement or    *)
(* once what the attempt cost has left the window.                         *)
(*                                                                         *)
(* Invariant (IInv): the ledger's charges fit the limit; while an attempt  *)
(* may still cost something its entry holds its whole bound, pending or    *)
(* dated so late that it outlives what the attempt can cost; and a cost    *)
(* inside the window is covered by its entry, pending or dated no earlier. *)
(*                                                                         *)
(* The sum of the ledger is a fold.  What is needed of it (it grows with   *)
(* its terms, and by the difference of one term) is proved by induction    *)
(* over the subsets of the attempts: of the subsets where a statement      *)
(* fails, one would be minimal.                                            *)
(***************************************************************************)
EXTENDS PaidBudget, AccountSelection, FiniteSetTheorems, SequenceTheorems,
        WellFoundedInduction, TLAPS

-----------------------------------------------------------------------------
(* Sums *)

\* The table SumFunction computes: the sums over the subsets of A.
Chosen(s) == CHOOSE x \in s : TRUE
IsTable(g, f, A) == g = [s \in SUBSET A |-> IF s = {} THEN 0 ELSE f[Chosen(s)] + g[s \ {Chosen(s)}]]
Table(f, A) == CHOOSE g : IsTable(g, f, A)

\* Among subsets of a finite set there is a minimal one: the induction of the
\* lemmas below.
LEMMA SubsetMinimum ==
  ASSUME NEW S, IsFiniteSet(S), NEW T, T \subseteq SUBSET S, T # {}
  PROVE  \E x \in T : \A y \in T : y \subseteq x => y = x
<1>1. IsWellFoundedOn(StrictSubsetOrdering(S), SUBSET S)
  BY FS_StrictSubsetOrderingWellFounded, FS_FiniteSubsetsOfFinite, Zenon
<1>2. PICK x \in T : \A y \in T : <<y, x>> \notin StrictSubsetOrdering(S)
  BY <1>1, WFMin, Zenon
<1>3. ASSUME NEW y \in T, y \subseteq x, y # x PROVE FALSE
  <2>1. <<y, x>> \in StrictSubsetOrdering(S)  BY <1>3 DEF StrictSubsetOrdering
  <2> QED BY <2>1, <1>2
<1> QED BY <1>3

\* A set without its chosen element is a strict subset.
LEMMA Smaller ==
  ASSUME NEW s, s # {}
  PROVE  Chosen(s) \in s /\ s \ {Chosen(s)} \subseteq s /\ s \ {Chosen(s)} # s
<1>1. Chosen(s) \in s  BY DEF Chosen
<1> QED BY <1>1

\* Two tables say the same of a set both have.
LEMMA TablesAgree ==
  ASSUME NEW S, IsFiniteSet(S), NEW f, NEW A \in SUBSET S, NEW B \in SUBSET A, NEW g, NEW h,
         IsTable(g, f, A), IsTable(h, f, B)
  PROVE  \A s \in SUBSET B : g[s] = h[s]
<1> DEFINE T == {s \in SUBSET B : g[s] # h[s]}
<1> SUFFICES ASSUME T # {} PROVE FALSE
  OBVIOUS
<1>1. PICK s \in T : \A y \in T : y \subseteq s => y = s
  <2> T \subseteq SUBSET S  OBVIOUS
  <2> HIDE DEF T
  <2> QED BY SubsetMinimum
<1> DEFINE r == s \ {Chosen(s)}
<1>2. s \in SUBSET A /\ s \in SUBSET B /\ g[s] # h[s]  OBVIOUS
<1>3. CASE s = {}  BY <1>2, <1>3 DEF IsTable
<1>4. CASE s # {}
  <2>1. r \subseteq s /\ r # s  BY <1>4, Smaller
  <2>2. r \notin T /\ r \in SUBSET B  BY <1>1, <2>1
  <2>3. g[r] = h[r]  BY <2>2
  <2>4. g[s] = f[Chosen(s)] + g[r] /\ h[s] = f[Chosen(s)] + h[r]  BY <1>2, <1>4 DEF IsTable
  <2> QED BY <1>2, <2>3, <2>4
<1> QED BY <1>3, <1>4

\* Every finite set has a table: one for a set is made of those of its strict
\* subsets.
LEMMA TableExists ==
  ASSUME NEW S, IsFiniteSet(S), NEW f
  PROVE  \A A \in SUBSET S : \E g : IsTable(g, f, A)
<1> DEFINE T == {A \in SUBSET S : \A g : ~IsTable(g, f, A)}
<1> SUFFICES ASSUME T # {} PROVE FALSE
  OBVIOUS
<1>1. PICK A \in T : \A y \in T : y \subseteq A => y = A
  <2> T \subseteq SUBSET S  OBVIOUS
  <2> HIDE DEF T
  <2> QED BY SubsetMinimum
<1>2. \A s \in SUBSET A : s # A => IsTable(Table(f, s), f, s)
  <2> SUFFICES ASSUME NEW s \in SUBSET A, s # A PROVE IsTable(Table(f, s), f, s)
    OBVIOUS
  <2>1. s \notin T /\ s \in SUBSET S  BY <1>1
  <2>2. \E g : IsTable(g, f, s)  BY <2>1
  <2> QED BY <2>2 DEF Table
<1> DEFINE rest(s) == s \ {Chosen(s)}
           g == [s \in SUBSET A |-> IF s = {} THEN 0 ELSE f[Chosen(s)] + Table(f, rest(s))[rest(s)]]
<1>3. ASSUME NEW s \in SUBSET A, s # {} PROVE Table(f, rest(s))[rest(s)] = g[rest(s)]
  <2> DEFINE t == rest(s)
  <2>1. t \in SUBSET A /\ t # A  BY <1>3, Smaller
  <2>2. IsTable(Table(f, t), f, t)  BY <1>2, <2>1
  <2>3. CASE t = {}  
     <3>1. Table(f, t)[t] = 0  BY <2>2, <2>3 DEF IsTable
     <3> QED BY <3>1, <2>3
  <2>4. CASE t # {}
    <3>1. rest(t) \in SUBSET t /\ rest(t) \in SUBSET A /\ rest(t) # A  BY <2>1, <2>4, Smaller
    <3>2. IsTable(Table(f, rest(t)), f, rest(t))  BY <1>2, <3>1
    <3>3. Table(f, t)[rest(t)] = Table(f, rest(t))[rest(t)]
      <4> DEFINE r == rest(t)
      <4>1. t \in SUBSET S /\ r \in SUBSET t /\ IsTable(Table(f, r), f, r)  BY <2>1, <3>1, <3>2
      <4> SUFFICES Table(f, t)[r] = Table(f, r)[r]
        OBVIOUS
      <4> HIDE DEF t, r
      <4>2. \A u \in SUBSET r : Table(f, t)[u] = Table(f, r)[u]  BY <2>2, <4>1, TablesAgree
      <4> QED BY <4>2
    <3>4. Table(f, t)[t] = f[Chosen(t)] + Table(f, t)[rest(t)]  BY <2>2, <2>4 DEF IsTable
    <3> QED BY <2>1, <2>4, <3>3, <3>4
  <2> QED BY <2>3, <2>4
<1>4. IsTable(g, f, A)
  <2> g = [s \in SUBSET A |-> IF s = {} THEN 0 ELSE f[Chosen(s)] + g[rest(s)]]
    BY <1>3
  <2> QED BY DEF IsTable
<1> QED BY <1>1, <1>4

\* What the fold computes is the table's last entry.
LEMMA SumUnfolds ==
  ASSUME NEW S, IsFiniteSet(S), NEW f, DOMAIN f = S
  PROVE  SumFunction(f) = Table(f, S)[S] /\ IsTable(Table(f, S), f, S)
<1>1. SumFunction(f) = Table(f, S)[S]
  BY DEF SumFunction, SumFunctionOnSet, FoldFunctionOnSet, MapThenFoldSet, Table, IsTable, Chosen
<1>2. \E g : IsTable(g, f, S)  BY TableExists
<1> QED BY <1>1, <1>2 DEF Table
\* A sum grows with its terms.
LEMMA SumGrows ==
  ASSUME NEW S, IsFiniteSet(S), NEW f \in [S -> Int], NEW g \in [S -> Int],
         \A a \in S : f[a] <= g[a]
  PROVE  SumFunction(f) \in Int /\ SumFunction(g) \in Int /\ SumFunction(f) <= SumFunction(g)
<1> DEFINE F == Table(f, S)
           G == Table(g, S)
           Adds(s) == F[s] \in Int /\ G[s] \in Int /\ F[s] <= G[s]
           T == {s \in SUBSET S : ~Adds(s)}
<1>1. /\ SumFunction(f) = F[S] /\ IsTable(F, f, S)
      /\ SumFunction(g) = G[S] /\ IsTable(G, g, S)
  BY SumUnfolds
<1> SUFFICES ASSUME T # {} PROVE FALSE
  BY <1>1
<1>2. PICK s \in T : \A y \in T : y \subseteq s => y = s
  <2> T \subseteq SUBSET S  OBVIOUS
  <2> HIDE DEF T
  <2> QED BY SubsetMinimum
<1> HIDE DEF F, G
<1>3. CASE s = {}  BY <1>1, <1>3 DEF IsTable
<1>4. CASE s # {}
  <2> DEFINE x == Chosen(s)
             r == s \ {Chosen(s)}
  <2>1. x \in S /\ r \in SUBSET S /\ r # s /\ r \subseteq s  BY <1>4, Smaller
  <2>2. Adds(r)  BY <1>2, <2>1
  <2>3. F[s] = f[x] + F[r] /\ G[s] = g[x] + G[r]  BY <1>1, <1>4 DEF IsTable
  <2>4. f[x] \in Int /\ g[x] \in Int /\ f[x] <= g[x]  BY <2>1
  <2> HIDE DEF x, r
  <2>5. Adds(s)  BY <2>2, <2>3, <2>4
  <2> QED BY <2>5
<1> QED BY <1>3, <1>4

\* When one term changes, the sum changes by as much.
LEMMA SumChanges ==
  ASSUME NEW S, IsFiniteSet(S), NEW f \in [S -> Int], NEW g \in [S -> Int], NEW a \in S,
         \A b \in S : b # a => g[b] = f[b]
  PROVE  SumFunction(g) = SumFunction(f) + (g[a] - f[a])
<1> DEFINE F == Table(f, S)
           G == Table(g, S)
           Adds(s) == F[s] \in Int /\ G[s] \in Int /\ G[s] = F[s] + IF a \in s THEN g[a] - f[a] ELSE 0
           T == {s \in SUBSET S : ~Adds(s)}
<1>1. /\ SumFunction(f) = F[S] /\ IsTable(F, f, S)
      /\ SumFunction(g) = G[S] /\ IsTable(G, g, S)
  BY SumUnfolds
<1> SUFFICES ASSUME T # {} PROVE FALSE
  BY <1>1
<1>2. PICK s \in T : \A y \in T : y \subseteq s => y = s
  <2> T \subseteq SUBSET S  OBVIOUS
  <2> HIDE DEF T
  <2> QED BY SubsetMinimum
<1> HIDE DEF F, G
<1>3. CASE s = {}  BY <1>1, <1>3 DEF IsTable
<1>4. CASE s # {}
  <2> DEFINE x == Chosen(s)
             r == s \ {Chosen(s)}
  <2>1. x \in S /\ x \in s /\ r \in SUBSET S /\ r # s /\ r \subseteq s  BY <1>4, Smaller
  <2>2. Adds(r)  BY <1>2, <2>1
  <2>3. F[s] = f[x] + F[r] /\ G[s] = g[x] + G[r]  BY <1>1, <1>4 DEF IsTable
  <2>4. f[x] \in Int /\ g[x] \in Int /\ (x # a => g[x] = f[x])  BY <2>1
  <2>5. (a \in s) <=> (a \in r \/ x = a)  BY <2>1
  <2>6. x = a => a \notin r  OBVIOUS
  <2> HIDE DEF x, r
  <2>7. Adds(s)  BY <2>2, <2>3, <2>4, <2>5, <2>6
  <2> QED BY <2>7
<1> QED BY <1>3, <1>4

\* A sum of zeros.
LEMMA SumOfNothing ==
  ASSUME NEW S, IsFiniteSet(S), NEW f, f = [a \in S |-> 0]
  PROVE  SumFunction(f) = 0
<1> DEFINE F == Table(f, S)
           T == {s \in SUBSET S : F[s] # 0}
<1>1. SumFunction(f) = F[S] /\ IsTable(F, f, S)  BY SumUnfolds
<1> SUFFICES ASSUME T # {} PROVE FALSE
  BY <1>1
<1>2. PICK s \in T : \A y \in T : y \subseteq s => y = s
  <2> T \subseteq SUBSET S  OBVIOUS
  <2> HIDE DEF T
  <2> QED BY SubsetMinimum
<1> HIDE DEF F
<1>3. CASE s = {}  BY <1>1, <1>3 DEF IsTable
<1>4. CASE s # {}
  <2>1. Chosen(s) \in S /\ s \ {Chosen(s)} \in SUBSET S /\ s \ {Chosen(s)} # s /\ s \ {Chosen(s)} \subseteq s
    BY <1>4, Smaller
  <2>2. F[s \ {Chosen(s)}] = 0  BY <1>2, <2>1
  <2>3. F[s] = f[Chosen(s)] + F[s \ {Chosen(s)}] /\ f[Chosen(s)] = 0  BY <1>1, <1>4, <2>1 DEF IsTable
  <2> QED BY <2>2, <2>3
<1> QED BY <1>3, <1>4

-----------------------------------------------------------------------------
(* The inductive invariant *)

\* No attempt is served for longer than its lifetime.
Clock == \A a \in Attempts : /\ sentAt[a] <= now
                             /\ pc[a] = "sent" => now <= sentAt[a] + Lifetime

\* What an attempt costs stays below its bound and falls into its lifetime.
Bounded == \A a \in Attempts : /\ cost[a] <= bound[a]
                               /\ pc[a] # "new" => bound[a] > 0
                               /\ cost[a] # 0 => costAt[a] <= now /\ costAt[a] <= sentAt[a] + Lifetime

Unused == \A a \in Attempts : pc[a] = "new" => cost[a] = 0 /\ ledger[a] = NoEntry

\* When an entry is dated, unless it is pending.
Dated == \A a \in Attempts :
  /\ ledger[a].kind = "none" => ledger[a].charge = 0
  /\ ledger[a].kind = "settled" => ledger[a].at >= sentAt[a] + (IF pc[a] = "over" THEN 0 ELSE Lifetime)

\* An attempt that may still cost something holds its whole bound.
Held == \A a \in Attempts :
  pc[a] \in {"sent", "orphan"} /\ now <= sentAt[a] + Lifetime =>
    ledger[a].kind # "none" /\ ledger[a].charge = bound[a]

\* A cost inside the window has an entry that leaves the ledger no earlier.
Covered == \A a \in Attempts :
  cost[a] = 0 \/ costAt[a] <= now - Window
    \/ /\ ledger[a].kind # "none" /\ ledger[a].charge >= cost[a]
       /\ ledger[a].kind = "settled" => ledger[a].at >= costAt[a]

WithinLimit == Charged(ledger) <= Limit

IInv == TypeOK /\ Clock /\ Bounded /\ Unused /\ Dated /\ Held /\ Covered /\ WithinLimit

-----------------------------------------------------------------------------
(* The ledger *)

LEMMA CostsTyped ==
  /\ Costs \subseteq Nat /\ 0 \in Costs /\ Bounds \subseteq Costs
  /\ \A c \in Costs : 0..c \subseteq Costs
<1> USE BudgetAssumption
<1>1. \A b \in Bounds \union {0} : b \in Nat /\ 0..b \subseteq Costs  BY DEF Costs
<1>2. Costs \subseteq Nat  BY DEF Costs
<1>3. 0 \in Costs /\ Bounds \subseteq Costs
  <2>1. 0 \in 0..0 /\ \A b \in Bounds : b \in 0..b  OBVIOUS
  <2> QED BY <1>1, <2>1
<1>4. ASSUME NEW c \in Costs PROVE 0..c \subseteq Costs
  <2>1. PICK b \in Bounds \union {0} : c \in 0..b  BY DEF Costs
  <2>2. 0..c \subseteq 0..b  BY <1>1, <2>1
  <2> QED BY <1>1, <2>2
<1> QED BY <1>2, <1>3, <1>4

\* An entry and its parts.
LEMMA EntryTyped ==
  /\ \A e \in Entries : e.kind \in {"none", "pending", "settled"} /\ e.charge \in Nat /\ e.charge \in Costs /\ e.at \in Nat
  /\ \A k \in {"none", "pending", "settled"}, c \in Costs, t \in Nat : [kind |-> k, charge |-> c, at |-> t] \in Entries
  /\ NoEntry \in Entries
BY CostsTyped DEF Entries, NoEntry

\* Times and sums of money are numbers.
LEMMA Numbers ==
  ASSUME TypeOK
  PROVE  /\ now \in Nat
         /\ \A a \in Attempts : /\ sentAt[a] \in Nat /\ costAt[a] \in Nat
                                /\ cost[a] \in Nat /\ bound[a] \in Nat
                                /\ ledger[a].charge \in Nat /\ ledger[a].at \in Nat
<1>1. now \in Nat /\ \A a \in Attempts : sentAt[a] \in Nat /\ costAt[a] \in Nat  BY DEF TypeOK, Instants
<1>2. \A a \in Attempts : cost[a] \in Nat /\ bound[a] \in Nat
  <2>1. \A a \in Attempts : cost[a] \in Costs /\ bound[a] \in Costs  BY DEF TypeOK
  <2> QED BY <2>1, CostsTyped
<1>3. \A a \in Attempts : ledger[a].charge \in Nat /\ ledger[a].at \in Nat
  <2>1. \A a \in Attempts : ledger[a] \in Entries  BY DEF TypeOK
  <2> QED BY <2>1, EntryTyped
<1> QED BY <1>1, <1>2, <1>3

\* Dropping what has aged out.
LEMMA PrunedKeeps ==
  ASSUME TypeOK
  PROVE  /\ Pruned(ledger) \in [Attempts -> Entries]
         /\ \A a \in Attempts :
              \/ Pruned(ledger)[a] = ledger[a]
              \/ ledger[a].kind = "settled" /\ ledger[a].at <= now - Window /\ Pruned(ledger)[a] = NoEntry
BY EntryTyped DEF TypeOK, Pruned

\* A ledger that charges no attempt more charges no more.
LEMMA SmallerFits ==
  ASSUME TypeOK, WithinLimit, NEW l \in [Attempts -> Entries],
         \A a \in Attempts : l[a].charge <= ledger[a].charge
  PROVE  Charged(l) <= Limit
<1> DEFINE f == [a \in Attempts |-> l[a].charge]
           g == [a \in Attempts |-> ledger[a].charge]
<1>1. f \in [Attempts -> Int] /\ g \in [Attempts -> Int]  BY EntryTyped DEF TypeOK
<1>2. \A a \in Attempts : f[a] <= g[a]  OBVIOUS
<1>3. Charged(l) = SumFunction(f) /\ Charged(ledger) = SumFunction(g)  BY DEF Charged
<1> HIDE DEF f, g
<1>4. SumFunction(f) \in Int /\ SumFunction(g) \in Int /\ SumFunction(f) <= SumFunction(g)
  BY <1>1, <1>2, SumGrows, BudgetAssumption
<1> QED BY <1>3, <1>4, BudgetAssumption DEF WithinLimit

\* A reservation that fits.
LEMMA ReservationFits ==
  ASSUME TypeOK, NEW l \in [Attempts -> Entries], NEW a \in Attempts, NEW b \in Bounds, NEW t \in Nat,
         Charged(l) + b <= Limit
  PROVE  Charged([l EXCEPT ![a] = [kind |-> "pending", charge |-> b, at |-> t]]) <= Limit
<1> DEFINE m == [l EXCEPT ![a] = [kind |-> "pending", charge |-> b, at |-> t]]
           f == [c \in Attempts |-> l[c].charge]
           g == [c \in Attempts |-> m[c].charge]
<1>1. b \in Nat /\ \A c \in Attempts : l[c].charge \in Nat  BY EntryTyped, BudgetAssumption
<1>2. f \in [Attempts -> Int] /\ g \in [Attempts -> Int]  BY <1>1
<1>3. g[a] = b /\ f[a] \in Nat /\ \A c \in Attempts : c # a => g[c] = f[c]  BY <1>1
<1>4. Charged(l) = SumFunction(f) /\ Charged(m) = SumFunction(g)  BY DEF Charged
<1> HIDE DEF f, g, m
<1>5. SumFunction(g) = SumFunction(f) + (g[a] - f[a])  BY <1>2, <1>3, SumChanges, BudgetAssumption
<1>6. SumFunction(f) \in Int
  <2>1. \A c \in Attempts : f[c] <= f[c]  BY <1>2
  <2> QED BY <1>2, <2>1, SumGrows, BudgetAssumption
<1>7. SumFunction(g) <= Limit  BY <1>1, <1>3, <1>4, <1>5, <1>6, BudgetAssumption
<1> QED BY <1>4, <1>7 DEF m

-----------------------------------------------------------------------------
(* The invariant is inductive *)

USE BudgetAssumption

LEMMA InitIInv == Init => IInv
<1> SUFFICES ASSUME Init PROVE IInv
  OBVIOUS
<1>1. TypeOK  BY EntryTyped, CostsTyped DEF Init, TypeOK, Instants
<1>2. WithinLimit
  <2>1. [a \in Attempts |-> ledger[a].charge] = [a \in Attempts |-> 0]  BY DEF Init, NoEntry
  <2>2. Charged(ledger) = 0  BY <2>1, SumOfNothing DEF Charged
  <2> QED BY <2>2 DEF WithinLimit
<1>3. Clock /\ Bounded /\ Unused  BY DEF Init, Clock, Bounded, Unused
<1>4. Dated /\ Held /\ Covered  BY DEF Init, NoEntry, Dated, Held, Covered
<1> QED BY <1>1, <1>2, <1>3, <1>4 DEF IInv

LEMMA TickStep ==
  ASSUME IInv, Tick
  PROVE  IInv'
<1> USE DEF IInv
<1>0. now \in Int /\ \A a \in Attempts : sentAt[a] \in Nat /\ costAt[a] \in Nat  BY DEF TypeOK, Instants
<1>1. TypeOK'  BY DEF Tick, TypeOK, Instants
<1>2. Clock'  BY <1>0 DEF Tick, Clock
<1>3. Bounded'  BY <1>0 DEF Tick, Bounded
<1>4. Unused' /\ Dated'  BY DEF Tick, Unused, Dated
<1>5. Held'  BY <1>0 DEF Tick, Held
<1>6. Covered'  BY <1>0 DEF Tick, Covered
<1>7. WithinLimit'  BY DEF Tick, WithinLimit, Charged
<1> QED BY <1>1, <1>2, <1>3, <1>4, <1>5, <1>6, <1>7

\* An entry that has left the window.
Aged(a) == ledger[a].kind = "settled" /\ ledger[a].at <= now - Window

\* What a start does to the entries: those that are aged go, what is pending is
\* charged in full, dated ahead.
LEMMA StartEntries ==
  ASSUME TypeOK, NEW p \in Processes, Start(p)
  PROVE  /\ ledger' \in [Attempts -> Entries]
         /\ \A a \in Attempts :
              \/ ledger[a].kind # "pending" /\ ledger'[a] = ledger[a]
              \/ Aged(a) /\ ledger'[a].kind = "none" /\ ledger'[a].charge = 0
              \/ /\ ledger[a].kind = "pending" /\ ledger'[a].kind = "settled"
                 /\ ledger'[a].charge = ledger[a].charge /\ ledger'[a].at = now + Lifetime
<1>0. now \in Nat  BY Numbers
<1> DEFINE l == Pruned(ledger)
<1>1. /\ l \in [Attempts -> Entries]
      /\ \A a \in Attempts :
           \/ l[a] = ledger[a]
           \/ ledger[a].kind = "settled" /\ ledger[a].at <= now - Window /\ l[a] = NoEntry
  BY PrunedKeeps
<1>2. ledger' = Recovered(l)  BY DEF Start
<1> HIDE DEF l
<1>3. /\ ledger' \in [Attempts -> Entries]
      /\ \A a \in Attempts :
           \/ l[a].kind # "pending" /\ ledger'[a] = l[a]
           \/ l[a].kind = "pending" /\ ledger'[a] = [kind |-> "settled", charge |-> l[a].charge, at |-> now + Lifetime]
  <2>1. \A a \in Attempts : l[a].kind = "pending" =>
          ledger'[a] = [kind |-> "settled", charge |-> l[a].charge, at |-> now + Lifetime]
    BY <1>1, <1>2 DEF Recovered, Entries
  <2>2. \A a \in Attempts : l[a].kind # "pending" => ledger'[a] = l[a]  BY <1>2 DEF Recovered
  <2>3. \A a \in Attempts : ledger'[a] \in Entries
    <3> SUFFICES ASSUME NEW a \in Attempts PROVE ledger'[a] \in Entries
      OBVIOUS
    <3>1. l[a].charge \in Costs /\ now + Lifetime \in Nat  BY <1>0, <1>1, EntryTyped
    <3>2. [kind |-> "settled", charge |-> l[a].charge, at |-> now + Lifetime] \in Entries  BY <3>1, EntryTyped
    <3>3. l[a] \in Entries  BY <1>1
    <3> QED BY <2>1, <2>2, <3>2, <3>3
  <2>4. ledger' = [a \in Attempts |-> ledger'[a]]  BY <1>2 DEF Recovered
  <2> QED BY <2>1, <2>2, <2>3, <2>4
<1>4. \A a \in Attempts :
        \/ ledger[a].kind # "pending" /\ ledger'[a] = ledger[a]
        \/ Aged(a) /\ ledger'[a].kind = "none" /\ ledger'[a].charge = 0
        \/ /\ ledger[a].kind = "pending" /\ ledger'[a].kind = "settled"
           /\ ledger'[a].charge = ledger[a].charge /\ ledger'[a].at = now + Lifetime
  BY <1>1, <1>3 DEF NoEntry, Aged
<1> QED BY <1>3, <1>4

\* A process starts: pending entries are charged in full from here on.
LEMMA StartStep ==
  ASSUME IInv, NEW p \in Processes, Start(p)
  PROVE  IInv'
<1> USE DEF IInv
<1>0. /\ now \in Nat
      /\ \A a \in Attempts : sentAt[a] \in Nat /\ costAt[a] \in Nat /\ cost[a] \in Nat
                             /\ ledger[a].charge \in Nat /\ ledger[a].at \in Nat
  BY Numbers
<1>1. ledger' \in [Attempts -> Entries]  BY StartEntries
<1>2. \A a \in Attempts :
        \/ ledger[a].kind # "pending" /\ ledger'[a] = ledger[a]
        \/ /\ ledger[a].kind = "settled" /\ ledger[a].at <= now - Window
           /\ ledger'[a].kind = "none" /\ ledger'[a].charge = 0
        \/ /\ ledger[a].kind = "pending" /\ ledger'[a].kind = "settled"
           /\ ledger'[a].charge = ledger[a].charge /\ ledger'[a].at = now + Lifetime
  BY StartEntries DEF Aged
<1>3. TypeOK'  BY <1>1 DEF Start, unchangedAttempts, TypeOK
<1>4. Clock' /\ Bounded'  BY DEF Start, unchangedAttempts, Clock, Bounded
<1>5. Unused'  BY <1>2 DEF Start, unchangedAttempts, Unused, NoEntry
<1>6. Dated'  BY <1>0, <1>2 DEF Start, unchangedAttempts, Dated, Clock
<1>7. Held'  BY <1>0, <1>2 DEF Start, unchangedAttempts, Held, Dated
<1>8. Covered'  BY <1>0, <1>2 DEF Start, unchangedAttempts, Covered, Bounded
<1>9. WithinLimit'
  <2>1. \A a \in Attempts : ledger'[a].charge <= ledger[a].charge  BY <1>0, <1>2
  <2>2. Charged(ledger') <= Limit  BY <1>1, <2>1, SmallerFits
  <2> QED BY <2>2 DEF WithinLimit, Charged
<1> QED BY <1>3, <1>4, <1>5, <1>6, <1>7, <1>8, <1>9

LEMMA StartFailsStep ==
  ASSUME IInv, NEW p \in Processes, StartFails(p)
  PROVE  IInv'
<1> USE DEF IInv, StartFails, unchangedAttempts
<1>1. TypeOK'  BY DEF TypeOK
<1>2. Clock' /\ Bounded' /\ Unused' /\ Dated'  BY DEF Clock, Bounded, Unused, Dated
<1>3. Held' /\ Covered' /\ WithinLimit'  BY DEF Held, Covered, WithinLimit, Charged
<1> QED BY <1>1, <1>2, <1>3

LEMMA CrashStep ==
  ASSUME IInv, NEW p \in Processes, Crash(p)
  PROVE  IInv'
<1> USE DEF IInv
<1>0. \A a \in Attempts : pc'[a] = pc[a] \/ (pc[a] = "sent" /\ pc'[a] = "orphan")  BY DEF Crash, TypeOK
<1>1. TypeOK'  BY DEF Crash, TypeOK
<1>2. Clock' /\ Bounded'  BY <1>0 DEF Crash, Clock, Bounded
<1>3. Unused' /\ Dated'  BY <1>0 DEF Crash, Unused, Dated
<1>4. Held' /\ Covered'  BY <1>0 DEF Crash, Held, Covered
<1>5. WithinLimit'  BY DEF Crash, WithinLimit, Charged
<1> QED BY <1>1, <1>2, <1>3, <1>4, <1>5

\* What an edit does to the entries it is not about.
LEMMA PrunedEntries ==
  ASSUME TypeOK, NEW a \in Attempts, NEW e \in Entries, ledger' = [Pruned(ledger) EXCEPT ![a] = e]
  PROVE  /\ ledger' \in [Attempts -> Entries] /\ ledger'[a] = e
         /\ \A c \in Attempts \ {a} :
              ledger'[c] = ledger[c] \/ (Aged(c) /\ ledger'[c].kind = "none" /\ ledger'[c].charge = 0)
<1> DEFINE l == Pruned(ledger)
<1>1. /\ l \in [Attempts -> Entries]
      /\ \A c \in Attempts :
           \/ l[c] = ledger[c]
           \/ ledger[c].kind = "settled" /\ ledger[c].at <= now - Window /\ l[c] = NoEntry
  BY PrunedKeeps
<1> HIDE DEF l
<1>2. \A c \in Attempts : l[c] = ledger[c] \/ (Aged(c) /\ l[c].kind = "none" /\ l[c].charge = 0)
  <2>1. NoEntry.kind = "none" /\ NoEntry.charge = 0  BY DEF NoEntry
  <2> QED BY <1>1, <2>1 DEF Aged
<1>3. ledger' = [l EXCEPT ![a] = e]  BY DEF l
<1> QED BY <1>1, <1>2, <1>3

\* A reservation: it fits, and it holds the whole bound.
LEMMA ReserveStep ==
  ASSUME IInv, NEW a \in Attempts, NEW p \in Processes, NEW b \in Bounds, Reserve(a, p, b)
  PROVE  IInv'
<1> USE DEF IInv
<1>0. /\ now \in Nat /\ b \in Nat /\ b > 0 /\ b \in Costs
      /\ \A c \in Attempts : sentAt[c] \in Nat /\ costAt[c] \in Nat /\ cost[c] \in Nat
                             /\ ledger[c].charge \in Nat /\ ledger[c].at \in Nat
  <2>1. b \in Nat /\ b > 0 /\ b \in Costs  BY CostsTyped
  <2> QED BY <2>1, Numbers
<1> DEFINE new == [kind |-> "pending", charge |-> b, at |-> now]
<1>1. ledger' = [Pruned(ledger) EXCEPT ![a] = new] /\ Charged(Pruned(ledger)) + b <= Limit
  BY DEF Reserve, Written, Fits
<1>2. new \in Entries  BY <1>0, EntryTyped
<1>3. WithinLimit'
  <2>1. Pruned(ledger) \in [Attempts -> Entries]  BY PrunedKeeps
  <2>2. Charged(ledger') <= Limit  BY <1>0, <1>1, <2>1, ReservationFits
  <2> QED BY <2>2 DEF WithinLimit, Charged
<1>4. /\ ledger' \in [Attempts -> Entries] /\ ledger'[a] = new
      /\ \A c \in Attempts : c # a =>
           \/ ledger'[c] = ledger[c]
           \/ /\ ledger[c].kind = "settled" /\ ledger[c].at <= now - Window
              /\ ledger'[c].kind = "none" /\ ledger'[c].charge = 0
  BY <1>1, <1>2, PrunedEntries DEF Aged
<1>5. /\ pc[a] = "new" /\ pc'[a] \in {"sent", "over"} /\ \A c \in Attempts : c # a => pc'[c] = pc[c]
      /\ sentAt'[a] = now /\ \A c \in Attempts : c # a => sentAt'[c] = sentAt[c]
      /\ bound'[a] = b /\ \A c \in Attempts : c # a => bound'[c] = bound[c]
      /\ now' = now /\ cost' = cost /\ costAt' = costAt
  BY DEF Reserve, TypeOK
<1>6. TypeOK'
  <2>1. file' \in {"fresh", "locked", "ledger"}  BY DEF Reserve, Written, TypeOK
  <2>2. pc' \in [Attempts -> {"new", "sent", "orphan", "over"}]  BY DEF Reserve, TypeOK
  <2>3. /\ owner' \in [Attempts -> Processes \union {"nobody"}] /\ sentAt' \in [Attempts -> Instants]
        /\ bound' \in [Attempts -> Costs]
    BY <1>0 DEF Reserve, TypeOK
  <2> QED BY <1>4, <2>1, <2>2, <2>3 DEF Reserve, TypeOK
<1>7. Clock'  BY <1>0, <1>5 DEF Clock
<1>8. Bounded'  BY <1>0, <1>5 DEF Bounded, Unused
<1>9. Unused'  BY <1>4, <1>5 DEF Unused, NoEntry
<1>10. Dated'  BY <1>0, <1>4, <1>5 DEF Dated
<1>11. Held'  BY <1>0, <1>4, <1>5 DEF Held, Dated
<1>12. Covered'  BY <1>0, <1>4, <1>5 DEF Covered, Unused, Bounded
<1> QED BY <1>3, <1>6, <1>7, <1>8, <1>9, <1>10, <1>11, <1>12

\* The upstream charges an attempt that holds its whole bound.
LEMMA SpendStep ==
  ASSUME IInv, NEW a \in Attempts, Spend(a)
  PROVE  IInv'
<1> USE DEF IInv
<1>0. /\ now \in Nat
      /\ \A c \in Attempts : sentAt[c] \in Nat /\ costAt[c] \in Nat /\ cost[c] \in Nat /\ bound[c] \in Nat
                             /\ ledger[c].charge \in Nat /\ ledger[c].at \in Nat
  BY Numbers
<1>1. PICK v \in 1..bound[a] : cost' = [cost EXCEPT ![a] = v]  BY DEF Spend
<1>2. v \in Costs /\ v \in Nat /\ v > 0 /\ v <= bound[a]
  BY <1>0, <1>1, CostsTyped DEF TypeOK
<1>3. TypeOK'  BY <1>1, <1>2 DEF Spend, TypeOK
<1>4. /\ cost'[a] = v /\ costAt'[a] = now
      /\ \A c \in Attempts : c # a => cost'[c] = cost[c] /\ costAt'[c] = costAt[c]
  BY <1>1 DEF Spend, TypeOK
<1>5. Clock' /\ Dated' /\ Held'  BY DEF Spend, Clock, Dated, Held
<1>6. Bounded'  BY <1>0, <1>2, <1>4 DEF Spend, Bounded
<1>7. Unused'  BY <1>4 DEF Spend, Unused
<1>8. Covered'  BY <1>0, <1>2, <1>4 DEF Spend, Covered, Held, Dated
<1>9. WithinLimit'  BY DEF Spend, WithinLimit, Charged
<1> QED BY <1>3, <1>5, <1>6, <1>7, <1>8, <1>9

\* A settlement keeps what it must: never less than the attempt cost, and the
\* whole bound, dated ahead, while it may still cost something.
LEMMA SettleStep ==
  ASSUME IInv, NEW a \in Attempts, NEW charge \in Nat, NEW at \in Nat, Settle(a, charge, at),
         pc[a] = "sent", pc' = [pc EXCEPT ![a] = pc'[a]], pc'[a] \in {"over", "orphan"},
         charge <= bound[a], charge >= cost[a], at >= now,
         pc'[a] = "orphan" => charge = bound[a] /\ at = now + Lifetime
  PROVE  IInv'
<1> USE DEF IInv
<1>0. /\ now \in Nat
      /\ \A c \in Attempts : sentAt[c] \in Nat /\ costAt[c] \in Nat /\ cost[c] \in Nat /\ bound[c] \in Nat
                             /\ ledger[c].charge \in Nat /\ ledger[c].at \in Nat
  BY Numbers
<1>1. /\ now' = now /\ sentAt' = sentAt /\ bound' = bound /\ cost' = cost /\ costAt' = costAt
      /\ \A c \in Attempts : c # a => pc'[c] = pc[c]
  BY DEF Settle, TypeOK
<1>2. Clock' /\ Bounded'  BY <1>0, <1>1 DEF Clock, Bounded
<1>3. TypeOK' \/ ledger' \notin [Attempts -> Entries]
  BY DEF Settle, Written, EditFails, TypeOK
<1>4. CASE EditFails
  <2>1. ledger' = ledger  BY <1>4 DEF EditFails
  <2>2. TypeOK'  BY <1>3, <2>1 DEF TypeOK
  <2>3. Unused' /\ Dated'  BY <1>0, <1>1, <2>1 DEF Unused, Dated
  <2>4. Held' /\ Covered'  BY <1>0, <1>1, <2>1 DEF Held, Covered
  <2>5. WithinLimit'  BY <2>1 DEF WithinLimit, Charged
  <2> QED BY <1>2, <2>2, <2>3, <2>4, <2>5
<1>5. CASE Written(Settled(Pruned(ledger), a, charge, at))
  <2> DEFINE e == IF charge = 0 THEN NoEntry ELSE [kind |-> "settled", charge |-> charge, at |-> at]
  <2>1. e \in Entries
    <3>1. bound[a] \in Costs /\ charge \in 0..bound[a]  BY <1>0 DEF TypeOK
    <3>2. charge \in Costs  BY <3>1, CostsTyped
    <3> QED BY <3>2, EntryTyped
  <2>2. ledger' = [Pruned(ledger) EXCEPT ![a] = e]  BY <1>5 DEF Written, Settled
  <2>3. /\ e.charge = charge /\ e.kind = (IF charge = 0 THEN "none" ELSE "settled")
        /\ e.kind = "settled" => e.at = at
    BY DEF NoEntry
  <2> HIDE DEF e
  <2>4. /\ ledger' \in [Attempts -> Entries] /\ ledger'[a] = e
        /\ \A c \in Attempts : c # a =>
             \/ ledger'[c] = ledger[c]
             \/ /\ ledger[c].kind = "settled" /\ ledger[c].at <= now - Window
                /\ ledger'[c].kind = "none" /\ ledger'[c].charge = 0
    BY <2>1, <2>2, PrunedEntries DEF Aged
  <2>5. now <= sentAt[a] + Lifetime /\ sentAt[a] <= now /\ ledger[a].charge = bound[a]
    BY DEF Clock, Held
  <2>6. TypeOK'  BY <1>3, <2>4
  <2>7. Unused'  BY <1>1, <2>4 DEF Unused, NoEntry
  <2>8. Dated'  BY <1>0, <1>1, <2>3, <2>4, <2>5 DEF Dated
  <2>9. Held'
    <3>1. bound[a] > 0  BY DEF Bounded
    <3> QED BY <1>0, <1>1, <2>3, <2>4, <2>5, <3>1 DEF Held, Dated
  <2>10. Covered'  BY <1>0, <1>1, <2>3, <2>4, <2>5 DEF Covered, Bounded
  <2>11. WithinLimit'
    <3>1. \A c \in Attempts : ledger'[c].charge <= ledger[c].charge  BY <1>0, <2>3, <2>4, <2>5
    <3>2. Charged(ledger') <= Limit  BY <2>4, <3>1, SmallerFits
    <3> QED BY <3>2 DEF WithinLimit, Charged
  <2> QED BY <1>2, <2>6, <2>7, <2>8, <2>9, <2>10, <2>11
<1> QED BY <1>4, <1>5 DEF Settle

LEMMA EndStep ==
  ASSUME IInv, NEW a \in Attempts, Refused(a) \/ Complete(a) \/ Unknown(a)
  PROVE  IInv'
<1>0. TypeOK /\ now \in Nat /\ cost[a] \in Nat /\ bound[a] \in Nat /\ cost[a] <= bound[a]
  BY Numbers DEF IInv, Bounded
<1>1. CASE Refused(a)
  <2>1. /\ pc[a] = "sent" /\ pc' = [pc EXCEPT ![a] = pc'[a]] /\ pc'[a] = "over"
        /\ Settle(a, 0, now) /\ cost[a] = 0
    BY <1>0, <1>1 DEF Refused, TypeOK
  <2> QED BY <1>0, <2>1, SettleStep
<1>2. CASE Complete(a)
  <2>1. PICK charge \in cost[a]..bound[a] : Settle(a, charge, now)  BY <1>2 DEF Complete
  <2>2. pc[a] = "sent" /\ pc' = [pc EXCEPT ![a] = pc'[a]] /\ pc'[a] = "over"
    BY <1>0, <1>2 DEF Complete, TypeOK
  <2>3. charge \in Nat /\ charge <= bound[a] /\ charge >= cost[a]  BY <1>0
  <2> QED BY <1>0, <2>1, <2>2, <2>3, SettleStep
<1>3. CASE Unknown(a)
  <2>1. /\ pc[a] = "sent" /\ pc' = [pc EXCEPT ![a] = pc'[a]] /\ pc'[a] = "orphan"
        /\ Settle(a, bound[a], now + Lifetime)
    BY <1>0, <1>3 DEF Unknown, TypeOK
  <2>2. now + Lifetime \in Nat /\ now + Lifetime >= now  BY <1>0
  <2> QED BY <1>0, <2>1, <2>2, SettleStep
<1> QED BY <1>1, <1>2, <1>3

LEMMA NextIInv == IInv /\ [Next]_vars => IInv'
<1> SUFFICES ASSUME IInv, [Next]_vars PROVE IInv'
  OBVIOUS
<1>1. CASE Tick  BY <1>1, TickStep
<1>2. CASE \E p \in Processes : Start(p) \/ StartFails(p) \/ Crash(p)
  BY <1>2, StartStep, StartFailsStep, CrashStep
<1>3. CASE \E a \in Attempts, p \in Processes, b \in Bounds : Reserve(a, p, b)  BY <1>3, ReserveStep
<1>4. CASE \E a \in Attempts : Spend(a)  BY <1>4, SpendStep
<1>5. CASE \E a \in Attempts : Refused(a) \/ Complete(a) \/ Unknown(a)  BY <1>5, EndStep
<1>6. CASE UNCHANGED vars
  <2> USE <1>6 DEF vars, IInv
  <2>1. TypeOK'  BY DEF TypeOK
  <2>2. Clock' /\ Bounded' /\ Unused' /\ Dated'  BY DEF Clock, Bounded, Unused, Dated
  <2>3. Held' /\ Covered' /\ WithinLimit'  BY DEF Held, Covered, WithinLimit, Charged
  <2> QED BY <2>1, <2>2, <2>3
<1> QED BY <1>1, <1>2, <1>3, <1>4, <1>5, <1>6 DEF Next

LEMMA Invariance == Spec => []IInv
BY InitIInv, NextIInv, PTL DEF Spec

-----------------------------------------------------------------------------
(* The theorems *)

\* The variables keep their types: charges and costs stay among the bounds the
\* requests can have, and no date is negative.
THEOREM TypeCorrect == Spec => []TypeOK
<1>1. IInv => TypeOK  BY DEF IInv
<1> QED BY <1>1, Invariance, PTL

\* The rolling budget holds: every cost inside the window is covered by an
\* entry, and the entries fit the limit.
THEOREM BudgetHolds == Spec => []WindowNeverOverspent
<1>1. IInv => WindowNeverOverspent
  <2> SUFFICES ASSUME IInv PROVE WindowNeverOverspent
    OBVIOUS
  <2> USE DEF IInv
  <2> DEFINE f == [a \in Attempts |-> IF costAt[a] > now - Window THEN cost[a] ELSE 0]
             g == [a \in Attempts |-> ledger[a].charge]
  <2>1. f \in [Attempts -> Int] /\ g \in [Attempts -> Int]  BY Numbers
  <2>2. \A a \in Attempts : f[a] <= g[a]  BY Numbers DEF Covered
  <2>3. Charged(ledger) = SumFunction(g)  BY DEF Charged
  <2>4. WindowNeverOverspent <=> SumFunction(f) <= Limit  BY DEF WindowNeverOverspent
  <2> HIDE DEF f, g
  <2>5. SumFunction(f) \in Int /\ SumFunction(g) \in Int /\ SumFunction(f) <= SumFunction(g)
    BY <2>1, <2>2, SumGrows
  <2> QED BY <2>3, <2>4, <2>5 DEF WithinLimit
<1> QED BY <1>1, Invariance, PTL

\* An entry is reduced only by its attempt's own settlement, or once it is so
\* old that what the attempt cost has left the window.
THEOREM EntriesOutliveCosts == Spec => RecoveryForgivesNothing
<1> DEFINE Excused(a) ==
      pc'[a] # pc[a] \/ now >= sentAt[a] + Window + (IF pc[a] = "over" THEN 0 ELSE Lifetime)
<1>1. ASSUME IInv, Next, NEW a \in Attempts, ledger'[a].charge < ledger[a].charge
      PROVE  Excused(a)
  <2>0. TypeOK /\ now \in Nat /\ sentAt[a] \in Nat /\ ledger[a].charge \in Nat /\ ledger[a].at \in Nat
    BY <1>1, Numbers DEF IInv
  <2>1. Aged(a) => Excused(a)  BY <1>1, <2>0 DEF Aged, IInv, Dated
  <2>2. CASE Tick  BY <1>1, <2>0, <2>2 DEF Tick
  <2>3. CASE \E p \in Processes : Start(p) \/ StartFails(p) \/ Crash(p)
    <3>1. PICK p \in Processes : Start(p) \/ StartFails(p) \/ Crash(p)  BY <2>3
    <3>2. CASE Start(p)
      <4>1. ledger'[a] = ledger[a] \/ Aged(a) \/ ledger'[a].charge = ledger[a].charge
        BY <2>0, <3>2, StartEntries
      <4> QED BY <1>1, <2>0, <2>1, <4>1
    <3>3. CASE StartFails(p) \/ Crash(p)  BY <1>1, <2>0, <3>3 DEF StartFails, Crash
    <3> QED BY <3>1, <3>2, <3>3
  <2>4. CASE \E b \in Attempts : Spend(b)  BY <1>1, <2>0, <2>4 DEF Spend
  <2>5. ASSUME NEW b \in Attempts, NEW e \in Entries, ledger' = [Pruned(ledger) EXCEPT ![b] = e], a # b
        PROVE  Excused(a)
    <3>1. ledger'[a] = ledger[a] \/ Aged(a)  BY <2>0, <2>5, PrunedEntries
    <3> QED BY <1>1, <2>0, <2>1, <3>1
  <2>6. CASE \E b \in Attempts, p \in Processes, v \in Bounds : Reserve(b, p, v)
    <3>1. PICK b \in Attempts, p \in Processes, v \in Bounds : Reserve(b, p, v)  BY <2>6
    <3>2. pc[b] = "new" /\ pc'[b] # pc[b]  BY <2>0, <3>1 DEF Reserve, TypeOK
    <3>3. ledger' = [Pruned(ledger) EXCEPT ![b] = [kind |-> "pending", charge |-> v, at |-> now]]
      BY <3>1 DEF Reserve, Written
    <3>4. v \in Costs  BY CostsTyped
    <3>5. [kind |-> "pending", charge |-> v, at |-> now] \in Entries  BY <2>0, <3>4, EntryTyped
    <3> QED BY <2>5, <3>2, <3>3, <3>5
  <2>7. CASE \E b \in Attempts : Refused(b) \/ Complete(b) \/ Unknown(b)
    <3>1. PICK b \in Attempts : Refused(b) \/ Complete(b) \/ Unknown(b)  BY <2>7
    <3>2. pc'[b] # pc[b]  BY <2>0, <3>1 DEF Refused, Complete, Unknown, TypeOK
    <3>3. now + Lifetime \in Nat /\ cost[b] \in Nat /\ bound[b] \in Nat /\ bound[b] \in Costs
      BY <2>0, Numbers DEF TypeOK
    <3>4. \E charge \in 0..bound[b], at \in Nat : Settle(b, charge, at)
      BY <2>0, <3>1, <3>3 DEF Refused, Complete, Unknown
    <3>5. PICK charge \in 0..bound[b], at \in Nat : Settle(b, charge, at)  BY <3>4
    <3>6. CASE EditFails  BY <1>1, <2>0, <3>6 DEF EditFails
    <3>7. CASE Written(Settled(Pruned(ledger), b, charge, at))
      <4> DEFINE e == IF charge = 0 THEN NoEntry ELSE [kind |-> "settled", charge |-> charge, at |-> at]
      <4>1. charge \in Costs  BY <3>3, <3>5, CostsTyped
      <4>2. e \in Entries  BY <3>5, <4>1, EntryTyped
      <4>3. ledger' = [Pruned(ledger) EXCEPT ![b] = e]  BY <3>7 DEF Written, Settled
      <4> QED BY <2>5, <3>2, <4>2, <4>3
    <3> QED BY <3>5, <3>6, <3>7 DEF Settle
  <2> QED BY <1>1, <2>2, <2>3, <2>4, <2>6, <2>7 DEF Next
<1>2. IInv /\ [Next]_vars =>
        [\A a \in Attempts : ledger'[a].charge < ledger[a].charge => Excused(a)]_vars
  BY <1>1
<1> QED BY <1>2, Invariance, PTL DEF Spec, RecoveryForgivesNothing

------------------------------------------------------------------------------
(***************************************************************************)
(* Proofs about AccountSelection, for any requests, accounts, pools, chains*)
(* and policies.                                                           *)
(*                                                                         *)
(* Invariant (LeaseInv): a counter is the number of requests that hold a   *)
(* lease of its account, and none does before it has chosen.               *)
(*                                                                         *)
(* Invariant (WayInv): a request that scans its pool has passed over every *)
(* account that it neither holds available nor has yet to look at; one that*)
(* chose has its pin bound unless the pin was passed over; and in a plan   *)
(* the bound account stands before the others of its pool, and the pool    *)
(* before what may not be tried first.  An account whose attempt is over   *)
(* was passed.                                                             *)
(*                                                                         *)
(* Invariant (TimeInv): before each attempt up to the first with an untried*)
(* unmetered provider there is the time that the attempts from there on    *)
(* need: one tick after the last, and before each of the others twice what *)
(* is needed after it, and what the divisions round off.                   *)
(*                                                                         *)
(* What the plan is made of are finite sequences picked from finite sets   *)
(* (Listed, Picked), sorted and joined; chains are walked by recursive     *)
(* functions, of which it is shown that they exist and keep what each of   *)
(* their steps keeps (RunExists, RunKeeps).                                *)
(***************************************************************************)

-----------------------------------------------------------------------------
(* Listing the members of a set in an order                                *)

StrictOrder(I, R) ==
  /\ \A x \in I : <<x, x>> \notin R
  /\ \A x, y \in I : x # y => <<x, y>> \in R \/ <<y, x>> \in R
  /\ \A x, y, z \in I : <<x, y>> \in R /\ <<y, z>> \in R => <<x, z>> \in R

\* Listed has every member of the set once, and follows the order.
LEMMA ListedInOrder ==
  ASSUME NEW I, IsFiniteSet(I), NEW R, StrictOrder(I, R)
  PROVE  /\ Cardinality(I) \in Nat
         /\ Listed(I, R) \in [1..Cardinality(I) -> I]
         /\ \A x \in I : \E n \in 1..Cardinality(I) : Listed(I, R)[n] = x
         /\ \A m, n \in 1..Cardinality(I) : <<Listed(I, R)[m], Listed(I, R)[n]>> \in R => m < n
<1> DEFINE Under(k) == {j \in I : <<j, k>> \in R}
           N == Cardinality(I)
           rank == [k \in I |-> Cardinality(Under(k)) + 1]
           s == Listed(I, R)
<1>1. N \in Nat
  BY FS_CardinalityType
<1>2. ASSUME NEW k \in I PROVE Cardinality(Under(k)) \in Nat /\ Cardinality(Under(k)) < N
                               /\ IsFiniteSet(Under(k))
  <2>1. Under(k) \in SUBSET I /\ k \notin Under(k)
    BY DEF StrictOrder
  <2>2. IsFiniteSet(Under(k)) /\ Cardinality(Under(k)) <= N /\ (N = Cardinality(Under(k)) => I = Under(k))
    <3> HIDE DEF Under
    <3> QED BY <2>1, FS_Subset
  <2>3. Cardinality(Under(k)) \in Nat
    BY <2>2, FS_CardinalityType
  <2> HIDE DEF Under, N
  <2> QED BY <1>1, <2>1, <2>2, <2>3
<1>3. ASSUME NEW j \in I, NEW k \in I, <<j, k>> \in R
      PROVE  Cardinality(Under(j)) < Cardinality(Under(k))
  <2>1. Under(j) \in SUBSET Under(k) /\ j \in Under(k) /\ j \notin Under(j)
    BY <1>3 DEF StrictOrder
  <2>2. Cardinality(Under(j)) <= Cardinality(Under(k))
        /\ (Cardinality(Under(k)) = Cardinality(Under(j)) => Under(k) = Under(j))
    <3>1. IsFiniteSet(Under(k))
      BY <1>2
    <3> HIDE DEF Under
    <3> QED BY <2>1, <3>1, FS_Subset
  <2>3. Cardinality(Under(j)) \in Nat /\ Cardinality(Under(k)) \in Nat
    BY <1>2
  <2> HIDE DEF Under
  <2> QED BY <2>1, <2>2, <2>3
<1>4. rank \in [I -> 1..N]
  <2>1. ASSUME NEW k \in I PROVE Cardinality(Under(k)) + 1 \in 1..N
    <3> HIDE DEF Under, N
    <3> QED BY <1>1, <1>2
  <2> HIDE DEF Under, N
  <2> QED BY <2>1
<1>5. ASSUME NEW j \in I, NEW k \in I, rank[j] = rank[k] PROVE j = k
  <2>1. Cardinality(Under(j)) = Cardinality(Under(k))
    <3>1. Cardinality(Under(j)) \in Nat /\ Cardinality(Under(k)) \in Nat
      BY <1>2
    <3> HIDE DEF Under
    <3> QED BY <1>5, <3>1
  <2>2. j # k => Cardinality(Under(j)) < Cardinality(Under(k)) \/ Cardinality(Under(k)) < Cardinality(Under(j))
    <3>1. j # k => <<j, k>> \in R \/ <<k, j>> \in R
      BY DEF StrictOrder
    <3> HIDE DEF Under
    <3> QED BY <1>3, <3>1
  <2>3. Cardinality(Under(j)) \in Nat /\ Cardinality(Under(k)) \in Nat
    BY <1>2
  <2> HIDE DEF Under
  <2> QED BY <2>1, <2>2, <2>3
<1>6. \A n \in 1..N : \E k \in I : rank[k] = n
  <2> HIDE DEF rank, N
  <2>1. rank \in Injection(I, 1..N)
    BY <1>4, <1>5 DEF Injection, IsInjective
  <2>2. IsFiniteSet(1..N) /\ Cardinality(1..N) = N
    <3>1. 1 \in Int /\ N \in Int /\ (1 > N <=> N = 0)
      BY <1>1
    <3>2. IsFiniteSet(1..N) /\ Cardinality(1..N) = IF 1 > N THEN 0 ELSE N - 1 + 1
      BY <3>1, FS_Interval
    <3> QED BY <1>1, <3>1, <3>2
  <2>3. rank \in Surjection(I, 1..N)
    BY <2>1, <2>2, FS_Injection DEF N
  <2> QED BY <2>3 DEF Surjection
<1>7. ASSUME NEW n \in 1..N PROVE s[n] \in I /\ rank[s[n]] = n
  <2>1. s[n] = CHOOSE k \in I : Cardinality(Under(k)) = n - 1
    BY DEF Listed
  <2>2. PICK k \in I : rank[k] = n
    BY <1>6
  <2>3. \A x \in I : Cardinality(Under(x)) \in Nat
    BY <1>2
  <2>4. Cardinality(Under(k)) = n - 1
    <3> HIDE DEF Under
    <3> QED BY <2>2, <2>3
  <2>5. s[n] \in I /\ Cardinality(Under(s[n])) = n - 1
    <3> HIDE DEF Under, s
    <3> QED BY <2>1, <2>4
  <2> HIDE DEF Under, s, N
  <2> QED BY <1>1, <2>5
<1>8. DOMAIN s = 1..N /\ s = [n \in 1..N |-> s[n]]
  <2> DEFINE at(n) == CHOOSE k \in I : Cardinality(Under(k)) = n - 1
  <2>1. s = [n \in 1..N |-> at(n)]
    BY DEF Listed
  <2> HIDE DEF at, s, N
  <2> QED BY <2>1
<1>9. ASSUME NEW m \in 1..N, NEW n \in 1..N, <<s[m], s[n]>> \in R PROVE m < n
  <2>1. /\ s[m] \in I /\ rank[s[m]] = m /\ s[n] \in I /\ rank[s[n]] = n
    BY <1>7
  <2>2. Cardinality(Under(s[m])) < Cardinality(Under(s[n]))
    <3> HIDE DEF Under, s, rank
    <3> QED BY <1>3, <1>9, <2>1
  <2>3. Cardinality(Under(s[m])) \in Nat /\ Cardinality(Under(s[n])) \in Nat
    <3> HIDE DEF Under, s, rank
    <3> QED BY <1>2, <2>1
  <2> HIDE DEF Under, s
  <2> QED BY <2>1, <2>2, <2>3
<1> HIDE DEF s, rank, Under
<1>10. ASSUME NEW x \in I PROVE \E n \in 1..N : s[n] = x
  <2>1. rank[x] \in 1..N
    BY <1>4
  <2>2. s[rank[x]] = x
    BY <1>5, <1>7, <2>1
  <2> QED BY <2>1, <2>2
<1>11. s \in [1..N -> I]
  BY <1>7, <1>8
<1> QED BY <1>1, <1>9, <1>10, <1>11 DEF s

IsList(s) == \E S : s \in Seq(S)

\* The length, the indices and the entries of a list.
LEMMA ListFacts ==
  ASSUME NEW s, IsList(s)
  PROVE  /\ Len(s) \in Nat /\ DOMAIN s = 1..Len(s) /\ IsFiniteSet(DOMAIN s)
         /\ s = [n \in 1..Len(s) |-> s[n]]
         /\ DOMAIN s \subseteq Nat
<1>1. Len(s) \in Nat /\ DOMAIN s = 1..Len(s) /\ s = [n \in 1..Len(s) |-> s[n]]
  BY LenProperties DEF IsList
<1>2. IsFiniteSet(1..Len(s))
  BY <1>1, FS_Interval, 1 \in Int, Len(s) \in Int
<1> QED BY <1>1, <1>2

\* A function on the numbers up to n is a list.
LEMMA ListOf ==
  ASSUME NEW n \in Nat, NEW s, DOMAIN s = 1..n, s = [k \in 1..n |-> s[k]]
  PROVE  IsList(s) /\ Len(s) = n
<1> DEFINE S == {s[k] : k \in 1..n}
<1>1. s \in [1..n -> S]
  <2>1. \A k \in 1..n : s[k] \in S
    OBVIOUS
  <2> HIDE DEF S
  <2> QED BY <2>1
<1>2. s \in Seq(S)
  <2> HIDE DEF S
  <2> QED BY <1>1
<1> HIDE DEF S
<1> QED BY <1>2 DEF IsList

\* A list read through an order of some of its indices: every index has its
\* place, and nothing else has.
LEMMA ReadInOrder ==
  ASSUME NEW I, IsFiniteSet(I), NEW R, StrictOrder(I, R), NEW f,
         NEW s, s = [n \in DOMAIN Listed(I, R) |-> f[Listed(I, R)[n]]]
  PROVE  /\ IsList(s) /\ DOMAIN s = DOMAIN Listed(I, R)
         /\ \A n \in DOMAIN s : Listed(I, R)[n] \in I /\ s[n] = f[Listed(I, R)[n]]
         /\ \A k \in I : \E n \in DOMAIN s : Listed(I, R)[n] = k /\ s[n] = f[k]
<1> DEFINE o == Listed(I, R)
           N == Cardinality(I)
<1>1. N \in Nat /\ o \in [1..N -> I] /\ \A k \in I : \E n \in 1..N : o[n] = k
  BY ListedInOrder
<1> HIDE DEF o, N
<1>2. DOMAIN s = 1..N /\ s = [n \in 1..N |-> s[n]] /\ \A n \in 1..N : s[n] = f[o[n]]
  BY <1>1 DEF o
<1>3. IsList(s)
  BY <1>1, <1>2, ListOf
<1> QED BY <1>1, <1>2, <1>3 DEF o

\* Picked has what the list has at the indices in I, and nothing else.
LEMMA EntriesAre ==
  ASSUME NEW s, IsList(s), NEW I \in SUBSET DOMAIN s
  PROVE  /\ IsList(Picked(s, I))
         /\ \A n \in DOMAIN Picked(s, I) : \E k \in I : Picked(s, I)[n] = s[k]
         /\ \A k \in I : \E n \in DOMAIN Picked(s, I) : Picked(s, I)[n] = s[k]
<1> DEFINE R == {x \in I \X I : x[1] < x[2]}
           e == Picked(s, I)
<1>1. I \subseteq Nat /\ IsFiniteSet(I)
  BY ListFacts, FS_Subset
<1>2. StrictOrder(I, R)
  <2>1. \A x, y \in I : <<x, y>> \in R <=> x < y
    OBVIOUS
  <2> HIDE DEF R
  <2> QED BY <1>1, <2>1 DEF StrictOrder
<1>3. e = [n \in DOMAIN Listed(I, R) |-> s[Listed(I, R)[n]]]
  BY DEF Picked
<1> HIDE DEF R, e
<1>4. /\ IsList(e)
      /\ \A n \in DOMAIN e : Listed(I, R)[n] \in I /\ e[n] = s[Listed(I, R)[n]]
      /\ \A k \in I : \E n \in DOMAIN e : e[n] = s[k]
  BY <1>1, <1>2, <1>3, ReadInOrder
<1> QED BY <1>4 DEF e

-----------------------------------------------------------------------------
(* Sorting by lists of keys                                                *)

\* A set of numbers has a smallest member.
LEMMA SmallestOf ==
  ASSUME NEW T, T \subseteq Nat, T # {}
  PROVE  \E x \in T : \A y \in T : x <= y
<1>1. PICK x \in T : \A y \in T : <<y, x>> \notin OpToRel(<, Nat)
  BY NatLessThanWellFounded, WFMin
<1>2. ASSUME NEW y \in T PROVE x <= y
  <2>1. x \in Nat /\ y \in Nat  OBVIOUS
  <2>2. ~(y < x)  BY <1>1, <2>1 DEF OpToRel
  <2> QED BY <2>1, <2>2
<1> QED BY <1>2

\* Lists of keys of one length are ordered by Lower.
LEMMA LowerOrders ==
  ASSUME NEW L \in Nat, NEW a \in [1..L -> Int], NEW b \in [1..L -> Int], NEW c \in [1..L -> Int]
  PROVE  /\ ~Lower(a, a)
         /\ a = b \/ Lower(a, b) \/ Lower(b, a)
         /\ Lower(a, b) /\ Lower(b, c) => Lower(a, c)
<1>1. ~Lower(a, a)
  BY DEF Lower
<1>2. ASSUME a # b PROVE Lower(a, b) \/ Lower(b, a)
  <2> DEFINE T == {k \in 1..L : a[k] # b[k]}
  <2>1. T # {} /\ T \subseteq Nat
    <3>1. (\A k \in 1..L : a[k] = b[k]) => a = b
      OBVIOUS
    <3>2. 1..L \subseteq Nat
      OBVIOUS
    <3> QED BY <1>2, <3>1, <3>2
  <2>2. PICK k \in T : \A y \in T : k <= y
    <3> HIDE DEF T
    <3> QED BY <2>1, SmallestOf
  <2>3. k \in 1..L /\ a[k] # b[k] /\ a[k] \in Int /\ b[k] \in Int
    OBVIOUS
  <2>4. \A j \in 1..(k - 1) : a[j] = b[j]
    <3> SUFFICES ASSUME NEW j \in 1..(k - 1), a[j] # b[j] PROVE FALSE
      OBVIOUS
    <3>1. j \in T /\ k \in Nat /\ j \in Nat /\ j < k
      BY <2>3
    <3> QED BY <2>2, <3>1
  <2>5. a[k] < b[k] \/ b[k] < a[k]
    BY <2>3
  <2> QED BY <2>3, <2>4, <2>5 DEF Lower
<1>3. ASSUME Lower(a, b), Lower(b, c) PROVE Lower(a, c)
  <2>1. PICK j \in 1..L : a[j] < b[j] /\ \A i \in 1..(j - 1) : a[i] = b[i]
    BY <1>3 DEF Lower
  <2>2. PICK k \in 1..L : b[k] < c[k] /\ \A i \in 1..(k - 1) : b[i] = c[i]
    BY <1>3 DEF Lower
  <2>3. a[j] \in Int /\ b[j] \in Int /\ c[j] \in Int /\ a[k] \in Int /\ b[k] \in Int /\ c[k] \in Int
    OBVIOUS
  <2>4. CASE j < k
    <3>1. b[j] = c[j] /\ \A i \in 1..(j - 1) : b[i] = c[i]
      BY <2>2, <2>4
    <3> QED BY <2>1, <2>3, <3>1 DEF Lower
  <2>5. CASE k < j
    <3>1. a[k] = b[k] /\ \A i \in 1..(k - 1) : a[i] = b[i]
      BY <2>1, <2>5
    <3> QED BY <2>2, <2>3, <3>1 DEF Lower
  <2>6. CASE k = j
    <3>1. a[j] < c[j]
      BY <2>1, <2>2, <2>3, <2>6
    <3> QED BY <2>1, <2>2, <2>6, <3>1 DEF Lower
  <2> QED BY <2>4, <2>5, <2>6
<1> QED BY <1>1, <1>2, <1>3

\* The order in which entries with these keys are sorted.
ByKey(ks) ==
  {x \in (DOMAIN ks) \X (DOMAIN ks) :
     Lower(ks[x[1]], ks[x[2]]) \/ (x[1] < x[2] /\ ~Lower(ks[x[2]], ks[x[1]]))}

\* It is one, and a strict one, when the keys are lists of one length.
LEMMA KeysOrder ==
  ASSUME NEW n \in Nat, NEW L \in Nat, NEW ks \in [1..n -> [1..L -> Int]]
  PROVE  StrictOrder(1..n, ByKey(ks))
<1> DEFINE before(x, y) == Lower(ks[x], ks[y]) \/ (x < y /\ ~Lower(ks[y], ks[x]))
<1>1. \A x, y \in 1..n : <<x, y>> \in ByKey(ks) <=> before(x, y)
  BY DEF ByKey
<1>2. \A x, y \in 1..n : /\ ~Lower(ks[x], ks[x])
                         /\ ks[x] = ks[y] \/ Lower(ks[x], ks[y]) \/ Lower(ks[y], ks[x])
  <2> SUFFICES ASSUME NEW x \in 1..n, NEW y \in 1..n
               PROVE  /\ ~Lower(ks[x], ks[x])
                      /\ ks[x] = ks[y] \/ Lower(ks[x], ks[y]) \/ Lower(ks[y], ks[x])
    OBVIOUS
  <2>1. ks[x] \in [1..L -> Int] /\ ks[y] \in [1..L -> Int]
    OBVIOUS
  <2> QED BY <2>1, LowerOrders
<1>3. \A x, y, z \in 1..n : Lower(ks[x], ks[y]) /\ Lower(ks[y], ks[z]) => Lower(ks[x], ks[z])
  BY LowerOrders
<1>4. \A x \in 1..n : ~before(x, x)
  BY <1>2
<1>5. \A x, y \in 1..n : x # y => before(x, y) \/ before(y, x)
  BY <1>2
<1>6. ASSUME NEW x \in 1..n, NEW y \in 1..n, NEW z \in 1..n, before(x, y), before(y, z)
      PROVE  before(x, z)
  <2>1. Lower(ks[x], ks[y]) /\ Lower(ks[y], ks[z]) => Lower(ks[x], ks[z])
    BY <1>3
  <2>2. Lower(ks[x], ks[y]) \/ (x < y /\ ks[x] = ks[y])
    BY <1>2, <1>6
  <2>3. Lower(ks[y], ks[z]) \/ (y < z /\ ks[y] = ks[z])
    BY <1>2, <1>6
  <2>4. x < y /\ y < z => x < z
    OBVIOUS
  <2>5. ~Lower(ks[x], ks[x]) /\ ~Lower(ks[z], ks[z])
    BY <1>2
  <2> QED BY <2>1, <2>2, <2>3, <2>4, <2>5
<1> HIDE DEF before
<1> QED BY <1>1, <1>4, <1>5, <1>6 DEF StrictOrder

-----------------------------------------------------------------------------
(* The accounts of a leg, in the order they are tried                      *)

\* What the order reads of an account is typed.
Readable == usage \in [Profiles -> UsageSnapshots] /\ inFlight \in [Profiles -> Nat]

\* A snapshot that is shown is one, also when it is not used.
LEMMA SeenTyped ==
  /\ UnknownUsage \in UsageSnapshots
  /\ \A s \in UsageSnapshots : \A limits : Seen(s, limits) \in UsageSnapshots
<1> DEFINE Typed(s) == /\ s = [source |-> s.source, age |-> s.age, five |-> s.five, week |-> s.week,
                                earlier |-> s.earlier]
                       /\ s.source \in Sources /\ s.age \in Nat /\ s.five \in Windows /\ s.week \in Windows
                       /\ s.earlier \in Seq([ago : Nat, five : Nat, week : Nat])
<1>1. \A s : s \in UsageSnapshots <=> Typed(s)
  BY DEF UsageSnapshots
<1>2. UnknownUsage \in UsageSnapshots
  <2> DEFINE w == [used |-> 0, left |-> <<>>]
  <2>1. <<>> \in Seq([ago : Nat, five : Nat, week : Nat])
    OBVIOUS
  <2>2. w \in Windows
    <3>1. <<>> \in Seq(Int)
      OBVIOUS
    <3> QED BY <3>1 DEF Windows
  <2> HIDE DEF w
  <2>3. UnknownUsage = [source |-> "unknown", age |-> 0, five |-> w, week |-> w, earlier |-> <<>>]
    BY DEF UnknownUsage, w
  <2>4. Typed(UnknownUsage)
    BY <2>1, <2>2, <2>3 DEF Sources
  <2> QED BY <1>1, <2>4
<1>3. ASSUME NEW s \in UsageSnapshots, NEW limits PROVE Seen(s, limits) \in UsageSnapshots
  <2> DEFINE old == [s EXCEPT !.source = "oauth-api-stale"]
  <2>1. Typed(s)
    BY <1>1
  <2>2. s = [source |-> s.source, age |-> s.age, five |-> s.five, week |-> s.week,
             earlier |-> s.earlier]
    BY <2>1
  <2>3. "oauth-api-stale" \in Sources
    BY DEF Sources
  <2>4. old = [source |-> "oauth-api-stale", age |-> s.age, five |-> s.five, week |-> s.week,
               earlier |-> s.earlier]
    <3> HIDE DEF Typed
    <3> QED BY <2>2
  <2>5. old \in UsageSnapshots
    <3> HIDE DEF old
    <3> QED BY <2>1, <2>3, <2>4 DEF UsageSnapshots
  <2> HIDE DEF old, Typed
  <2> QED BY <1>2, <2>5 DEF Seen, old
<1> QED BY <1>2, <1>3

\* An account's key: five integers, or seven when its headroom comes first.
LEMMA KeyTyped ==
  ASSUME NEW s \in UsageSnapshots, NEW f \in Nat, NEW b, NEW h
  PROVE  FallbackKey(s, f, b, h) \in [1..(IF h THEN 7 ELSE 5) -> Int]
<1> DEFINE k1 == Flag(b)
           k2 == Known(s)
           k3 == s.five.used
           k4 == s.week.used
<1>1. k1 \in Int /\ k2 \in Int /\ k3 \in Int /\ k4 \in Int /\ f \in Int
  BY DEF Flag, Known, UsageSnapshots, Windows
<1>2. FallbackKey(s, f, b, h) =
        IF h THEN <<k1>> \o <<k2, k3>> \o <<f, k2, k3, k4>>
        ELSE <<k1>> \o <<>> \o <<f, k2, k3, k4>>
  BY DEF FallbackKey
<1> HIDE DEF k1, k2, k3, k4
<1>3. CASE h
  <2> DEFINE a == <<k1>>
             c == <<k2, k3>>
             d == <<f, k2, k3, k4>>
  <2>1. a \in Seq(Int) /\ Len(a) = 1 /\ c \in Seq(Int) /\ Len(c) = 2 /\ d \in Seq(Int) /\ Len(d) = 4
    BY <1>1
  <2> HIDE DEF a, c, d
  <2>2. a \o c \in Seq(Int) /\ Len(a \o c) = 3
    <3>1. a \o c \in Seq(Int) /\ Len(a \o c) = Len(a) + Len(c)
      BY <2>1, ConcatProperties
    <3> QED BY <2>1, <3>1
  <2>3. (a \o c) \o d \in Seq(Int) /\ Len((a \o c) \o d) = 7
    <3> DEFINE ac == a \o c
    <3> HIDE DEF ac
    <3>1. ac \in Seq(Int) /\ d \in Seq(Int)
      BY <2>1, <2>2 DEF ac
    <3>2. ac \o d \in Seq(Int) /\ Len(ac \o d) = Len(ac) + Len(d)
      BY <3>1, ConcatProperties
    <3> QED BY <2>1, <2>2, <3>2 DEF ac
  <2>4. (a \o c) \o d \in [1..7 -> Int]
    BY <2>3, LenProperties
  <2> QED BY <1>2, <1>3, <2>4 DEF a, c, d
<1>4. CASE ~h
  <2> DEFINE a == <<k1>>
             c == <<>>
             d == <<f, k2, k3, k4>>
  <2>1. a \in Seq(Int) /\ Len(a) = 1 /\ c \in Seq(Int) /\ Len(c) = 0 /\ d \in Seq(Int) /\ Len(d) = 4
    BY <1>1
  <2> HIDE DEF a, c, d
  <2>2. a \o c \in Seq(Int) /\ Len(a \o c) = 1
    <3>1. a \o c \in Seq(Int) /\ Len(a \o c) = Len(a) + Len(c)
      BY <2>1, ConcatProperties
    <3> QED BY <2>1, <3>1
  <2>3. (a \o c) \o d \in Seq(Int) /\ Len((a \o c) \o d) = 5
    <3> DEFINE ac == a \o c
    <3> HIDE DEF ac
    <3>1. ac \in Seq(Int) /\ d \in Seq(Int)
      BY <2>1, <2>2 DEF ac
    <3>2. ac \o d \in Seq(Int) /\ Len(ac \o d) = Len(ac) + Len(d)
      BY <3>1, ConcatProperties
    <3> QED BY <2>1, <2>2, <3>2 DEF ac
  <2>4. (a \o c) \o d \in [1..5 -> Int]
    BY <2>3, LenProperties
  <2> QED BY <1>2, <1>4, <2>4 DEF a, c, d
<1> QED BY <1>3, <1>4

\* s has keys of length L; t is s in their order.
Keyed(s, L, ks) == L \in Nat /\ ks \in [DOMAIN s -> [1..L -> Int]]
Rearranged(t, s, ks) ==
  t = [n \in DOMAIN Listed(DOMAIN s, ByKey(ks)) |-> s[Listed(DOMAIN s, ByKey(ks))[n]]]

\* A sorted list has the entries it had.
LEMMA SortedAre ==
  ASSUME NEW s, IsList(s), NEW L, NEW ks, Keyed(s, L, ks), NEW t, Rearranged(t, s, ks)
  PROVE  IsList(t) /\ Members(t) = Members(s)
<1> USE DEF Keyed, Rearranged
<1>1. DOMAIN s = 1..Len(s) /\ Len(s) \in Nat /\ IsFiniteSet(DOMAIN s)
  BY ListFacts
<1>2. StrictOrder(DOMAIN s, ByKey(ks))
  BY <1>1, KeysOrder
<1> DEFINE D == DOMAIN s
           R == ByKey(ks)
<1>3. IsFiniteSet(D) /\ StrictOrder(D, R) /\ t = [n \in DOMAIN Listed(D, R) |-> s[Listed(D, R)[n]]]
  BY <1>1, <1>2
<1> HIDE DEF R
<1>4. /\ IsList(t)
      /\ \A n \in DOMAIN t : Listed(D, R)[n] \in D /\ t[n] = s[Listed(D, R)[n]]
      /\ \A k \in D : \E n \in DOMAIN t : t[n] = s[k]
  <2> HIDE DEF D
  <2> QED BY <1>3, ReadInOrder
<1> HIDE DEF D
<1>5. ASSUME NEW x \in Members(t) PROVE x \in Members(s)
  <2>1. PICK n \in DOMAIN t : x = t[n]
    BY DEF Members
  <2>2. PICK k \in DOMAIN s : x = s[k]
    BY <1>4, <2>1 DEF D
  <2> QED BY <2>2 DEF Members
<1>6. ASSUME NEW x \in Members(s) PROVE x \in Members(t)
  <2>1. PICK k \in DOMAIN s : x = s[k]
    BY DEF Members
  <2>2. PICK n \in DOMAIN t : t[n] = x
    BY <1>4, <2>1 DEF D
  <2> QED BY <2>2 DEF Members
<1> QED BY <1>4, <1>5, <1>6

\* The selected account comes first, and no account of the pool is lost.
LEMMA OrderedAre ==
  ASSUME Readable, NEW pool, IsList(pool), Members(pool) \subseteq Profiles, NEW p, NEW h, NEW limits
  PROVE  /\ IsList(Ordered(pool, p, h, limits))
         /\ Members(Ordered(pool, p, h, limits)) = Members(pool)
         /\ p \in Members(pool) => /\ 1 \in DOMAIN Ordered(pool, p, h, limits)
                                   /\ Ordered(pool, p, h, limits)[1] = p
<1> DEFINE key(x) == FallbackKey(Seen(usage[x], limits), inFlight[x], block[x] \in AccountWide, h)
           L == IF h THEN 7 ELSE 5
           I == {k \in DOMAIN pool : pool[k] # p}
           s == Picked(pool, I)
           ks == [j \in DOMAIN s |-> key(s[j])]
           order == Listed(DOMAIN s, ByKey(ks))
           t == [n \in DOMAIN order |-> s[order[n]]]
<1>1. CASE p \notin Members(pool)
  BY <1>1 DEF Ordered
<1>2. CASE p \in Members(pool)
  <2>1. IsList(s) /\ Members(s) = Members(pool) \ {p}
    <3>1. /\ IsList(s)
          /\ \A n \in DOMAIN s : \E k \in I : s[n] = pool[k]
          /\ \A k \in I : \E n \in DOMAIN s : s[n] = pool[k]
      <4>1. I \in SUBSET DOMAIN pool
        OBVIOUS
      <4> HIDE DEF I
      <4> QED BY <4>1, EntriesAre
    <3> HIDE DEF s
    <3> QED BY <3>1 DEF Members
  <2>2. ks \in [DOMAIN s -> [1..L -> Int]]
    <3>1. ASSUME NEW j \in DOMAIN s PROVE key(s[j]) \in [1..L -> Int]
      <4>1. s[j] \in Profiles
        BY <2>1 DEF Members
      <4> HIDE DEF s
      <4>2. Seen(usage[s[j]], limits) \in UsageSnapshots /\ inFlight[s[j]] \in Nat
        BY <4>1, SeenTyped DEF Readable
      <4> QED BY <4>2, KeyTyped
    <3> HIDE DEF key, L, s
    <3> QED BY <3>1
  <2>3. IsList(t) /\ Members(t) = Members(s)
    <3> HIDE DEF s, ks
    <3>1. L \in Nat
      OBVIOUS
    <3> HIDE DEF L
    <3>2. Rearranged(t, s, ks)
      BY DEF Rearranged
    <3>3. Keyed(s, L, ks)
      BY <2>2, <3>1 DEF Keyed
    <3> HIDE DEF t
    <3> QED BY <2>1, <3>2, <3>3, SortedAre
  <2>4. ByKey(ks) = {x \in (DOMAIN s) \X (DOMAIN s) :
                       Lower(key(s[x[1]]), key(s[x[2]])) \/ (x[1] < x[2] /\ ~Lower(key(s[x[2]]), key(s[x[1]])))}
    <3>1. DOMAIN ks = DOMAIN s /\ \A j \in DOMAIN s : ks[j] = key(s[j])
      OBVIOUS
    <3> HIDE DEF ks, key, s
    <3> QED BY <3>1 DEF ByKey
  <2>5. Ordered(pool, p, h, limits) = <<p>> \o t
    BY <1>2, <2>4 DEF Ordered, Sorted
  <2> HIDE DEF t
  <2>6. PICK S : t \in Seq(S)
    BY <2>3 DEF IsList
  <2>7. <<p>> \in Seq(S \union {p}) /\ t \in Seq(S \union {p})
    BY <2>6
  <2>8. /\ (<<p>> \o t) \in Seq(S \union {p})
        /\ Len(<<p>> \o t) = 1 + Len(t)
        /\ (<<p>> \o t)[1] = p
        /\ \A n \in 1..Len(t) : (<<p>> \o t)[n + 1] = t[n]
    BY <2>7
  <2>9. Len(t) \in Nat /\ DOMAIN t = 1..Len(t) /\ DOMAIN (<<p>> \o t) = 1..(1 + Len(t))
    BY <2>7, <2>8
  <2> DEFINE u == <<p>> \o t
  <2>10. Members(u) = {p} \union Members(t)
    <3>1. ASSUME NEW n \in DOMAIN u, n # 1
          PROVE  \E m \in DOMAIN t : u[n] = t[m]
      <4>1. n - 1 \in 1..Len(t) /\ (n - 1) + 1 = n
        BY <2>9, <3>1
      <4> QED BY <2>8, <2>9, <4>1
    <3>2. ASSUME NEW m \in DOMAIN t
          PROVE  \E n \in DOMAIN u : u[n] = t[m]
      <4>1. m + 1 \in 1..(1 + Len(t))
        BY <2>9
      <4> QED BY <2>8, <2>9, <4>1
    <3>3. 1 \in DOMAIN u /\ u[1] = p
      BY <2>8, <2>9
    <3> HIDE DEF u
    <3>4. \A x \in Members(u) : x = p \/ x \in Members(t)
      BY <3>1, <3>3 DEF Members
    <3>5. p \in Members(u) /\ \A x \in Members(t) : x \in Members(u)
      BY <3>2, <3>3 DEF Members
    <3> QED BY <3>4, <3>5
  <2>11. IsList(<<p>> \o t) /\ 1 \in DOMAIN (<<p>> \o t)
    BY <2>8, <2>9 DEF IsList
  <2>12. {p} \union Members(t) = Members(pool)
    BY <1>2, <2>1, <2>3
  <2> HIDE DEF s, ks, I
  <2> QED BY <2>5, <2>8, <2>10, <2>11, <2>12
<1> QED BY <1>1, <1>2

\* The accounts of a leg's pool are profiles.
LEMMA PoolTyped ==
  ASSUME NEW leg
  PROVE  IsList(profilesForCandidate(leg)) /\ Members(profilesForCandidate(leg)) \subseteq Profiles
<1> DEFINE all == Pools[Leg[leg].pool]
           first == {k \in DOMAIN all : \A j \in 1..(k - 1) : identity[all[j]] # identity[all[k]]}
<1>1. CASE Leg[leg].pool \in DOMAIN Pools
  <2>1. profilesForCandidate(leg) = Picked(all, first)
    BY <1>1 DEF profilesForCandidate
  <2>2. all \in Seq(Profiles) /\ first \in SUBSET DOMAIN all
    BY <1>1, SelectionAssumption
  <2> HIDE DEF all, first
  <2>3. IsList(all) /\ \A k \in DOMAIN all : all[k] \in Profiles
    BY <2>2 DEF IsList
  <2>4. /\ IsList(Picked(all, first))
        /\ \A n \in DOMAIN Picked(all, first) : \E k \in first : Picked(all, first)[n] = all[k]
    BY <2>2, <2>3, EntriesAre
  <2> QED BY <2>1, <2>2, <2>3, <2>4 DEF Members
<1>2. CASE Leg[leg].pool \notin DOMAIN Pools
  <2>1. profilesForCandidate(leg) = <<>>
    BY <1>2 DEF profilesForCandidate
  <2>2. <<>> \in Seq(Profiles)
    OBVIOUS
  <2> QED BY <2>1, <2>2 DEF IsList, Members
<1> QED BY <1>1, <1>2

\* A leg of the subscription has an attempt for each account that may serve it,
\* the one bound first; another leg has one attempt, without an account.
LEMMA ExpandedAre ==
  ASSUME Readable, NEW leg, NEW own
  PROVE  LET pool == profilesForCandidate(leg)
             tries == Expanded(leg, own)
         IN  /\ IsList(tries)
             /\ \A n \in DOMAIN tries : /\ tries[n].leg = leg
                                        /\ tries[n].profile # NoProfile => Leg[leg].subscription
             /\ Leg[leg].subscription =>
                  /\ \A p \in Members(pool) : Leg[leg].scope # "pinned" \/ p = own =>
                       \E n \in DOMAIN tries : tries[n].profile = p
                  /\ own \in Members(pool) => 1 \in DOMAIN tries /\ tries[1].profile = own
<1> DEFINE pool == profilesForCandidate(leg)
           mine == IF Leg[leg].scope # "pinned" THEN pool
                   ELSE IF own \in Members(pool) THEN <<own>> ELSE <<>>
           h == preserveSonnetSubscriptionOrder(leg)
           limits == PoolLimits[Leg[leg].pool]
           order == Ordered(mine, own, h, limits)
           tries == Expanded(leg, own)
<1>1. CASE ~Leg[leg].subscription
  <2> DEFINE one == [leg |-> leg, profile |-> NoProfile]
  <2>1. tries = <<one>> /\ one.leg = leg /\ one.profile = NoProfile
    BY <1>1 DEF Expanded, Attempt
  <2> HIDE DEF one, tries
  <2>2. <<one>> \in Seq({one})
    OBVIOUS
  <2>3. IsList(tries)
    BY <2>1, <2>2 DEF IsList
  <2>4. \A n \in DOMAIN tries : tries[n] = one
    BY <2>1
  <2> QED BY <1>1, <2>1, <2>3, <2>4 DEF tries
<1>2. CASE Leg[leg].subscription
  <2>1. IsList(pool) /\ Members(pool) \subseteq Profiles
    BY PoolTyped
  <2>2. /\ IsList(mine) /\ Members(mine) \subseteq Members(pool)
        /\ \A p \in Members(pool) : Leg[leg].scope # "pinned" \/ p = own => p \in Members(mine)
    <3>1. CASE Leg[leg].scope # "pinned"
      BY <2>1, <3>1
    <3>2. CASE Leg[leg].scope = "pinned" /\ own \in Members(pool)
      <4>1. <<own>> \in Seq({own}) /\ mine = <<own>>
        BY <3>2
      <4>2. Members(<<own>>) = {own}
        BY DEF Members
      <4> QED BY <3>2, <4>1, <4>2 DEF IsList
    <3>3. CASE Leg[leg].scope = "pinned" /\ own \notin Members(pool)
      <4>1. <<>> \in Seq(Profiles) /\ mine = <<>>
        BY <3>3
      <4>2. Members(<<>>) = {}
        BY DEF Members
      <4> QED BY <3>3, <4>1, <4>2 DEF IsList
    <3> QED BY <3>1, <3>2, <3>3
  <2>3. tries = [n \in DOMAIN order |-> Attempt(leg, order[n])]
    BY <1>2 DEF Expanded
  <2> HIDE DEF tries, h, limits, mine, pool
  <2>4. /\ IsList(order) /\ Members(order) = Members(mine)
        /\ own \in Members(mine) => 1 \in DOMAIN order /\ order[1] = own
    BY <2>1, <2>2, OrderedAre
  <2> HIDE DEF order
  <2>5. DOMAIN tries = DOMAIN order
        /\ \A n \in DOMAIN order : tries[n].leg = leg /\ tries[n].profile = order[n]
    BY <2>3 DEF Attempt
  <2>6. IsList(tries)
    <3>1. Len(order) \in Nat /\ DOMAIN order = 1..Len(order)
      BY <2>4, ListFacts
    <3>2. tries = [n \in 1..Len(order) |-> tries[n]]
      BY <2>3, <2>5, <3>1
    <3> QED BY <2>5, <3>1, <3>2, ListOf
  <2>7. ASSUME NEW p \in Members(pool), Leg[leg].scope # "pinned" \/ p = own
        PROVE  \E n \in DOMAIN tries : tries[n].profile = p
    <3>1. p \in Members(order)
      BY <2>2, <2>4, <2>7
    <3>2. PICK n \in DOMAIN order : p = order[n]
      BY <3>1 DEF Members
    <3> QED BY <2>5, <3>2
  <2>8. own \in Members(pool) => 1 \in DOMAIN tries /\ tries[1].profile = own
    BY <2>2, <2>4, <2>5
  <2> QED BY <1>2, <2>5, <2>6, <2>7, <2>8 DEF tries, pool
<1> QED BY <1>1, <1>2

-----------------------------------------------------------------------------
(* The plan of the attempts                                                *)

\* Of a set of pairs of numbers one is the earliest.
LEMMA EarliestOf ==
  ASSUME NEW T, T \subseteq Nat \X Nat, T # {}
  PROVE  \E t \in T : \A x \in T : ~Earlier(x, t)
<1> DEFINE A == {x[1] : x \in T}
<1>1. A \subseteq Nat /\ A # {}
  OBVIOUS
<1>2. PICK a \in A : \A b \in A : a <= b
  <2> HIDE DEF A
  <2> QED BY <1>1, SmallestOf
<1> DEFINE B == {x[2] : x \in {y \in T : y[1] = a}}
<1>3. B \subseteq Nat /\ B # {}
  OBVIOUS
<1>4. PICK c \in B : \A b \in B : c <= b
  <2> HIDE DEF B
  <2> QED BY <1>3, SmallestOf
<1>5. PICK t \in T : t[1] = a /\ t[2] = c
  BY <1>4
<1>6. ASSUME NEW x \in T, Earlier(x, t) PROVE FALSE
  <2>1. x[1] \in A /\ x[1] \in Nat /\ x[2] \in Nat /\ a \in Nat /\ c \in Nat
    BY <1>1, <1>3
  <2>2. a <= x[1]
    BY <1>2, <2>1
  <2>3. x[1] = a /\ x[2] < c
    BY <1>5, <1>6, <2>1, <2>2 DEF Earlier
  <2>4. x[2] \in B
    BY <2>3
  <2> QED BY <1>4, <2>1, <2>3, <2>4
<1> QED BY <1>6

\* Attempt m of the plan is one of a leg, and what a leg before it, or the same
\* leg before it, would try has been tried before with that upstream.
Entered(plan, legs, own, m) ==
  \E k \in DOMAIN legs : \E n \in DOMAIN Expanded(legs[k], own) :
    /\ plan[m] = Expanded(legs[k], own)[n]
    /\ \A j \in DOMAIN legs : \A i \in DOMAIN Expanded(legs[j], own) :
         Earlier(<<j, i>>, <<k, n>>) /\ Expanded(legs[j], own)[i].profile # NoProfile =>
           \E g \in 1..(m - 1) : g \in DOMAIN plan /\ Same(Expanded(legs[j], own)[i], plan[g])

\* Every attempt of the plan is.
LEMMA ExpandAre ==
  ASSUME Readable, NEW legs, IsList(legs), NEW own
  PROVE  /\ IsList(Expand(legs, own))
         /\ \A m \in DOMAIN Expand(legs, own) : Entered(Expand(legs, own), legs, own, m)
<1> DEFINE at    == [k \in DOMAIN legs |-> Expanded(legs[k], own)]
           slots == UNION {{k} \X (DOMAIN at[k]) : k \in DOMAIN legs}
           new   == {y \in slots : \A x \in slots : Earlier(x, y) => ~Same(at[x[1]][x[2]], at[y[1]][y[2]])}
           R     == {x \in new \X new : Earlier(x[1], x[2])}
           order == Listed(new, R)
           plan  == Expand(legs, own)
<1>1. plan = [n \in DOMAIN order |-> at[order[n][1]][order[n][2]]]
  BY DEF Expand
<1>2. /\ DOMAIN at = DOMAIN legs /\ \A k \in DOMAIN legs : IsList(at[k]) /\ at[k] = Expanded(legs[k], own)
      /\ DOMAIN legs \subseteq Nat /\ IsFiniteSet(DOMAIN legs)
  BY ListFacts, ExpandedAre
<1> HIDE DEF at, plan
<1>3. \A k \in DOMAIN legs : DOMAIN at[k] \subseteq Nat /\ IsFiniteSet(DOMAIN at[k])
  BY <1>2, ListFacts
<1>4. IsFiniteSet(slots)
  <2> DEFINE rows == {{k} \X (DOMAIN at[k]) : k \in DOMAIN legs}
             row == [k \in DOMAIN legs |-> {k} \X (DOMAIN at[k])]
  <2>1. row \in Surjection(DOMAIN legs, rows)
    BY DEF Surjection
  <2>2. \A T \in rows : IsFiniteSet(T)
    <3>1. ASSUME NEW k \in DOMAIN legs PROVE IsFiniteSet({k} \X (DOMAIN at[k]))
      BY <1>3, FS_Singleton, FS_Product
    <3> QED BY <3>1
  <2> HIDE DEF rows, row
  <2>3. IsFiniteSet(rows)
    BY <1>2, <2>1, FS_Surjection
  <2>4. IsFiniteSet(UNION rows)
    BY <2>2, <2>3, FS_UNION
  <2> QED BY <2>4 DEF rows
<1>5. \A x : x \in slots <=> \E k \in DOMAIN legs : \E n \in DOMAIN at[k] : x = <<k, n>>
  OBVIOUS
<1> HIDE DEF slots
<1>6. slots \subseteq Nat \X Nat
  BY <1>2, <1>3, <1>5
<1>7. IsFiniteSet(new) /\ new \subseteq slots
  BY <1>4, FS_Subset
<1>8. \A x \in new, y \in new : <<x, y>> \in R <=> Earlier(x, y)
  OBVIOUS
<1>9. StrictOrder(new, R)
  <2>1. new \subseteq Nat \X Nat
    BY <1>6, <1>7
  <2> HIDE DEF new, R
  <2>2. ASSUME NEW x \in new PROVE <<x, x>> \notin R
    BY <1>8, <2>1 DEF Earlier
  <2>3. ASSUME NEW x \in new, NEW y \in new, x # y PROVE <<x, y>> \in R \/ <<y, x>> \in R
    <3>1. x[1] \in Nat /\ x[2] \in Nat /\ y[1] \in Nat /\ y[2] \in Nat /\ x = <<x[1], x[2]>> /\ y = <<y[1], y[2]>>
      BY <2>1
    <3>2. Earlier(x, y) \/ Earlier(y, x)
      BY <2>3, <3>1 DEF Earlier
    <3> QED BY <1>8, <3>2
  <2>4. ASSUME NEW x \in new, NEW y \in new, NEW z \in new, <<x, y>> \in R, <<y, z>> \in R
        PROVE  <<x, z>> \in R
    <3>1. /\ x[1] \in Nat /\ x[2] \in Nat /\ y[1] \in Nat /\ y[2] \in Nat /\ z[1] \in Nat /\ z[2] \in Nat
          /\ Earlier(x, y) /\ Earlier(y, z)
      BY <1>8, <2>1, <2>4
    <3>2. Earlier(x, z)
      BY <3>1 DEF Earlier
    <3> QED BY <1>8, <3>2
  <2> QED BY <2>2, <2>3, <2>4 DEF StrictOrder
<1> HIDE DEF new, R
<1> DEFINE C == Cardinality(new)
<1>10. /\ C \in Nat /\ order \in [1..C -> new]
       /\ \A x \in new : \E n \in 1..C : order[n] = x
       /\ \A m, n \in 1..C : <<order[m], order[n]>> \in R => m < n
  BY <1>7, <1>9, ListedInOrder
<1> HIDE DEF order, C
<1>11. IsList(plan) /\ DOMAIN plan = 1..C /\ \A n \in 1..C : plan[n] = at[order[n][1]][order[n][2]]
  <2>1. DOMAIN plan = 1..C /\ plan = [n \in 1..C |-> plan[n]]
        /\ \A n \in 1..C : plan[n] = at[order[n][1]][order[n][2]]
    BY <1>1, <1>10
  <2> QED BY <1>10, <2>1, ListOf
<1>12. ASSUME NEW m \in 1..C, NEW k \in DOMAIN legs, NEW n \in DOMAIN at[k], order[m] = <<k, n>>,
              NEW j \in DOMAIN legs, NEW i \in DOMAIN at[j], Earlier(<<j, i>>, <<k, n>>),
              at[j][i].profile # NoProfile
       PROVE  \E g \in 1..(m - 1) : g \in 1..C /\ Same(at[j][i], plan[g])
  <2> DEFINE like(x) == Same(at[x[1]][x[2]], at[j][i])
             T == {x \in slots : like(x) /\ ~Earlier(<<j, i>>, x)}
  <2>1. <<j, i>> \in slots /\ j \in Nat /\ i \in Nat /\ k \in Nat /\ n \in Nat
    BY <1>2, <1>3, <1>5
  <2>2. <<j, i>> \in T
    BY <1>12, <2>1 DEF Same, Earlier
  <2>3. T \subseteq Nat \X Nat
    BY <1>6
  <2>4. PICK t \in T : \A x \in T : ~Earlier(x, t)
    <3> HIDE DEF T
    <3> QED BY <2>2, <2>3, EarliestOf
  <2>5. t \in slots /\ like(t) /\ ~Earlier(<<j, i>>, t) /\ t[1] \in Nat /\ t[2] \in Nat
    BY <2>3, <2>4
  <2>6. t \in new
    <3> SUFFICES ASSUME NEW x \in slots, Earlier(x, t), Same(at[x[1]][x[2]], at[t[1]][t[2]]) PROVE FALSE
      BY <2>5 DEF new
    <3>1. like(x)
      BY <2>5 DEF Same
    <3>2. x[1] \in Nat /\ x[2] \in Nat
      BY <1>6
    <3>3. ~Earlier(<<j, i>>, x)
      BY <2>1, <2>5, <3>2 DEF Earlier
    <3> QED BY <2>4, <3>1, <3>3
  <2>7. Earlier(t, <<k, n>>)
    BY <1>12, <2>1, <2>5 DEF Earlier
  <2>8. PICK g \in 1..C : order[g] = t
    BY <1>10, <2>6
  <2>9. <<k, n>> \in new
    <3>1. order[m] \in new
      BY <1>10
    <3> QED BY <1>12, <3>1
  <2>10. g < m
    BY <1>8, <1>10, <1>12, <2>6, <2>7, <2>8, <2>9
  <2>11. g \in 1..(m - 1)
    BY <1>10, <2>10
  <2>12. Same(at[j][i], plan[g])
    BY <1>11, <2>5, <2>8 DEF Same
  <2> QED BY <2>11, <2>12
<1>13. ASSUME NEW m \in 1..C
       PROVE  \E k \in DOMAIN legs : \E n \in DOMAIN at[k] : order[m] = <<k, n>> /\ plan[m] = at[k][n]
  <2>1. order[m] \in slots
    BY <1>7, <1>10
  <2>2. PICK k \in DOMAIN legs : \E n \in DOMAIN at[k] : order[m] = <<k, n>>
    BY <1>5, <2>1
  <2>3. PICK n \in DOMAIN at[k] : order[m] = <<k, n>>
    BY <2>2
  <2> QED BY <1>11, <2>3
<1>14. ASSUME NEW m \in 1..C PROVE Entered(plan, legs, own, m)
  <2>4. PICK k \in DOMAIN legs : \E n \in DOMAIN at[k] : order[m] = <<k, n>> /\ plan[m] = at[k][n]
    BY <1>13
  <2>1. PICK n \in DOMAIN at[k] : order[m] = <<k, n>> /\ plan[m] = at[k][n]
    BY <2>4
  <2>2. ASSUME NEW j \in DOMAIN legs, NEW i \in DOMAIN at[j], Earlier(<<j, i>>, <<k, n>>),
               at[j][i].profile # NoProfile
        PROVE  \E g \in 1..(m - 1) : g \in DOMAIN plan /\ Same(at[j][i], plan[g])
    BY <1>11, <1>12, <2>1, <2>2
  <2> QED BY <1>2, <2>1, <2>2 DEF Entered
<1> QED BY <1>11, <1>14 DEF plan

-----------------------------------------------------------------------------
(* The legs of a model                                                     *)

\* f tables a run of N steps in X from base.
Steps(step, X, N) == step \in [X \X (1..N) -> X]
Run(f, X, N, base, step) ==
  f \in [0..N -> X] /\ f[0] = base /\ \A n \in 1..N : f[n] = step[<<f[n - 1], n>>]

\* Steps that stay in X can be tabled.
LEMMA RunExists ==
  ASSUME NEW X, NEW N \in Nat, NEW base, base \in X, NEW step, Steps(step, X, N)
  PROVE  \E f : Run(f, X, N, base, step)
<1> USE DEF Run, Steps
<1> DEFINE Runs(f, n) == f \in [0..n -> X] /\ f[0] = base /\ \A k \in 1..n : f[k] = step[<<f[k - 1], k>>]
           T == {n \in 0..N : ~ \E f : Runs(f, n)}
<1>1. CASE T = {}
  <2>1. N \in 0..N
    OBVIOUS
  <2> HIDE DEF Runs
  <2>2. \E f : Runs(f, N)
    BY <1>1, <2>1
  <2> QED BY <2>2 DEF Runs
<1>2. CASE T # {}
  <2>1. PICK n \in T : \A k \in T : n <= k
    <3>1. T \subseteq Nat
      OBVIOUS
    <3> HIDE DEF T
    <3> QED BY <1>2, <3>1, SmallestOf
  <2>2. n # 0
    <3> DEFINE f == [k \in 0..0 |-> base]
    <3>1. Runs(f, 0)
      OBVIOUS
    <3> HIDE DEF f
    <3> QED BY <2>1, <3>1
  <2>3. n \in 1..N /\ n - 1 \in 0..N /\ n - 1 \notin T
    BY <2>1, <2>2
  <2>4. PICK f : Runs(f, n - 1)
    BY <2>3
  <2> DEFINE g == [k \in 0..n |-> IF k = n THEN step[<<f[n - 1], n>>] ELSE f[k]]
  <2>5. f[n - 1] \in X /\ step[<<f[n - 1], n>>] \in X
    BY <2>3, <2>4
  <2>6. g \in [0..n -> X]
    <3>1. \A k \in 0..n : k = n \/ k \in 0..(n - 1)
      BY <2>3
    <3> QED BY <2>4, <2>5, <3>1
  <2>7. g[0] = base /\ \A k \in 1..n : g[k] = step[<<g[k - 1], k>>]
    <3>1. g[0] = f[0]
      BY <2>3
    <3>2. \A k \in 1..n : g[k - 1] = f[k - 1] /\ (k # n => g[k] = f[k] /\ k \in 1..(n - 1))
      BY <2>3
    <3>3. ASSUME NEW k \in 1..n PROVE g[k] = step[<<g[k - 1], k>>]
      <4>1. CASE k = n
        <5>1. g[k] = step[<<f[n - 1], n>>] /\ g[k - 1] = f[k - 1]
          BY <2>3, <3>2, <4>1
        <5> QED BY <4>1, <5>1
      <4>2. CASE k # n
        <5>1. g[k] = f[k] /\ g[k - 1] = f[k - 1] /\ k \in 1..(n - 1)
          BY <3>2, <4>2
        <5>2. f[k] = step[<<f[k - 1], k>>]
          BY <2>4, <5>1
        <5> QED BY <5>1, <5>2
      <4> QED BY <4>1, <4>2
    <3> QED BY <2>4, <3>1, <3>3
  <2>8. Runs(g, n)
    BY <2>6, <2>7
  <2> QED BY <2>1, <2>8
<1> QED BY <1>1, <1>2

\* What each step keeps, the run keeps.
LEMMA RunKeeps ==
  ASSUME NEW X, NEW N \in Nat, NEW g, g[0] \in X, \A n \in 1..N : g[n - 1] \in X => g[n] \in X
  PROVE  g[N] \in X
<1> DEFINE T == {n \in 0..N : g[n] \notin X}
<1>1. CASE T # {}
  <2>1. PICK n \in T : \A k \in T : n <= k
    <3>1. T \subseteq Nat
      OBVIOUS
    <3> HIDE DEF T
    <3> QED BY <1>1, <3>1, SmallestOf
  <2>2. n \in 1..N /\ n - 1 \in 0..N /\ n - 1 \notin T
    BY <2>1
  <2> QED BY <2>1, <2>2
<1> QED BY <1>1

\* A model has a leg, and models below it.
LEMMA Branches ==
  ASSUME NEW below, NEW m \in Trees(below)
  PROVE  /\ m.leg \in DOMAIN Leg /\ Len(m.fallbacks) \in Nat
         /\ \A n \in 1..Len(m.fallbacks) : m.fallbacks[n] \in below
BY DEF Trees

\* The lists of legs that have leg l.
With(l) == {s \in Seq(DOMAIN Leg) : Has(s, l)}

\* A leg that is found stays found.
LEMMA AppendHas ==
  ASSUME NEW l, NEW s \in With(l), NEW leg \in DOMAIN Leg
  PROVE  Append(s, leg) \in With(l)
<1>1. s \in Seq(DOMAIN Leg)
  BY DEF With
<1>2. PICK k \in DOMAIN s : s[k] = l
  BY DEF With, Has
<1>3. k \in DOMAIN Append(s, leg) /\ Append(s, leg)[k] = s[k] /\ Append(s, leg) \in Seq(DOMAIN Leg)
  BY <1>1
<1> QED BY <1>2, <1>3 DEF With, Has

\* The walk below a model keeps what was found: at the last level,
LEMMA Depth4Keeps ==
  ASSUME NEW l, NEW s \in With(l), NEW m \in Trees(Trees({}))
  PROVE  Depth4(s, m) \in With(l)
<1> DEFINE N == Len(m.fallbacks)
           under(n) == m.fallbacks[n]
           next(x, n) == IF Has(x, under(n).leg) THEN x ELSE Capped(Append(x, under(n).leg), under(n))
           Found(f) == f = [n \in 0..N |-> IF n = 0 THEN s ELSE next(f[n - 1], n)]
           found == CHOOSE f : Found(f)
<1>1. N \in Nat /\ \A n \in 1..N : under(n) \in Trees({})
  BY Branches
<1>2. ASSUME NEW x \in With(l), NEW n \in 1..N PROVE next(x, n) \in With(l)
  <2>1. under(n) \in Trees({}) /\ under(n).leg \in DOMAIN Leg
    BY <1>1, Branches
  <2> HIDE DEF under
  <2> QED BY <2>1, AppendHas DEF Capped
<1>3. Depth4(s, m) = found[N]
  BY DEF Depth4, Walked
<1> HIDE DEF N, next
<1>4. \E f : Found(f)
  <2> DEFINE step == [p \in With(l) \X (1..N) |-> next(p[1], p[2])]
  <2>1. step \in [With(l) \X (1..N) -> With(l)] /\ \A x \in With(l), n \in 1..N : step[<<x, n>>] = next(x, n)
    BY <1>2
  <2> HIDE DEF step
  <2>2. PICK f \in [0..N -> With(l)] : f[0] = s /\ \A n \in 1..N : f[n] = step[<<f[n - 1], n>>]
    <3>1. N \in Nat /\ s \in With(l) /\ Steps(step, With(l), N)
      BY <1>1, <2>1 DEF Steps
    <3>2. \E f : Run(f, With(l), N, s, step)
      BY <3>1, RunExists
    <3> QED BY <3>2 DEF Run
  <2>3. \A n \in 0..N : f[n] = IF n = 0 THEN s ELSE next(f[n - 1], n)
    <3>1. \A n \in 0..N : n = 0 \/ (n \in 1..N /\ n - 1 \in 0..N)
      BY <1>1
    <3> QED BY <2>1, <2>2, <3>1
  <2>4. Found(f)
    BY <2>2, <2>3
  <2> QED BY <2>4
<1>5. Found(found)
  BY <1>4
<1> HIDE DEF found
<1>6. found[0] = s /\ \A n \in 1..N : found[n] = next(found[n - 1], n)
  <2>1. \A n \in 0..N : found[n] = IF n = 0 THEN s ELSE next(found[n - 1], n)
    BY <1>5
  <2>2. 0 \in 0..N /\ \A n \in 1..N : n \in 0..N /\ n # 0
    BY <1>1
  <2> HIDE DEF Found
  <2> QED BY <2>1, <2>2
<1> HIDE DEF Found
<1>7. \A n \in 1..N : found[n - 1] \in With(l) => found[n] \in With(l)
  BY <1>2, <1>6
<1> QED BY <1>1, <1>3, <1>6, <1>7, RunKeeps

\* at the third,
LEMMA Depth3Keeps ==
  ASSUME NEW l, NEW s \in With(l), NEW m \in Trees(Trees(Trees({})))
  PROVE  Depth3(s, m) \in With(l)
<1> DEFINE N == Len(m.fallbacks)
           under(n) == m.fallbacks[n]
           next(x, n) == IF Has(x, under(n).leg) THEN x ELSE Depth4(Append(x, under(n).leg), under(n))
           Found(f) == f = [n \in 0..N |-> IF n = 0 THEN s ELSE next(f[n - 1], n)]
           found == CHOOSE f : Found(f)
<1>1. N \in Nat /\ \A n \in 1..N : under(n) \in Trees(Trees({}))
  BY Branches
<1>2. ASSUME NEW x \in With(l), NEW n \in 1..N PROVE next(x, n) \in With(l)
  <2>1. under(n) \in Trees(Trees({})) /\ under(n).leg \in DOMAIN Leg
    BY <1>1, Branches
  <2> HIDE DEF under
  <2> QED BY <2>1, AppendHas, Depth4Keeps
<1>3. Depth3(s, m) = found[N]
  BY DEF Depth3, Walked
<1> HIDE DEF N, next
<1>4. \E f : Found(f)
  <2> DEFINE step == [p \in With(l) \X (1..N) |-> next(p[1], p[2])]
  <2>1. step \in [With(l) \X (1..N) -> With(l)] /\ \A x \in With(l), n \in 1..N : step[<<x, n>>] = next(x, n)
    BY <1>2
  <2> HIDE DEF step
  <2>2. PICK f \in [0..N -> With(l)] : f[0] = s /\ \A n \in 1..N : f[n] = step[<<f[n - 1], n>>]
    <3>1. N \in Nat /\ s \in With(l) /\ Steps(step, With(l), N)
      BY <1>1, <2>1 DEF Steps
    <3>2. \E f : Run(f, With(l), N, s, step)
      BY <3>1, RunExists
    <3> QED BY <3>2 DEF Run
  <2>3. \A n \in 0..N : f[n] = IF n = 0 THEN s ELSE next(f[n - 1], n)
    <3>1. \A n \in 0..N : n = 0 \/ (n \in 1..N /\ n - 1 \in 0..N)
      BY <1>1
    <3> QED BY <2>1, <2>2, <3>1
  <2>4. Found(f)
    BY <2>2, <2>3
  <2> QED BY <2>4
<1>5. Found(found)
  BY <1>4
<1> HIDE DEF found
<1>6. found[0] = s /\ \A n \in 1..N : found[n] = next(found[n - 1], n)
  <2>1. \A n \in 0..N : found[n] = IF n = 0 THEN s ELSE next(found[n - 1], n)
    BY <1>5
  <2>2. 0 \in 0..N /\ \A n \in 1..N : n \in 0..N /\ n # 0
    BY <1>1
  <2> HIDE DEF Found
  <2> QED BY <2>1, <2>2
<1> HIDE DEF Found
<1>7. \A n \in 1..N : found[n - 1] \in With(l) => found[n] \in With(l)
  BY <1>2, <1>6
<1> QED BY <1>1, <1>3, <1>6, <1>7, RunKeeps

\* at the second,
LEMMA Depth2Keeps ==
  ASSUME NEW l, NEW s \in With(l), NEW m \in Trees(Trees(Trees(Trees({}))))
  PROVE  Depth2(s, m) \in With(l)
<1> DEFINE N == Len(m.fallbacks)
           under(n) == m.fallbacks[n]
           next(x, n) == IF Has(x, under(n).leg) THEN x ELSE Depth3(Append(x, under(n).leg), under(n))
           Found(f) == f = [n \in 0..N |-> IF n = 0 THEN s ELSE next(f[n - 1], n)]
           found == CHOOSE f : Found(f)
<1>1. N \in Nat /\ \A n \in 1..N : under(n) \in Trees(Trees(Trees({})))
  BY Branches
<1>2. ASSUME NEW x \in With(l), NEW n \in 1..N PROVE next(x, n) \in With(l)
  <2>1. under(n) \in Trees(Trees(Trees({}))) /\ under(n).leg \in DOMAIN Leg
    BY <1>1, Branches
  <2> HIDE DEF under
  <2> QED BY <2>1, AppendHas, Depth3Keeps
<1>3. Depth2(s, m) = found[N]
  BY DEF Depth2, Walked
<1> HIDE DEF N, next
<1>4. \E f : Found(f)
  <2> DEFINE step == [p \in With(l) \X (1..N) |-> next(p[1], p[2])]
  <2>1. step \in [With(l) \X (1..N) -> With(l)] /\ \A x \in With(l), n \in 1..N : step[<<x, n>>] = next(x, n)
    BY <1>2
  <2> HIDE DEF step
  <2>2. PICK f \in [0..N -> With(l)] : f[0] = s /\ \A n \in 1..N : f[n] = step[<<f[n - 1], n>>]
    <3>1. N \in Nat /\ s \in With(l) /\ Steps(step, With(l), N)
      BY <1>1, <2>1 DEF Steps
    <3>2. \E f : Run(f, With(l), N, s, step)
      BY <3>1, RunExists
    <3> QED BY <3>2 DEF Run
  <2>3. \A n \in 0..N : f[n] = IF n = 0 THEN s ELSE next(f[n - 1], n)
    <3>1. \A n \in 0..N : n = 0 \/ (n \in 1..N /\ n - 1 \in 0..N)
      BY <1>1
    <3> QED BY <2>1, <2>2, <3>1
  <2>4. Found(f)
    BY <2>2, <2>3
  <2> QED BY <2>4
<1>5. Found(found)
  BY <1>4
<1> HIDE DEF found
<1>6. found[0] = s /\ \A n \in 1..N : found[n] = next(found[n - 1], n)
  <2>1. \A n \in 0..N : found[n] = IF n = 0 THEN s ELSE next(found[n - 1], n)
    BY <1>5
  <2>2. 0 \in 0..N /\ \A n \in 1..N : n \in 0..N /\ n # 0
    BY <1>1
  <2> HIDE DEF Found
  <2> QED BY <2>1, <2>2
<1> HIDE DEF Found
<1>7. \A n \in 1..N : found[n - 1] \in With(l) => found[n] \in With(l)
  BY <1>2, <1>6
<1> QED BY <1>1, <1>3, <1>6, <1>7, RunKeeps

\* and at the first: the selected model is a candidate.
LEMMA CandidatesHaveSelected ==
  ASSUME NEW m \in Trees(Trees(Trees(Trees(Trees({})))))
  PROVE  collectCandidates(m) \in With(m.leg)
<1> DEFINE s == <<m.leg>>
           N == Len(m.fallbacks)
           under(n) == m.fallbacks[n]
           next(x, n) == IF Has(x, under(n).leg) THEN x ELSE Depth2(Append(x, under(n).leg), under(n))
           Found(f) == f = [n \in 0..N |-> IF n = 0 THEN s ELSE next(f[n - 1], n)]
           found == CHOOSE f : Found(f)
<1>0. s \in With(m.leg)
  <2>1. m.leg \in DOMAIN Leg
    BY Branches
  <2>2. s \in Seq(DOMAIN Leg) /\ 1 \in DOMAIN s /\ s[1] = m.leg
    BY <2>1
  <2> QED BY <2>2 DEF With, Has
<1>1. N \in Nat /\ \A n \in 1..N : under(n) \in Trees(Trees(Trees(Trees({}))))
  BY Branches
<1>2. ASSUME NEW x \in With(m.leg), NEW n \in 1..N PROVE next(x, n) \in With(m.leg)
  <2>1. under(n) \in Trees(Trees(Trees(Trees({})))) /\ under(n).leg \in DOMAIN Leg
    BY <1>1, Branches
  <2> HIDE DEF under
  <2> QED BY <2>1, AppendHas, Depth2Keeps
<1>3. collectCandidates(m) = found[N]
  BY DEF collectCandidates, Walked
<1> HIDE DEF N, next, s
<1>4. \E f : Found(f)
  <2> DEFINE step == [p \in With(m.leg) \X (1..N) |-> next(p[1], p[2])]
  <2>1. step \in [With(m.leg) \X (1..N) -> With(m.leg)] /\ \A x \in With(m.leg), n \in 1..N : step[<<x, n>>] = next(x, n)
    BY <1>2
  <2> HIDE DEF step
  <2>2. PICK f \in [0..N -> With(m.leg)] : f[0] = s /\ \A n \in 1..N : f[n] = step[<<f[n - 1], n>>]
    <3>1. N \in Nat /\ s \in With(m.leg) /\ Steps(step, With(m.leg), N)
      BY <1>0, <1>1, <2>1 DEF Steps
    <3>2. \E f : Run(f, With(m.leg), N, s, step)
      BY <3>1, RunExists
    <3> QED BY <3>2 DEF Run
  <2>3. \A n \in 0..N : f[n] = IF n = 0 THEN s ELSE next(f[n - 1], n)
    <3>1. \A n \in 0..N : n = 0 \/ (n \in 1..N /\ n - 1 \in 0..N)
      BY <1>1
    <3> QED BY <2>1, <2>2, <3>1
  <2>4. Found(f)
    BY <2>2, <2>3
  <2> QED BY <2>4
<1>5. Found(found)
  BY <1>4
<1> HIDE DEF found
<1>6. found[0] = s /\ \A n \in 1..N : found[n] = next(found[n - 1], n)
  <2>1. \A n \in 0..N : found[n] = IF n = 0 THEN s ELSE next(found[n - 1], n)
    BY <1>5
  <2>2. 0 \in 0..N /\ \A n \in 1..N : n \in 0..N /\ n # 0
    BY <1>1
  <2> HIDE DEF Found
  <2> QED BY <2>1, <2>2
<1> HIDE DEF Found
<1>7. \A n \in 1..N : found[n - 1] \in With(m.leg) => found[n] \in With(m.leg)
  BY <1>2, <1>6
<1> QED BY <1>0, <1>1, <1>3, <1>6, <1>7, RunKeeps

-----------------------------------------------------------------------------
(* The time an attempt may take                                            *)

\* Before anything is learned of a leg its budget is a number of ticks.
LEMMA BudgetTyped ==
  ASSUME NEW leg \in DOMAIN Leg, NEW tokens
  PROVE  candidateResponseHeaderBudget(leg, <<>>, tokens) \in Nat
<1> DEFINE base  == Least(Leg[leg].ceiling, Limits(leg).base)
<1>1. Leg[leg].ceiling \in Nat /\ Second \in Nat
  BY SelectionAssumption
<1>2. Limits(leg).base \in Nat
  BY <1>1 DEF Limits
<1>3. base \in Nat
  BY <1>1, <1>2 DEF Least
<1> HIDE DEF base
<1>4. Scaled(base, tokens) \in Nat
  BY <1>3 DEF Scaled
<1> QED BY <1>1, <1>4 DEF candidateResponseHeaderBudget, Least, base

\* There are attempts ahead of one that is not the last.
LEMMA Ahead ==
  ASSUME NEW n \in Nat, NEW i \in 1..n
  PROVE  /\ n - i \in Nat /\ n - i \in 0..n
         /\ i # n => n - i \in 1..n /\ (n - i) - 1 \in 0..n /\ n - (i + 1) = (n - i) - 1
OBVIOUS

\* The other providers ahead are at most the attempts ahead, and there is one
\* if an unmetered attempt ahead has another provider.
LEMMA LaterTyped ==
  ASSUME NEW plan, IsList(plan), NEW i \in DOMAIN plan
  PROVE  /\ laterUnmeteredProviders(plan, i) \in 0..(Len(plan) - i)
         /\ \A j \in (i + 1)..Len(plan) :
              Unmetered(plan[j].leg) /\ Leg[plan[j].leg].provider # Leg[plan[i].leg].provider =>
                laterUnmeteredProviders(plan, i) >= 1
<1> DEFINE J == {j \in i+1..Len(plan) : Unmetered(plan[j].leg)}
           found == {Leg[plan[k].leg].provider : k \in J}
           X == found \ {Leg[plan[i].leg].provider}
           f == [k \in J |-> Leg[plan[k].leg].provider]
<1>1. Len(plan) \in Nat /\ i \in 1..Len(plan)
  BY ListFacts
<1>2. IsFiniteSet(i+1..Len(plan)) /\ Cardinality(i+1..Len(plan)) = Len(plan) - i
  <2>1. i + 1 \in Int /\ Len(plan) \in Int
    BY <1>1
  <2>2. /\ IsFiniteSet(i+1..Len(plan))
        /\ Cardinality(i+1..Len(plan)) = IF i + 1 > Len(plan) THEN 0 ELSE Len(plan) - (i + 1) + 1
    BY <2>1, FS_Interval
  <2> QED BY <1>1, <2>2
<1>3. J \in SUBSET (i+1..Len(plan)) /\ f \in Surjection(J, found) /\ X \in SUBSET found
  BY DEF Surjection
<1>4. laterUnmeteredProviders(plan, i) = Cardinality(X)
  BY DEF laterUnmeteredProviders
<1>5. \A j \in (i + 1)..Len(plan) :
        Unmetered(plan[j].leg) /\ Leg[plan[j].leg].provider # Leg[plan[i].leg].provider => X # {}
  OBVIOUS
<1> HIDE DEF X, found, J, f
<1>6. IsFiniteSet(J) /\ Cardinality(J) <= Len(plan) - i /\ Cardinality(J) \in Nat
  <2>1. IsFiniteSet(J) /\ Cardinality(J) <= Cardinality(i+1..Len(plan))
    BY <1>2, <1>3, FS_Subset
  <2>2. Cardinality(J) \in Nat
    BY <2>1, FS_CardinalityType
  <2> QED BY <1>2, <2>1, <2>2
<1>7. IsFiniteSet(found) /\ Cardinality(found) <= Cardinality(J) /\ Cardinality(found) \in Nat
  BY <1>3, <1>6, FS_Surjection, FS_CardinalityType
<1>8. IsFiniteSet(X) /\ Cardinality(X) <= Cardinality(found) /\ Cardinality(X) \in Nat
  BY <1>3, <1>7, FS_Subset, FS_CardinalityType
<1>9. X # {} => Cardinality(X) >= 1
  <2>1. X # {} => Cardinality(X) # 0
    BY <1>8, FS_EmptySet
  <2> QED BY <1>8, <2>1
<1>10. Cardinality(X) \in 0..(Len(plan) - i)
  BY <1>1, <1>6, <1>7, <1>8
<1> QED BY <1>4, <1>5, <1>9, <1>10

\* What is needed doubles, and some, with each attempt.
LEMMA NeededIs ==
  ASSUME NEW plan, IsList(plan)
  PROVE  /\ \A k \in 0..Len(plan) : /\ Needed(plan)[k] \in Nat /\ Needed(plan)[k] >= 1
                                    /\ Needed(plan)[k] <= Needed(plan)[Len(plan)]
         /\ \A k \in 1..Len(plan) : Needed(plan)[k] = 2 * (Needed(plan)[k - 1] + k)
<1> DEFINE N == Len(plan)
           Found(f) == f = [k \in 0..N |-> IF k = 0 THEN 1 ELSE 2 * (f[k - 1] + k)]
           need == CHOOSE f : Found(f)
           step == [p \in Nat \X (1..N) |-> 2 * (p[1] + p[2])]
<1>1. N \in Nat
  BY ListFacts
<1>2. Needed(plan) = need
  BY DEF Needed
<1> HIDE DEF N
<1>3. \E f : Found(f)
  <2>1. Steps(step, Nat, N) /\ \A x \in Nat, k \in 1..N : step[<<x, k>>] = 2 * (x + k)
    BY <1>1 DEF Steps
  <2> HIDE DEF step
  <2>2. PICK f : Run(f, Nat, N, 1, step)
    BY <1>1, <2>1, RunExists
  <2>3. f \in [0..N -> Nat] /\ f[0] = 1 /\ \A k \in 1..N : f[k] = step[<<f[k - 1], k>>]
    BY <2>2 DEF Run
  <2>4. \A k \in 0..N : f[k] = IF k = 0 THEN 1 ELSE 2 * (f[k - 1] + k)
    <3>1. \A k \in 0..N : k = 0 \/ (k \in 1..N /\ k - 1 \in 0..N)
      BY <1>1
    <3> QED BY <2>1, <2>3, <3>1
  <2>5. Found(f)
    BY <2>3, <2>4
  <2> QED BY <2>5
<1>4. Found(need)
  BY <1>3
<1> HIDE DEF need, step
<1>5. need[0] = 1 /\ \A k \in 1..N : need[k] = 2 * (need[k - 1] + k)
  BY <1>1, <1>4
<1> HIDE DEF Found
<1>6. ASSUME NEW k \in 0..N PROVE need[k] \in Nat /\ need[k] >= 1
  <2> DEFINE X == Nat \ {0}
  <2>1. k \in Nat /\ need[0] \in X /\ \A n \in 1..k : need[n - 1] \in X => need[n] \in X
    BY <1>1, <1>5
  <2>2. need[k] \in X
    <3> HIDE DEF X
    <3> QED BY <2>1, RunKeeps
  <2> QED BY <2>2
<1>7. ASSUME NEW k \in 0..N PROVE need[k] <= need[N]
  <2> DEFINE X == {x \in Nat : need[k] <= x}
             g == [n \in 0..(N - k) |-> need[n + k]]
  <2>1. N - k \in Nat /\ g[0] \in X /\ g[N - k] = need[N]
    BY <1>1, <1>6
  <2>2. ASSUME NEW n \in 1..(N - k), g[n - 1] \in X PROVE g[n] \in X
    <3>1. /\ n + k \in 1..N /\ n - 1 \in 0..(N - k) /\ n + k - 1 \in 0..N /\ n \in 0..(N - k)
          /\ (n - 1) + k = n + k - 1
      BY <1>1
    <3>2. g[n] = need[n + k] /\ g[n - 1] = need[n + k - 1]
      BY <3>1
    <3>3. need[n + k] = 2 * (need[n + k - 1] + (n + k)) /\ need[n + k - 1] \in Nat /\ need[k] \in Nat
      BY <1>5, <1>6, <3>1
    <3> QED BY <2>2, <3>1, <3>2, <3>3
  <2> HIDE DEF g, X
  <2>3. g[N - k] \in X
    BY <2>1, <2>2, RunKeeps
  <2> QED BY <2>1, <2>3 DEF X
<1> QED BY <1>2, <1>5, <1>6, <1>7 DEF N

\* What is needed for k attempts more, when one that leaves its share to n
\* other providers ahead has waited.
LEMMA ShareLeft ==
  ASSUME NEW n \in Nat, NEW k \in Nat, n >= 1, n <= k, NEW need \in Nat, need >= 1, need <= RouteReserve,
         NEW left \in Nat, left >= 2 * (need + k)
  PROVE  Least(n * RouteReserve, (left \div (n + 1)) * n) >= need
<1> DEFINE t == left \div (n + 1)
           R == RouteReserve
<1>1. R \in Nat
  BY SelectionAssumption DEF RouteReserve
<1>2. t \in Nat /\ left < (n + 1) * t + (n + 1)
  OBVIOUS
<1> HIDE DEF t, R
<1>3. n * R >= R
  <2>1. (n - 1) * R >= 0 /\ (n - 1) * R = n * R - R
    BY <1>1
  <2> QED BY <1>1, <2>1
<1>4. t * n \in Nat /\ t * n >= t /\ (n + 1) * t = t * n + t
  <2>1. (n - 1) * t >= 0 /\ (n - 1) * t = t * n - t /\ (n + 1) * t = t * n + t /\ t * n \in Nat
    BY <1>2
  <2> QED BY <1>2, <2>1
<1>5. t * n >= need
  BY <1>2, <1>4
<1>6. n * R \in Nat
  BY <1>1
<1> QED BY <1>1, <1>3, <1>4, <1>5, <1>6 DEF Least, t, R

\* The share of an attempt is a part of what is left, and all of it is not
\* more than what it can wait for.
LEMMA ShareTyped ==
  ASSUME NEW plan, NEW i, laterUnmeteredProviders(plan, i) \in Nat, NEW left \in Nat
  PROVE  /\ remainingAttemptHeaderBudget(plan, i, left) \in 0..left
         /\ left > 0 => remainingAttemptHeaderBudget(plan, i, left) > 0
<1> DEFINE n == laterUnmeteredProviders(plan, i)
           t == left \div (n + 1)
           R == RouteReserve
           kept == Least(n * R, t * n)
<1>1. remainingAttemptHeaderBudget(plan, i, left) = left - kept
  BY DEF remainingAttemptHeaderBudget
<1> HIDE DEF n
<1>2. R \in Nat /\ n \in Nat
  BY SelectionAssumption DEF RouteReserve, n
<1>3. t \in Nat /\ (n + 1) * t <= left
  BY <1>2
<1> HIDE DEF t, R
<1>4. t * n \in Nat /\ n * R \in Nat /\ (n + 1) * t = t * n + t
  BY <1>2, <1>3
<1>5. kept \in Nat /\ kept <= t * n
  BY <1>4 DEF Least
<1> HIDE DEF kept
<1>6. left > 0 => t * n < left
  <2>1. t = 0 => t * n = 0
    BY <1>2, <1>3
  <2> QED BY <1>3, <1>4, <2>1
<1> QED BY <1>1, <1>3, <1>4, <1>5, <1>6

-----------------------------------------------------------------------------
(* Leases and their counters                                               *)

Holders(rq, p) == {r \in Requests : rq[r].lease = p}

\* f counts, for every account, the requests in rq that hold a lease of it.
Balanced(f, rq) ==
  /\ f \in [Profiles -> Nat]
  /\ \A p \in Profiles : f[p] = Cardinality(Holders(rq, p))

\* Between rq1 and rq2 at most the lease of r changed.
Elsewhere(rq1, rq2, r) == \A s \in Requests \ {r} : rq2[s].lease = rq1[s].lease

\* The number of holders of an account moves by at most the one request that
\* changes its lease.
LEMMA HoldersMove ==
  ASSUME NEW rq1, NEW rq2, NEW r \in Requests, Elsewhere(rq1, rq2, r), NEW p
  PROVE  /\ Cardinality(Holders(rq1, p)) \in Nat
         /\ (rq1[r].lease = p) = (rq2[r].lease = p) =>
              Cardinality(Holders(rq2, p)) = Cardinality(Holders(rq1, p))
         /\ rq1[r].lease = p /\ rq2[r].lease # p =>
              Cardinality(Holders(rq2, p)) = Cardinality(Holders(rq1, p)) - 1
         /\ rq1[r].lease # p /\ rq2[r].lease = p =>
              Cardinality(Holders(rq2, p)) = Cardinality(Holders(rq1, p)) + 1
         /\ rq1[r].lease = p => Cardinality(Holders(rq1, p)) # 0
<1> DEFINE H1 == Holders(rq1, p)
           H2 == Holders(rq2, p)
<1>1. IsFiniteSet(H1) /\ IsFiniteSet(H2)
  BY SelectionAssumption, FS_Subset DEF Holders
<1>2. Cardinality(H1) \in Nat /\ Cardinality(H2) \in Nat
  BY <1>1, FS_CardinalityType
<1>4. ASSUME rq1[r].lease = p, rq2[r].lease # p PROVE Cardinality(H2) = Cardinality(H1) - 1
  <2>1. H2 = H1 \ {r} /\ r \in H1
    BY <1>4 DEF Holders, Elsewhere
  <2> QED BY <1>1, <2>1, FS_RemoveElement
<1>5. ASSUME rq1[r].lease # p, rq2[r].lease = p PROVE Cardinality(H2) = Cardinality(H1) + 1
  <2>1. H2 = H1 \cup {r} /\ r \notin H1
    BY <1>5 DEF Holders, Elsewhere
  <2> QED BY <1>1, <2>1, FS_AddElement
<1>6. ASSUME rq1[r].lease = p PROVE Cardinality(H1) # 0
  BY <1>1, <1>6, FS_EmptySet DEF Holders
<1>7. (rq1[r].lease = p) = (rq2[r].lease = p) => Cardinality(H2) = Cardinality(H1)
  <2>1. (rq1[r].lease = p) = (rq2[r].lease = p) => H1 = H2
    BY DEF Holders, Elsewhere
  <2> QED BY <2>1
<1> QED BY <1>2, <1>4, <1>5, <1>6, <1>7

\* A request that keeps its lease leaves the counters as they are.
LEMMA BalanceKept ==
  ASSUME NEW f, NEW rq1, NEW rq2, NEW r \in Requests, Elsewhere(rq1, rq2, r),
         Balanced(f, rq1), rq2[r].lease = rq1[r].lease
  PROVE  Balanced(f, rq2)
BY HoldersMove DEF Balanced

\* Drops is what giving back a request's lease does to the counters.
LEMMA BalanceDropped ==
  ASSUME NEW f, NEW rq1, NEW rq2, NEW r \in Requests, Elsewhere(rq1, rq2, r),
         Balanced(f, rq1), rq2[r].lease = NoProfile
  PROVE  Balanced(Drops(f, rq1[r].lease), rq2)
<1> DEFINE a == rq1[r].lease
           g == Drops(f, a)
<1>1. CASE a = NoProfile
  BY <1>1, BalanceKept DEF Drops
<1>2. CASE a # NoProfile
  <2>0. f \in [Profiles -> Nat]
    BY DEF Balanced
  <2>1. g = [f EXCEPT ![a] = IF @ > 1 THEN @ - 1 ELSE 0]
    BY <1>2 DEF Drops
  <2>2. g \in [Profiles -> Nat]
    <3> HIDE DEF a, g
    <3>1. DOMAIN g = Profiles /\ g = [p \in Profiles |-> g[p]]
      BY <2>0, <2>1
    <3>2. ASSUME NEW p \in Profiles PROVE g[p] \in Nat
      <4>1. f[p] \in Nat
        BY <2>0
      <4>2. g[p] = IF p = a THEN IF f[p] > 1 THEN f[p] - 1 ELSE 0 ELSE f[p]
        BY <2>0, <2>1
      <4> QED BY <4>1, <4>2
    <3> QED BY <3>1, <3>2
  <2>3. ASSUME NEW p \in Profiles PROVE g[p] = Cardinality(Holders(rq2, p))
    <3>1. p # NoProfile
      BY SelectionAssumption
    <3>2. f[p] \in Nat /\ f[p] = Cardinality(Holders(rq1, p))
      BY DEF Balanced
    <3>3. g[p] = IF p = a THEN IF f[p] > 1 THEN f[p] - 1 ELSE 0 ELSE f[p]
      <4> HIDE DEF a, g
      <4> QED BY <2>0, <2>1
    <3>4. CASE p = a
      <4>1. f[p] # 0 /\ Cardinality(Holders(rq2, p)) = f[p] - 1
        BY <3>1, <3>2, <3>4, HoldersMove
      <4> HIDE DEF g, a
      <4> QED BY <3>2, <3>3, <3>4, <4>1
    <3>5. CASE p # a
      <4>1. Cardinality(Holders(rq2, p)) = f[p]
        BY <3>1, <3>2, <3>5, HoldersMove
      <4> HIDE DEF g, a
      <4> QED BY <3>3, <3>5, <4>1
    <3> QED BY <3>4, <3>5
  <2> HIDE DEF g
  <2>4. Balanced(g, rq2)
    BY <2>2, <2>3 DEF Balanced
  <2> QED BY <2>4 DEF g
<1> QED BY <1>1, <1>2

\* Holds is what taking a lease does to the counters.
LEMMA BalanceHeld ==
  ASSUME NEW f, NEW rq1, NEW rq2, NEW r \in Requests, Elsewhere(rq1, rq2, r),
         Balanced(f, rq1), rq1[r].lease = NoProfile
  PROVE  Balanced(Holds(f, rq2[r].lease), rq2)
<1> DEFINE b == rq2[r].lease
           g == Holds(f, b)
<1>1. CASE b = NoProfile
  BY <1>1, BalanceKept DEF Holds
<1>2. CASE b # NoProfile
  <2>0. f \in [Profiles -> Nat]
    BY DEF Balanced
  <2>1. g = [f EXCEPT ![b] = @ + 1]
    BY <1>2 DEF Holds
  <2>2. g \in [Profiles -> Nat]
    <3> HIDE DEF b, g
    <3>1. g = [p \in Profiles |-> g[p]]
      BY <2>0, <2>1
    <3>2. ASSUME NEW p \in Profiles PROVE g[p] \in Nat
      <4>1. f[p] \in Nat /\ f[p] + 1 \in Nat
        BY <2>0
      <4>2. g[p] = IF p = b THEN f[p] + 1 ELSE f[p]
        BY <2>0, <2>1
      <4> QED BY <4>1, <4>2
    <3> QED BY <3>1, <3>2
  <2>3. ASSUME NEW p \in Profiles PROVE g[p] = Cardinality(Holders(rq2, p))
    <3>1. p # NoProfile
      BY SelectionAssumption
    <3>2. f[p] \in Nat /\ f[p] = Cardinality(Holders(rq1, p))
      BY DEF Balanced
    <3>3. g[p] = IF p = b THEN f[p] + 1 ELSE f[p]
      <4> HIDE DEF b, g
      <4> QED BY <2>0, <2>1
    <3>4. CASE p = b
      <4>1. Cardinality(Holders(rq2, p)) = f[p] + 1
        BY <3>1, <3>2, <3>4, HoldersMove
      <4> HIDE DEF g, b
      <4> QED BY <3>3, <3>4, <4>1
    <3>5. CASE p # b
      <4>1. Cardinality(Holders(rq2, p)) = f[p]
        BY <3>1, <3>2, <3>5, HoldersMove
      <4> HIDE DEF g, b
      <4> QED BY <3>3, <3>5, <4>1
    <3> QED BY <3>4, <3>5
  <2> HIDE DEF g
  <2>4. Balanced(g, rq2)
    BY <2>2, <2>3 DEF Balanced
  <2> QED BY <2>4 DEF g
<1> QED BY <1>1, <1>2

-----------------------------------------------------------------------------
(* The inductive invariant                                                 *)

\* Every request has the fields of a quiet one.
Shaped == /\ req = [r \in Requests |-> req[r]]
          /\ \A r \in Requests : DOMAIN req[r] = DOMAIN Quiet

\* A request that has not chosen an account yet holds no lease.
LeaseAfterChoice == \A r \in Requests : req[r].pc \in {"idle", "scan"} => req[r].lease = NoProfile

LeaseInv == Shaped /\ LeaseAfterChoice /\ Balanced(inFlight, req)

\* The fields of a request.
LEMMA Fields ==
  /\ {"pc", "lease"} \subseteq DOMAIN Quiet
  /\ Quiet.pc = "idle" /\ Quiet.lease = NoProfile
BY DEF Quiet

\* A step of request r that leaves it with the shape of a request, with a
\* lease only after the choice, and with counters in balance.
LEMMA StepOf ==
  ASSUME LeaseInv, NEW r \in Requests, NEW q, req' = [req EXCEPT ![r] = q],
         DOMAIN q = DOMAIN Quiet, q.pc \in {"idle", "scan"} => q.lease = NoProfile,
         \/ inFlight' = inFlight /\ q.lease = req[r].lease
         \/ inFlight' = Drops(inFlight, req[r].lease) /\ q.lease = NoProfile
         \/ inFlight' = Holds(Drops(inFlight, req[r].lease), q.lease)
  PROVE  LeaseInv'
<1>1. Shaped' /\ req'[r] = q /\ \A s \in Requests \ {r} : req'[s] = req[s]
  BY DEF LeaseInv, Shaped
<1>2. LeaseAfterChoice'
  BY <1>1 DEF LeaseInv, LeaseAfterChoice
<1>3. Elsewhere(req, req', r)
  BY <1>1 DEF Elsewhere
<1>4. Balanced(inFlight', req')
  <2>1. CASE inFlight' = inFlight /\ q.lease = req[r].lease
    BY <1>1, <1>3, <2>1, BalanceKept DEF LeaseInv
  <2>2. CASE inFlight' = Drops(inFlight, req[r].lease) /\ q.lease = NoProfile
    BY <1>1, <1>3, <2>2, BalanceDropped DEF LeaseInv
  <2>3. CASE inFlight' = Holds(Drops(inFlight, req[r].lease), q.lease)
    <3> DEFINE mid == [req EXCEPT ![r] = Quiet]
    <3>1. mid[r].lease = NoProfile /\ Elsewhere(req, mid, r) /\ Elsewhere(mid, req', r)
      BY <1>1, Fields DEF LeaseInv, Shaped, Elsewhere
    <3> HIDE DEF mid
    <3>2. Balanced(Drops(inFlight, req[r].lease), mid)
      BY <3>1, BalanceDropped DEF LeaseInv
    <3> QED BY <1>1, <2>3, <3>1, <3>2, BalanceHeld
  <2> QED BY <2>1, <2>2, <2>3
<1> QED BY <1>1, <1>2, <1>4 DEF LeaseInv, Balanced

\* In the first state nobody holds anything; a restart makes it so again.
LEMMA EmptyInv ==
  ASSUME NEW f, NEW rq, f = [p \in Profiles |-> 0], rq = [r \in Requests |-> Quiet]
  PROVE  Balanced(f, rq)
<1>1. ASSUME NEW p \in Profiles PROVE Cardinality(Holders(rq, p)) = 0
  <2>1. Holders(rq, p) = {}
    BY Fields, SelectionAssumption DEF Holders
  <2> QED BY <2>1, FS_EmptySet
<1> QED BY <1>1 DEF Balanced

\* A new process holds no leases.
LEMMA InitLeaseInv == SelectionInit => LeaseInv
BY EmptyInv, Fields DEF SelectionInit, LeaseInv, Shaped, LeaseAfterChoice

\* Each action keeps the invariant. A request begins without a lease,
LEMMA BindLeaseInv ==
  ASSUME LeaseInv, NEW r \in Requests, NEW k, NEW c \in Conversations, Bind(r, k, c)
  PROVE  LeaseInv'
<1> DEFINE pool == IF IsClaude(Selected(k)) THEN profilesForCandidate(Selected(k)) ELSE <<>>
           pin  == IF Expires(k, c) THEN NoProfile ELSE Restored(c, pool)
           was  == IF pins[c] # NoProfile THEN pins[c] ELSE saved[c]
           q == [Quiet EXCEPT !.pc = IF pool = <<>> THEN "plan" ELSE "scan", !.kind = k, !.conv = c,
                        !.was = was, !.expired = Expires(k, c),
                        !.passed = Account(was) \ Members(pool),
                        !.look = IF pin \in Members(pool) THEN pin ELSE NoProfile,
                        !.pool = pool, !.todo = pool]
<1>1. req' = [req EXCEPT ![r] = q]
  BY DEF Bind
<1>2. DOMAIN q = DOMAIN Quiet /\ q.lease = NoProfile
  <2> HIDE DEF pool, pin, was
  <2> QED BY Fields DEF Quiet
<1>3. inFlight' = inFlight /\ req[r].lease = NoProfile
  BY DEF Bind, LeaseInv, LeaseAfterChoice
<1> HIDE DEF q
<1> QED BY <1>1, <1>2, <1>3, StepOf

\* looks at an account,
LEMMA ScanLeaseInv ==
  ASSUME LeaseInv, NEW r \in Requests, Scan(r)
  PROVE  LeaseInv'
<1> DEFINE o == req[r]
           limits == PoolLimits[Leg[Selected(o.kind)].pool]
           p == Head(o.todo)
           hit == [o EXCEPT !.todo = Tail(@),
                            !.avail = Append(@, [profile |-> p, usage |-> Seen(usage[p], limits)])]
           miss == [o EXCEPT !.todo = Tail(@), !.passed = @ \cup {p}]
           q == IF Usable(p, Selected(o.kind)) THEN hit ELSE miss
<1>1. req' = [req EXCEPT ![r] = q] /\ inFlight' = inFlight
  BY DEF Scan
<1>2. DOMAIN o = DOMAIN Quiet /\ "pc" \in DOMAIN o /\ "lease" \in DOMAIN o /\ o.lease = NoProfile
  BY Fields DEF LeaseInv, Shaped, LeaseAfterChoice, Scan
<1>3. DOMAIN hit = DOMAIN Quiet /\ hit.lease = o.lease
  <2> HIDE DEF o, p, limits
  <2> QED BY <1>2
<1>4. DOMAIN miss = DOMAIN Quiet /\ miss.lease = o.lease
  <2> HIDE DEF o, p, limits
  <2> QED BY <1>2
<1>5. DOMAIN q = DOMAIN Quiet /\ q.lease = NoProfile /\ q.lease = o.lease
  <2> HIDE DEF hit, miss, o
  <2> QED BY <1>2, <1>3, <1>4
<1> HIDE DEF q
<1> QED BY <1>1, <1>5, StepOf

\* The account chosen is reserved, unless only tokens are counted.
LEMMA ChooseLeaseInv ==
  ASSUME LeaseInv, NEW r \in Requests, Choose(r)
  PROVE  LeaseInv'
<1> DEFINE o == req[r]
           reserve == ~Kind[o.kind].count
           p == ChosenAccount(o, reserve)
           lease == IF reserve THEN p ELSE NoProfile
           held == [o EXCEPT !.pc = "plan", !.bound = p, !.lease = lease, !.avail = <<>>]
           q == IF reserve THEN held ELSE Quiet
<1>1. req' = [req EXCEPT ![r] = q] /\ inFlight' = Holds(inFlight, lease)
  BY DEF Choose
<1>2. DOMAIN o = DOMAIN Quiet /\ "pc" \in DOMAIN o /\ "lease" \in DOMAIN o /\ o.lease = NoProfile
  BY Fields DEF LeaseInv, Shaped, LeaseAfterChoice, Choose
<1>3. DOMAIN held = DOMAIN Quiet /\ held.lease = lease /\ held.pc = "plan"
  <2> HIDE DEF o, p, lease, reserve
  <2> QED BY <1>2
<1>4. DOMAIN q = DOMAIN Quiet /\ q.lease = lease /\ (q.pc = "plan" \/ q.lease = NoProfile)
  <2> HIDE DEF held, o, p
  <2> QED BY <1>3, Fields
<1>5. inFlight' = Holds(Drops(inFlight, o.lease), q.lease)
  BY <1>1, <1>2, <1>4 DEF Drops
<1> HIDE DEF q, lease
<1> QED BY <1>1, <1>4, <1>5, StepOf

\* A request without an account ends, or is planned without one.
LEMMA NoneAvailableLeaseInv ==
  ASSUME LeaseInv, NEW r \in Requests, NoneAvailable(r)
  PROVE  LeaseInv'
<1> DEFINE o == req[r]
           on == [o EXCEPT !.pc = "plan"]
           q == IF Kind[o.kind].count THEN Quiet ELSE on
<1>1. req' = [req EXCEPT ![r] = q] /\ inFlight' = inFlight
  BY DEF NoneAvailable
<1>2. DOMAIN o = DOMAIN Quiet /\ "pc" \in DOMAIN o /\ "lease" \in DOMAIN o /\ o.lease = NoProfile
  BY Fields DEF LeaseInv, Shaped, LeaseAfterChoice, NoneAvailable
<1>3. DOMAIN on = DOMAIN Quiet /\ on.lease = NoProfile
  <2> HIDE DEF o
  <2> QED BY <1>2
<1>4. DOMAIN q = DOMAIN Quiet /\ q.lease = NoProfile /\ q.lease = o.lease
  <2> HIDE DEF on, o
  <2> QED BY <1>2, <1>3, Fields
<1> HIDE DEF q
<1> QED BY <1>1, <1>4, StepOf

\* A plan without attempts gives the reserved account back; another one keeps it.
LEMMA PlanLeaseInv ==
  ASSUME LeaseInv, NEW r \in Requests, Plan(r)
  PROVE  LeaseInv'
<1> DEFINE o == req[r]
<1>1. DOMAIN o = DOMAIN Quiet /\ "pc" \in DOMAIN o /\ "lease" \in DOMAIN o
  BY Fields DEF LeaseInv, Shaped
<1>2. CASE req' = [req EXCEPT ![r] = Quiet] /\ inFlight' = Drops(inFlight, o.lease)
  BY <1>2, Fields, StepOf
<1>3. ASSUME NEW plan,
             req' = [req EXCEPT ![r] =
                      [o EXCEPT !.pc = "walk", !.plan = plan,
                                !.pool = profilesForCandidate(Selected(o.kind)),
                                !.left = fallbackChainHeaderBudget(Kind[o.kind].tokens)]],
             inFlight' = inFlight
      PROVE  LeaseInv'
  <2> DEFINE q == [o EXCEPT !.pc = "walk", !.plan = plan,
                            !.pool = profilesForCandidate(Selected(o.kind)),
                            !.left = fallbackChainHeaderBudget(Kind[o.kind].tokens)]
  <2>1. DOMAIN q = DOMAIN Quiet /\ q.lease = o.lease /\ q.pc = "walk"
    <3> HIDE DEF o
    <3> QED BY <1>1
  <2>2. req' = [req EXCEPT ![r] = q]
    BY <1>3
  <2> HIDE DEF q
  <2> QED BY <1>3, <2>1, <2>2, StepOf
<1> QED BY <1>2, <1>3 DEF Plan

\* What Onward leaves of a request on its way.
LEMMA OnwardFields ==
  ASSUME NEW q, DOMAIN q = DOMAIN Quiet
  PROVE  /\ DOMAIN Onward(q) = DOMAIN Quiet
         /\ Onward(q).pc = "walk" \/ Onward(q).lease = NoProfile
         /\ Onward(q).lease = IF LastAttempt(q) THEN NoProfile ELSE q.lease
<1> DEFINE n == [q EXCEPT !.pc = "walk", !.i = @ + 1]
<1>1. DOMAIN n = DOMAIN Quiet /\ n.pc = "walk" /\ n.lease = q.lease
  BY Fields
<1> HIDE DEF n
<1>2. Onward(q) = IF LastAttempt(q) THEN Quiet ELSE n
  BY DEF Onward, n
<1> QED BY <1>1, <1>2, Fields

\* The account that was selected goes back when another one is skipped.
LEMMA SkipLeaseInv ==
  ASSUME LeaseInv, NEW r \in Requests, NEW refused \in BOOLEAN, Skip(r, refused)
  PROVE  LeaseInv'
<1> DEFINE o == req[r]
           kept == [o EXCEPT !.lease = Kept(o), !.skip = IF SameHost(o) THEN @ ELSE {},
                             !.passed = @ \cup Account(Now(o).profile)]
           q == Onward(kept)
<1>1. /\ req' = [req EXCEPT ![r] = q]
      /\ inFlight' = IF LastAttempt(o) THEN Drops(Dropped(o, inFlight), Kept(o))
                     ELSE Dropped(o, inFlight)
  BY DEF Skip
<1>2. DOMAIN o = DOMAIN Quiet /\ {"pc", "lease", "plan", "i"} \subseteq DOMAIN o
  BY Fields DEF LeaseInv, Shaped, Quiet
<1>3. DOMAIN kept = DOMAIN Quiet /\ kept.lease = Kept(o) /\ kept.plan = o.plan /\ kept.i = o.i
  <2> HIDE DEF o
  <2> QED BY <1>2
<1>4. LastAttempt(kept) = LastAttempt(o)
  BY <1>3 DEF LastAttempt
<1> HIDE DEF kept
<1>5. DOMAIN q = DOMAIN Quiet /\ (q.pc = "walk" \/ q.lease = NoProfile)
      /\ q.lease = IF LastAttempt(o) THEN NoProfile ELSE Kept(o)
  BY <1>3, <1>4, OnwardFields
<1> HIDE DEF q
<1>6. \/ inFlight' = inFlight /\ q.lease = o.lease
      \/ inFlight' = Drops(inFlight, o.lease) /\ q.lease = NoProfile
  BY <1>1, <1>5 DEF Kept, Dropped, Drops
<1> QED BY <1>1, <1>5, <1>6, StepOf

\* ends early or when its body is closed,
LEMMA OutOfTimeOrCloseLeaseInv ==
  ASSUME LeaseInv, NEW r \in Requests, OutOfTime(r) \/ Close(r)
  PROVE  LeaseInv'
BY Fields, StepOf DEF OutOfTime, Close

\* The attempt keeps the lease it finds, or hands it over for its own.
LEMMA SendLeaseInv ==
  ASSUME LeaseInv, NEW r \in Requests, Send(r)
  PROVE  LeaseInv'
<1> DEFINE o == req[r]
           fresh == IF Kept(o) = NoProfile THEN Now(o).profile ELSE NoProfile
           q == [o EXCEPT !.pc = "sent", !.lease = Now(o).profile, !.skip = {}]
<1>1. req' = [req EXCEPT ![r] = q] /\ inFlight' = Holds(Dropped(o, inFlight), fresh)
  BY DEF Send
<1>2. DOMAIN o = DOMAIN Quiet /\ "pc" \in DOMAIN o /\ "lease" \in DOMAIN o
  BY Fields DEF LeaseInv, Shaped
<1>3. DOMAIN q = DOMAIN Quiet /\ q.lease = Now(o).profile /\ q.pc = "sent"
  <2> HIDE DEF o
  <2> QED BY <1>2
<1> HIDE DEF q
<1>4. \/ inFlight' = inFlight /\ q.lease = o.lease
      \/ inFlight' = Holds(Drops(inFlight, o.lease), q.lease)
  BY <1>1, <1>3 DEF Kept, Dropped, Holds
<1> QED BY <1>1, <1>3, <1>4, StepOf

\* A failed attempt has given its lease back before the next one.
LEMMA FailsLeaseInv ==
  ASSUME LeaseInv, NEW r \in Requests, NEW q, DOMAIN q = DOMAIN Quiet, Fails(r, q)
  PROVE  LeaseInv'
<1> DEFINE free == [q EXCEPT !.lease = NoProfile]
<1>1. req' = [req EXCEPT ![r] = Onward(free)] /\ inFlight' = Drops(inFlight, req[r].lease)
  BY DEF Fails
<1>2. DOMAIN free = DOMAIN Quiet /\ free.lease = NoProfile
  BY Fields
<1> HIDE DEF free
<1>3. DOMAIN Onward(free) = DOMAIN Quiet /\ Onward(free).lease = NoProfile
  BY <1>2, OnwardFields
<1> QED BY <1>1, <1>3, StepOf

\* is refused,
LEMMA RefuseLeaseInv ==
  ASSUME LeaseInv, NEW r \in Requests, NEW why, Refuse(r, why)
  PROVE  LeaseInv'
<1> DEFINE o == req[r]
           q == [o EXCEPT !.passed = @ \cup Account(Via(o))]
<1>1. DOMAIN o = DOMAIN Quiet
  BY DEF LeaseInv, Shaped
<1>2. DOMAIN q = DOMAIN Quiet
  <2> HIDE DEF o
  <2> QED BY <1>1
<1>3. Fails(r, q)
  BY DEF Refuse
<1> HIDE DEF q
<1> QED BY <1>2, <1>3, FailsLeaseInv

\* or gets no answer.
LEMMA NoAnswerLeaseInv ==
  ASSUME LeaseInv, NEW r \in Requests, NEW how, NoAnswer(r, how)
  PROVE  LeaseInv'
<1> DEFINE o == req[r]
<1>1. DOMAIN o = DOMAIN Quiet
  BY DEF LeaseInv, Shaped
<1> DEFINE waits  == candidateResponseHeaderBudget(Now(o).leg, <<>>, Kind[o.kind].tokens)
           shared == remainingAttemptHeaderBudget(o.plan, o.i, o.left)
           left   == CASE how = "waited"  -> o.left - HeaderBudget(o.plan, o.i, o.left, <<>>, Kind[o.kind].tokens)
                       [] how = "stalled" -> 0
                       [] OTHER           -> o.left
           skip   == IF Now(o).profile = NoProfile \/ how = "outage" \/ (how = "waited" /\ shared < waits)
                     THEN {} ELSE {Leg[Now(o).leg].upstream}
           q == [o EXCEPT !.left = left,
                          !.stalled = @ \/ how = "stalled",
                          !.outage = @ \/ (how = "outage" /\ Leg[Now(o).leg].scope # "pinned"),
                          !.skip = skip,
                          !.passed = @ \cup Account(Via(o))]
<1>2. Fails(r, q)
  BY DEF NoAnswer
<1>3. DOMAIN q = DOMAIN Quiet
  <2> HIDE DEF o, left, skip
  <2> QED BY <1>1
<1> HIDE DEF q
<1> QED BY <1>2, <1>3, FailsLeaseInv

\* The lease of a good answer is held until its body is closed.
LEMMA SucceedLeaseInv ==
  ASSUME LeaseInv, NEW r \in Requests, Succeed(r)
  PROVE  LeaseInv'
<1> DEFINE q == [Quiet EXCEPT !.pc = "reading", !.lease = req[r].lease]
<1>1. req' = [req EXCEPT ![r] = q] /\ inFlight' = inFlight
  BY DEF Succeed
<1>2. DOMAIN q = DOMAIN Quiet /\ q.lease = req[r].lease /\ q.pc = "reading"
  BY Fields
<1> HIDE DEF q
<1> QED BY <1>1, <1>2, StepOf

\* A restart drops leases and counters together.
LEMMA RestartLeaseInv == ASSUME Restart PROVE LeaseInv'
BY EmptyInv, Fields DEF Restart, LeaseInv, Shaped, LeaseAfterChoice

\* Every step keeps the invariant.
LEMMA NextLeaseInv == ASSUME LeaseInv, [SelectionNext]_selectionVars PROVE LeaseInv'
<1>1. CASE UNCHANGED <<inFlight, req>>
  BY <1>1 DEF LeaseInv, Shaped, LeaseAfterChoice, Balanced, Holders
<1>2. CASE SelectionNext
  <2>1. ASSUME NEW p \in Profiles, NEW x, BlockChanges(p, x) \/ UsageMoves(p, x) \/ Login(p, x)
        PROVE  LeaseInv'
    BY <1>1, <2>1 DEF BlockChanges, UsageMoves, Login
  <2>2. ASSUME NEW c \in Conversations, Lapse(c) PROVE LeaseInv'
    BY <1>1, <2>2 DEF Lapse
  <2> QED BY <1>2, <2>1, <2>2, RestartLeaseInv, BindLeaseInv, ScanLeaseInv, ChooseLeaseInv,
             NoneAvailableLeaseInv, PlanLeaseInv, SkipLeaseInv, OutOfTimeOrCloseLeaseInv,
             SendLeaseInv, RefuseLeaseInv, NoAnswerLeaseInv, SucceedLeaseInv DEF SelectionNext
<1> QED BY <1>1, <1>2 DEF selectionVars

\* The invariant holds throughout.
LEMMA SpecLeaseInv == SelectionSpec => []LeaseInv
BY InitLeaseInv, NextLeaseInv, PTL DEF SelectionSpec

\* LeasesBalance for any requests, accounts, pools, chains and policies: through
\* hand-over, refusal, early exits and restarts no lease is lost or returned twice.
THEOREM LeasesAreBalanced == SelectionSpec => []LeasesBalance
<1>1. LeaseInv => LeasesBalance
  BY DEF LeaseInv, Balanced, LeasesBalance, Holders
<1> QED BY <1>1, SpecLeaseInv, PTL

-----------------------------------------------------------------------------
(* What a request knows on its way                                         *)

\* An attempt of the selected account's pool comes after one with the account
\* that is bound.
PinFirst(q) ==
  \A m \in DOMAIN q.plan :
    /\ q.plan[m].profile # NoProfile /\ q.plan[m].profile # q.bound
    /\ Leg[q.plan[m].leg].pool = Leg[Selected(q.kind)].pool /\ q.bound \in Members(q.pool)
    => \E j \in 1..(m - 1) : j \in DOMAIN q.plan /\ q.plan[j].profile = q.bound

\* What PoolBeforeFallback says of the attempts before attempt m.
PoolFirst(q) ==
  \A m \in DOMAIN q.plan :
    /\ ~IsClaude(q.plan[m].leg) /\ Leg[q.plan[m].leg].tier > Leg[Selected(q.kind)].tier
    /\ preserveSonnetSubscriptionOrder(Selected(q.kind)) \/ Leg[Selected(q.kind)].scope = "pinned"
    /\ Serves(Selected(q.kind), Kind[q.kind].needs)
    => \A p \in Members(q.pool) \cap (IF Leg[Selected(q.kind)].scope = "pinned" THEN {q.bound}
                                       ELSE Profiles) :
         \E j \in 1..(m - 1) : /\ q.plan[j].profile = p
                               /\ Leg[q.plan[j].leg].upstream = Leg[Selected(q.kind)].upstream

\* The accounts of the pool that were looked at are passed or available; the
\* pin is looked for.
Scanning(q) ==
  /\ IsClaude(Selected(q.kind)) /\ IsList(q.todo) /\ IsList(q.avail)
  /\ \A p \in Members(q.pool) : \/ p \in q.passed \/ p \in Members(q.todo)
                                \/ \E k \in DOMAIN q.avail : q.avail[k].profile = p
  /\ q.was # NoProfile => \/ q.expired \/ q.was \in q.passed
                          \/ q.was \in Members(q.pool) /\ q.look = q.was

\* A pin that was not passed over is bound.
PinBound(q) ==
  /\ q.bound # NoProfile => IsClaude(Selected(q.kind))
  /\ q.was # NoProfile => q.expired \/ q.was \in q.passed \/ q.bound = q.was

\* The accounts of the attempts before the current one were passed.
Walking(q) ==
  /\ IsList(q.plan) /\ q.i \in DOMAIN q.plan
  /\ \A j \in 1..(q.i - 1) : Account(q.plan[j].profile) \subseteq q.passed
  /\ Members(q.pool) \subseteq Profiles
  /\ \A m \in DOMAIN q.plan : q.plan[m].leg \in DOMAIN Leg
  /\ PinFirst(q) /\ PoolFirst(q)

OnItsWay(q) ==
  /\ q.pc \in {"scan", "plan", "walk", "sent"} => q.kind \in DOMAIN Kind
  /\ q.pc = "scan" => Scanning(q)
  /\ q.pc \in {"plan", "walk", "sent"} => PinBound(q)
  /\ q.pc \in {"scan", "plan"} => q.i = 1
  /\ q.pc \in {"walk", "sent"} => Walking(q)

WayInv ==
  /\ usage \in [Profiles -> UsageSnapshots]
  /\ load \in Workloads /\ DOMAIN saved = Conversations
  /\ \A r \in Requests : OnItsWay(req[r])

SelectionInv == LeaseInv /\ WayInv

\* All the fields of a request, and what is in them at first.
LEMMA QuietFields ==
  /\ DOMAIN Quiet = {"pc", "kind", "conv", "was", "expired", "look", "pool", "todo", "avail", "passed",
                     "bound", "lease", "plan", "i", "left", "skip", "outage", "stalled"}
  /\ Quiet.pc = "idle" /\ Quiet.i = 1 /\ Quiet.bound = NoProfile /\ Quiet.avail = <<>>
BY DEF Quiet

\* A request that has not begun, or is over, is nowhere on its way.
LEMMA QuietWay == OnItsWay(Quiet)
BY QuietFields DEF OnItsWay

\* A step of request r alone.
LEMMA WayStep ==
  ASSUME SelectionInv, NEW r \in Requests, NEW q, req' = [req EXCEPT ![r] = q], OnItsWay(q),
         UNCHANGED <<usage, load>>, DOMAIN saved' = DOMAIN saved
  PROVE  WayInv'
<1>1. ASSUME NEW s \in Requests PROVE OnItsWay(req'[s])
  <2>1. req'[s] = IF s = r THEN q ELSE req[s]
    BY DEF SelectionInv, LeaseInv, Shaped
  <2> QED BY <2>1 DEF SelectionInv, WayInv
<1>2. (\A s \in Requests : OnItsWay(req[s]))'
  BY <1>1
<1> QED BY <1>2 DEF SelectionInv, WayInv

\* The plan, the pool and the pin of a request are not touched on the way, and
\* no account that was passed is forgotten.
LEMMA WayKept ==
  ASSUME NEW q, NEW n, n.kind = q.kind, n.was = q.was, n.expired = q.expired, n.bound = q.bound,
         n.pool = q.pool, n.plan = q.plan, n.i = q.i, q.passed \subseteq n.passed
  PROVE  /\ PinBound(q) => PinBound(n)
         /\ Walking(q) => Walking(n)
<1>1. PinBound(q) => PinBound(n)
  BY DEF PinBound
<1>2. PinFirst(q) => PinFirst(n)
  BY DEF PinFirst
<1>3. PoolFirst(q) => PoolFirst(n)
  BY DEF PoolFirst
<1>4. Walking(q) => Walking(n)
  BY <1>2, <1>3 DEF Walking
<1> QED BY <1>1, <1>4

\* On to the next attempt, the account of this one being passed.
LEMMA OnwardWay ==
  ASSUME NEW q, DOMAIN q = DOMAIN Quiet, q.kind \in DOMAIN Kind, PinBound(q), Walking(q),
         Account(Now(q).profile) \subseteq q.passed
  PROVE  OnItsWay(Onward(q))
<1> DEFINE n == [q EXCEPT !.pc = "walk", !.i = @ + 1]
<1>1. CASE LastAttempt(q)
  BY <1>1, QuietWay DEF Onward
<1>2. CASE ~LastAttempt(q)
  <2>1. /\ n.pc = "walk" /\ n.i = q.i + 1 /\ n.kind = q.kind /\ n.was = q.was /\ n.expired = q.expired
        /\ n.bound = q.bound /\ n.pool = q.pool /\ n.plan = q.plan /\ n.passed = q.passed
    BY QuietFields
  <2>2. Onward(q) = n
    BY <1>2 DEF Onward
  <2> HIDE DEF n
  <2>3. PinBound(n) /\ PinFirst(n) /\ PoolFirst(n)
    BY <2>1 DEF PinBound, Walking, PinFirst, PoolFirst
  <2>4. IsList(q.plan) /\ Len(q.plan) \in Nat /\ DOMAIN q.plan = 1..Len(q.plan) /\ q.i \in DOMAIN q.plan
    BY ListFacts DEF Walking
  <2>5. n.i \in DOMAIN n.plan
    BY <1>2, <2>1, <2>4 DEF LastAttempt
  <2>6. ASSUME NEW j \in 1..(n.i - 1) PROVE Account(n.plan[j].profile) \subseteq n.passed
    <3>1. j \in 1..(q.i - 1) \/ j = q.i
      BY <2>1, <2>4
    <3> QED BY <2>1, <3>1 DEF Walking, Now
  <2>7. Walking(n)
    BY <2>1, <2>3, <2>4, <2>5, <2>6 DEF Walking
  <2> QED BY <2>1, <2>2, <2>3, <2>7 DEF OnItsWay
<1> QED BY <1>1, <1>2

-----------------------------------------------------------------------------
(* Sequences that are read from the front and written at the back          *)

\* What is read from the front of a sequence is a member, the rest are the others.
LEMMA TailMembers ==
  ASSUME NEW s, IsList(s), s # <<>>
  PROVE  IsList(Tail(s)) /\ Members(s) = {Head(s)} \cup Members(Tail(s))
<1>1. PICK S : s \in Seq(S)
  BY DEF IsList
<1>2. /\ Len(s) \in Nat /\ DOMAIN s = 1..Len(s) /\ Len(s) # 0 /\ Head(s) = s[1]
      /\ Tail(s) \in Seq(S) /\ Len(Tail(s)) = Len(s) - 1
      /\ \A n \in 1..(Len(s) - 1) : Tail(s)[n] = s[n + 1]
  BY <1>1, HeadTailProperties, EmptySeq, LenProperties
<1>3. DOMAIN Tail(s) = 1..(Len(s) - 1)
  BY <1>2, LenProperties
<1>4. ASSUME NEW x \in Members(s) PROVE x = Head(s) \/ x \in Members(Tail(s))
  <2>1. PICK k \in DOMAIN s : x = s[k]
    BY <1>4 DEF Members
  <2>2. k = 1 \/ (k - 1 \in 1..(Len(s) - 1) /\ (k - 1) + 1 = k)
    BY <1>2, <2>1
  <2> QED BY <1>2, <1>3, <2>1, <2>2 DEF Members
<1>5. ASSUME NEW x \in Members(Tail(s)) PROVE x \in Members(s)
  <2>1. PICK k \in DOMAIN Tail(s) : x = Tail(s)[k]
    BY <1>5 DEF Members
  <2>2. k + 1 \in DOMAIN s
    BY <1>2, <1>3, <2>1
  <2> QED BY <1>2, <1>3, <2>1, <2>2 DEF Members
<1>6. Head(s) \in Members(s)
  <2>1. 1 \in DOMAIN s
    BY <1>2
  <2> QED BY <1>2, <2>1 DEF Members
<1> QED BY <1>2, <1>4, <1>5, <1>6 DEF IsList

\* What is written at the back leaves the others in their places.
LEMMA AppendEntries ==
  ASSUME NEW s, IsList(s), NEW x
  PROVE  /\ IsList(Append(s, x))
         /\ \A k \in DOMAIN s : k \in DOMAIN Append(s, x) /\ Append(s, x)[k] = s[k]
         /\ \E k \in DOMAIN Append(s, x) : Append(s, x)[k] = x
<1>1. PICK S : s \in Seq(S)
  BY DEF IsList
<1> DEFINE T == S \cup {x}
<1>2. s \in Seq(T) /\ x \in T
  <2>1. Len(s) \in Nat /\ \A k \in 1..Len(s) : s[k] \in T
    BY <1>1, LenProperties, ElementOfSeq
  <2>2. s = [k \in 1..Len(s) |-> s[k]]
    BY <1>1, LenProperties
  <2> QED BY <2>1, <2>2
<1> HIDE DEF T
<1>3. /\ Append(s, x) \in Seq(T) /\ Len(Append(s, x)) = Len(s) + 1 /\ Len(s) \in Nat
      /\ \A k \in 1..Len(s) : Append(s, x)[k] = s[k]
      /\ Append(s, x)[Len(s) + 1] = x
  BY <1>2, AppendProperties, LenProperties
<1>4. DOMAIN s = 1..Len(s) /\ DOMAIN Append(s, x) = 1..(Len(s) + 1)
  BY <1>2, <1>3, LenProperties
<1> QED BY <1>3, <1>4 DEF IsList

-----------------------------------------------------------------------------
(* The actions                                                             *)

\* A new process has no requests on their way.
LEMMA InitWayInv == SelectionInit => WayInv
<1> SUFFICES ASSUME SelectionInit PROVE WayInv
  OBVIOUS
<1>1. usage \in [Profiles -> UsageSnapshots]
  BY SeenTyped DEF SelectionInit
<1>2. \A r \in Requests : OnItsWay(req[r])
  BY QuietWay DEF SelectionInit
<1> QED BY <1>1, <1>2 DEF SelectionInit, WayInv

\* A request without a pool to choose from has nothing bound.
LEMMA BindWayInv ==
  ASSUME SelectionInv, NEW r \in Requests, NEW k \in load.kinds[r], NEW c \in Conversations, Bind(r, k, c)
  PROVE  WayInv'
<1> DEFINE pool == IF IsClaude(Selected(k)) THEN profilesForCandidate(Selected(k)) ELSE <<>>
           pin  == IF Expires(k, c) THEN NoProfile ELSE Restored(c, pool)
           was  == IF pins[c] # NoProfile THEN pins[c] ELSE saved[c]
           look == IF pin \in Members(pool) THEN pin ELSE NoProfile
           phase   == IF pool = <<>> THEN "plan" ELSE "scan"
           out  == Account(was) \ Members(pool)
           q == [Quiet EXCEPT !.pc = phase, !.kind = k, !.conv = c,
                        !.was = was, !.expired = Expires(k, c),
                        !.passed = out, !.look = look, !.pool = pool, !.todo = pool]
<1>1. req' = [req EXCEPT ![r] = q] /\ UNCHANGED <<usage, load, saved>>
  BY DEF Bind, world
<1>2. k \in DOMAIN Kind
  BY SelectionAssumption DEF SelectionInv, WayInv
<1>3. IsList(pool) /\ Members(<<>>) = {}
  <2>1. <<>> \in Seq(Profiles)
    OBVIOUS
  <2> QED BY <2>1, PoolTyped DEF IsList, Members
<1>4. was \in Members(pool) /\ ~Expires(k, c) => look = was
  BY DEF Restored
<1>5. was # NoProfile => was \in Members(pool) \/ was \in out
  BY DEF Account
<1>6. pool # <<>> => IsClaude(Selected(k))
  OBVIOUS
<1> HIDE DEF pool, pin, was, look, out
<1>7. /\ q.pc = phase /\ q.kind = k /\ q.was = was /\ q.expired = Expires(k, c)
      /\ q.passed = out /\ q.look = look /\ q.pool = pool /\ q.todo = pool
      /\ q.i = 1 /\ q.bound = NoProfile /\ q.avail = <<>>
  BY QuietFields
<1> HIDE DEF q
<1>8. CASE pool = <<>>
  <2>1. PinBound(q)
    BY <1>3, <1>5, <1>7, <1>8 DEF PinBound
  <2>2. OnItsWay(q)
    BY <1>2, <1>7, <1>8, <2>1 DEF OnItsWay
  <2> QED BY <1>1, <2>2, WayStep
<1>9. CASE pool # <<>>
  <2>1. IsList(q.avail)
    <3>1. <<>> \in Seq(Profiles)
      OBVIOUS
    <3> QED BY <1>7, <3>1 DEF IsList
  <2>2. Scanning(q)
    BY <1>3, <1>4, <1>5, <1>6, <1>7, <1>9, <2>1 DEF Scanning
  <2>3. OnItsWay(q)
    BY <1>2, <1>7, <1>9, <2>2 DEF OnItsWay
  <2> QED BY <1>1, <2>3, WayStep
<1> QED BY <1>8, <1>9

\* An account that is looked at becomes available or is passed over.
LEMMA ScanWayInv ==
  ASSUME SelectionInv, NEW r \in Requests, Scan(r)
  PROVE  WayInv'
<1> DEFINE o == req[r]
           limits == PoolLimits[Leg[Selected(o.kind)].pool]
           p == Head(o.todo)
           seen == [profile |-> p, usage |-> Seen(usage[p], limits)]
           hit == [o EXCEPT !.todo = Tail(@), !.avail = Append(@, seen)]
           miss == [o EXCEPT !.todo = Tail(@), !.passed = @ \cup {p}]
<1>1. req' = [req EXCEPT ![r] = hit] \/ req' = [req EXCEPT ![r] = miss]
  BY DEF Scan
<1>2. UNCHANGED <<usage, load, saved>>
  BY DEF Scan, KeepPins, world, bounds
<1>3. DOMAIN o = DOMAIN Quiet /\ o.pc = "scan" /\ o.todo # <<>> /\ OnItsWay(o)
  BY DEF Scan, SelectionInv, LeaseInv, Shaped, WayInv
<1>4. Scanning(o) /\ o.kind \in DOMAIN Kind /\ o.i = 1
  BY <1>3 DEF OnItsWay
<1>5. seen.profile = p
  OBVIOUS
<1> HIDE DEF o, seen
<1>6. IsList(Tail(o.todo)) /\ Members(o.todo) = {p} \cup Members(Tail(o.todo))
  BY <1>3, <1>4, TailMembers DEF Scanning
<1> HIDE DEF p
<1>7. ASSUME req' = [req EXCEPT ![r] = hit] PROVE WayInv'
  <2>1. /\ hit.pc = "scan" /\ hit.kind = o.kind /\ hit.was = o.was /\ hit.expired = o.expired
        /\ hit.look = o.look /\ hit.pool = o.pool /\ hit.passed = o.passed /\ hit.i = o.i
        /\ hit.todo = Tail(o.todo) /\ hit.avail = Append(o.avail, seen)
    BY <1>3, QuietFields
  <2> HIDE DEF hit
  <2>2. /\ IsList(hit.avail)
        /\ \A k \in DOMAIN o.avail : k \in DOMAIN hit.avail /\ hit.avail[k] = o.avail[k]
        /\ \E k \in DOMAIN hit.avail : hit.avail[k] = seen
    BY <1>4, <2>1, AppendEntries DEF Scanning
  <2>3. ASSUME NEW x \in Members(hit.pool)
        PROVE  \/ x \in hit.passed \/ x \in Members(hit.todo)
               \/ \E k \in DOMAIN hit.avail : hit.avail[k].profile = x
    <3>1. \/ x \in o.passed \/ x = p \/ x \in Members(hit.todo)
          \/ \E k \in DOMAIN o.avail : o.avail[k].profile = x
      BY <1>4, <1>6, <2>1, <2>3 DEF Scanning
    <3> QED BY <1>5, <2>1, <2>2, <3>1
  <2>4. Scanning(hit)
    BY <1>4, <1>6, <2>1, <2>2, <2>3 DEF Scanning
  <2>5. OnItsWay(hit)
    BY <1>4, <2>1, <2>4 DEF OnItsWay
  <2> QED BY <1>2, <1>7, <2>5, WayStep
<1>8. ASSUME req' = [req EXCEPT ![r] = miss] PROVE WayInv'
  <2>1. /\ miss.pc = "scan" /\ miss.kind = o.kind /\ miss.was = o.was /\ miss.expired = o.expired
        /\ miss.look = o.look /\ miss.pool = o.pool /\ miss.avail = o.avail /\ miss.i = o.i
        /\ miss.todo = Tail(o.todo) /\ miss.passed = o.passed \cup {p}
    BY <1>3, QuietFields
  <2> HIDE DEF miss
  <2>2. ASSUME NEW x \in Members(miss.pool)
        PROVE  \/ x \in miss.passed \/ x \in Members(miss.todo)
               \/ \E k \in DOMAIN miss.avail : miss.avail[k].profile = x
    <3>1. \/ x \in o.passed \/ x = p \/ x \in Members(miss.todo)
          \/ \E k \in DOMAIN o.avail : o.avail[k].profile = x
      BY <1>4, <1>6, <2>1, <2>2 DEF Scanning
    <3> QED BY <2>1, <3>1
  <2>3. Scanning(miss)
    BY <1>4, <1>6, <2>1, <2>2 DEF Scanning
  <2>4. OnItsWay(miss)
    BY <1>4, <2>1, <2>3 DEF OnItsWay
  <2> QED BY <1>2, <1>8, <2>4, WayStep
<1> QED BY <1>1, <1>7, <1>8

\* The whole pool was looked at: a pin that is not available was passed over.
LEMMA ScannedPin ==
  ASSUME NEW q, Scanning(q), q.todo = <<>>, q.was # NoProfile, ~q.expired, q.was \notin q.passed
  PROVE  /\ \E k \in DOMAIN q.avail : q.avail[k].profile = q.look
         /\ q.look = q.was
<1>1. Members(q.todo) = {}
  BY DEF Members
<1> QED BY <1>1 DEF Scanning

\* The account that is chosen is the pin, if it is available.
LEMMA ChooseWayInv ==
  ASSUME SelectionInv, NEW r \in Requests, Choose(r)
  PROVE  WayInv'
<1> DEFINE o == req[r]
           reserve == ~Kind[o.kind].count
           p == ChosenAccount(o, reserve)
           lease == IF reserve THEN p ELSE NoProfile
           held == [o EXCEPT !.pc = "plan", !.bound = p, !.lease = lease, !.avail = <<>>]
<1>1. req' = [req EXCEPT ![r] = held] \/ req' = [req EXCEPT ![r] = Quiet]
  BY DEF Choose
<1>2. UNCHANGED <<usage, load>> /\ DOMAIN saved' = DOMAIN saved
  BY DEF Choose, Remember, world, bounds
<1>3. DOMAIN o = DOMAIN Quiet /\ o.pc = "scan" /\ o.todo = <<>> /\ OnItsWay(o)
  BY DEF Choose, SelectionInv, LeaseInv, Shaped, WayInv
<1>4. Scanning(o) /\ o.kind \in DOMAIN Kind /\ o.i = 1
  BY <1>3 DEF OnItsWay
<1>5. o.was # NoProfile => o.expired \/ o.was \in o.passed \/ p = o.was
  <2> SUFFICES ASSUME o.was # NoProfile, ~o.expired, o.was \notin o.passed PROVE p = o.was
    OBVIOUS
  <2>1. (\E k \in DOMAIN o.avail : o.avail[k].profile = o.look) /\ o.look = o.was
    BY <1>3, <1>4, ScannedPin
  <2> QED BY <2>1 DEF ChosenAccount
<1> HIDE DEF o, p, lease
<1>6. /\ held.pc = "plan" /\ held.kind = o.kind /\ held.was = o.was /\ held.expired = o.expired
      /\ held.bound = p /\ held.passed = o.passed /\ held.i = o.i
  BY <1>3, QuietFields
<1> HIDE DEF held
<1>7. PinBound(held)
  BY <1>4, <1>5, <1>6 DEF PinBound, Scanning
<1>8. OnItsWay(held)
  BY <1>4, <1>6, <1>7 DEF OnItsWay
<1> QED BY <1>1, <1>2, <1>8, QuietWay, WayStep

\* Without an available account the whole pool was passed over.
LEMMA NoneAvailableWayInv ==
  ASSUME SelectionInv, NEW r \in Requests, NoneAvailable(r)
  PROVE  WayInv'
<1> DEFINE o == req[r]
           on == [o EXCEPT !.pc = "plan"]
<1>1. req' = [req EXCEPT ![r] = on] \/ req' = [req EXCEPT ![r] = Quiet]
  BY DEF NoneAvailable
<1>2. UNCHANGED <<usage, load, saved>>
  BY DEF NoneAvailable, KeepPins, world, bounds
<1>3. DOMAIN o = DOMAIN Quiet /\ o.pc = "scan" /\ o.todo = <<>> /\ o.avail = <<>> /\ OnItsWay(o)
  BY DEF NoneAvailable, SelectionInv, LeaseInv, Shaped, WayInv
<1>4. Scanning(o) /\ o.kind \in DOMAIN Kind /\ o.i = 1
  BY <1>3 DEF OnItsWay
<1>5. o.was # NoProfile => o.expired \/ o.was \in o.passed
  BY <1>3, <1>4, ScannedPin
<1> HIDE DEF o
<1>6. /\ on.pc = "plan" /\ on.kind = o.kind /\ on.was = o.was /\ on.expired = o.expired
      /\ on.bound = o.bound /\ on.passed = o.passed /\ on.i = o.i
  BY <1>3, QuietFields
<1> HIDE DEF on
<1>7. PinBound(on)
  BY <1>4, <1>5, <1>6 DEF PinBound, Scanning
<1>8. OnItsWay(on)
  BY <1>4, <1>6, <1>7 DEF OnItsWay
<1> QED BY <1>1, <1>2, <1>8, QuietWay, WayStep

\* A request on its way that is sent or passes the account of its attempt.
LEMMA SkipWayInv ==
  ASSUME SelectionInv, NEW r \in Requests, NEW refused \in BOOLEAN, Skip(r, refused)
  PROVE  WayInv'
<1> DEFINE o == req[r]
           lease == Kept(o)
           skip == IF SameHost(o) THEN o.skip ELSE {}
           gone == Account(Now(o).profile)
           n == [o EXCEPT !.lease = lease, !.skip = skip, !.passed = @ \cup gone]
<1>1. req' = [req EXCEPT ![r] = Onward(n)]
  BY DEF Skip
<1>2. UNCHANGED <<usage, load, saved>>
  BY DEF Skip, KeepPins, world, bounds
<1>3. DOMAIN o = DOMAIN Quiet /\ o.pc = "walk" /\ OnItsWay(o)
  BY DEF Skip, SelectionInv, LeaseInv, Shaped, WayInv
<1>4. PinBound(o) /\ Walking(o) /\ o.kind \in DOMAIN Kind
  BY <1>3 DEF OnItsWay
<1> HIDE DEF o, lease, skip
<1>5. /\ n.kind = o.kind /\ n.was = o.was /\ n.expired = o.expired /\ n.bound = o.bound
      /\ n.pool = o.pool /\ n.plan = o.plan /\ n.i = o.i /\ n.passed = o.passed \cup gone
      /\ DOMAIN n = DOMAIN Quiet
  <2> HIDE DEF gone
  <2> QED BY <1>3, QuietFields
<1> HIDE DEF n
<1>6. PinBound(n) /\ Walking(n) /\ Account(Now(n).profile) \subseteq n.passed
  BY <1>4, <1>5, WayKept DEF Now
<1>7. OnItsWay(Onward(n))
  BY <1>4, <1>5, <1>6, OnwardWay
<1> QED BY <1>1, <1>2, <1>7, WayStep

\* A request that ends early is over.
LEMMA OutOfTimeOrCloseWayInv ==
  ASSUME SelectionInv, NEW r \in Requests, OutOfTime(r) \/ Close(r)
  PROVE  WayInv'
<1>1. req' = [req EXCEPT ![r] = Quiet] /\ UNCHANGED <<usage, load, saved>>
  BY DEF OutOfTime, Close, KeepPins, world, bounds
<1> QED BY <1>1, QuietWay, WayStep

\* An attempt that is sent stays the current one.
LEMMA SendWayInv ==
  ASSUME SelectionInv, NEW r \in Requests, Send(r)
  PROVE  WayInv'
<1> DEFINE o == req[r]
           lease == Now(o).profile
           n == [o EXCEPT !.pc = "sent", !.lease = lease, !.skip = {}]
<1>1. req' = [req EXCEPT ![r] = n]
  BY DEF Send
<1>2. UNCHANGED <<usage, load, saved>>
  BY DEF Send, KeepPins, world, bounds
<1>3. DOMAIN o = DOMAIN Quiet /\ o.pc = "walk" /\ OnItsWay(o)
  BY DEF Send, SelectionInv, LeaseInv, Shaped, WayInv
<1>4. PinBound(o) /\ Walking(o) /\ o.kind \in DOMAIN Kind
  BY <1>3 DEF OnItsWay
<1> HIDE DEF o, lease
<1>5. /\ n.kind = o.kind /\ n.was = o.was /\ n.expired = o.expired /\ n.bound = o.bound
      /\ n.pool = o.pool /\ n.plan = o.plan /\ n.i = o.i /\ n.passed = o.passed /\ n.pc = "sent"
  BY <1>3, QuietFields
<1> HIDE DEF n
<1>6. PinBound(n) /\ Walking(n)
  BY <1>4, <1>5, WayKept
<1>7. OnItsWay(n)
  BY <1>4, <1>5, <1>6 DEF OnItsWay
<1> QED BY <1>1, <1>2, <1>7, WayStep

\* A failed attempt has passed the account it went out with.
LEMMA FailsWayInv ==
  ASSUME SelectionInv, NEW r \in Requests, req[r].pc = "sent", NEW q, DOMAIN q = DOMAIN Quiet,
         q.kind = req[r].kind, q.was = req[r].was, q.expired = req[r].expired, q.bound = req[r].bound,
         q.pool = req[r].pool, q.plan = req[r].plan, q.i = req[r].i,
         q.passed = req[r].passed \cup Account(Via(req[r])),
         Fails(r, q), UNCHANGED usage
  PROVE  WayInv'
<1> DEFINE o == req[r]
           free == [q EXCEPT !.lease = NoProfile]
<1>1. req' = [req EXCEPT ![r] = Onward(free)] /\ UNCHANGED <<usage, load, saved>>
  BY DEF Fails, KeepPins, bounds
<1>2. DOMAIN o = DOMAIN Quiet /\ OnItsWay(o)
  BY DEF SelectionInv, LeaseInv, Shaped, WayInv
<1>3. PinBound(o) /\ Walking(o) /\ o.kind \in DOMAIN Kind
  BY <1>2 DEF OnItsWay
<1>4. /\ free.kind = o.kind /\ free.was = o.was /\ free.expired = o.expired /\ free.bound = o.bound
      /\ free.pool = o.pool /\ free.plan = o.plan /\ free.i = o.i /\ free.passed = q.passed
      /\ DOMAIN free = DOMAIN Quiet
  BY QuietFields
<1> HIDE DEF free
<1>5. Account(Now(o).profile) \subseteq q.passed
  BY DEF Via, Account
<1>6. PinBound(free) /\ Walking(free) /\ Account(Now(free).profile) \subseteq free.passed
  BY <1>3, <1>4, <1>5, WayKept DEF Now
<1>7. OnItsWay(Onward(free))
  BY <1>3, <1>4, <1>6, OnwardWay
<1> QED BY <1>1, <1>7, WayStep

\* A refused attempt has passed its account,
LEMMA RefuseWayInv ==
  ASSUME SelectionInv, NEW r \in Requests, NEW why, Refuse(r, why)
  PROVE  WayInv'
<1> DEFINE o == req[r]
           gone == Account(Via(o))
           q == [o EXCEPT !.passed = @ \cup gone]
<1>1. Fails(r, q) /\ o.pc = "sent" /\ UNCHANGED usage
  BY DEF Refuse
<1>2. DOMAIN o = DOMAIN Quiet
  BY DEF SelectionInv, LeaseInv, Shaped
<1>3. /\ q.kind = o.kind /\ q.was = o.was /\ q.expired = o.expired /\ q.bound = o.bound
      /\ q.pool = o.pool /\ q.plan = o.plan /\ q.i = o.i /\ q.passed = o.passed \cup gone
      /\ DOMAIN q = DOMAIN Quiet
  <2> HIDE DEF o, gone
  <2> QED BY <1>2, QuietFields
<1> HIDE DEF q
<1> QED BY <1>1, <1>3, FailsWayInv

\* and so has one without an answer.
LEMMA NoAnswerWayInv ==
  ASSUME SelectionInv, NEW r \in Requests, NEW how, NoAnswer(r, how)
  PROVE  WayInv'
<1> DEFINE o == req[r]
           waits  == candidateResponseHeaderBudget(Now(o).leg, <<>>, Kind[o.kind].tokens)
           shared == remainingAttemptHeaderBudget(o.plan, o.i, o.left)
           left   == CASE how = "waited"  -> o.left - HeaderBudget(o.plan, o.i, o.left, <<>>, Kind[o.kind].tokens)
                       [] how = "stalled" -> 0
                       [] OTHER           -> o.left
           skip   == IF Now(o).profile = NoProfile \/ how = "outage" \/ (how = "waited" /\ shared < waits)
                     THEN {} ELSE {Leg[Now(o).leg].upstream}
           outage == how = "outage" /\ Leg[Now(o).leg].scope # "pinned"
           gone == Account(Via(o))
           q == [o EXCEPT !.left = left,
                          !.stalled = @ \/ how = "stalled",
                          !.outage = @ \/ outage,
                          !.skip = skip,
                          !.passed = @ \cup gone]
<1>1. Fails(r, q) /\ o.pc = "sent" /\ UNCHANGED usage
  BY DEF NoAnswer, world
<1>2. DOMAIN o = DOMAIN Quiet
  BY DEF SelectionInv, LeaseInv, Shaped
<1>3. /\ q.kind = o.kind /\ q.was = o.was /\ q.expired = o.expired /\ q.bound = o.bound
      /\ q.pool = o.pool /\ q.plan = o.plan /\ q.i = o.i /\ q.passed = o.passed \cup gone
      /\ DOMAIN q = DOMAIN Quiet
  <2> HIDE DEF o, gone, left, skip, outage
  <2> QED BY <1>2, QuietFields
<1> HIDE DEF q
<1> QED BY <1>1, <1>3, FailsWayInv

\* A request that reads its answer has no attempts any more.
LEMMA SucceedWayInv ==
  ASSUME SelectionInv, NEW r \in Requests, Succeed(r)
  PROVE  WayInv'
<1> DEFINE lease == req[r].lease
           q == [Quiet EXCEPT !.pc = "reading", !.lease = lease]
<1>1. req' = [req EXCEPT ![r] = q] /\ UNCHANGED <<usage, load>> /\ DOMAIN saved' = DOMAIN saved
  BY DEF Succeed, Remember, KeepPins, world, bounds
<1> HIDE DEF lease
<1>2. q.pc = "reading"
  BY QuietFields
<1> HIDE DEF q
<1>3. OnItsWay(q)
  BY <1>2 DEF OnItsWay
<1> QED BY <1>1, <1>3, WayStep

\* The world changes around the requests; a restart ends them.
LEMMA OthersWayInv ==
  ASSUME SelectionInv,
         \/ \E p \in Profiles : \/ \E why \in Blocks : BlockChanges(p, why)
                                \/ \E s \in Snapshots : UsageMoves(p, s)
                                \/ \E who \in Identities : Login(p, who)
         \/ \E c \in Conversations : Lapse(c)
         \/ UNCHANGED selectionVars
  PROVE  WayInv'
<1>1. UNCHANGED <<req, load, saved>>
  BY DEF BlockChanges, UsageMoves, Login, Lapse, KeepPins, selectionVars, bounds
<1>2. usage' \in [Profiles -> UsageSnapshots]
  <2>1. UNCHANGED usage \/ \E p \in Profiles, s \in Snapshots : usage' = [usage EXCEPT ![p] = s]
    BY DEF BlockChanges, UsageMoves, Login, Lapse, selectionVars, world
  <2>2. \A s \in Snapshots : s \in UsageSnapshots
    BY SelectionAssumption
  <2> QED BY <2>1, <2>2 DEF SelectionInv, WayInv
<1>3. (\A r \in Requests : OnItsWay(req[r]))'
  BY <1>1 DEF SelectionInv, WayInv
<1> QED BY <1>1, <1>2, <1>3 DEF SelectionInv, WayInv

\* A restart ends all requests.
LEMMA RestartWayInv == ASSUME SelectionInv, Restart PROVE WayInv'
<1>1. UNCHANGED <<usage, load, saved>> /\ req' = [r \in Requests |-> Quiet]
  BY DEF Restart
<1>2. (\A r \in Requests : OnItsWay(req[r]))'
  BY <1>1, QuietWay
<1> QED BY <1>1, <1>2 DEF SelectionInv, WayInv

-----------------------------------------------------------------------------
(* The plan                                                                *)

\* Ranking keeps the legs, and puts none behind one it comes before.
LEMMA RankedAre ==
  ASSUME NEW legs, IsList(legs), NEW hint, NEW ranked \in rankConfiguredCandidates(legs, hint)
  PROVE  /\ IsList(ranked)
         /\ \A k \in DOMAIN legs : \E n \in DOMAIN ranked : ranked[n] = legs[k]
         /\ \A n \in DOMAIN ranked : \E k \in DOMAIN legs : ranked[n] = legs[k]
         /\ \A j, k \in DOMAIN ranked : Before(ranked[j], ranked[k], hint) => j < k
<1>1. PICK p \in Bijection(DOMAIN legs, DOMAIN legs) : ranked = [k \in DOMAIN legs |-> legs[p[k]]]
  BY DEF rankConfiguredCandidates
<1>2. \A j, k \in DOMAIN legs : Before(ranked[j], ranked[k], hint) => j < k
  BY DEF rankConfiguredCandidates
<1>3. /\ \A k \in DOMAIN legs : \E n \in DOMAIN legs : p[n] = k
      /\ \A n \in DOMAIN legs : p[n] \in DOMAIN legs
  BY DEF Bijection, Surjection
<1>4. Len(legs) \in Nat /\ DOMAIN legs = 1..Len(legs)
  BY ListFacts
<1>5. DOMAIN ranked = 1..Len(legs) /\ ranked = [k \in 1..Len(legs) |-> ranked[k]]
  BY <1>1, <1>4
<1>6. IsList(ranked)
  BY <1>4, <1>5, ListOf
<1> QED BY <1>1, <1>2, <1>3, <1>4, <1>5, <1>6

\* A selected model that serves what the request holds is a compatible one.
LEMMA SelectedCompatible ==
  ASSUME NEW kind \in DOMAIN Kind
  PROVE  LET legs == Compatible(collectCandidates(Kind[kind].model), Kind[kind].needs)
         IN  /\ IsList(legs) /\ \A k \in DOMAIN legs : legs[k] \in DOMAIN Leg
             /\ Serves(Selected(kind), Kind[kind].needs) => Has(legs, Selected(kind))
<1> DEFINE all == collectCandidates(Kind[kind].model)
           fit == {k \in DOMAIN all : Serves(all[k], Kind[kind].needs)}
<1>1. Kind[kind].model \in Trees(Trees(Trees(Trees(Trees({})))))
  BY SelectionAssumption DEF Models
<1>2. all \in With(Selected(kind))
  BY <1>1, CandidatesHaveSelected DEF Selected
<1>3. IsList(all) /\ Has(all, Selected(kind)) /\ \A k \in DOMAIN all : all[k] \in DOMAIN Leg
  BY <1>2 DEF With, IsList
<1>4. Compatible(all, Kind[kind].needs) = Picked(all, fit) /\ fit \in SUBSET DOMAIN all
  BY DEF Compatible
<1>5. Serves(Selected(kind), Kind[kind].needs) => \E k \in fit : all[k] = Selected(kind)
  BY <1>3 DEF Has
<1> HIDE DEF all, fit
<1>6. /\ IsList(Picked(all, fit))
      /\ \A k \in fit : \E n \in DOMAIN Picked(all, fit) : Picked(all, fit)[n] = all[k]
      /\ \A n \in DOMAIN Picked(all, fit) : \E k \in fit : Picked(all, fit)[n] = all[k]
  BY <1>3, <1>4, EntriesAre
<1> QED BY <1>3, <1>4, <1>5, <1>6 DEF Has, all

\* The bound account leads the attempts of every leg that has it: an attempt
\* of another account comes after one of its own.
LEMMA PlanPinFirst ==
  ASSUME Readable, NEW legs, IsList(legs), NEW q, q.plan = Expand(legs, q.bound),
         q.pool = profilesForCandidate(Selected(q.kind))
  PROVE  PinFirst(q)
<1> SUFFICES ASSUME NEW m \in DOMAIN q.plan,
                    q.plan[m].profile # NoProfile, q.plan[m].profile # q.bound,
                    Leg[q.plan[m].leg].pool = Leg[Selected(q.kind)].pool, q.bound \in Members(q.pool)
             PROVE  \E j \in 1..(m - 1) : j \in DOMAIN q.plan /\ q.plan[j].profile = q.bound
  BY DEF PinFirst
<1> DEFINE at(k) == Expanded(legs[k], q.bound)
<1>1. Entered(q.plan, legs, q.bound, m)
  BY ExpandAre
<1>2a. PICK k \in DOMAIN legs : \E n \in DOMAIN Expanded(legs[k], q.bound) :
        /\ q.plan[m] = Expanded(legs[k], q.bound)[n]
        /\ \A j \in DOMAIN legs : \A i \in DOMAIN Expanded(legs[j], q.bound) :
             Earlier(<<j, i>>, <<k, n>>) /\ Expanded(legs[j], q.bound)[i].profile # NoProfile =>
               \E g \in 1..(m - 1) : g \in DOMAIN q.plan /\ Same(Expanded(legs[j], q.bound)[i], q.plan[g])
  BY <1>1 DEF Entered
<1>2. PICK n \in DOMAIN Expanded(legs[k], q.bound) :
        /\ q.plan[m] = Expanded(legs[k], q.bound)[n]
        /\ \A j \in DOMAIN legs : \A i \in DOMAIN Expanded(legs[j], q.bound) :
             Earlier(<<j, i>>, <<k, n>>) /\ Expanded(legs[j], q.bound)[i].profile # NoProfile =>
               \E g \in 1..(m - 1) : g \in DOMAIN q.plan /\ Same(Expanded(legs[j], q.bound)[i], q.plan[g])
  BY <1>2a
<1>3. /\ IsList(at(k)) /\ at(k)[n].leg = legs[k] /\ Leg[legs[k]].subscription
      /\ q.bound \in Members(profilesForCandidate(legs[k])) => 1 \in DOMAIN at(k) /\ at(k)[1].profile = q.bound
  BY <1>2, ExpandedAre
<1>4. q.bound \in Members(profilesForCandidate(legs[k]))
  <2>1. Leg[legs[k]].pool = Leg[Selected(q.kind)].pool
    BY <1>2, <1>3
  <2>2. ASSUME NEW a, NEW b, Leg[a].pool = Leg[b].pool PROVE profilesForCandidate(a) = profilesForCandidate(b)
    BY <2>2 DEF profilesForCandidate
  <2>3. profilesForCandidate(legs[k]) = profilesForCandidate(Selected(q.kind))
    BY <2>1, <2>2
  <2> QED BY <2>3
<1>5. n \in Nat /\ n # 1 /\ n > 0
  <2>1. Len(at(k)) \in Nat /\ DOMAIN at(k) = 1..Len(at(k))
    BY <1>3, ListFacts
  <2>2. n # 1
    BY <1>2, <1>3, <1>4
  <2> QED BY <2>1, <2>2
<1>6. Earlier(<<k, 1>>, <<k, n>>)
  BY <1>5 DEF Earlier
<1>7. q.bound # NoProfile
  BY <1>4, PoolTyped, SelectionAssumption
<1>8. PICK g \in 1..(m - 1) : g \in DOMAIN q.plan /\ Same(at(k)[1], q.plan[g])
  BY <1>2, <1>3, <1>4, <1>6, <1>7
<1> QED BY <1>3, <1>4, <1>8 DEF Same

\* Without a hint the selected model comes before the legs of later tiers, and
\* so do the attempts of its accounts.
LEMMA PlanPoolFirst ==
  ASSUME Readable, NEW q, q.kind \in DOMAIN Kind, q.bound # NoProfile => IsClaude(Selected(q.kind)),
         NEW ranked \in rankConfiguredCandidates(
                          Compatible(collectCandidates(Kind[q.kind].model), Kind[q.kind].needs),
                          Applied(Kind[q.kind].hint, Selected(q.kind))),
         q.plan = Expand(ranked, q.bound), q.pool = profilesForCandidate(Selected(q.kind))
  PROVE  PoolFirst(q)
<1> DEFINE s == Selected(q.kind)
           pinned == Leg[s].scope = "pinned"
           legs == Compatible(collectCandidates(Kind[q.kind].model), Kind[q.kind].needs)
           at(k) == Expanded(ranked[k], q.bound)
<1> SUFFICES ASSUME NEW m \in DOMAIN q.plan,
                    Leg[q.plan[m].leg].tier > Leg[s].tier,
                    preserveSonnetSubscriptionOrder(s) \/ pinned, Serves(s, Kind[q.kind].needs),
                    NEW p \in Members(q.pool) \cap (IF pinned THEN {q.bound} ELSE Profiles)
             PROVE  \E j \in 1..(m - 1) : /\ q.plan[j].profile = p
                                          /\ Leg[q.plan[j].leg].upstream = Leg[s].upstream
  BY DEF PoolFirst
<1>1. p \in Members(profilesForCandidate(s)) /\ p # NoProfile /\ (~pinned \/ p = q.bound)
  BY PoolTyped, SelectionAssumption
<1>2. Leg[s].subscription
  <2>1. s \in DOMAIN Leg
    <3>1. Kind[q.kind].model \in Trees(Trees(Trees(Trees(Trees({})))))
      BY SelectionAssumption DEF Models
    <3> QED BY <3>1, Branches DEF Selected
  <2> QED BY <1>1, <2>1, SelectionAssumption DEF preserveSonnetSubscriptionOrder, IsClaude
<1>3. IsList(legs) /\ Has(legs, s)
  BY SelectedCompatible
<1>4. ranked \in rankConfiguredCandidates(legs, NoHint)
  BY DEF Applied
<1> HIDE DEF legs
<1>5. /\ IsList(ranked) /\ \E n \in DOMAIN ranked : ranked[n] = s
      /\ \A j, k \in DOMAIN ranked : Before(ranked[j], ranked[k], NoHint) => j < k
  BY <1>3, <1>4, RankedAre DEF Has
<1>6. PICK k0 \in DOMAIN ranked : ranked[k0] = s
  BY <1>5
<1>7. PICK n0 \in DOMAIN at(k0) : at(k0)[n0].profile = p
  BY <1>1, <1>2, <1>6, ExpandedAre
<1>8. at(k0)[n0].leg = s
  BY <1>6, <1>7, ExpandedAre
<1>9. Entered(q.plan, ranked, q.bound, m)
  BY <1>5, ExpandAre
<1>10a. PICK k \in DOMAIN ranked : \E n \in DOMAIN Expanded(ranked[k], q.bound) :
        /\ q.plan[m] = Expanded(ranked[k], q.bound)[n]
        /\ \A j \in DOMAIN ranked : \A i \in DOMAIN Expanded(ranked[j], q.bound) :
             Earlier(<<j, i>>, <<k, n>>) /\ Expanded(ranked[j], q.bound)[i].profile # NoProfile =>
               \E g \in 1..(m - 1) : g \in DOMAIN q.plan /\ Same(Expanded(ranked[j], q.bound)[i], q.plan[g])
  BY <1>9 DEF Entered
<1>10. PICK n \in DOMAIN Expanded(ranked[k], q.bound) :
        /\ q.plan[m] = Expanded(ranked[k], q.bound)[n]
        /\ \A j \in DOMAIN ranked : \A i \in DOMAIN Expanded(ranked[j], q.bound) :
             Earlier(<<j, i>>, <<k, n>>) /\ Expanded(ranked[j], q.bound)[i].profile # NoProfile =>
               \E g \in 1..(m - 1) : g \in DOMAIN q.plan /\ Same(Expanded(ranked[j], q.bound)[i], q.plan[g])
  BY <1>10a
<1>11. q.plan[m].leg = ranked[k]
  BY <1>10, ExpandedAre
<1>12. Before(s, ranked[k], NoHint)
  BY <1>11 DEF Before, NoHint, hintMatches
<1>13. k0 < k
  BY <1>5, <1>6, <1>12
<1>14. Earlier(<<k0, n0>>, <<k, n>>)
  BY <1>13 DEF Earlier
<1>15. PICK g \in 1..(m - 1) : Same(at(k0)[n0], q.plan[g])
  BY <1>1, <1>7, <1>10, <1>14
<1> QED BY <1>7, <1>8, <1>15 DEF Same

\* The attempts are made with the legs that were ranked.
LEMMA PlanLegs ==
  ASSUME Readable, NEW legs, IsList(legs), NEW own, NEW m \in DOMAIN Expand(legs, own)
  PROVE  \E k \in DOMAIN legs : Expand(legs, own)[m].leg = legs[k]
<1>1. Entered(Expand(legs, own), legs, own, m)
  BY ExpandAre
<1>2a. PICK k \in DOMAIN legs : \E n \in DOMAIN Expanded(legs[k], own) :
        Expand(legs, own)[m] = Expanded(legs[k], own)[n]
  BY <1>1 DEF Entered
<1>2. PICK n \in DOMAIN Expanded(legs[k], own) :
        Expand(legs, own)[m] = Expanded(legs[k], own)[n]
  BY <1>2a
<1>3. Expanded(legs[k], own)[n].leg = legs[k]
  BY ExpandedAre
<1> QED BY <1>2, <1>3

\* The plan is one for the selected model's pool and the account bound.
LEMMA PlanWayInv ==
  ASSUME SelectionInv, NEW r \in Requests, Plan(r)
  PROVE  WayInv'
<1> DEFINE o == req[r]
           hint == Applied(Kind[o.kind].hint, Selected(o.kind))
           legs == Compatible(collectCandidates(Kind[o.kind].model), Kind[o.kind].needs)
           pool == profilesForCandidate(Selected(o.kind))
           left == fallbackChainHeaderBudget(Kind[o.kind].tokens)
           on(plan) == [o EXCEPT !.pc = "walk", !.plan = plan, !.pool = pool, !.left = left]
<1>1. UNCHANGED <<usage, load, saved>>
  BY DEF Plan, KeepPins, world, bounds
<1>2. DOMAIN o = DOMAIN Quiet /\ o.pc = "plan" /\ OnItsWay(o)
  BY DEF Plan, SelectionInv, LeaseInv, Shaped, WayInv
<1>3. PinBound(o) /\ o.kind \in DOMAIN Kind /\ o.i = 1
  BY <1>2 DEF OnItsWay
<1>4. Readable
  BY DEF Readable, SelectionInv, WayInv, LeaseInv, Balanced
<1>5. CASE req' = [req EXCEPT ![r] = Quiet]
  BY <1>1, <1>5, QuietWay, WayStep
<1>6. ASSUME NEW ranked \in rankConfiguredCandidates(legs, hint), NEW plan, plan = Expand(ranked, o.bound),
             plan # <<>>, req' = [req EXCEPT ![r] = on(plan)]
      PROVE  WayInv'
  <2> DEFINE q == on(plan)
  <2>1. IsList(legs) /\ \A k \in DOMAIN legs : legs[k] \in DOMAIN Leg
    BY <1>3, SelectedCompatible
  <2>2. IsList(ranked) /\ \A k \in DOMAIN ranked : ranked[k] \in DOMAIN Leg
    <3> HIDE DEF legs
    <3> QED BY <2>1, RankedAre
  <2>3. IsList(plan) /\ IsList(pool) /\ Members(pool) \subseteq Profiles
    BY <1>4, <1>6, <2>2, ExpandAre, PoolTyped
  <2>10. ASSUME NEW m \in DOMAIN plan PROVE plan[m].leg \in DOMAIN Leg
    <3>1. \E k \in DOMAIN ranked : plan[m].leg = ranked[k]
      BY <1>4, <1>6, <2>2, <2>10, PlanLegs
    <3> QED BY <2>2, <3>1
  <2> HIDE DEF o, left, pool
  <2>4. /\ q.pc = "walk" /\ q.kind = o.kind /\ q.was = o.was /\ q.expired = o.expired /\ q.bound = o.bound
        /\ q.passed = o.passed /\ q.i = 1 /\ q.plan = plan /\ q.pool = pool
    BY <1>2, <1>3, QuietFields
  <2> HIDE DEF q
  <2>5. PinFirst(q)
    BY <1>4, <1>6, <2>2, <2>4, PlanPinFirst DEF pool
  <2>6. PoolFirst(q)
    BY <1>3, <1>4, <1>6, <2>4, PlanPoolFirst DEF pool, PinBound
  <2>7. 1 \in DOMAIN plan
    <3>1. Len(plan) \in Nat /\ DOMAIN plan = 1..Len(plan)
      BY <2>3, ListFacts
    <3>2. Len(plan) # 0
      BY <1>6, <2>3, EmptySeq DEF IsList
    <3> QED BY <3>1, <3>2
  <2>8. PinBound(q) /\ Walking(q)
    BY <1>3, <2>3, <2>4, <2>5, <2>6, <2>7, <2>10 DEF PinBound, Walking
  <2>9. OnItsWay(q)
    BY <1>3, <2>4, <2>8 DEF OnItsWay
  <2> QED BY <1>1, <1>6, <2>9, WayStep DEF q
<1> QED BY <1>5, <1>6 DEF Plan

-----------------------------------------------------------------------------
(* The theorems                                                            *)

\* Every step keeps the invariant.
LEMMA NextSelectionInv == ASSUME SelectionInv, [SelectionNext]_selectionVars PROVE SelectionInv'
<1>1. LeaseInv'
  BY NextLeaseInv DEF SelectionInv
<1>2. WayInv'
  BY RestartWayInv, BindWayInv, ScanWayInv, ChooseWayInv, NoneAvailableWayInv, PlanWayInv, SkipWayInv,
     OutOfTimeOrCloseWayInv, SendWayInv, RefuseWayInv, NoAnswerWayInv, SucceedWayInv, OthersWayInv
     DEF SelectionNext
<1> QED BY <1>1, <1>2 DEF SelectionInv

\* The invariant holds throughout.
LEMMA SpecSelectionInv == SelectionSpec => []SelectionInv
<1>1. SelectionInit => SelectionInv
  BY InitLeaseInv, InitWayInv DEF SelectionInv
<1> QED BY <1>1, NextSelectionInv, PTL DEF SelectionSpec

\* PoolBeforeFallback for any models, pools, policies and hints: through
\* collectCandidates, the ranking that rankConfiguredCandidates leaves open and
\* expandConfiguredClaudeAttempts, a request of a Sonnet of the subscription, or
\* of a pinned model, goes to a later provider only after every account of its
\* pool (the bound one) had its turn with the selected model's upstream.
THEOREM PoolHasItsTurn == SelectionSpec => []PoolBeforeFallback
<1>1. SelectionInv => PoolBeforeFallback
  <2> SUFFICES ASSUME SelectionInv, NEW r \in Requests, req[r].pc = "sent",
                      ~IsClaude(Now(req[r]).leg), Leg[Now(req[r]).leg].tier > Leg[Selected(req[r].kind)].tier,
                      preserveSonnetSubscriptionOrder(Selected(req[r].kind))
                        \/ Leg[Selected(req[r].kind)].scope = "pinned",
                      Serves(Selected(req[r].kind), Kind[req[r].kind].needs),
                      NEW p \in Members(req[r].pool) \cap
                                  (IF Leg[Selected(req[r].kind)].scope = "pinned" THEN {req[r].bound}
                                   ELSE Profiles)
               PROVE  \E j \in 1..(req[r].i - 1) :
                        /\ req[r].plan[j].profile = p
                        /\ Leg[req[r].plan[j].leg].upstream = Leg[Selected(req[r].kind)].upstream
    BY DEF PoolBeforeFallback
  <2>1. Walking(req[r])
    BY DEF SelectionInv, WayInv, OnItsWay
  <2> QED BY <2>1 DEF Walking, PoolFirst, Now
<1> QED BY <1>1, SpecSelectionInv, PTL

\* A request that answers for the pool it bound an account of moves the pin
\* only from an account that it passed over or that failed it.
LEMMA PinMoves ==
  ASSUME SelectionInv, NEW r \in Requests, Choose(r) \/ Succeed(r), NEW c \in Conversations,
         saved[c] # NoProfile, saved'[c] # saved[c]
  PROVE  /\ req'[r] # req[r] /\ req[r].conv = c
         /\ \/ saved[c] \in req[r].passed \/ saved[c] \notin Members(req[r].pool)
            \/ req[r].was # saved[c] \/ req[r].expired
            \/ req[r].pc = "sent" /\ Leg[Now(req[r]).leg].pool # Leg[Selected(req[r].kind)].pool
<1> DEFINE o == req[r]
           p == saved[c]
<1>1. OnItsWay(o) /\ DOMAIN o = DOMAIN Quiet /\ DOMAIN saved = Conversations
  BY DEF SelectionInv, WayInv, LeaseInv, Shaped
<1>2. CASE Choose(r)
  <2> DEFINE reserve == ~Kind[o.kind].count
             a == ChosenAccount(o, reserve)
             lease == IF reserve THEN a ELSE NoProfile
             held == [o EXCEPT !.pc = "plan", !.bound = a, !.lease = lease, !.avail = <<>>]
  <2>1. /\ saved' = [saved EXCEPT ![o.conv] = a] /\ o.pc = "scan" /\ o.todo = <<>>
        /\ req' = [req EXCEPT ![r] = held] \/ req' = [req EXCEPT ![r] = Quiet]
    BY <1>2 DEF Choose, Remember
  <2>2. o.conv = c /\ a # p
    BY <1>1, <2>1
  <2>3. Scanning(o)
    BY <1>1, <2>1 DEF OnItsWay
  <2>4. \/ p \in o.passed \/ o.was # p \/ o.expired
    <3> SUFFICES ASSUME p \notin o.passed, o.was = p, ~o.expired PROVE FALSE
      OBVIOUS
    <3>1. (\E k \in DOMAIN o.avail : o.avail[k].profile = o.look) /\ o.look = o.was
      BY <2>1, <2>3, ScannedPin
    <3> QED BY <2>2, <3>1 DEF ChosenAccount
  <2>5. req'[r] # o
    <3>1. r \in DOMAIN req
      BY DEF SelectionInv, LeaseInv, Shaped
    <3> HIDE DEF o, a, lease
    <3>2. held.pc = "plan"
      BY <1>1, QuietFields
    <3> HIDE DEF held
    <3> QED BY <2>1, <3>1, <3>2, QuietFields DEF o
  <2> QED BY <2>2, <2>4, <2>5
<1>3. CASE Succeed(r)
  <2> DEFINE lease == o.lease
             done == [Quiet EXCEPT !.pc = "reading", !.lease = lease]
  <2>1. /\ o.pc = "sent" /\ req' = [req EXCEPT ![r] = done]
        /\ Via(o) # NoProfile /\ saved' = [saved EXCEPT ![o.conv] = Via(o)]
    BY <1>3 DEF Succeed, Remember, KeepPins
  <2>2. o.conv = c /\ Via(o) # p
    BY <1>1, <2>1
  <2>3. PinBound(o) /\ Walking(o)
    BY <1>1, <2>1 DEF OnItsWay
  <2>4. \/ p \in o.passed \/ p \notin Members(o.pool) \/ o.was # p \/ o.expired
        \/ Leg[Now(o).leg].pool # Leg[Selected(o.kind)].pool
    <3> SUFFICES ASSUME p \notin o.passed, p \in Members(o.pool), o.was = p, ~o.expired,
                        Leg[Now(o).leg].pool = Leg[Selected(o.kind)].pool
                 PROVE  FALSE
      OBVIOUS
    <3>1. o.bound = p
      BY <2>3 DEF PinBound
    <3>2. Now(o).profile # NoProfile /\ Now(o).profile # o.bound
      BY <2>1, <2>2, <3>1 DEF Via
    <3>3. PICK j \in 1..(o.i - 1) : o.plan[j].profile = p
      BY <2>3, <3>1, <3>2 DEF Walking, PinFirst, Now
    <3>4. Account(p) \subseteq o.passed
      BY <2>3, <3>3 DEF Walking
    <3> QED BY <3>4 DEF Account
  <2>5. req'[r] # o
    <3>1. r \in DOMAIN req
      BY DEF SelectionInv, LeaseInv, Shaped
    <3> HIDE DEF lease
    <3>2. done.pc = "reading"
      BY QuietFields
    <3> HIDE DEF done
    <3> QED BY <2>1, <3>1, <3>2
  <2> QED BY <2>1, <2>2, <2>4, <2>5
<1> QED BY <1>2, <1>3

\* PinUntilBroken for any requests, conversations and pools, while blocks,
\* usage, logins and pins change under them: the pin of a conversation, in
\* memory or restored from the saved ones, is moved by chooseClaudeAccount and
\* by a good answer only from an account that was passed over or failed.
THEOREM PinsHoldUntilBroken == SelectionSpec => PinUntilBroken
<1> DEFINE StayPinned == \A c \in Conversations :
             LET p == saved[c] IN
             p # NoProfile /\ saved'[c] # p =>
               \E r \in Requests :
                 /\ req'[r] # req[r] /\ req[r].conv = c
                 /\ \/ p \in req[r].passed \/ p \notin Members(req[r].pool)
                    \/ req[r].was # p \/ req[r].expired
                    \/ req[r].pc = "sent" /\ Leg[Now(req[r]).leg].pool # Leg[Selected(req[r].kind)].pool
<1>1. ASSUME SelectionInv, [SelectionNext]_selectionVars PROVE StayPinned
  <2>1. saved' = saved \/ \E r \in Requests : Choose(r) \/ Succeed(r)
    <3>1. ASSUME NEW r \in Requests, NEW x, NEW c,
                 \/ Bind(r, x, c) \/ Scan(r) \/ NoneAvailable(r) \/ Plan(r) \/ Skip(r, x) \/ OutOfTime(r)
                 \/ Send(r) \/ Refuse(r, x) \/ NoAnswer(r, x) \/ Close(r)
          PROVE  saved' = saved
      <4>1. CASE Bind(r, x, c)
        BY <4>1 DEF Bind
      <4>2. CASE Refuse(r, x)
        BY <4>2 DEF Refuse, Fails, KeepPins
      <4>3. CASE NoAnswer(r, x)
        BY <4>3 DEF NoAnswer, Fails, KeepPins
      <4>4. CASE Plan(r)
        BY <4>4 DEF Plan, KeepPins
      <4>5. CASE Scan(r) \/ NoneAvailable(r) \/ Skip(r, x) \/ OutOfTime(r) \/ Send(r) \/ Close(r)
        BY <4>5 DEF Scan, NoneAvailable, Skip, OutOfTime, Send, Close, KeepPins
      <4> QED BY <3>1, <4>1, <4>2, <4>3, <4>4, <4>5
    <3>2. ASSUME NEW p, NEW x, BlockChanges(p, x) \/ UsageMoves(p, x) \/ Login(p, x) \/ Lapse(p) \/ Restart
          PROVE  saved' = saved
      BY <3>2 DEF BlockChanges, UsageMoves, Login, Lapse, Restart, KeepPins
    <3> QED BY <1>1, <3>1, <3>2 DEF SelectionNext, selectionVars
  <2> QED BY <1>1, <2>1, PinMoves
<1>2. SelectionInv /\ [SelectionNext]_selectionVars => [StayPinned]_selectionVars
  BY <1>1
<1> QED BY <1>2, SpecSelectionInv, PTL DEF SelectionSpec, PinUntilBroken

-----------------------------------------------------------------------------
(* The time of a request                                                   *)

\* The providers of the attempts before attempt i.
Tried(q, i) == {Leg[q.plan[j].leg].provider : j \in 1..(i - 1)}

\* An unmetered provider has its first attempt at i or later.
Waits(q, i) == \E j \in i..Len(q.plan) :
                 Unmetered(q.plan[j].leg) /\ Leg[q.plan[j].leg].provider \notin Tried(q, i)

\* Before attempt i there is what the attempts from there on need.
HasTime(q, i) ==
  /\ q.left \in Nat
  /\ ~q.stalled /\ Needed(q.plan)[Len(q.plan)] <= RouteReserve /\ Waits(q, i) =>
       q.left >= Needed(q.plan)[Len(q.plan) - i]

TimeInv == \A r \in Requests : req[r].pc \in {"walk", "sent"} => HasTime(req[r], req[r].i)

\* An attempt that takes no time leaves enough for the next.
LEMMA NextHasTime ==
  ASSUME NEW q, IsList(q.plan), NEW i \in DOMAIN q.plan, i # Len(q.plan), HasTime(q, i)
  PROVE  HasTime(q, i + 1)
<1>1. Len(q.plan) \in Nat /\ i \in 1..Len(q.plan)
  BY ListFacts
<1>2. Waits(q, i + 1) => Waits(q, i)
  <2> SUFFICES ASSUME NEW j \in (i + 1)..Len(q.plan), Unmetered(q.plan[j].leg),
                      Leg[q.plan[j].leg].provider \notin Tried(q, i + 1)
               PROVE  Waits(q, i)
    BY DEF Waits
  <2>1. j \in i..Len(q.plan) /\ \A k \in 1..(i - 1) : k \in 1..((i + 1) - 1)
    BY <1>1
  <2>2. Leg[q.plan[j].leg].provider \notin Tried(q, i)
    BY <2>1 DEF Tried
  <2> QED BY <2>1, <2>2 DEF Waits
<1> DEFINE k == Len(q.plan) - i
<1>3. k \in 1..Len(q.plan) /\ k - 1 \in 0..Len(q.plan) /\ k - 1 = Len(q.plan) - (i + 1) /\ k \in Nat
  BY <1>1, Ahead
<1>4. /\ Needed(q.plan)[k] = 2 * (Needed(q.plan)[k - 1] + k)
      /\ Needed(q.plan)[k - 1] \in Nat /\ Needed(q.plan)[k] \in Nat
  BY <1>3, NeededIs
<1>5. Needed(q.plan)[k - 1] <= Needed(q.plan)[k]
  BY <1>3, <1>4
<1>6. q.left \in Nat /\ (q.left >= Needed(q.plan)[k] => q.left >= Needed(q.plan)[k - 1])
  BY <1>4, <1>5 DEF HasTime
<1> QED BY <1>2, <1>3, <1>6 DEF HasTime

\* What is kept back for n other providers is a number of ticks.
LEMMA ShareNat ==
  ASSUME NEW n \in Nat, NEW left \in Nat
  PROVE  Least(n * RouteReserve, (left \div (n + 1)) * n) \in Nat
<1> DEFINE t == left \div (n + 1)
<1>1. RouteReserve \in Nat
  BY SelectionAssumption DEF RouteReserve
<1>2. t \in Nat
  OBVIOUS
<1> HIDE DEF t
<1>3. n * RouteReserve \in Nat /\ t * n \in Nat
  BY <1>1, <1>2
<1> QED BY <1>3 DEF Least, t

\* An attempt that waits for as long as it may leaves enough for the next.
LEMMA WaitHasTime ==
  ASSUME NEW q, IsList(q.plan), NEW i \in DOMAIN q.plan, i # Len(q.plan), HasTime(q, i),
         q.plan[i].leg \in DOMAIN Leg, NEW tokens,
         NEW n, n.plan = q.plan, ~n.stalled => ~q.stalled,
         n.left = q.left - HeaderBudget(q.plan, i, q.left, <<>>, tokens)
  PROVE  HasTime(n, i + 1)
<1> DEFINE later == laterUnmeteredProviders(q.plan, i)
           waits == candidateResponseHeaderBudget(q.plan[i].leg, <<>>, tokens)
           share == remainingAttemptHeaderBudget(q.plan, i, q.left)
           kept == Least(later * RouteReserve, (q.left \div (later + 1)) * later)
           k == Len(q.plan) - i
<1>1. Len(q.plan) \in Nat /\ i \in 1..Len(q.plan) /\ q.left \in Nat
  BY ListFacts DEF HasTime
<1>2. k \in 1..Len(q.plan) /\ k - 1 \in 0..Len(q.plan)
  BY <1>1, Ahead
<1>3. later \in 0..k /\ waits \in Nat /\ k \in Nat
  BY <1>1, LaterTyped, BudgetTyped
<1>4. share = q.left - kept /\ n.left = q.left - Least(waits, share)
  BY DEF HeaderBudget, remainingAttemptHeaderBudget
<1>5. share \in 0..q.left
  <2>1. later \in Nat
    BY <1>3
  <2> QED BY <1>1, <2>1, ShareTyped
<1>6. kept \in Nat
  <2>1. later \in Nat
    BY <1>3
  <2> HIDE DEF later
  <2> QED BY <1>1, <2>1, ShareNat
<1> HIDE DEF waits, share
<1>7. n.left \in Nat /\ n.left >= q.left - share
  BY <1>1, <1>3, <1>4, <1>5 DEF Least
<1>8. ASSUME ~n.stalled, Needed(q.plan)[Len(q.plan)] <= RouteReserve, Waits(n, i + 1)
      PROVE  n.left >= Needed(q.plan)[k - 1]
  <2>1. PICK j \in (i + 1)..Len(q.plan) : /\ Unmetered(q.plan[j].leg)
                                          /\ Leg[q.plan[j].leg].provider \notin Tried(n, i + 1)
    BY <1>8 DEF Waits
  <2>2. /\ j \in i..Len(q.plan) /\ (\A m \in 1..(i - 1) : m \in 1..((i + 1) - 1)) /\ i \in 1..((i + 1) - 1)
    BY <1>1, <2>1
  <2>3. /\ Leg[q.plan[j].leg].provider \notin Tried(q, i)
        /\ Leg[q.plan[j].leg].provider # Leg[q.plan[i].leg].provider
    BY <2>1, <2>2 DEF Tried
  <2>4. q.left >= Needed(q.plan)[k]
    BY <1>8, <2>1, <2>2, <2>3 DEF HasTime, Waits
  <2>5. later >= 1
    BY <2>1, <2>3, LaterTyped
  <2> DEFINE need == Needed(q.plan)[k - 1]
  <2>7. /\ Needed(q.plan)[k] = 2 * (need + k) /\ need \in Nat /\ need >= 1 /\ need <= Needed(q.plan)[Len(q.plan)]
        /\ Needed(q.plan)[Len(q.plan)] \in Nat
    <3>1. Len(q.plan) \in 0..Len(q.plan)
      BY <1>1
    <3> QED BY <1>2, <3>1, NeededIs
  <2>8. RouteReserve \in Nat
    BY SelectionAssumption DEF RouteReserve
  <2> HIDE DEF need, later
  <2>9. need <= RouteReserve /\ later \in Nat /\ later <= k /\ q.left >= 2 * (need + k)
    BY <1>3, <1>8, <2>4, <2>7, <2>8
  <2>10. kept >= need
    BY <1>1, <1>3, <2>5, <2>7, <2>9, ShareLeft
  <2> HIDE DEF kept
  <2>11. n.left >= kept
    BY <1>1, <1>4, <1>5, <1>7, <1>6
  <2>12. n.left >= need
    BY <1>7, <1>6, <2>7, <2>10, <2>11
  <2> QED BY <2>12 DEF need
<1> HIDE DEF later
<1>9. Len(q.plan) - (i + 1) = k - 1
  BY <1>1, Ahead
<1> QED BY <1>7, <1>8, <1>9 DEF HasTime

-----------------------------------------------------------------------------
(* The actions and the time left                                           *)

\* A step of request r alone that leaves it no attempt, or one it has time for.
LEMMA TimeStep ==
  ASSUME SelectionInv, TimeInv, NEW r \in Requests, NEW q, req' = [req EXCEPT ![r] = q],
         q.pc \in {"walk", "sent"} => HasTime(q, q.i)
  PROVE  TimeInv'
<1>1. ASSUME NEW s \in Requests PROVE req'[s].pc \in {"walk", "sent"} => HasTime(req'[s], req'[s].i)
  <2>1. req'[s] = IF s = r THEN q ELSE req[s]
    BY DEF SelectionInv, LeaseInv, Shaped
  <2> QED BY <2>1 DEF TimeInv
<1>2. (\A s \in Requests : req[s].pc \in {"walk", "sent"} => HasTime(req[s], req[s].i))'
  BY <1>1
<1> QED BY <1>2 DEF TimeInv

\* What HasTime looks at.
LEMMA TimeKept ==
  ASSUME NEW q, NEW n, n.plan = q.plan, n.left = q.left, ~n.stalled => ~q.stalled, NEW i, HasTime(q, i)
  PROVE  HasTime(n, i)
BY DEF HasTime, Waits, Tried

\* On to the next attempt, for which there is time.
LEMMA OnwardHasTime ==
  ASSUME NEW q, DOMAIN q = DOMAIN Quiet, ~LastAttempt(q) => HasTime(q, q.i + 1)
  PROVE  Onward(q).pc \in {"walk", "sent"} => HasTime(Onward(q), Onward(q).i)
<1> DEFINE n == [q EXCEPT !.pc = "walk", !.i = @ + 1]
<1>1. CASE LastAttempt(q)
  BY <1>1, QuietFields DEF Onward
<1>2. CASE ~LastAttempt(q)
  <2>1. n.i = q.i + 1 /\ n.plan = q.plan /\ n.left = q.left /\ n.stalled = q.stalled
    BY QuietFields
  <2>2. Onward(q) = n
    BY <1>2 DEF Onward
  <2> HIDE DEF n
  <2> QED BY <1>2, <2>1, <2>2, TimeKept
<1> QED BY <1>1, <1>2

\* What is known of an attempt.
LEMMA AttemptKnown ==
  ASSUME SelectionInv, TimeInv, NEW r \in Requests, req[r].pc \in {"walk", "sent"}
  PROVE  /\ DOMAIN req[r] = DOMAIN Quiet
         /\ IsList(req[r].plan) /\ req[r].i \in DOMAIN req[r].plan /\ req[r].plan[req[r].i].leg \in DOMAIN Leg
         /\ HasTime(req[r], req[r].i)
         /\ LastAttempt(req[r]) <=> req[r].i = Len(req[r].plan)
<1>1. OnItsWay(req[r]) /\ DOMAIN req[r] = DOMAIN Quiet
  BY DEF SelectionInv, WayInv, LeaseInv, Shaped
<1>2. Walking(req[r])
  BY <1>1 DEF OnItsWay
<1>3. IsList(req[r].plan) /\ req[r].i \in DOMAIN req[r].plan /\ req[r].plan[req[r].i].leg \in DOMAIN Leg
  BY <1>2 DEF Walking
<1> QED BY <1>1, <1>3 DEF TimeInv, LastAttempt

\* The time of the chain is more than what one provider ahead is left.
LEMMA PlanTimeInv ==
  ASSUME SelectionInv, TimeInv, NEW r \in Requests, Plan(r)
  PROVE  TimeInv'
<1> DEFINE o == req[r]
           pool == profilesForCandidate(Selected(o.kind))
           left == fallbackChainHeaderBudget(Kind[o.kind].tokens)
           on(plan) == [o EXCEPT !.pc = "walk", !.plan = plan, !.pool = pool, !.left = left]
<1>1. DOMAIN o = DOMAIN Quiet /\ WayInv'
  BY PlanWayInv DEF SelectionInv, LeaseInv, Shaped
<1>2. CASE req' = [req EXCEPT ![r] = Quiet]
  BY <1>2, TimeStep, QuietFields
<1>3. ASSUME NEW plan, req' = [req EXCEPT ![r] = on(plan)] PROVE TimeInv'
  <2> DEFINE q == on(plan)
  <2>1. left \in Nat /\ left >= RouteReserve
    <3>1. Second \in Nat
      BY SelectionAssumption
    <3> QED BY <3>1 DEF fallbackChainHeaderBudget, Scaled, RouteReserve
  <2>2. (\A s \in Requests : OnItsWay(req[s]))'
    BY <1>1 DEF WayInv
  <2>3. OnItsWay(req'[r]) /\ r \in DOMAIN req
    BY <2>2 DEF SelectionInv, LeaseInv, Shaped
  <2> HIDE DEF o, left, pool
  <2>4. q.pc = "walk" /\ q.plan = plan /\ q.left = left
    BY <1>1, QuietFields
  <2> HIDE DEF q
  <2>5. IsList(plan) /\ q.i \in DOMAIN plan
    <3>1. OnItsWay(q)
      BY <1>3, <2>3 DEF q
    <3>2. Walking(q)
      BY <2>4, <3>1 DEF OnItsWay
    <3> QED BY <2>4, <3>2 DEF Walking
  <2>6. Len(plan) \in Nat /\ Len(plan) - q.i \in 0..Len(plan) /\ Len(plan) \in 0..Len(plan)
    BY <2>5, ListFacts
  <2>7. /\ Needed(plan)[Len(plan) - q.i] \in Nat /\ Needed(plan)[Len(plan)] \in Nat
        /\ Needed(plan)[Len(plan) - q.i] <= Needed(plan)[Len(plan)]
    BY <2>5, <2>6, NeededIs
  <2>8. RouteReserve \in Nat
    BY SelectionAssumption DEF RouteReserve
  <2>9. HasTime(q, q.i)
    BY <2>1, <2>4, <2>7, <2>8 DEF HasTime
  <2> QED BY <1>3, <2>9, TimeStep DEF q
<1> QED BY <1>2, <1>3 DEF Plan

\* An attempt that is not made takes no time,
LEMMA SkipTimeInv ==
  ASSUME SelectionInv, TimeInv, NEW r \in Requests, NEW refused \in BOOLEAN, Skip(r, refused)
  PROVE  TimeInv'
<1> DEFINE o == req[r]
           lease == Kept(o)
           skip == IF SameHost(o) THEN o.skip ELSE {}
           gone == Account(Now(o).profile)
           n == [o EXCEPT !.lease = lease, !.skip = skip, !.passed = @ \cup gone]
<1>1. req' = [req EXCEPT ![r] = Onward(n)] /\ o.pc = "walk"
  BY DEF Skip
<1>2. /\ DOMAIN o = DOMAIN Quiet /\ IsList(o.plan) /\ o.i \in DOMAIN o.plan
      /\ HasTime(o, o.i) /\ (LastAttempt(o) <=> o.i = Len(o.plan))
  BY <1>1, AttemptKnown
<1> HIDE DEF o, lease, skip, gone
<1>3. n.plan = o.plan /\ n.i = o.i /\ n.left = o.left /\ n.stalled = o.stalled /\ DOMAIN n = DOMAIN Quiet
  BY <1>2, QuietFields
<1> HIDE DEF n
<1>4. ~LastAttempt(n) => HasTime(n, n.i + 1)
  <2>1. LastAttempt(n) <=> LastAttempt(o)
    BY <1>3 DEF LastAttempt
  <2>2. ~LastAttempt(o) => HasTime(o, o.i + 1)
    BY <1>2, NextHasTime
  <2>3. ASSUME NEW i, HasTime(o, i) PROVE HasTime(n, i)
    BY <1>3, <2>3, TimeKept
  <2> QED BY <1>3, <2>1, <2>2, <2>3
<1> QED BY <1>1, <1>3, <1>4, OnwardHasTime, TimeStep

\* one that is sent has not taken any yet,
LEMMA SendTimeInv ==
  ASSUME SelectionInv, TimeInv, NEW r \in Requests, Send(r)
  PROVE  TimeInv'
<1> DEFINE o == req[r]
           lease == Now(o).profile
           n == [o EXCEPT !.pc = "sent", !.lease = lease, !.skip = {}]
<1>1. req' = [req EXCEPT ![r] = n] /\ o.pc = "walk"
  BY DEF Send
<1>2. DOMAIN o = DOMAIN Quiet /\ HasTime(o, o.i)
  BY <1>1, AttemptKnown
<1> HIDE DEF o, lease
<1>3. n.plan = o.plan /\ n.i = o.i /\ n.left = o.left /\ n.stalled = o.stalled
  BY <1>2, QuietFields
<1> HIDE DEF n
<1>4. HasTime(n, n.i)
  BY <1>2, <1>3, TimeKept
<1> QED BY <1>1, <1>4, TimeStep

\* A failed attempt took no time, or what it may, or all that was left.
LEMMA FailsTimeInv ==
  ASSUME SelectionInv, TimeInv, NEW r \in Requests, req[r].pc = "sent", NEW q, DOMAIN q = DOMAIN Quiet,
         q.plan = req[r].plan, q.i = req[r].i, NEW tokens,
         \/ q.stalled /\ q.left = 0
         \/ /\ ~q.stalled => ~req[r].stalled
            /\ q.left \in {req[r].left,
                           req[r].left - HeaderBudget(req[r].plan, req[r].i, req[r].left, <<>>, tokens)},
         Fails(r, q)
  PROVE  TimeInv'
<1> DEFINE o == req[r]
           free == [q EXCEPT !.lease = NoProfile]
<1>1. req' = [req EXCEPT ![r] = Onward(free)]
  BY DEF Fails
<1>2. /\ IsList(o.plan) /\ o.i \in DOMAIN o.plan /\ o.plan[o.i].leg \in DOMAIN Leg
      /\ HasTime(o, o.i) /\ (LastAttempt(o) <=> o.i = Len(o.plan))
  BY AttemptKnown
<1>3. /\ free.plan = o.plan /\ free.i = o.i /\ free.left = q.left /\ free.stalled = q.stalled
      /\ DOMAIN free = DOMAIN Quiet
  BY QuietFields
<1> HIDE DEF free
<1>4. LastAttempt(free) <=> LastAttempt(o)
  BY <1>3 DEF LastAttempt
<1>5. CASE q.stalled /\ q.left = 0
  <2>1. HasTime(free, free.i + 1)
    BY <1>3, <1>5 DEF HasTime
  <2> QED BY <1>1, <1>3, <2>1, OnwardHasTime, TimeStep
<1>6. CASE (~q.stalled => ~o.stalled) /\ q.left = o.left
  <2>1. ~LastAttempt(o) => HasTime(o, o.i + 1)
    BY <1>2, NextHasTime
  <2>2. ASSUME NEW i, HasTime(o, i) PROVE HasTime(free, i)
    BY <1>3, <1>6, <2>2, TimeKept
  <2>3. ~LastAttempt(free) => HasTime(free, free.i + 1)
    BY <1>3, <1>4, <2>1, <2>2
  <2> QED BY <1>1, <1>3, <2>3, OnwardHasTime, TimeStep
<1>7. CASE (~q.stalled => ~o.stalled) /\ q.left = o.left - HeaderBudget(o.plan, o.i, o.left, <<>>, tokens)
  <2>1. ~LastAttempt(o) => HasTime(free, o.i + 1)
    BY <1>2, <1>3, <1>7, WaitHasTime
  <2> QED BY <1>1, <1>3, <1>4, <2>1, OnwardHasTime, TimeStep
<1> QED BY <1>5, <1>6, <1>7

\* one that is refused takes none that counts,
LEMMA RefuseTimeInv ==
  ASSUME SelectionInv, TimeInv, NEW r \in Requests, NEW why, Refuse(r, why)
  PROVE  TimeInv'
<1> DEFINE o == req[r]
           gone == Account(Via(o))
           q == [o EXCEPT !.passed = @ \cup gone]
<1>1. Fails(r, q) /\ o.pc = "sent"
  BY DEF Refuse
<1>2. DOMAIN o = DOMAIN Quiet
  BY <1>1, AttemptKnown
<1>3. q.plan = o.plan /\ q.i = o.i /\ q.left = o.left /\ q.stalled = o.stalled /\ DOMAIN q = DOMAIN Quiet
  <2> HIDE DEF o, gone
  <2> QED BY <1>2, QuietFields
<1> HIDE DEF q
<1> QED BY <1>1, <1>3, FailsTimeInv

\* and one without an answer takes what it may, or, stalled, all there is.
LEMMA NoAnswerTimeInv ==
  ASSUME SelectionInv, TimeInv, NEW r \in Requests,
         NEW how \in {"broken", "waited", "stalled", "outage"}, NoAnswer(r, how)
  PROVE  TimeInv'
<1> DEFINE o == req[r]
           waits  == candidateResponseHeaderBudget(Now(o).leg, <<>>, Kind[o.kind].tokens)
           shared == remainingAttemptHeaderBudget(o.plan, o.i, o.left)
           spent  == o.left - HeaderBudget(o.plan, o.i, o.left, <<>>, Kind[o.kind].tokens)
           left   == CASE how = "waited"  -> spent
                       [] how = "stalled" -> 0
                       [] OTHER           -> o.left
           skip   == IF Now(o).profile = NoProfile \/ how = "outage" \/ (how = "waited" /\ shared < waits)
                     THEN {} ELSE {Leg[Now(o).leg].upstream}
           outage == how = "outage" /\ Leg[Now(o).leg].scope # "pinned"
           gone == Account(Via(o))
           q == [o EXCEPT !.left = left,
                          !.stalled = @ \/ how = "stalled",
                          !.outage = @ \/ outage,
                          !.skip = skip,
                          !.passed = @ \cup gone]
<1>1. Fails(r, q) /\ o.pc = "sent"
  BY DEF NoAnswer
<1>2. DOMAIN o = DOMAIN Quiet
  BY <1>1, AttemptKnown
<1>3. \/ how = "stalled" /\ left = 0
      \/ how # "stalled" /\ left \in {o.left, spent}
  <2> HIDE DEF o, spent
  <2> QED OBVIOUS
<1>4. q.plan = o.plan /\ q.i = o.i /\ q.left = left /\ q.stalled = (o.stalled \/ how = "stalled")
      /\ DOMAIN q = DOMAIN Quiet
  <2> HIDE DEF o, gone, left, skip, outage
  <2> QED BY <1>2, QuietFields
<1> HIDE DEF q, left
<1>5. \/ q.stalled /\ q.left = 0
      \/ (~q.stalled => ~o.stalled) /\ q.left \in {o.left, spent}
  <2> HIDE DEF o, spent
  <2> QED BY <1>3, <1>4
<1> QED BY <1>1, <1>4, <1>5, FailsTimeInv

\* The other actions of a request leave it no attempt.
LEMMA EarlyTimeInv ==
  ASSUME SelectionInv, TimeInv, NEW r \in Requests,
         \/ \E k \in load.kinds[r], c \in Conversations : Bind(r, k, c)
         \/ Scan(r) \/ Choose(r) \/ NoneAvailable(r)
  PROVE  TimeInv'
<1> DEFINE o == req[r]
<1>1. DOMAIN o = DOMAIN Quiet
  BY DEF SelectionInv, LeaseInv, Shaped
<1>2. ASSUME NEW k \in load.kinds[r], NEW c \in Conversations, Bind(r, k, c) PROVE TimeInv'
  <2> DEFINE pool == IF IsClaude(Selected(k)) THEN profilesForCandidate(Selected(k)) ELSE <<>>
             pin  == IF Expires(k, c) THEN NoProfile ELSE Restored(c, pool)
             was  == IF pins[c] # NoProfile THEN pins[c] ELSE saved[c]
             look == IF pin \in Members(pool) THEN pin ELSE NoProfile
             phase   == IF pool = <<>> THEN "plan" ELSE "scan"
             out  == Account(was) \ Members(pool)
             q == [Quiet EXCEPT !.pc = phase, !.kind = k, !.conv = c,
                          !.was = was, !.expired = Expires(k, c),
                          !.passed = out, !.look = look, !.pool = pool, !.todo = pool]
  <2>1. req' = [req EXCEPT ![r] = q] /\ phase \in {"plan", "scan"}
    BY <1>2 DEF Bind
  <2> HIDE DEF phase, pool, pin, was, look, out
  <2>2. q.pc = phase
    BY QuietFields
  <2> HIDE DEF q
  <2> QED BY <2>1, <2>2, TimeStep
<1>3. CASE Scan(r)
  <2> DEFINE limits == PoolLimits[Leg[Selected(o.kind)].pool]
             p == Head(o.todo)
             seen == [profile |-> p, usage |-> Seen(usage[p], limits)]
             hit == [o EXCEPT !.todo = Tail(@), !.avail = Append(@, seen)]
             miss == [o EXCEPT !.todo = Tail(@), !.passed = @ \cup {p}]
  <2>1. (req' = [req EXCEPT ![r] = hit] \/ req' = [req EXCEPT ![r] = miss]) /\ o.pc = "scan"
    BY <1>3 DEF Scan
  <2> HIDE DEF o, seen, p
  <2>2. hit.pc = "scan" /\ miss.pc = "scan"
    BY <1>1, <2>1, QuietFields
  <2> HIDE DEF hit, miss
  <2> QED BY <2>1, <2>2, TimeStep
<1>4. CASE Choose(r)
  <2> DEFINE reserve == ~Kind[o.kind].count
             p == ChosenAccount(o, reserve)
             lease == IF reserve THEN p ELSE NoProfile
             held == [o EXCEPT !.pc = "plan", !.bound = p, !.lease = lease, !.avail = <<>>]
  <2>1. req' = [req EXCEPT ![r] = held] \/ req' = [req EXCEPT ![r] = Quiet]
    BY <1>4 DEF Choose
  <2> HIDE DEF o, p, lease
  <2>2. held.pc = "plan"
    BY <1>1, QuietFields
  <2> HIDE DEF held
  <2> QED BY <2>1, <2>2, QuietFields, TimeStep
<1>5. CASE NoneAvailable(r)
  <2> DEFINE on == [o EXCEPT !.pc = "plan"]
  <2>1. req' = [req EXCEPT ![r] = on] \/ req' = [req EXCEPT ![r] = Quiet]
    BY <1>5 DEF NoneAvailable
  <2> HIDE DEF o
  <2>2. on.pc = "plan"
    BY <1>1, QuietFields
  <2> HIDE DEF on
  <2> QED BY <2>1, <2>2, QuietFields, TimeStep
<1> QED BY <1>2, <1>3, <1>4, <1>5

\* A request that is answered or ends has none either.
LEMMA LateTimeInv ==
  ASSUME SelectionInv, TimeInv, NEW r \in Requests, OutOfTime(r) \/ Succeed(r) \/ Close(r)
  PROVE  TimeInv'
<1> DEFINE lease == req[r].lease
           done == [Quiet EXCEPT !.pc = "reading", !.lease = lease]
<1>1. req' = [req EXCEPT ![r] = Quiet] \/ req' = [req EXCEPT ![r] = done]
  BY DEF OutOfTime, Succeed, Close
<1> HIDE DEF lease
<1>2. done.pc = "reading"
  BY QuietFields
<1> HIDE DEF done
<1> QED BY <1>1, <1>2, QuietFields, TimeStep

\* The rest of the gateway takes no request's time; a restart ends them all.
LEMMA OthersTimeInv ==
  ASSUME TimeInv,
         \/ \E p \in Profiles : \/ \E why \in Blocks : BlockChanges(p, why)
                                \/ \E s \in Snapshots : UsageMoves(p, s)
                                \/ \E who \in Identities : Login(p, who)
         \/ \E c \in Conversations : Lapse(c)
         \/ Restart \/ UNCHANGED selectionVars
  PROVE  TimeInv'
<1>1. req' = req \/ req' = [r \in Requests |-> Quiet]
  BY DEF BlockChanges, UsageMoves, Login, Lapse, Restart, selectionVars
<1>2. ASSUME NEW r \in Requests PROVE req'[r].pc \in {"walk", "sent"} => HasTime(req'[r], req'[r].i)
  BY <1>1, QuietFields DEF TimeInv
<1>3. (\A r \in Requests : req[r].pc \in {"walk", "sent"} => HasTime(req[r], req[r].i))'
  BY <1>2
<1> QED BY <1>3 DEF TimeInv

\* Every step keeps the time of the attempts ahead.
LEMMA NextTimeInv ==
  ASSUME SelectionInv, TimeInv, [SelectionNext]_selectionVars
  PROVE  TimeInv'
BY EarlyTimeInv, PlanTimeInv, SkipTimeInv, SendTimeInv, RefuseTimeInv, NoAnswerTimeInv, LateTimeInv,
   OthersTimeInv DEF SelectionNext

\* At first no request has an attempt.
LEMMA InitTimeInv == SelectionInit => TimeInv
BY QuietFields DEF SelectionInit, TimeInv

\* Both invariants hold throughout.
LEMMA SpecTimeInv == SelectionSpec => [](SelectionInv /\ TimeInv)
<1>1. SelectionInit => SelectionInv /\ TimeInv
  BY InitLeaseInv, InitWayInv, InitTimeInv DEF SelectionInv
<1>2. (SelectionInv /\ TimeInv) /\ [SelectionNext]_selectionVars => (SelectionInv /\ TimeInv)'
  BY NextSelectionInv, NextTimeInv
<1> QED BY <1>1, <1>2, PTL DEF SelectionSpec

\* What an attempt that has time for the ones ahead may take is not nothing.
LEMMA TimeLeft ==
  ASSUME NEW q, IsList(q.plan), q.i \in DOMAIN q.plan, HasTime(q, q.i), Waits(q, q.i), ~q.stalled,
         Needed(q.plan)[Len(q.plan)] <= RouteReserve
  PROVE  remainingAttemptHeaderBudget(q.plan, q.i, q.left) > 0
<1> DEFINE k == Len(q.plan) - q.i
           need == Needed(q.plan)[k]
<1>1. k \in 0..Len(q.plan) /\ k \in Nat
  <2>1. Len(q.plan) \in Nat /\ q.i \in 1..Len(q.plan)
    BY ListFacts
  <2> QED BY <2>1, Ahead
<1>2. q.left \in Nat /\ q.left >= need
  BY DEF HasTime
<1>3. need \in Nat /\ need >= 1
  BY <1>1, NeededIs
<1>4. laterUnmeteredProviders(q.plan, q.i) \in 0..k
  BY LaterTyped
<1> HIDE DEF need, k
<1>5. laterUnmeteredProviders(q.plan, q.i) \in Nat
  BY <1>1, <1>4
<1>6. q.left > 0
  BY <1>2, <1>3
<1> QED BY <1>2, <1>5, <1>6, ShareTyped

\* BackupHasTime for any legs, chains and ceilings, and any clock fine enough:
\* the windows that remainingAttemptHeaderBudget keeps back, and the shares it
\* divides when they are not there any more, leave every attempt up to the
\* first with an untried unmetered provider more than no time, however many
\* attempts waited for all they had.
THEOREM BackupsFindTime == SelectionSpec => []BackupHasTime
<1>1. SelectionInv /\ TimeInv => BackupHasTime
  <2> SUFFICES ASSUME SelectionInv, TimeInv, NEW r \in Requests, req[r].pc = "walk", ~req[r].stalled,
                      Needed(req[r].plan)[Len(req[r].plan)] <= RouteReserve,
                      NEW j \in req[r].i..Len(req[r].plan), Unmetered(req[r].plan[j].leg),
                      Leg[req[r].plan[j].leg].provider \notin
                        {Leg[req[r].plan[k].leg].provider : k \in 1..(req[r].i - 1)}
               PROVE  remainingAttemptHeaderBudget(req[r].plan, req[r].i, req[r].left) > 0
    BY DEF BackupHasTime
  <2>1. /\ IsList(req[r].plan) /\ req[r].i \in DOMAIN req[r].plan
        /\ HasTime(req[r], req[r].i) /\ Waits(req[r], req[r].i)
    BY AttemptKnown DEF Waits, Tried
  <2> QED BY <2>1, TimeLeft
<1> QED BY <1>1, SpecTimeInv, PTL
==============================================================================
