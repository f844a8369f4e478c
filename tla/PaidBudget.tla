------------------------------ MODULE PaidBudget ------------------------------
(***************************************************************************)
(* The rolling 24-hour budget of a metered provider (paid_budget.go): a    *)
(* ledger file, edited under a lock that gateway processes share, in which *)
(* every paid attempt reserves the most it can cost before it is sent and  *)
(* settles what it did cost when its body is closed.                       *)
(*                                                                         *)
(* The money is spent elsewhere: the upstream charges an attempt at some   *)
(* instant of its life, which ends at the latest Lifetime after the        *)
(* reservation, whether or not the gateway still listens.  An attempt      *)
(* whose cost is not known is charged in full, dated a Lifetime ahead, and *)
(* so is every attempt that was pending when a process starts, its own or  *)
(* another's.                                                              *)
(*                                                                         *)
(* The edit of the ledger (read, drop what has aged out, change, rename)   *)
(* holds the lock throughout and is one step; it may fail before the       *)
(* rename, or after it, and the process may die in it.  Identifiers are    *)
(* random, so an attempt is used once.  One provider is modelled.          *)
(***************************************************************************)
EXTENDS Integers, FiniteSets, FiniteSetsExt

CONSTANTS
  Processes,   \* gateway processes that share the state directory
  Attempts,    \* paid attempts
  Bounds,      \* cost bounds a request can have (budgetReserveBound)
  Limit,       \* rolling24hBudgetUSD
  Window,      \* paidBudgetWindow, 24 hours
  Lifetime,    \* paidAttemptLifetime, an hour
  MaxEntries,  \* paidBudgetMaxEntries
  MaxTime      \* bound: the horizon of the clock

ASSUME BudgetAssumption ==
  /\ Bounds \subseteq Nat \ {0}
  /\ Limit \in Nat /\ MaxEntries \in Nat /\ MaxTime \in Nat
  /\ Lifetime \in Nat /\ Window \in Nat \ {0}
  /\ IsFiniteSet(Attempts)

VARIABLES
  now,
  up,      \* the processes that serve
  file,    \* "fresh", "locked" (the lock file is initialised, no ledger), "ledger"
  ledger,  \* the entry of each attempt
  pc,      \* where each attempt is
  owner,   \* the process it runs in
  sentAt,  \* when it was reserved
  bound,   \* its bound
  cost,    \* history: what the upstream charged it, 0 for nothing yet
  costAt   \* history: and when

vars == <<now, up, file, ledger, pc, owner, sentAt, bound, cost, costAt>>

Instants == 0..MaxTime
Costs == UNION {0..b : b \in Bounds \union {0}}

Entries == [kind : {"none", "pending", "settled"}, charge : Costs, at : Nat]

NoEntry == [kind |-> "none", charge |-> 0, at |-> 0]

TypeOK ==
  /\ now \in Instants
  /\ up \subseteq Processes
  /\ file \in {"fresh", "locked", "ledger"}
  /\ ledger \in [Attempts -> Entries]
  /\ pc \in [Attempts -> {"new", "sent", "orphan", "over"}]
  /\ owner \in [Attempts -> Processes \union {"nobody"}]
  /\ sentAt \in [Attempts -> Instants] /\ bound \in [Attempts -> Costs]
  /\ cost \in [Attempts -> Costs] /\ costAt \in [Attempts -> Instants]

Init ==
  /\ now = 0
  /\ up = {}
  /\ file = "fresh"
  /\ ledger = [a \in Attempts |-> NoEntry]
  /\ pc = [a \in Attempts |-> "new"]
  /\ owner = [a \in Attempts |-> "nobody"]
  /\ sentAt = [a \in Attempts |-> 0]
  /\ bound = [a \in Attempts |-> 0]
  /\ cost = [a \in Attempts |-> 0]
  /\ costAt = [a \in Attempts |-> 0]

\* attemptCtx ends an attempt a Lifetime after its reservation: time does not
\* pass an attempt that is still being served.
Tick ==
  /\ now < MaxTime
  /\ \A a \in Attempts : pc[a] = "sent" => now < sentAt[a] + Lifetime
  /\ now' = now + 1
  /\ UNCHANGED <<up, file, ledger, pc, owner, sentAt, bound, cost, costAt>>

-----------------------------------------------------------------------------
(* The ledger *)

\* Settled entries leave the window; pending ones never age out.
Pruned(l) ==
  [a \in Attempts |-> IF l[a].kind = "settled" /\ l[a].at <= now - Window THEN NoEntry ELSE l[a]]

Charged(l) == SumFunction([a \in Attempts |-> l[a].charge])
Recorded(l) == {a \in Attempts : l[a].kind # "none"}

\* editPaidBudget, with a ledger that is there: the new ledger is in place, or
\* the edit failed early and nothing happened.
Written(l) == file = "ledger" /\ ledger' = l /\ UNCHANGED file
EditFails == UNCHANGED <<ledger, file>>

\* Seeded fault for RecoveryForgivesNothing: what is pending is dated as if the
\* attempt were over.
FaultRecoveredNow(l) ==
  [a \in Attempts |->
     IF l[a].kind = "pending" THEN [l[a] EXCEPT !.kind = "settled", !.at = now] ELSE l[a]]

\* recoverPaidBudgets: what is pending is charged in full.
Recovered(l) ==
  [a \in Attempts |->
     IF l[a].kind = "pending" THEN [l[a] EXCEPT !.kind = "settled", !.at = now + Lifetime] ELSE l[a]]

\* settlePaidBudget
Settled(l, a, charge, at) ==
  IF charge = 0 THEN [l EXCEPT ![a] = NoEntry]
  ELSE [l EXCEPT ![a] = [kind |-> "settled", charge |-> charge, at |-> at]]

-----------------------------------------------------------------------------
(* Processes *)

unchangedAttempts == UNCHANGED <<pc, owner, sentAt, bound, cost, costAt>>

\* newProxyServer recovers the budget before the process serves; the first
\* edit initialises the lock and creates the ledger. Without a ledger behind
\* an initialised lock the process does not start.
Start(p) ==
  /\ p \notin up
  /\ file # "locked"
  /\ up' = up \union {p}
  /\ file' = "ledger"
  /\ ledger' = Recovered(Pruned(ledger))
  /\ UNCHANGED now /\ unchangedAttempts

\* The start fails or the process dies inside its first edit.
StartFails(p) ==
  /\ p \notin up
  /\ file = "fresh" /\ file' = "locked"
  /\ UNCHANGED <<now, up, ledger>> /\ unchangedAttempts

\* The requests it served are cut off; the upstream may not notice.
Crash(p) ==
  /\ p \in up
  /\ up' = up \ {p}
  /\ pc' = [a \in Attempts |-> IF pc[a] = "sent" /\ owner[a] = p THEN "orphan" ELSE pc[a]]
  /\ UNCHANGED <<now, file, ledger, owner, sentAt, bound, cost, costAt>>

-----------------------------------------------------------------------------
(* Attempts (withPaidBudget) *)

\* Seeded fault for WindowNeverOverspent: the new reservation is not counted.
FaultFitsWithout(l, b) == Charged(l) <= Limit /\ Cardinality(Recorded(l)) < MaxEntries

Fits(l, b) == Charged(l) + b <= Limit /\ Cardinality(Recorded(l)) < MaxEntries

\* reservePaidBudget; the request is sent only after it. An edit that failed
\* after its rename leaves a reservation that nobody uses.
Reserve(a, p, b) ==
  /\ pc[a] = "new" /\ p \in up
  /\ Fits(Pruned(ledger), b)
  /\ Written([Pruned(ledger) EXCEPT ![a] = [kind |-> "pending", charge |-> b, at |-> now]])
  /\ pc' \in {[pc EXCEPT ![a] = "sent"], [pc EXCEPT ![a] = "over"]}
  /\ owner' = [owner EXCEPT ![a] = p]
  /\ sentAt' = [sentAt EXCEPT ![a] = now]
  /\ bound' = [bound EXCEPT ![a] = b]
  /\ UNCHANGED <<now, up, cost, costAt>>

\* The upstream charges the attempt, once, while it runs there.
Spend(a) ==
  /\ pc[a] \in {"sent", "orphan"}
  /\ now <= sentAt[a] + Lifetime
  /\ cost[a] = 0
  /\ \E c \in 1..bound[a] : cost' = [cost EXCEPT ![a] = c]
  /\ costAt' = [costAt EXCEPT ![a] = now]
  /\ UNCHANGED <<now, up, file, ledger, pc, owner, sentAt, bound>>

\* a is settled with charge, dated at; or the edit fails and the reservation
\* stays pending.
Settle(a, charge, at) ==
  /\ \/ Written(Settled(Pruned(ledger), a, charge, at))
     \/ EditFails
  /\ UNCHANGED <<now, up, owner, sentAt, bound, cost, costAt>>

\* A status that says the request was refused (400 to 404, 422, 429), a request
\* that never left, or a complete response whose reported cost is nil.
Refused(a) ==
  /\ pc[a] = "sent" /\ cost[a] = 0
  /\ pc' = [pc EXCEPT ![a] = "over"]
  /\ Settle(a, 0, now)

\* A complete 2xx response with consistent usage: at least what was charged
\* (the whole context when the cache's share is not reported).
Complete(a) ==
  /\ pc[a] = "sent" /\ cost[a] # 0
  /\ pc' = [pc EXCEPT ![a] = "over"]
  /\ \E charge \in cost[a]..bound[a] : Settle(a, charge, now)

\* Anything else (truncated, 5xx, cancelled, no usage): the whole bound, dated
\* ahead, because the upstream may still be generating.
Unknown(a) ==
  /\ pc[a] = "sent"
  /\ pc' = [pc EXCEPT ![a] = "orphan"]
  /\ Settle(a, bound[a], now + Lifetime)

Next ==
  \/ Tick
  \/ \E p \in Processes : Start(p) \/ StartFails(p) \/ Crash(p)
  \/ \E a \in Attempts :
       \/ \E p \in Processes, b \in Bounds : Reserve(a, p, b)
       \/ Spend(a) \/ Refused(a) \/ Complete(a) \/ Unknown(a)

Spec == Init /\ [][Next]_vars

-----------------------------------------------------------------------------
(* Properties *)

\* The promise of rolling24hBudgetUSD: whatever crashes, overlaps or is never
\* answered, the upstream has not charged more than Limit in any Window.
WindowNeverOverspent ==
  SumFunction([a \in Attempts |-> IF costAt[a] > now - Window THEN cost[a] ELSE 0]) <= Limit

\* "Recovery charges their full bound for another window plus the maximum
\* attempt lifetime": an entry is only reduced by the attempt's own settlement,
\* and otherwise stays until a Window after the attempt can have cost anything.
RecoveryForgivesNothing ==
  [][\A a \in Attempts :
       ledger'[a].charge < ledger[a].charge =>
         pc'[a] # pc[a] \/ now >= sentAt[a] + Window + (IF pc[a] = "over" THEN 0 ELSE Lifetime)]_vars
=============================================================================
