------------------------------ MODULE RoutePlan ------------------------------
(***************************************************************************)
(* The legs of one request: which of the configured models can serve it,   *)
(* in which order they are tried, and how long each may wait for response  *)
(* headers.  Leg[l] is a record of what these decisions read of a model l:  *)
(*   provider, upstream, family, variant, billing, tier, class, scope,     *)
(*   subscription (an eligible model of the Claude subscription), tools,   *)
(*   images, documents, rejects (content types), advisor (native advisor   *)
(*   tool), ceiling (the provider's header timeout), pool (its accounts),  *)
(*   paidOnTimeout (may be paid for when headers time out).                *)
(* A model is a leg with its fallbacks, themselves models: [leg, fallbacks]. *)
(***************************************************************************)
EXTENDS Integers, Sequences, FiniteSets, Functions

CONSTANTS
  Leg,            \* what is known of each leg
  ClaudeProvider, \* the provider of the Claude subscription accounts
  Second          \* ticks of the clock

\* The members of a finite set in the order of R, a set of pairs: each has its
\* predecessors before it.
Listed(I, R) ==
  [n \in 1..Cardinality(I) |-> CHOOSE k \in I : Cardinality({j \in I : <<j, k>> \in R}) = n - 1]

\* What s has at the indices in I, in the order of s.
Picked(s, I) ==
  LET order == Listed(I, {x \in I \X I : x[1] < x[2]}) IN [n \in DOMAIN order |-> s[order[n]]]

\* The models of a configuration: a chain is compiled from models without
\* fallbacks of their own; the walk looks four deep.
Trees(below) == [leg : DOMAIN Leg, fallbacks : Seq(below)]
Models == Trees(Trees(Trees(Trees(Trees({})))))

\* A leg stands for its provider, upstream, account pool and model.
Has(legs, leg) == \E k \in DOMAIN legs : legs[k] = leg

\* The fallbacks of a model that are new, each with what Below finds under it.
Walked(legs, model, Below(_, _)) ==
  LET found[n \in 0..Len(model.fallbacks)] ==
        IF n = 0 THEN legs
        ELSE IF Has(found[n - 1], model.fallbacks[n].leg) THEN found[n - 1]
        ELSE Below(Append(found[n - 1], model.fallbacks[n].leg), model.fallbacks[n])
  IN found[Len(model.fallbacks)]

\* Fallbacks of fallbacks, to the depth of four.
Capped(legs, model) == legs
Depth4(legs, model) == Walked(legs, model, Capped)
Depth3(legs, model) == Walked(legs, model, Depth4)
Depth2(legs, model) == Walked(legs, model, Depth3)
collectCandidates(model) == Walked(<<model.leg>>, model, Depth2)

\* needs: what the request holds, of "advisor", "tools", "image", "document"
\* and other content types.
Serves(leg, needs) ==
  /\ "advisor" \in needs => Leg[leg].advisor
  /\ "tools" \in needs => Leg[leg].tools
  /\ "image" \in needs => Leg[leg].images
  /\ "document" \in needs => Leg[leg].documents
  /\ Leg[leg].rejects \cap needs = {}

Compatible(legs, needs) == Picked(legs, {k \in DOMAIN legs : Serves(legs[k], needs)})

-----------------------------------------------------------------------------
(* Ranking.  A hint is [tier, risky] of a decided classification, or NoHint. *)

NoHint == [tier |-> "", risky |-> {}]

preserveSonnetSubscriptionOrder(leg) == Leg[leg].subscription /\ Leg[leg].family = "sonnet"

\* Seeded fault for PoolBeforeFallback: the hint applies to every request.
FaultApplied(hint, selected) == hint

\* risky: the providers a risky classification prefers.
Applied(hint, selected) ==
  IF Leg[selected].scope = "pinned" \/ preserveSonnetSubscriptionOrder(selected) THEN NoHint ELSE hint

hintMatches(leg, hint) == (hint.tier # "" /\ Leg[leg].class = hint.tier) \/ Leg[leg].provider \in hint.risky

\* The score (stability, latency, speed, cost, headroom, load, blocks) is left
\* open: it orders the legs of one step in any way.
Before(a, b, hint) ==
  IF hintMatches(a, hint) # hintMatches(b, hint) THEN hintMatches(a, hint) ELSE Leg[a].tier < Leg[b].tier

rankConfiguredCandidates(legs, hint) ==
  {ranked \in {[k \in DOMAIN legs |-> legs[p[k]]] : p \in Bijection(DOMAIN legs, DOMAIN legs)} :
     \A j, k \in DOMAIN legs : Before(ranked[j], ranked[k], hint) => j < k}

-----------------------------------------------------------------------------
(* Header budgets, in ticks.                                               *)

Least(a, b) == IF a < b THEN a ELSE b
Greatest(a, b) == IF a > b THEN a ELSE b

\* tokens: the estimated input, in thousands.
Scaled(budget, tokens) ==
  CASE tokens > 300 -> budget * 3
    [] tokens > 150 -> budget * 2
    [] tokens > 75  -> (budget * 3) \div 2
    [] OTHER        -> budget

Limits(leg) ==
  CASE Leg[leg].provider = ClaudeProvider /\ Leg[leg].family = "fable" -> [base |-> 30 * Second, floor |-> 12 * Second]
    [] Leg[leg].provider = ClaudeProvider                         -> [base |-> 20 * Second, floor |-> 8 * Second]
    [] Leg[leg].variant = "bigmodel" /\ Leg[leg].family = "glm"        -> [base |-> 25 * Second, floor |-> 10 * Second]
    [] Leg[leg].variant = "vercel" /\ Leg[leg].family = "kimi"         -> [base |-> 20 * Second, floor |-> 8 * Second]
    [] Leg[leg].variant = "opencode-go" /\ Leg[leg].family = "glm"     -> [base |-> 60 * Second, floor |-> 20 * Second]
    [] OTHER -> [base |-> Leg[leg].ceiling, floor |-> 8 * Second]

\* learned: <<p95>> of enough header observations, or <<>>.
candidateResponseHeaderBudget(leg, learned, tokens) ==
  LET base  == Least(Leg[leg].ceiling, Limits(leg).base)
      floor == Least(Limits(leg).floor, base)
      grown == IF learned = <<>> THEN base
               ELSE Greatest(base, Greatest(floor, 2 * learned[1] + 2 * Second))
  IN Least(Scaled(grown, tokens), Leg[leg].ceiling)

fallbackChainHeaderBudget(tokens) == Scaled(60 * Second, tokens)
RouteReserve == 25 * Second

Unmetered(leg) == Leg[leg].billing \in {"subscription", "local"} \/ Leg[leg].paidOnTimeout

\* The other providers that the attempts after index i still offer.
laterUnmeteredProviders(plan, i) ==
  Cardinality({Leg[plan[k].leg].provider : k \in {j \in i+1..Len(plan) : Unmetered(plan[j].leg)}}
                \ {Leg[plan[i].leg].provider})

\* Seeded fault for BackupHasTime: the whole reserve is kept back, however
\* little is left.
FaultremainingAttemptHeaderBudget(plan, i, remaining) ==
  remaining - laterUnmeteredProviders(plan, i) * RouteReserve

remainingAttemptHeaderBudget(plan, i, remaining) ==
  LET later == laterUnmeteredProviders(plan, i)
  IN remaining - Least(later * RouteReserve, (remaining \div (later + 1)) * later)

\* How long the attempt waits for headers before it is given up.
HeaderBudget(plan, i, remaining, learned, tokens) ==
  Least(candidateResponseHeaderBudget(plan[i].leg, learned, tokens),
        remainingAttemptHeaderBudget(plan, i, remaining))

\* What must be left for a share to remain after each of the last k attempts,
\* when every one may leave to the others no more than half of it, rounded.
Needed(plan) ==
  LET need[k \in 0..Len(plan)] == IF k = 0 THEN 1 ELSE 2 * (need[k - 1] + k) IN need
=============================================================================
