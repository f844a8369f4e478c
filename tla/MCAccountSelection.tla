------------------------- MODULE MCAccountSelection -------------------------
(***************************************************************************)
(* AccountSelection for TLC: two accounts in one pool, one conversation and *)
(* the chains a configuration of the gateway has: the subscription with    *)
(* unmetered and metered backups, a worker model whose task the classifier *)
(* judges, a pinned model, a Claude model outside the subscription and a   *)
(* token count.  Two requests at once walk short chains, one request the  *)
(* whole ones.                                                             *)
(***************************************************************************)
EXTENDS AccountSelection, TLC

CONSTANTS p1, p2, c1, r1, r2, none

MCProfiles == {p1, p2}
MCPools == [main |-> <<p1, p2>>]
MCLimits == [main |-> [five |-> 90, week |-> 95, worker |-> 60, workerWeek |-> 0, fableMin |-> 10,
                       fablePace |-> TRUE, cache |-> 5, stale |-> 30]]

\* Legs.
Opus == [provider |-> "claude", upstream |-> "opus", family |-> "opus", variant |-> "claude",
         billing |-> "subscription", tier |-> 1, class |-> "deep", scope |-> "",
         subscription |-> TRUE, tools |-> TRUE, images |-> TRUE, documents |-> TRUE, rejects |-> {},
         advisor |-> TRUE, ceiling |-> 120 * Second, pool |-> "main", paidOnTimeout |-> FALSE]
Sonnet == [Opus EXCEPT !.upstream = "sonnet", !.family = "sonnet", !.class = "standard"]
Pinned == [Opus EXCEPT !.scope = "pinned"]
Extra  == [Opus EXCEPT !.upstream = "extra", !.family = "other", !.tier = 2, !.subscription = FALSE]

Glm == [Opus EXCEPT !.provider = "opencode", !.upstream = "glm", !.family = "glm",
                    !.variant = "opencode-go", !.tier = 2, !.class = "fast", !.subscription = FALSE,
                    !.documents = FALSE, !.advisor = FALSE, !.pool = "none"]
Qwen == [Glm EXCEPT !.provider = "ollama", !.upstream = "qwen", !.family = "qwen",
                    !.variant = "ollama", !.billing = "local", !.images = FALSE]
Kimi == [Glm EXCEPT !.provider = "vercel", !.upstream = "kimi", !.family = "kimi",
                    !.variant = "vercel", !.billing = "metered", !.tier = 3, !.paidOnTimeout = TRUE]
Paid == [Kimi EXCEPT !.provider = "paid", !.upstream = "paid", !.tier = 3, !.paidOnTimeout = FALSE]

MCLeg == [opus |-> Opus, sonnet |-> Sonnet, pinned |-> Pinned, extra |-> Extra, glm |-> Glm,
          qwen |-> Qwen, kimi |-> Kimi, paid |-> Paid]

Model(leg, backups) == [leg |-> leg, fallbacks |-> backups]
Alone(leg) == Model(leg, <<>>)

Main == [model |-> Model("opus", <<Model("glm", <<Alone("kimi")>>), Alone("kimi")>>),
         needs |-> {"tools"}, count |-> FALSE, hint |-> NoHint, tokens |-> 10]
Worker == [model |-> Model("sonnet", <<Alone("qwen"), Alone("glm"), Alone("paid")>>),
           needs |-> {"image"}, count |-> FALSE, hint |-> [tier |-> "fast", risky |-> {}],
           tokens |-> 100]

MCKind == [main    |-> Main,
           count   |-> [Main EXCEPT !.count = TRUE],
           worker  |-> Worker,
           short   |-> [Main EXCEPT !.model = Model("opus", <<Alone("glm")>>)],
           exact   |-> [Worker EXCEPT !.model = Model("pinned", <<Alone("glm")>>)],
           outside |-> [Main EXCEPT !.model = Model("extra", <<Alone("glm")>>)],
           brief   |-> [Main EXCEPT !.model = Alone("opus")],
           advised |-> [Main EXCEPT !.model = Alone("glm"), !.needs = {"advisor"}]]

\* Two requests at once, with at most one backup and one change around them.
Racing == [kinds |-> (r1 :> {"short", "exact", "outside"}) @@ (r2 :> {"brief", "count"}),
           requests |-> 2, changes |-> 1]
\* One request, with every backup of its model and two changes around it.
WholeChains == [kinds |-> (r1 :> {"main", "count", "worker", "exact", "outside", "advised"})
                            @@ (r2 :> {}),
                requests |-> 1, changes |-> 2]
MCWorkloads == {Racing, WholeChains}

\* Snapshots: little used, full, and one whose pace reserves it from workers.
W(used, left) == [used |-> used, left |-> left]
Idle == [source |-> "oauth-api", age |-> 1, five |-> W(10, <<60>>), week |-> W(20, <<4000>>),
         earlier |-> <<>>]
Full == [Idle EXCEPT !.source = "claude-cli-cache", !.five = W(95, <<30>>)]
Pacing == [Idle EXCEPT !.five = W(40, <<60>>), !.earlier = <<[ago |-> 15, five |-> 20, week |-> 20]>>]

MCSnapshots == {Full, Pacing}
MCBlocks == {"none", "instability", "opus"}
=============================================================================
