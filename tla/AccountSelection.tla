-------------------------- MODULE AccountSelection --------------------------
(***************************************************************************)
(* From a request to the account it is sent with.  bindClaudeAccount scans *)
(* the pool and reserves an account for the conversation, doWithFallbacks  *)
(* plans the attempts and walks them, and each attempt holds a lease of    *)
(* its account until it ends.  Requests run concurrently; they meet in the *)
(* pins and the in-flight counters (claudeAccountMu) and read the accounts' *)
(* blocks and usage before they take that lock.                            *)
(*                                                                         *)
(* What marks and lifts blocks, refreshes usage, and what a leg may refuse *)
(* for (breaker, load, cost policy) has modules of its own: here a block,  *)
(* a snapshot and a refusal are chosen freely.  A request slot serves one  *)
(* request after another.  The maximal number of pins is never reached,    *)
(* and saved pins are as durable as AccountPins shows.  Time is what       *)
(* attempts wait for; an answer that does not come in time costs its       *)
(* whole budget.                                                           *)
(***************************************************************************)
EXTENDS UsagePolicy, RoutePlan

CONSTANTS
  Requests,       \* slots for requests
  Conversations,  \* values of routingStickyKey
  Profiles,       \* the account profiles
  Pools,          \* pool -> the sequence of its profiles
  Kind,           \* the requests clients make: name -> [model, needs, count, hint, tokens]
  PoolLimits,     \* the pools' policy on usage
  Snapshots,      \* usage snapshots an account may show
  Blocks,         \* reasons an account may be blocked for, "none" for none
  Identities,     \* who a profile may be logged in as
  NoProfile,
  Workloads       \* what a behaviour is made of: [kinds, requests, changes], the kinds of request
                  \* that come to each slot and two bounds: the requests started, and the changes
                  \* of blocks, usage and logins, lapses and restarts together

ASSUME SelectionAssumption ==
  /\ IsFiniteSet(Requests) /\ NoProfile \notin Profiles
  /\ \A pool \in DOMAIN Pools : Pools[pool] \in Seq(Profiles)
  /\ Snapshots \subseteq UsageSnapshots
  /\ \A kind \in DOMAIN Kind : Kind[kind].model \in Models
  /\ \A w \in Workloads, r \in Requests : w.kinds[r] \subseteq DOMAIN Kind
  /\ Second \in Nat \ {0}
  /\ \A leg \in DOMAIN Leg :
       /\ Leg[leg].ceiling \in Nat
       /\ Leg[leg].provider = ClaudeProvider /\ Leg[leg].scope = "pinned" => Leg[leg].subscription

VARIABLES
  pins,      \* claudeAccounts: conversation -> profile
  lapsed,    \* the conversations whose pin's time has run out
  saved,     \* claudePersistentPins
  inFlight,  \* claudeAccountInFlight
  block,     \* why each account is blocked; an upstream: its quota alone
  usage,     \* its latest snapshot
  identity,  \* who it is logged in as
  req,       \* the requests
  load,      \* the workload of this behaviour
  started, changes

world == <<block, usage, identity>>
bounds == <<load, started, changes>>
selectionVars == <<pins, lapsed, saved, inFlight, world, req, bounds>>

Quiet == [pc |-> "idle", kind |-> CHOOSE k \in DOMAIN Kind : TRUE,
          conv |-> CHOOSE c \in Conversations : TRUE, was |-> NoProfile, expired |-> FALSE,
          look |-> NoProfile, pool |-> <<>>, todo |-> <<>>, avail |-> <<>>, passed |-> {},
          bound |-> NoProfile, lease |-> NoProfile, plan |-> <<>>, i |-> 1, left |-> 0, skip |-> {},
          outage |-> FALSE, stalled |-> FALSE]

SelectionInit ==
  /\ pins = [c \in Conversations |-> NoProfile] /\ lapsed = {}
  /\ saved \in [Conversations -> {NoProfile} \cup Profiles]
  /\ inFlight = [p \in Profiles |-> 0]
  /\ block = [p \in Profiles |-> "none"]
  /\ usage = [p \in Profiles |-> UnknownUsage]
  /\ identity = [p \in Profiles |-> p]
  /\ req = [r \in Requests |-> Quiet]
  /\ load \in Workloads /\ started = 0 /\ changes = 0

-----------------------------------------------------------------------------
(* Operators.                                                              *)

Members(s) == {s[k] : k \in DOMAIN s}
Account(p) == {p} \ {NoProfile}

\* profilesForCandidate: of two profiles logged in as the same account the
\* first of the pool counts.
profilesForCandidate(leg) ==
  LET all == Pools[Leg[leg].pool]
      first == {k \in DOMAIN all : \A j \in 1..(k - 1) : identity[all[j]] # identity[all[k]]}
  IN IF Leg[leg].pool \in DOMAIN Pools THEN Picked(all, first) ELSE <<>>

Selected(k) == Kind[k].model.leg
IsClaude(leg) == Leg[leg].provider = ClaudeProvider

AccountWide == {"auth", "quota", "instability"}
Blocked(p, leg) == block[p] \in AccountWide \cup {Leg[leg].upstream}

\* Selection for a pinned model looks past instability and the model's quota.
Usable(p, leg) ==
  /\ IF Leg[leg].scope = "pinned" THEN block[p] \notin {"auth", "quota"} ELSE ~Blocked(p, leg)
  /\ UsageAllows(Seen(usage[p], PoolLimits[Leg[leg].pool]), Leg[leg], PoolLimits[Leg[leg].pool])

Holds(f, p) == IF p = NoProfile THEN f ELSE [f EXCEPT ![p] = @ + 1]
Drops(f, p) == IF p = NoProfile THEN f ELSE [f EXCEPT ![p] = IF @ > 1 THEN @ - 1 ELSE 0]

\* rememberClaudeAccountLocked.
Remember(c, p) ==
  /\ pins' = [pins EXCEPT ![c] = p]
  /\ saved' = [saved EXCEPT ![c] = p]
  /\ lapsed' = lapsed \ {c}
KeepPins == UNCHANGED <<pins, lapsed, saved>>

\* Sorted by key, in the order of the sequence where the keys are equal.
Sorted(s, key(_)) ==
  LET before(j, k) == Lower(key(s[j]), key(s[k])) \/ (j < k /\ ~Lower(key(s[k]), key(s[j])))
      order == Listed(DOMAIN s, {x \in (DOMAIN s) \X (DOMAIN s) : before(x[1], x[2])})
  IN [n \in DOMAIN order |-> s[order[n]]]

\* Seeded fault for PinUntilBroken: a pin that can serve is balanced away.
FaultAccount(q, reserve) ==
  Sorted(q.avail, LAMBDA a : ChoiceKey(a.usage, inFlight[a.profile], reserve, FALSE))[1].profile

\* chooseClaudeAccountWithPolicy: the pinned account while it can serve.
ChosenAccount(q, reserve) ==
  LET key(a) == ChoiceKey(a.usage, inFlight[a.profile], reserve,
                          preserveSonnetSubscriptionOrder(Selected(q.kind)))
  IN IF \E k \in DOMAIN q.avail : q.avail[k].profile = q.look THEN q.look
     ELSE Sorted(q.avail, key)[1].profile

\* orderClaudeFallbackProfiles: the selected account first.
Ordered(pool, p, headroomFirst, limits) ==
  LET key(x) == FallbackKey(Seen(usage[x], limits), inFlight[x], block[x] \in AccountWide,
                            headroomFirst)
  IN IF p \notin Members(pool) THEN pool
     ELSE <<p>> \o Sorted(Picked(pool, {k \in DOMAIN pool : pool[k] # p}), key)

Attempt(leg, p) == [leg |-> leg, profile |-> p]

\* The attempts of one leg: a pinned model's with the account bound.
Expanded(leg, bound) ==
  LET pool == profilesForCandidate(leg)
      mine == IF Leg[leg].scope # "pinned" THEN pool
              ELSE IF bound \in Members(pool) THEN <<bound>> ELSE <<>>
      order == Ordered(mine, bound, preserveSonnetSubscriptionOrder(leg), PoolLimits[Leg[leg].pool])
  IN IF ~Leg[leg].subscription THEN <<Attempt(leg, NoProfile)>>
     ELSE [n \in DOMAIN order |-> Attempt(leg, order[n])]

\* An account is tried once with an upstream.
Same(a, b) == /\ a.profile # NoProfile /\ a.profile = b.profile
              /\ Leg[a.leg].upstream = Leg[b.leg].upstream
Earlier(x, y) == x[1] < y[1] \/ (x[1] = y[1] /\ x[2] < y[2])

\* expandConfiguredClaudeAttempts: attempt n of leg k stands at <<k, n>>.
Expand(legs, bound) ==
  LET at    == [k \in DOMAIN legs |-> Expanded(legs[k], bound)]
      slots == UNION {{k} \X (DOMAIN at[k]) : k \in DOMAIN legs}
      new   == {y \in slots : \A x \in slots : Earlier(x, y) => ~Same(at[x[1]][x[2]], at[y[1]][y[2]])}
      order == Listed(new, {x \in new \X new : Earlier(x[1], x[2])})
  IN [n \in DOMAIN order |-> at[order[n][1]][order[n][2]]]

-----------------------------------------------------------------------------
(* bindClaudeAccount.                                                      *)

\* The pin of a conversation, restored from the saved ones after a restart.
Restored(c, pool) ==
  IF pins[c] # NoProfile THEN pins[c]
  ELSE IF saved[c] \in Members(pool) THEN saved[c] ELSE NoProfile

\* The pin of a model outside the subscription ends with its time.
Expires(k, c) == pins[c] # NoProfile /\ c \in lapsed /\ ~Leg[Selected(k)].subscription

Bind(r, k, c) ==
  LET pool == IF IsClaude(Selected(k)) THEN profilesForCandidate(Selected(k)) ELSE <<>>
      pin  == IF Expires(k, c) THEN NoProfile ELSE Restored(c, pool)
      was  == IF pins[c] # NoProfile THEN pins[c] ELSE saved[c]
  IN /\ req[r].pc = "idle" /\ started < load.requests /\ started' = started + 1
     /\ req' = [req EXCEPT ![r] =
          [Quiet EXCEPT !.pc = IF pool = <<>> THEN "plan" ELSE "scan", !.kind = k, !.conv = c,
                        !.was = was, !.expired = Expires(k, c),
                        !.passed = Account(was) \ Members(pool),
                        !.look = IF pin \in Members(pool) THEN pin ELSE NoProfile,
                        !.pool = pool, !.todo = pool]]
     /\ pins' = IF pool = <<>> THEN pins ELSE [pins EXCEPT ![c] = pin]
     /\ lapsed' = IF pins'[c] = pins[c] THEN lapsed ELSE lapsed \ {c}
     /\ UNCHANGED <<saved, inFlight, world, load, changes>>

\* One account of the pool: its block, then its usage.
Scan(r) ==
  LET q == req[r]
      p == Head(q.todo)
  IN /\ q.pc = "scan" /\ q.todo # <<>>
     /\ req' = [req EXCEPT ![r] =
          IF Usable(p, Selected(q.kind))
          THEN [q EXCEPT !.todo = Tail(@), !.avail = Append(@, [profile |-> p,
                                                   usage |-> Seen(usage[p], PoolLimits[Leg[Selected(q.kind)].pool])])]
          ELSE [q EXCEPT !.todo = Tail(@), !.passed = @ \cup {p}]]
     /\ KeepPins /\ UNCHANGED <<inFlight, world, bounds>>

\* A count_tokens request pins too, but reserves nothing and has no attempts.
Choose(r) ==
  LET q == req[r]
      reserve == ~Kind[q.kind].count
      p == ChosenAccount(q, reserve)
      lease == IF reserve THEN p ELSE NoProfile
  IN /\ q.pc = "scan" /\ q.todo = <<>> /\ q.avail # <<>>
     /\ Remember(q.conv, p)
     /\ inFlight' = Holds(inFlight, lease)
     /\ req' = [req EXCEPT ![r] =
          IF reserve THEN [q EXCEPT !.pc = "plan", !.bound = p, !.lease = lease, !.avail = <<>>]
          ELSE Quiet]
     /\ UNCHANGED <<world, bounds>>

NoneAvailable(r) ==
  /\ req[r].pc = "scan" /\ req[r].todo = <<>> /\ req[r].avail = <<>>
  /\ req' = [req EXCEPT ![r] = IF Kind[req[r].kind].count THEN Quiet ELSE [req[r] EXCEPT !.pc = "plan"]]
  /\ KeepPins /\ UNCHANGED <<inFlight, world, bounds>>

-----------------------------------------------------------------------------
(* doWithFallbacks.                                                        *)

Plan(r) ==
  LET q == req[r]
      legs == Compatible(collectCandidates(Kind[q.kind].model), Kind[q.kind].needs)
  IN /\ q.pc = "plan"
     /\ \E ranked \in rankConfiguredCandidates(legs, Applied(Kind[q.kind].hint, Selected(q.kind))) :
          \E plan \in {Expand(ranked, q.bound)} :
            IF plan = <<>>
            THEN req' = [req EXCEPT ![r] = Quiet] /\ inFlight' = Drops(inFlight, q.lease)
            ELSE /\ req' = [req EXCEPT ![r] =
                      [q EXCEPT !.pc = "walk", !.plan = plan,
                                !.pool = profilesForCandidate(Selected(q.kind)),
                                !.left = fallbackChainHeaderBudget(Kind[q.kind].tokens)]]
                 /\ UNCHANGED inFlight
     /\ KeepPins /\ UNCHANGED <<world, bounds>>

Now(q) == q.plan[q.i]
LastAttempt(q) == q.i = Len(q.plan)

\* Seeded fault for LeasesBalance: the account that was selected and skipped
\* stays reserved while the next one is tried.
FaultDropped(q, f) == f

\* The lease of the selected account goes as soon as another is considered.
Dropped(q, f) == IF q.lease # Now(q).profile THEN Drops(f, q.lease) ELSE f
Kept(q) == IF q.lease = Now(q).profile THEN q.lease ELSE NoProfile

\* On to the next attempt, or out of attempts.
Onward(q) == IF LastAttempt(q) THEN Quiet ELSE [q EXCEPT !.pc = "walk", !.i = @ + 1]

\* The account an attempt goes out with: its own, or the one selected.
Via(q) == IF IsClaude(Now(q).leg) /\ Now(q).profile = NoProfile THEN q.bound ELSE Now(q).profile

\* After a failure of the host the next accounts are not tried with it.
SameHost(q) == Now(q).profile # NoProfile /\ Leg[Now(q).leg].upstream \in q.skip

\* The attempt is not made.
Skips(q) ==
  LET leg == Now(q).leg
      limits == PoolLimits[Leg[leg].pool]
  IN \/ SameHost(q)
     \/ IsClaude(leg) /\ q.outage
     \/ /\ Via(q) # NoProfile
        /\ \/ Leg[leg].subscription /\ ~UsageAllows(Seen(usage[Via(q)], limits), Leg[leg], limits)
           \/ Blocked(Via(q), leg) /\ ~(block[Via(q)] = "instability" /\ LastAttempt(q))

\* Or the leg is refused for a reason of its own.
Skip(r, refused) ==
  LET q == req[r]
      kept == [q EXCEPT !.lease = Kept(q), !.skip = IF SameHost(q) THEN @ ELSE {},
                        !.passed = @ \cup Account(Now(q).profile)]
  IN /\ q.pc = "walk" /\ (Skips(q) # refused)
     /\ req' = [req EXCEPT ![r] = Onward(kept)]
     /\ inFlight' = IF LastAttempt(q) THEN Drops(Dropped(q, inFlight), Kept(q))
                     ELSE Dropped(q, inFlight)
     /\ KeepPins /\ UNCHANGED <<world, bounds>>

\* A leg that has no time left ends the request.
OutOfTime(r) ==
  LET q == req[r] IN
  /\ q.pc = "walk" /\ ~Skips(q)
  /\ remainingAttemptHeaderBudget(q.plan, q.i, q.left) <= 0
  /\ req' = [req EXCEPT ![r] = Quiet]
  /\ inFlight' = Drops(inFlight, q.lease)
  /\ KeepPins /\ UNCHANGED <<world, bounds>>

\* The attempt takes the lease it finds, or one of its own.
Send(r) ==
  LET q == req[r]
      fresh == IF Kept(q) = NoProfile THEN Now(q).profile ELSE NoProfile
  IN /\ q.pc = "walk" /\ ~Skips(q)
     /\ remainingAttemptHeaderBudget(q.plan, q.i, q.left) > 0
     /\ req' = [req EXCEPT ![r] = [q EXCEPT !.pc = "sent", !.lease = Now(q).profile, !.skip = {}]]
     /\ inFlight' = Holds(Dropped(q, inFlight), fresh)
     /\ KeepPins /\ UNCHANGED <<world, bounds>>

\* A failed attempt gives its lease back before the next one.
Fails(r, q) ==
  /\ req' = [req EXCEPT ![r] = Onward([q EXCEPT !.lease = NoProfile])]
  /\ inFlight' = Drops(inFlight, req[r].lease)
  /\ KeepPins /\ UNCHANGED bounds

\* An answer that is refused: for a quota, credentials or what the leg makes
\* of the request; the next account is tried.
Refuse(r, why) ==
  LET q == req[r]
      p == Via(q)
  IN /\ q.pc = "sent" /\ (p = NoProfile => why = "none")
     /\ Fails(r, [q EXCEPT !.passed = @ \cup Account(p)])
     /\ block' = IF why = "none" THEN block ELSE [block EXCEPT ![p] = why]
     /\ UNCHANGED <<usage, identity>>

\* No answer.  The connection breaks, the answer does not start in time, its
\* body stalls (what is left of the request's time, whatever the attempt's own
\* budget), or the service fails as a whole.  A wait that only the request's
\* time cut short says nothing about the host.
NoAnswer(r, how) ==
  LET q == req[r]
      waits  == candidateResponseHeaderBudget(Now(q).leg, <<>>, Kind[q.kind].tokens)
      shared == remainingAttemptHeaderBudget(q.plan, q.i, q.left)
  IN /\ q.pc = "sent" /\ (how = "outage" => IsClaude(Now(q).leg))
     /\ Fails(r, [q EXCEPT !.left = CASE how = "waited"  -> @ - HeaderBudget(q.plan, q.i, @, <<>>, Kind[q.kind].tokens)
                                      [] how = "stalled" -> 0
                                      [] OTHER           -> @,
                           !.stalled = @ \/ how = "stalled",
                           !.outage = @ \/ (how = "outage" /\ Leg[Now(q).leg].scope # "pinned"),
                           !.skip = IF Now(q).profile = NoProfile \/ how = "outage"
                                         \/ (how = "waited" /\ shared < waits)
                                    THEN {} ELSE {Leg[Now(q).leg].upstream},
                           !.passed = @ \cup Account(Via(q))])
     /\ UNCHANGED world

\* A good answer pins the conversation to the account that gave it.
Succeed(r) ==
  LET q == req[r] IN
  /\ q.pc = "sent"
  /\ req' = [req EXCEPT ![r] = [Quiet EXCEPT !.pc = "reading", !.lease = q.lease]]
  /\ IF Via(q) # NoProfile THEN Remember(q.conv, Via(q)) ELSE KeepPins
  /\ UNCHANGED <<inFlight, world, bounds>>

\* The body is closed, or the client is told of its own error, or has left.
Close(r) ==
  /\ req[r].pc \in {"sent", "reading"}
  /\ req' = [req EXCEPT ![r] = Quiet]
  /\ inFlight' = Drops(inFlight, req[r].lease)
  /\ KeepPins /\ UNCHANGED <<world, bounds>>

-----------------------------------------------------------------------------
(* The rest of the gateway.                                                *)

BlockChanges(p, why) ==
  /\ changes < load.changes /\ changes' = changes + 1
  /\ block[p] # why /\ block' = [block EXCEPT ![p] = why]
  /\ KeepPins /\ UNCHANGED <<inFlight, usage, identity, req, load, started>>

UsageMoves(p, s) ==
  /\ changes < load.changes /\ changes' = changes + 1
  /\ usage[p] # s /\ usage' = [usage EXCEPT ![p] = s]
  /\ KeepPins /\ UNCHANGED <<inFlight, block, identity, req, load, started>>

Login(p, who) ==
  /\ changes < load.changes /\ changes' = changes + 1
  /\ identity[p] # who /\ identity' = [identity EXCEPT ![p] = who]
  /\ KeepPins /\ UNCHANGED <<inFlight, block, usage, req, load, started>>

Lapse(c) ==
  /\ changes < load.changes /\ changes' = changes + 1
  /\ pins[c] # NoProfile /\ c \notin lapsed /\ lapsed' = lapsed \cup {c}
  /\ UNCHANGED <<pins, saved, inFlight, world, req, load, started>>

\* Everything but the saved pins is lost.
Restart ==
  /\ changes < load.changes /\ changes' = changes + 1
  /\ pins' = [c \in Conversations |-> NoProfile] /\ lapsed' = {}
  /\ inFlight' = [p \in Profiles |-> 0]
  /\ block' = [p \in Profiles |-> "none"]
  /\ req' = [r \in Requests |-> Quiet]
  /\ UNCHANGED <<saved, usage, identity, load, started>>

SelectionNext ==
  \/ \E r \in Requests :
       \/ \E k \in load.kinds[r], c \in Conversations : Bind(r, k, c)
       \/ Scan(r) \/ Choose(r) \/ NoneAvailable(r) \/ Plan(r)
       \/ \E refused \in BOOLEAN : Skip(r, refused)
       \/ OutOfTime(r) \/ Send(r)
       \/ \E why \in {"none", "quota", "auth"} : Refuse(r, why)
       \/ \E how \in {"broken", "waited", "stalled", "outage"} : NoAnswer(r, how)
       \/ Succeed(r) \/ Close(r)
  \/ \E p \in Profiles :
       \/ \E why \in Blocks : BlockChanges(p, why)
       \/ \E s \in Snapshots : UsageMoves(p, s)
       \/ \E who \in Identities : Login(p, who)
  \/ \E c \in Conversations : Lapse(c)
  \/ Restart

-----------------------------------------------------------------------------
(* Properties.                                                             *)

\* The in-flight counter by which new conversations are spread over the
\* accounts is the number of leases held: a selected account that is not used
\* is given back when another is considered, an attempt's when it ends, and
\* none twice (reserveClaudeAccount, the hand-over in doWithFallbacks, the
\* deferred release of the handler).
LeasesBalance ==
  \A p \in Profiles : inFlight[p] = Cardinality({r \in Requests : req[r].lease = p})

\* Pin-until-broken: "a conversation's account never changes while it can
\* serve" (the comment on chooseClaudeAccount).  When the pin moves from p, the
\* request that moves it passed p over or was failed by it, does not find p in
\* its pool, is answered from another pool, or began when the pin was another
\* one or its time had run out.
PinUntilBroken ==
  [][\A c \in Conversations :
       LET p == saved[c] IN
       p # NoProfile /\ saved'[c] # p =>
         \E r \in Requests :
           /\ req'[r] # req[r] /\ req[r].conv = c
           /\ \/ p \in req[r].passed \/ p \notin Members(req[r].pool)
              \/ req[r].was # p \/ req[r].expired
              \/ req[r].pc = "sent" /\ Leg[Now(req[r]).leg].pool # Leg[Selected(req[r].kind)].pool
         ]_selectionVars

\* An explicit request for a Sonnet of the subscription, or for a pinned model,
\* meets a fallback step, a provider of a later tier, only after every account
\* of its pool (the bound one, when pinned) had its turn, however the classifier
\* judges its task.  Legs that share the model's tier are ranked with it
\* (sticky-health steps), and nothing is said of them.  A model that cannot
\* serve what the request holds leaves it to the others.
PoolBeforeFallback ==
  \A r \in Requests : LET q == req[r] IN
    q.pc = "sent" /\ ~IsClaude(Now(q).leg) /\ Leg[Now(q).leg].tier > Leg[Selected(q.kind)].tier
      /\ (preserveSonnetSubscriptionOrder(Selected(q.kind)) \/ Leg[Selected(q.kind)].scope = "pinned")
      /\ Serves(Selected(q.kind), Kind[q.kind].needs)
      => \A p \in Members(q.pool) \cap (IF Leg[Selected(q.kind)].scope = "pinned" THEN {q.bound}
                                         ELSE Profiles) :
           \E j \in 1..(q.i - 1) : /\ q.plan[j].profile = p
                                   /\ Leg[q.plan[j].leg].upstream = Leg[Selected(q.kind)].upstream

\* As long as no body stalled, an unmetered provider that was not tried yet
\* finds time left for it, and so does every attempt before it
\* (remainingAttemptHeaderBudget keeps a window back for each of them).  The
\* clock must tell apart the shares: what the attempts need, about five ticks
\* doubled by each, is in the window of one provider.
BackupHasTime ==
  \A r \in Requests : LET q == req[r]
                          tried == {Leg[q.plan[j].leg].provider : j \in 1..(q.i - 1)} IN
    q.pc = "walk" /\ ~q.stalled /\ Needed(q.plan)[Len(q.plan)] <= RouteReserve
      /\ (\E j \in q.i..Len(q.plan) : Unmetered(q.plan[j].leg) /\ Leg[q.plan[j].leg].provider \notin tried)
      => remainingAttemptHeaderBudget(q.plan, q.i, q.left) > 0

SelectionSpec == SelectionInit /\ [][SelectionNext]_selectionVars
=============================================================================
