--------------------------- MODULE FallbackChain ---------------------------
(***************************************************************************)
(* One request walking its fallback chain: doWithFallbacks of              *)
(* src/anthropic-proxy.go, from the loop over the attempts (line 7543) to  *)
(* its end, in the runtime that LoadConfig always builds (cfg.Definition   *)
(* set), with the cost policy of src/config_runtime.go and the load policy *)
(* of src/load_routing.go.                                                 *)
(*                                                                         *)
(* The chain is the list of attempts after ranking and after the Claude    *)
(* legs were expanded into one attempt per account.  What a breaker, a     *)
(* quarantine, a quota or an upstream answers is chosen freely here: those *)
(* components have modules of their own.  The outage counters of           *)
(* updateOutageEvidence are shared with the other requests, which move     *)
(* them through Others.                                                    *)
(***************************************************************************)
EXTENDS Naturals, Sequences, FiniteSets

CONSTANTS
    Routes,       \* provider runtime key | upstream: the keys of paidEvidence
    Contended,    \* the routes whose outage counters other requests move
    NoAccount,    \* the leg has no Claude profile
    Chains        \* the compiled chains a request may be given

\* The reasons a paid fallback may be permitted for (paidFallbackOn).
Reasons == {"quota-exhausted", "confirmed-provider-outage",
            "response-header-timeout", "route-unavailable"}

\* What paidEvidence holds for a route: "absent" when the map has no entry,
\* "unproved" (an empty string) when a visited leg proved nothing.
Evidence == Reasons \cup {"absent", "unproved", "load_spill"}

ConfirmedOutage == 3   \* requests with a 5xx within the minute

\* The validator of src/config_file.go: a chain that does not opt in to paid
\* fallback has no reasons and no load spill.
ASSUME ChainsAreCompiled ==
    \A c \in Chains :
        /\ Len(c.legs) \in Nat \ {0} /\ DOMAIN c.legs = 1..Len(c.legs)
        /\ \A k \in DOMAIN c.legs : c.legs[k].route \in Routes /\ c.legs[k].metered \in BOOLEAN
        /\ {c.paidPrimary, c.allowPaid, c.soft, c.pinned, c.rig} \subseteq BOOLEAN
        /\ c.paidOn \subseteq Reasons
        /\ ~c.allowPaid => c.paidOn = {} /\ ~c.soft

VARIABLES
    chain,                \* the compiled chain and its policy
    i,                    \* index of the attempt
    pc,                   \* next, admitted, sent, reading, or how it ended
    held,                 \* what the attempt has acquired and not released
    initialReservation,   \* the account reserved before the walk
    paidEvidence,
    paidStarted,
    skipProfilesForUpstream,
    claude,               \* the anthropic... locals
    emptyRigRetries,
    outages,              \* providerState.outages, capped at ConfirmedOutage
    fate                  \* history: what became of each leg

vars == <<chain, i, pc, held, initialReservation, paidEvidence, paidStarted,
          skipProfilesForUpstream, claude, emptyRigRetries, outages, fate>>

walk == <<chain, initialReservation, paidStarted, emptyRigRetries>>

Ended == {"answered", "exhausted", "stopped"}
Fates == {"none", "skipped", "suppressed", "soft", "hard", "open", "sent", "blip", "down"}

Leg  == chain.legs[i]
Last == i = Len(chain.legs)
NoUpstream == "none"   \* skipProfilesForUpstream is an empty string
IsClaude(leg) == leg.account # NoAccount

---------------------------------------------------------------------------
(* The cost policy.                                                        *)

allowed(e) ==
    /\ chain.allowPaid
    /\ \E r \in Routes : e[r] # "absent"
    /\ \A r \in Routes : e[r] # "absent" => e[r] \in chain.paidOn

loadAllowed(e) ==
    /\ chain.allowPaid /\ chain.soft
    /\ \E r \in Routes : e[r] # "absent"
    /\ \A r \in Routes : e[r] # "absent" => e[r] \in chain.paidOn \cup {"load_spill"}

MayCross == ~Leg.metered \/ paidStarted \/ allowed(paidEvidence) \/ loadAllowed(paidEvidence)

\* updateOutageEvidence for a 5xx: a request is counted once in a row on a
\* route.  mine: the last request counted is this one.
OneMore(o, mine) ==
    [count |-> IF o.count < ConfirmedOutage THEN o.count + 1 ELSE o.count, mine |-> mine]
Failed(o) == IF o.mine THEN o ELSE OneMore(o, TRUE)
Forgotten == [count |-> 0, mine |-> FALSE]
Confirmed(o) == o.count >= ConfirmedOutage

\* A leg refused before it is sent, for a block or an open circuit.
UnavailableEvidence(e) ==
    IF Confirmed(outages[Leg.route]) THEN "confirmed-provider-outage"
    ELSE IF "route-unavailable" \in chain.paidOn THEN "route-unavailable"
    ELSE e[Leg.route]
UnavailableProof ==
    {"route-unavailable"} \cup
    IF Confirmed(outages[Leg.route]) THEN {"confirmed-provider-outage"} ELSE {}

---------------------------------------------------------------------------
(* The Claude bookkeeping.  confirmed is what observeClaudeServiceFailure  *)
(* answers, from signals shared with the other requests.                   *)

Signalled(c, confirmed) ==
    IF c.signalRecorded THEN c
    ELSE [c EXCEPT !.outageConfirmed = confirmed, !.signalRecorded = TRUE]

AfterTransport(c, confirmed) ==
    LET s == Signalled(c, confirmed)
        n == IF c.transportFailures < 2 THEN c.transportFailures + 1 ELSE 2
    IN [s EXCEPT !.transportFailures = n,
                 !.serviceOutage = ~chain.pinned /\ (s.outageConfirmed \/ n >= 2)]

After5xx(c, confirmed) ==
    [Signalled(c, confirmed) EXCEPT !.serviceOutage = ~chain.pinned]

AfterStreamStart(c, confirmed) ==
    IF c.authOrClient THEN c ELSE Signalled(c, confirmed)

AuthOrClient(c) == [c EXCEPT !.authOrClient = TRUE]

\* The locals after a failure of this leg that f describes.
Claude(f) == claude' = IF IsClaude(Leg) THEN f ELSE claude

---------------------------------------------------------------------------
Init ==
    /\ chain \in Chains
    /\ i = 1
    /\ pc = "next"
    /\ held = {}
    /\ initialReservation \in {NoAccount} \cup {chain.legs[k].account : k \in DOMAIN chain.legs}
    /\ paidEvidence = [r \in Routes |-> "absent"]
    /\ paidStarted = chain.paidPrimary
    /\ skipProfilesForUpstream = NoUpstream
    /\ claude \in [serviceOutage : {FALSE}, transportFailures : {0}, outageConfirmed : BOOLEAN,
                   signalRecorded : {FALSE}, authOrClient : {FALSE}]
    /\ emptyRigRetries = 0
    /\ outages = [r \in Routes |-> Forgotten]
    /\ fate = [k \in DOMAIN chain.legs |-> [what |-> "none", proved |-> {}]]

\* `continue`: the next attempt, or the error after the loop.
Advance ==
    IF Last THEN pc' = "exhausted" /\ i' = i
    ELSE pc' = "next" /\ i' = i + 1

Return(how) == pc' = how /\ i' = i

\* What became of this leg, and the reasons it proved.
Fate(what, proved) == fate' = [fate EXCEPT ![i] = [what |-> what, proved |-> proved]]

Learn(reason) == paidEvidence' = [paidEvidence EXCEPT ![Leg.route] = reason]

\* The profile legs of an upstream that just failed for no account's fault.
Skipped == IsClaude(Leg) /\ skipProfilesForUpstream # NoUpstream /\ Leg.upstream = skipProfilesForUpstream

SkipAccounts == skipProfilesForUpstream' = IF IsClaude(Leg) THEN Leg.upstream ELSE NoUpstream

SkipProfile ==
    /\ pc = "next" /\ Skipped
    /\ Advance /\ Fate("skipped", {})
    /\ UNCHANGED <<walk, held, paidEvidence, skipProfilesForUpstream, claude, outages>>

Cancelled ==
    /\ pc = "next" /\ ~Skipped
    /\ Return("stopped")
    /\ skipProfilesForUpstream' = NoUpstream
    /\ UNCHANGED <<walk, held, paidEvidence, claude, outages, fate>>

\* A leg that is looked at ends the skipping (FaultConsidered, a seeded fault
\* for SkipsAreEarned, lets it go on), and the reservation of another
\* account is given back.
FaultConsidered ==
    /\ pc = "next" /\ ~Skipped
    /\ initialReservation' = IF Leg.account = initialReservation THEN initialReservation ELSE NoAccount
    /\ UNCHANGED <<chain, held, skipProfilesForUpstream, paidStarted, emptyRigRetries, outages>>

Considered ==
    /\ pc = "next" /\ ~Skipped
    /\ skipProfilesForUpstream' = NoUpstream
    /\ initialReservation' = IF Leg.account = initialReservation THEN initialReservation ELSE NoAccount
    /\ UNCHANGED <<chain, held, paidStarted, emptyRigRetries, outages>>

SuppressPaid ==
    /\ Considered /\ ~MayCross
    /\ Advance /\ Fate("suppressed", {})
    /\ UNCHANGED <<paidEvidence, claude>>

SkipServiceOutage ==
    /\ Considered /\ MayCross
    /\ claude.serviceOutage /\ IsClaude(Leg)
    /\ Advance /\ Fate("skipped", {})
    /\ UNCHANGED <<paidEvidence, claude>>

\* The leg is visited: until something is proved, it forbids a paid leg.
Visit ==
    /\ Considered /\ MayCross
    /\ ~(claude.serviceOutage /\ IsClaude(Leg))

\* Seeded fault for PaidNeedsEvidence: a visited leg leaves no entry.
FaultNoReset == paidEvidence

Reset == IF Leg.metered THEN paidEvidence ELSE [paidEvidence EXCEPT ![Leg.route] = "unproved"]
VisitLearns(reason) == paidEvidence' = [Reset EXCEPT ![Leg.route] = reason]

\* Ollama reserve, browser usage, a configured Claude limit or a quota block.
RefuseQuota ==
    /\ Visit
    /\ VisitLearns("quota-exhausted")
    /\ Advance /\ Fate("hard", {"quota-exhausted"})
    /\ UNCHANGED claude

\* The worker reserve, a temporary rate limit, or an account whose
\* authentication is blocked: nothing is proved.
RefuseUnproved(auth) ==
    /\ Visit
    /\ paidEvidence' = Reset
    /\ Advance /\ Fate("hard", {})
    /\ Claude(IF auth THEN AuthOrClient(claude) ELSE claude)

\* Seeded fault for UnsentMeansRefused: the last leg is refused like the others.
FaultRefuseInstabilityLast ==
    /\ Visit
    /\ VisitLearns(UnavailableEvidence(Reset))
    /\ Advance /\ Fate("soft", UnavailableProof)
    /\ UNCHANGED claude

\* An instability quarantine; the last leg is tried all the same.
RefuseInstability ==
    /\ Visit /\ ~Last
    /\ VisitLearns(UnavailableEvidence(Reset))
    /\ Advance /\ Fate("soft", UnavailableProof)
    /\ UNCHANGED claude

\* An open circuit.  The last leg is refused for it only while its probe is out
\* or was tried within networkRecoveryDelay, but then it is: nothing is sent.
RefuseCircuit ==
    /\ Visit
    /\ VisitLearns(UnavailableEvidence(Reset))
    /\ Advance /\ Fate("open", UnavailableProof)
    /\ UNCHANGED claude

\* Every gate passed: probe says whether the breaker handed out its probe.
\* bypass: the last leg, quarantined for instability only, whose reasons were
\* noted before the quarantine was passed over.
Admit(probe, bypass) ==
    /\ pc = "next" /\ ~Skipped /\ MayCross
    /\ ~(claude.serviceOutage /\ IsClaude(Leg))
    /\ bypass => Last
    /\ skipProfilesForUpstream' = NoUpstream
    /\ initialReservation' = IF Leg.account = initialReservation THEN initialReservation ELSE NoAccount
    /\ held' = IF probe THEN {"circuit"} ELSE {}
    /\ IF bypass THEN VisitLearns(UnavailableEvidence(Reset)) ELSE paidEvidence' = Reset
    /\ pc' = "admitted"
    /\ UNCHANGED <<chain, i, paidStarted, emptyRigRetries, claude, outages, fate>>

---------------------------------------------------------------------------

Spill ==
    /\ pc = "admitted" /\ chain.soft /\ ~Last
    /\ held' = held \ {"circuit"}
    /\ IF Leg.metered THEN UNCHANGED paidEvidence ELSE Learn("load_spill")
    /\ Advance /\ Fate("soft", {"load_spill"})
    /\ UNCHANGED <<walk, skipProfilesForUpstream, claude, outages>>

\* The body cannot be built for this leg, or the header budget is spent.
GiveUp ==
    /\ pc = "admitted"
    /\ held' = held \ {"circuit"}
    /\ Return("stopped")
    /\ UNCHANGED <<walk, paidEvidence, skipProfilesForUpstream, claude, outages, fate>>

\* The account is leased (the initial reservation becomes the attempt's).
\* Refused: the account's hourly Fable probe is taken; everything acquired
\* so far is given back.
RefuseProbe ==
    /\ pc = "admitted" /\ IsClaude(Leg)
    /\ initialReservation' = NoAccount
    /\ held' = (held \cup {"account"}) \ {"account", "circuit"}
    /\ Advance /\ Fate("hard", {})
    /\ UNCHANGED <<chain, paidEvidence, paidStarted, skipProfilesForUpstream, claude,
                   emptyRigRetries, outages>>

Send(quota) ==
    /\ pc = "admitted"
    /\ quota => IsClaude(Leg)
    /\ held' = held \cup {"route", "telemetry"}
                 \cup (IF IsClaude(Leg) THEN {"account"} ELSE {})
                 \cup (IF quota THEN {"quota"} ELSE {})
    /\ initialReservation' = NoAccount
    /\ paidStarted' = (paidStarted \/ Leg.metered)
    /\ pc' = "sent"
    /\ Fate("sent", {})
    /\ UNCHANGED <<chain, i, paidEvidence, skipProfilesForUpstream, claude, emptyRigRetries, outages>>

---------------------------------------------------------------------------
(* No response: everything is released first (7811-7817).                  *)

NoResponse == pc = "sent" /\ held' = {} /\ UNCHANGED <<walk, outages>>

\* The paid budget refused the request, or the credentials did.
Unsent(auth) ==
    /\ NoResponse
    /\ ~auth => Leg.metered
    /\ Advance
    /\ Claude(IF auth THEN AuthOrClient(claude) ELSE claude)
    /\ UNCHANGED <<paidEvidence, skipProfilesForUpstream, fate>>

\* The client went away, or the local network is known to be offline.
Abandoned ==
    /\ NoResponse
    /\ Return("stopped")
    /\ UNCHANGED <<paidEvidence, skipProfilesForUpstream, claude, fate>>

\* No headers in time: the chain's budget, or the route's own.
HeaderTimeout(chainLimited, confirmed) ==
    /\ NoResponse
    /\ IF Leg.metered THEN UNCHANGED paidEvidence ELSE Learn("response-header-timeout")
    /\ IF chainLimited
       THEN UNCHANGED <<skipProfilesForUpstream, claude>> /\ Fate("sent", {"response-header-timeout"})
       ELSE /\ SkipAccounts
            /\ Claude(AfterTransport(claude, confirmed))
            /\ Fate("blip", {"response-header-timeout"})
    /\ Advance

\* Any other transport error; local when the network is suspected.
TransportError(local, confirmed) ==
    /\ NoResponse
    /\ SkipAccounts
    /\ Claude(IF local THEN claude ELSE AfterTransport(claude, confirmed))
    /\ Advance /\ Fate("blip", {})
    /\ UNCHANGED paidEvidence

\* Headers arrived: from here the response body owns the leases.
Headers ==
    /\ pc = "sent"
    /\ pc' = "reading"
    /\ UNCHANGED <<walk, i, held, paidEvidence, skipProfilesForUpstream, claude, outages, fate>>

---------------------------------------------------------------------------
(* The response failed before the client saw a byte; its body is closed.   *)

Unread == pc = "reading" /\ held' = {} /\ UNCHANGED <<chain, initialReservation, paidStarted>>

\* Client gone, local network offline, or the request refused as invalid.
UnreadAbandoned ==
    /\ Unread
    /\ Return("stopped")
    /\ UNCHANGED <<paidEvidence, skipProfilesForUpstream, claude, emptyRigRetries, outages, fate>>

\* A rate_limit_error as first event, or a 429 or 402 whose body is lost.
UnreadQuota ==
    /\ Unread
    /\ Learn("quota-exhausted")
    /\ Advance /\ Fate("sent", {"quota-exhausted"})
    /\ UNCHANGED <<skipProfilesForUpstream, claude, emptyRigRetries, outages>>

UnreadAuth ==
    /\ Unread
    /\ Claude(AuthOrClient(claude))
    /\ Advance
    /\ UNCHANGED <<paidEvidence, skipProfilesForUpstream, emptyRigRetries, outages, fate>>

\* A stream that ends empty: a Rig request tries one more account.
EmptyPrelude(endTurn) ==
    /\ Unread
    /\ IF chain.rig /\ emptyRigRetries = 0 /\ endTurn /\ IsClaude(Leg)
       THEN /\ emptyRigRetries' = 1
            /\ UNCHANGED <<skipProfilesForUpstream, fate>>
       ELSE /\ UNCHANGED emptyRigRetries
            /\ SkipAccounts /\ Fate("blip", {})
    /\ Advance
    /\ UNCHANGED <<paidEvidence, claude, outages>>

StreamStartFails(local, confirmed) ==
    /\ Unread
    /\ SkipAccounts
    /\ Claude(IF local THEN claude ELSE AfterStreamStart(claude, confirmed))
    /\ Advance /\ Fate("blip", {})
    /\ UNCHANGED <<paidEvidence, emptyRigRetries, outages>>

\* The buffered body of a 2xx or a 5xx could not be read or is not valid.
BodyFails(is5xx, confirmed) ==
    /\ Unread
    /\ SkipAccounts
    /\ Claude(IF is5xx THEN After5xx(claude, confirmed) ELSE claude)
    /\ LET o == Failed(outages[Leg.route]) IN
       IF is5xx
       THEN /\ outages' = [outages EXCEPT ![Leg.route] = o]
            /\ IF Confirmed(o) THEN Learn("confirmed-provider-outage") ELSE UNCHANGED paidEvidence
            /\ Fate("down", IF Confirmed(o) THEN {"confirmed-provider-outage"} ELSE {})
       ELSE UNCHANGED <<outages, paidEvidence>> /\ Fate("blip", {})
    /\ Advance
    /\ UNCHANGED emptyRigRetries

\* A 4xx whose body is lost is returned as a rejection of the request.
UnreadRejection ==
    /\ Unread
    /\ Return("answered")
    /\ Claude(AuthOrClient(claude))
    /\ UNCHANGED <<paidEvidence, skipProfilesForUpstream, emptyRigRetries, outages, fate>>

---------------------------------------------------------------------------
(* The response is classified.  Every body but that of a successful event  *)
(* stream was read and closed by bufferUpstreamBody.                       *)

Read == pc = "reading" /\ UNCHANGED <<walk, skipProfilesForUpstream>>

Answer(stream) ==
    /\ Read
    /\ held' = IF stream THEN held ELSE {}
    /\ outages' = [outages EXCEPT ![Leg.route] = Forgotten]
    /\ Return("answered")
    /\ UNCHANGED <<paidEvidence, claude, fate>>

\* The last leg's failure is the answer.
NextOrAnswer == IF Last THEN Return("answered") ELSE Advance

ServerError(confirmed) ==
    /\ Read
    /\ held' = {}
    /\ LET o == Failed(outages[Leg.route]) IN
       /\ outages' = [outages EXCEPT ![Leg.route] = o]
       /\ IF Confirmed(o) THEN Learn("confirmed-provider-outage") ELSE UNCHANGED paidEvidence
       /\ Fate("down", IF Confirmed(o) THEN {"confirmed-provider-outage"} ELSE {})
    /\ Claude(After5xx(claude, confirmed))
    /\ NextOrAnswer

\* 429 and 402.
Throttled ==
    /\ Read
    /\ held' = {}
    /\ Learn("quota-exhausted")
    /\ Fate("sent", {"quota-exhausted"})
    /\ NextOrAnswer
    /\ UNCHANGED <<claude, outages>>

\* Every other 4xx, by what its body says.
ClientError(kind) ==
    /\ Read
    /\ kind = "credits_exhausted" => ~IsClaude(Leg)   \* only vercel-gateway
    /\ held' = {}
    /\ Claude(AuthOrClient(claude))
    /\ CASE kind = "route_incompatible" /\ ~Last ->
              Learn("route-unavailable") /\ Fate("sent", {"route-unavailable"}) /\ Advance
         [] kind = "credits_exhausted" /\ ~Last ->
              Learn("quota-exhausted") /\ Fate("sent", {"quota-exhausted"}) /\ Advance
         [] kind = "opaque" /\ ~Last ->
              UNCHANGED <<paidEvidence, fate>> /\ Advance
         [] OTHER -> UNCHANGED <<paidEvidence, fate>> /\ Return("answered")
    /\ UNCHANGED outages

\* proxy closes the body it was given once the client has read it.
CloseBody ==
    /\ pc = "answered" /\ held # {}
    /\ held' = {}
    /\ UNCHANGED <<walk, i, pc, paidEvidence, skipProfilesForUpstream, claude, outages, fate>>

\* Other requests move this route's counter: one fails on it, one succeeds, or
\* its minute is over.  Only the counter of the route looked at next is read
\* before this action is possible again, so it is the only one that moves.
Others ==
    /\ pc = "next" /\ Leg.route \in Contended
    /\ \E o \in {Forgotten, OneMore(outages[Leg.route], FALSE)} :
          outages' = [outages EXCEPT ![Leg.route] = o]
    /\ UNCHANGED <<walk, i, pc, held, paidEvidence, skipProfilesForUpstream, claude, fate>>

Gate ==
    \/ SkipProfile \/ Cancelled \/ SuppressPaid \/ SkipServiceOutage
    \/ RefuseQuota \/ RefuseInstability \/ RefuseCircuit
    \/ \E auth \in BOOLEAN : RefuseUnproved(auth)
    \/ \E probe, bypass \in BOOLEAN : Admit(probe, bypass)
    \/ Spill \/ GiveUp \/ RefuseProbe
    \/ \E quota \in BOOLEAN : Send(quota)

Outcome ==
    \/ Abandoned \/ Headers \/ UnreadAbandoned \/ UnreadQuota \/ UnreadAuth \/ UnreadRejection
    \/ \E auth \in BOOLEAN : Unsent(auth)
    \/ \E confirmed, b \in BOOLEAN :
          \/ HeaderTimeout(b, confirmed) \/ TransportError(b, confirmed)
          \/ StreamStartFails(b, confirmed) \/ BodyFails(b, confirmed)
    \/ \E endTurn \in BOOLEAN : EmptyPrelude(endTurn)
    \/ \E stream \in BOOLEAN : Answer(stream)
    \/ \E confirmed \in BOOLEAN : ServerError(confirmed)
    \/ Throttled
    \/ \E kind \in {"route_incompatible", "credits_exhausted", "client_invalid", "opaque"} :
          ClientError(kind)
    \/ CloseBody

Next == Gate \/ Outcome \/ Others

Spec == Init /\ [][Next]_vars
---------------------------------------------------------------------------
Legs == DOMAIN chain.legs
Sent(k) == fate[k].what \in {"sent", "blip", "down"}
Visited(k) == fate[k].what \notin {"none", "skipped", "suppressed"}
Metered(k) == chain.legs[k].metered

\* The reasons the chain permits, load among them when it spills.
Permitted == chain.paidOn \cup (IF chain.soft THEN {"load_spill"} ELSE {})

\* Variables hold values of their types.
TypeOK ==
    /\ chain \in Chains
    /\ i \in Legs
    /\ pc \in {"next", "admitted", "sent", "reading"} \cup Ended
    /\ held \subseteq {"circuit", "account", "quota", "route", "telemetry"}
    /\ initialReservation \in {NoAccount} \cup {chain.legs[k].account : k \in Legs}
    /\ paidEvidence \in [Routes -> Evidence]
    /\ paidStarted \in BOOLEAN
    /\ skipProfilesForUpstream \in {NoUpstream} \cup {chain.legs[k].upstream : k \in Legs}
    /\ claude \in [serviceOutage : BOOLEAN, transportFailures : 0..2, outageConfirmed : BOOLEAN,
                   signalRecorded : BOOLEAN, authOrClient : BOOLEAN]
    /\ emptyRigRetries \in 0..1
    /\ outages \in [Routes -> [count : 0..ConfirmedOutage, mine : BOOLEAN]]
    /\ fate \in [Legs -> [what : Fates, proved : SUBSET (Reasons \cup {"load_spill"})]]

\* The first metered leg sent on a chain that does not start paid.
FirstPaid(p) ==
    /\ Sent(p) /\ Metered(p) /\ ~chain.paidPrimary
    /\ \A q \in 1..(p - 1) : Sent(q) => ~Metered(q)

\* The unmetered legs visited before p proved a reason the chain permits; the
\* last of those that share a route speaks for all.
Justified(p) ==
    /\ chain.allowPaid
    /\ \E j \in 1..(p - 1) : Visited(j)
    /\ \A j \in 1..(p - 1) :
          \/ Metered(j) \/ ~Visited(j)
          \/ fate[j].proved \cap Permitted # {}
          \/ \E k \in (j + 1)..(p - 1) :
                 Visited(k) /\ chain.legs[k].route = chain.legs[j].route

\* Money is spent on a fallback only with a proof for each leg before it: when
\* the first metered leg is sent on a chain that does not start paid, every
\* unmetered leg visited before it proved a reason the chain permits (an
\* authentication failure, a local network error or an unknown answer prove
\* none).  Legs of one provider and upstream share an evidence entry, so the
\* last of them speaks for all: paidFallbackEvidence, doWithFallbacks.
PaidNeedsEvidence == \A p \in Legs : FirstPaid(p) => Justified(p)

\* A walk that ends without having sent anything was refused at its last leg
\* for more than a preference: a quota, an account, the cost policy, a taken
\* Fable probe or, by design, an open circuit.  A quarantine for instability and
\* load set a leg aside only while another follows, and accounts are skipped only
\* after a request: none of these, nor their combination along the walk, is what
\* leaves a client without an answer (deferred quarantine, load spill).
UnsentMeansRefused ==
    pc = "exhausted" /\ (\A k \in Legs : ~Sent(k)) =>
        fate[Len(chain.legs)].what \in {"hard", "open", "suppressed"}

ClaudeFailed(j, how) == IsClaude(chain.legs[j]) /\ fate[j].what \in how

\* An account of the same upstream failed just before, for no account's fault.
UpstreamFailed(k) ==
    \E j \in 1..(k - 1) :
        /\ ClaudeFailed(j, {"blip", "down"}) /\ chain.legs[j].upstream = chain.legs[k].upstream
        /\ \A m \in (j + 1)..(k - 1) : fate[m].what = "skipped"

\* Claude as a whole was found down: a 5xx, two failures that concern no
\* account, or one while other requests confirm an outage.
ServiceFailed(k) ==
    /\ ~chain.pinned
    /\ \E j \in 1..(k - 1) :
          \/ ClaudeFailed(j, {"down"})
          \/ /\ ClaudeFailed(j, {"blip"})
             /\ claude.outageConfirmed \/ \E m \in 1..(k - 1) : m # j /\ ClaudeFailed(m, {"blip"})

\* No Claude account is passed over unasked but for a failure that spoke for
\* it: its upstream failed on the attempt before (a leg of another upstream or
\* provider that was looked at in between ends that), or Claude was found down
\* in this walk and the request is not pinned to its account
\* (skipProfilesForUpstream, anthropicServiceOutage).
SkipsAreEarned ==
    \A k \in Legs : fate[k].what = "skipped" => UpstreamFailed(k) \/ ServiceFailed(k)

=============================================================================
