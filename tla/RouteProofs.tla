----------------------------- MODULE RouteProofs -----------------------------
(***************************************************************************)
(* Proofs about FallbackChain for any set of compiled chains, of any       *)
(* length, and any routes.                                                 *)
(*                                                                         *)
(* The invariant IInv ties paidEvidence to the history of the walk: an     *)
(* entry is there because a leg of its route was looked at, and it holds a *)
(* reason only if the last unmetered leg of the route proved it.  SkipInv  *)
(* ties the upstream being skipped and the Claude locals to the failures   *)
(* of the walk.                                                            *)
(***************************************************************************)
EXTENDS FallbackChain, Quarantine, FiniteSetTheorems, WellFoundedInduction, TLAPS

InFlight == pc \in {"admitted", "sent", "reading"}

\* k has been looked at, the attempt that is under way among them.
Seen(k) == (k < i /\ Visited(k)) \/ (k = i /\ InFlight)

\* The history ends at the attempt.
FateFollowsWalk ==
    /\ \A k \in Legs : k > i => fate[k].what = "none"
    /\ pc \in {"next", "admitted"} => fate[i].what = "none"
    /\ pc \in {"sent", "reading"} => Sent(i)

\* paidStarted remembers that money was spent, or that the chain starts with it.
PaidStartedMeans ==
    paidStarted <=> chain.paidPrimary \/ \E k \in Legs : Sent(k) /\ Metered(k)

\* An entry of paidEvidence has a leg that was looked at, and the other way
\* round for an unmetered one.
EntryHasLeg == pc \notin Ended =>
    /\ \A r \in Routes : paidEvidence[r] # "absent" => \E k \in 1..i : Seen(k)
    /\ \A k \in 1..i : Seen(k) /\ ~Metered(k) => paidEvidence[chain.legs[k].route] # "absent"

\* The last leg of a route, if unmetered, proved the reason in its entry.
ReasonIsProved == pc \notin Ended =>
    \A k \in 1..(i - 1) :
        /\ Visited(k) /\ ~Metered(k)
        /\ \A j \in (k + 1)..i : Seen(j) => chain.legs[j].route # chain.legs[k].route
        => paidEvidence[chain.legs[k].route] \in {"unproved"} \cup fate[k].proved

\* An attempt under way has proved nothing yet, unless no leg follows it.
NothingProvedYet ==
    InFlight /\ ~Metered(i) /\ ~Last => paidEvidence[Leg.route] = "unproved"

\* A metered attempt was let through by the evidence, or money was spent before.
AdmittedIsJustified ==
    pc = "admitted" /\ Metered(i) /\ ~paidStarted => Justified(i)

\* Accounts are skipped only after a request was sent.
SkipsFollowARequest ==
    skipProfilesForUpstream # NoUpstream \/ claude.serviceOutage => \E k \in Legs : Sent(k)

History ==
    /\ FateFollowsWalk /\ PaidStartedMeans /\ EntryHasLeg /\ ReasonIsProved
    /\ NothingProvedYet /\ AdmittedIsJustified /\ PaidNeedsEvidence /\ UnsentMeansRefused

IInv == TypeOK /\ History /\ SkipsFollowARequest

-----------------------------------------------------------------------------
(* Facts about a walk *)

\* The legs are numbered, and the attempt is one of them.
LEMMA LegFacts ==
    ASSUME TypeOK
    PROVE  /\ Len(chain.legs) \in Nat /\ Legs = 1..Len(chain.legs) /\ i \in Legs
           /\ \A k \in Legs : chain.legs[k].route \in Routes /\ Metered(k) \in BOOLEAN
BY ChainsAreCompiled DEF TypeOK, Legs, Metered

\* Only the fates of the legs before p justify it.
LEMMA JustifiedStays ==
    ASSUME NEW p \in Nat, Justified(p), UNCHANGED chain, \A k \in 1..(p - 1) : fate'[k] = fate[k]
    PROVE  Justified(p)'
BY DEF Justified, Visited, Metered, Permitted

\* What a request was sent for stays justified: only the attempt's own fate changes.
LEMMA PaidStaysJustified ==
    ASSUME TypeOK, FateFollowsWalk, PaidNeedsEvidence, UNCHANGED chain,
           \A k \in Legs : k # i => fate'[k] = fate[k],
           \A k \in Legs : Sent(k)' <=> Sent(k)
    PROVE  PaidNeedsEvidence'
<1>1. /\ Len(chain.legs) \in Nat /\ Legs = 1..Len(chain.legs) /\ i \in Legs
      /\ Legs' = Legs /\ chain' = chain
  BY LegFacts DEF Legs
<1>2. \A k \in Legs : Sent(k) => k <= i
  BY <1>1 DEF FateFollowsWalk, Sent
<1> SUFFICES ASSUME NEW p \in Legs, FirstPaid(p)' PROVE Justified(p)'
  BY <1>1 DEF PaidNeedsEvidence
<1>3. Justified(p) /\ Sent(p)
  <2>1. FirstPaid(p)  BY <1>1 DEF FirstPaid, Metered
  <2> QED BY <2>1 DEF PaidNeedsEvidence, FirstPaid
<1>4. p \in Nat /\ \A k \in 1..(p - 1) : fate'[k] = fate[k]
  BY <1>1, <1>2, <1>3
<1> QED BY <1>1, <1>3, <1>4, JustifiedStays

Spent == {"sent", "blip", "down"}
Ignored == {"skipped", "suppressed"}

\* An attempt ends and the walk goes on, or is exhausted: the history stays
\* consistent if the attempt's entry is the reason it proved.
LEMMA LegEnds ==
    ASSUME TypeOK, History, NEW w \in Fates, NEW proved, NEW x,
           pc \notin Ended, Advance, UNCHANGED <<chain, paidStarted>>,
           fate' = [fate EXCEPT ![i] = [what |-> w, proved |-> proved]],
           w # "none", w \in Spent <=> Sent(i),
           \/ w \in Ignored /\ pc = "next" /\ paidEvidence' = paidEvidence
           \/ /\ w \notin Ignored
              /\ paidEvidence' = [paidEvidence EXCEPT ![Leg.route] = x]
              /\ x = "absent" => Metered(i) /\ paidEvidence[Leg.route] = "absent"
              /\ Metered(i) \/ Last \/ x \in {"unproved"} \cup proved,
           Last => w \in {"hard", "open", "suppressed"} \/ \E k \in Legs : Sent(k)
    PROVE  History'
<1> DEFINE n == Len(chain.legs)
<1>a. n \in Nat /\ Legs = 1..n /\ i \in Legs /\ \A k \in Legs : chain.legs[k].route \in Routes
  BY LegFacts
<1>b. chain' = chain /\ Legs' = Legs
  BY DEF Legs
<1>c. Last <=> i = n
  BY DEF Last
<1> HIDE DEF n
<1>1. n \in Nat /\ Legs = 1..n /\ i \in Legs /\ i \in Nat /\ chain' = chain /\ Legs' = Legs
      /\ \A k \in Legs : chain.legs[k].route \in Routes
  BY <1>a, <1>b
<1>2. \/ Last /\ pc' = "exhausted" /\ i' = i
      \/ ~Last /\ pc' = "next" /\ i' = i + 1 /\ i + 1 \in Legs
  BY <1>1, <1>c DEF Advance
<1>3. /\ fate'[i] = [what |-> w, proved |-> proved]
      /\ \A k \in Legs : k # i => fate'[k] = fate[k]
  BY <1>1 DEF TypeOK
<1>4. \A k \in Legs : /\ Sent(k)' <=> Sent(k)
                      /\ Metered(k)' <=> Metered(k)
  BY <1>1, <1>3 DEF Sent, Metered, Spent
<1>5. \A k \in Legs : Visited(k)' <=> IF k = i THEN w \notin Ignored ELSE Visited(k)
  BY <1>1, <1>3 DEF Visited, Ignored
<1>6. FateFollowsWalk'
  BY <1>1, <1>2, <1>3 DEF FateFollowsWalk, History
<1>7. PaidStartedMeans'
  BY <1>1, <1>4 DEF PaidStartedMeans, History
<1>8. NothingProvedYet' /\ AdmittedIsJustified'
  BY <1>2 DEF NothingProvedYet, AdmittedIsJustified, InFlight
<1>9. UnsentMeansRefused'
  <2>1. CASE Last
    <3>1. i = n /\ Len(chain'.legs) = n  BY <1>1, <1>c, <2>1 DEF n
    <3>2. fate'[n].what = w  BY <1>3, <3>1
    <3>3. w \in {"hard", "open", "suppressed"} \/ \E k \in Legs' : Sent(k)'  BY <1>1, <1>4, <2>1
    <3> QED BY <3>1, <3>2, <3>3 DEF UnsentMeansRefused
  <2>2. CASE ~Last
    <3> pc' = "next"  BY <1>2, <2>2
    <3> QED BY DEF UnsentMeansRefused
  <2> QED BY <2>1, <2>2
<1>10. EntryHasLeg'
  <2>1. CASE Last
    BY <1>2, <2>1 DEF EntryHasLeg, Ended
  <2>2. CASE ~Last /\ w \in Ignored
    <3>1. \A k \in 1..i : Seen(k)' <=> Seen(k)
      BY <1>1, <1>2, <1>5, <2>2 DEF Seen, InFlight
    <3>2. \A k \in Legs : k = i + 1 => ~Seen(k)'  BY <1>1, <1>2, <2>2 DEF Seen, InFlight
    <3> QED BY <1>1, <1>2, <1>4, <2>2, <3>1, <3>2 DEF EntryHasLeg, History
  <2>3. CASE ~Last /\ w \notin Ignored
    <3>1. \A k \in 1..i : Seen(k) \/ k = i <=> Seen(k)'
      BY <1>1, <1>2, <1>5, <2>3 DEF Seen, InFlight
    <3>2. \A k \in Legs : k = i + 1 => ~Seen(k)'  BY <1>1, <1>2, <2>3 DEF Seen, InFlight
    <3>3. \A r \in Routes : paidEvidence'[r] = IF r = Leg.route THEN x ELSE paidEvidence[r]
      BY <1>1, <2>3 DEF TypeOK, Leg
    <3>4. \A k \in 1..i : Seen(k)' /\ ~Metered(k) => paidEvidence'[chain.legs[k].route] # "absent"
      BY <1>1, <2>3, <3>1, <3>3 DEF EntryHasLeg, History, Leg
    <3>5. \E k \in 1..i' : Seen(k)'  BY <1>1, <1>2, <2>3, <3>1
    <3>6. \A k \in 1..i' : Seen(k)' => k \in 1..i
      BY <1>1, <1>2, <2>3, <3>2
    <3> QED BY <1>1, <1>4, <3>4, <3>5, <3>6 DEF EntryHasLeg
  <2> QED BY <2>1, <2>2, <2>3
<1>11. ReasonIsProved'
  <2>1. CASE Last
    BY <1>2, <2>1 DEF ReasonIsProved, Ended
  <2>2. CASE ~Last
    <3> SUFFICES ASSUME NEW k \in 1..i, Visited(k)', ~Metered(k),
                        \A j \in (k + 1)..(i + 1) : Seen(j)' => chain.legs[j].route # chain.legs[k].route
                 PROVE  paidEvidence'[chain.legs[k].route] \in {"unproved"} \cup fate'[k].proved
      BY <1>1, <1>2, <1>4, <2>2 DEF ReasonIsProved
    <3>1. CASE k = i
      BY <1>1, <1>3, <1>5, <2>2, <3>1 DEF TypeOK, Leg
    <3>2. CASE k < i /\ w \in Ignored
      <4>1. \A j \in (k + 1)..i : Seen(j) => Seen(j)'
        BY <1>1, <1>2, <1>5, <2>2, <3>2 DEF Seen, InFlight
      <4> QED BY <1>1, <1>3, <1>5, <3>2, <4>1 DEF ReasonIsProved, History
    <3>3. CASE k < i /\ w \notin Ignored
      <4>1. \A j \in (k + 1)..i : Seen(j) => Seen(j)'
        BY <1>1, <1>2, <1>5, <2>2, <3>3 DEF Seen, InFlight
      <4>2. \A j \in Legs : j = i => Seen(j)'  BY <1>1, <1>2, <1>5, <2>2, <3>3 DEF Seen
      <4>3. Leg.route # chain.legs[k].route  BY <1>1, <3>3, <4>2 DEF Leg
      <4>4. paidEvidence'[chain.legs[k].route] = paidEvidence[chain.legs[k].route]
        BY <1>1, <3>3, <4>3 DEF TypeOK
      <4> QED BY <1>1, <1>3, <1>5, <3>3, <4>1, <4>4 DEF ReasonIsProved, History
    <3> QED BY <1>1, <3>1, <3>2, <3>3
  <2> QED BY <2>1, <2>2
<1>12. PaidNeedsEvidence'
  BY PaidStaysJustified, <1>1, <1>3, <1>4 DEF History
<1> QED BY <1>6, <1>7, <1>8, <1>9, <1>10, <1>11, <1>12 DEF History

\* The walk ends with an answer, or because nobody waits for one.
LEMMA WalkEnds ==
    ASSUME TypeOK, History, pc' \in {"answered", "stopped"}, i' = i, UNCHANGED <<chain, paidStarted>>,
           \A k \in Legs : k # i => fate'[k] = fate[k],
           \A k \in Legs : Sent(k)' <=> Sent(k)
    PROVE  History'
<1>1. /\ Len(chain.legs) \in Nat /\ Legs = 1..Len(chain.legs) /\ i \in Legs
      /\ Legs' = Legs /\ chain' = chain
  BY LegFacts DEF Legs
<1>2. \A k \in Legs : Metered(k)' <=> Metered(k)
  BY DEF Metered
<1>3. PaidNeedsEvidence'
  BY PaidStaysJustified, <1>1, <1>2 DEF History
<1>4. FateFollowsWalk' /\ PaidStartedMeans'
  BY <1>1, <1>2 DEF FateFollowsWalk, PaidStartedMeans, History
<1> QED BY <1>3, <1>4 DEF History, EntryHasLeg, ReasonIsProved, NothingProvedYet, AdmittedIsJustified,
            UnsentMeansRefused, InFlight, Ended

\* The cost policy lets a paid leg through only if every leg before it proved
\* a reason the chain permits.
LEMMA EvidenceJustifies ==
    ASSUME TypeOK, History, pc = "next", allowed(paidEvidence) \/ loadAllowed(paidEvidence)
    PROVE  Justified(i)
<1>1. /\ Len(chain.legs) \in Nat /\ Legs = 1..Len(chain.legs) /\ i \in Legs
      /\ \A k \in Legs : chain.legs[k].route \in Routes
  BY LegFacts
<1>2. chain.paidOn \subseteq Reasons
  BY ChainsAreCompiled DEF TypeOK
<1>3. /\ chain.allowPaid
      /\ \E r \in Routes : paidEvidence[r] # "absent"
      /\ \A r \in Routes : paidEvidence[r] # "absent" => paidEvidence[r] \in Permitted
  BY DEF allowed, loadAllowed, Permitted
<1>4. \A k \in 1..i : Seen(k) <=> k < i /\ Visited(k)
  BY DEF Seen, InFlight
<1>5. \E j \in 1..(i - 1) : Visited(j)
  BY <1>1, <1>3, <1>4 DEF History, EntryHasLeg, Ended
<1>6. ASSUME NEW j \in 1..(i - 1), Visited(j), ~Metered(j),
             ~\E k \in (j + 1)..(i - 1) : Visited(k) /\ chain.legs[k].route = chain.legs[j].route
      PROVE  fate[j].proved \cap Permitted # {}
  <2>1. paidEvidence[chain.legs[j].route] \in Permitted
    BY <1>1, <1>3, <1>4, <1>6 DEF History, EntryHasLeg, Ended
  <2>2. \A k \in (j + 1)..i : Seen(k) => chain.legs[k].route # chain.legs[j].route
    BY <1>1, <1>4, <1>6
  <2>3. paidEvidence[chain.legs[j].route] \in {"unproved"} \cup fate[j].proved
    BY <1>6, <2>2 DEF History, ReasonIsProved, Ended
  <2>4. "unproved" \notin Permitted
    BY <1>2 DEF Permitted, Reasons
  <2> QED BY <2>1, <2>3, <2>4
<1> QED BY <1>3, <1>5, <1>6 DEF Justified

\* An attempt is admitted: its leg has been looked at and has proved nothing.
LEMMA AdmitHistory ==
    ASSUME TypeOK, History, NEW probe \in BOOLEAN, NEW bypass \in BOOLEAN, Admit(probe, bypass)
    PROVE  History'
<1>1. /\ Len(chain.legs) \in Nat /\ Legs = 1..Len(chain.legs) /\ i \in Legs
      /\ Legs' = Legs /\ chain' = chain
      /\ \A k \in Legs : chain.legs[k].route \in Routes
  BY LegFacts DEF Admit, Legs
<1>2. pc = "next" /\ pc' = "admitted" /\ i' = i /\ fate' = fate /\ paidStarted' = paidStarted
  BY DEF Admit
<1>3. \A k \in Legs : /\ Sent(k)' <=> Sent(k)
                      /\ Metered(k)' <=> Metered(k)
                      /\ Visited(k)' <=> Visited(k)
  BY <1>1, <1>2 DEF Sent, Metered, Visited
<1>4. \A k \in 1..i : Seen(k)' <=> k = i \/ Seen(k)
  BY <1>1, <1>2, <1>3 DEF Seen, InFlight
<1>5. PICK x \in Evidence :
        /\ paidEvidence' = [paidEvidence EXCEPT ![Leg.route] = x]
        /\ ~Metered(i) => x # "absent" /\ (Last \/ x = "unproved")
        /\ Metered(i) /\ x = "absent" => paidEvidence[Leg.route] = "absent"
  BY <1>1 DEF Admit, Reset, VisitLearns, UnavailableEvidence, TypeOK, Evidence, Reasons, Leg, Metered
<1>6. \A r \in Routes : paidEvidence'[r] = IF r = Leg.route THEN x ELSE paidEvidence[r]
  BY <1>5 DEF TypeOK
<1>7. FateFollowsWalk' /\ PaidStartedMeans' /\ UnsentMeansRefused'
  BY <1>1, <1>2, <1>3 DEF History, FateFollowsWalk, PaidStartedMeans, UnsentMeansRefused
<1>8. PaidNeedsEvidence'
  BY PaidStaysJustified, <1>1, <1>2, <1>3 DEF History
<1>9. EntryHasLeg'
  <2>1. \E k \in 1..i' : Seen(k)'  BY <1>1, <1>2, <1>4
  <2>2. \A k \in 1..i : Seen(k)' /\ ~Metered(k) => paidEvidence'[chain.legs[k].route] # "absent"
    BY <1>1, <1>2, <1>4, <1>5, <1>6 DEF History, EntryHasLeg, Leg, Ended
  <2> QED BY <1>1, <1>2, <1>3, <2>1, <2>2 DEF EntryHasLeg
<1>10. ReasonIsProved'
  <2> SUFFICES ASSUME NEW k \in 1..(i - 1), Visited(k), ~Metered(k),
                      \A j \in (k + 1)..i : Seen(j)' => chain.legs[j].route # chain.legs[k].route
               PROVE  paidEvidence'[chain.legs[k].route] \in {"unproved"} \cup fate[k].proved
    BY <1>1, <1>2, <1>3 DEF ReasonIsProved
  <2>1. chain.legs[k].route # Leg.route  BY <1>1, <1>4 DEF Leg
  <2> QED BY <1>1, <1>2, <1>4, <1>6, <2>1 DEF History, ReasonIsProved, Ended
<1>11. NothingProvedYet'
  BY <1>1, <1>2, <1>3, <1>5, <1>6 DEF NothingProvedYet, Leg, Last
<1>12. AdmittedIsJustified'
  <2>1. Metered(i) /\ ~paidStarted => Justified(i)
    BY EvidenceJustifies, <1>2 DEF Admit, MayCross, Metered, Leg
  <2> QED BY <1>1, <1>2, <1>3, <2>1 DEF AdmittedIsJustified, Justified, Permitted
<1> QED BY <1>7, <1>8, <1>9, <1>10, <1>11, <1>12 DEF History

\* An attempt is sent: a metered one was justified when it was admitted.
LEMMA SendHistory ==
    ASSUME TypeOK, History, NEW quota \in BOOLEAN, Send(quota)
    PROVE  History'
<1>1. /\ Len(chain.legs) \in Nat /\ Legs = 1..Len(chain.legs) /\ i \in Legs
      /\ Legs' = Legs /\ chain' = chain
  BY LegFacts DEF Send, Legs
<1>2. /\ pc = "admitted" /\ pc' = "sent" /\ i' = i /\ paidEvidence' = paidEvidence
      /\ fate' = [fate EXCEPT ![i] = [what |-> "sent", proved |-> {}]]
      /\ paidStarted' <=> paidStarted \/ Metered(i)
  BY <1>1 DEF Send, Fate, Leg, Metered, TypeOK
<1>3. /\ \A k \in Legs : k # i => fate'[k] = fate[k]
      /\ fate'[i] = [what |-> "sent", proved |-> {}]
  BY <1>1, <1>2 DEF TypeOK
<1>4. \A k \in Legs : /\ Sent(k)' <=> Sent(k) \/ k = i
                      /\ Metered(k)' <=> Metered(k)
  BY <1>1, <1>3 DEF Sent, Metered
<1>5. \A k \in Legs : k >= i => fate[k].what = "none"
  BY <1>1, <1>2 DEF History, FateFollowsWalk
<1>6. \A k \in 1..i : Seen(k)' <=> Seen(k)
  BY <1>1, <1>2, <1>3 DEF Seen, InFlight, Visited
<1>7. FateFollowsWalk' /\ PaidStartedMeans' /\ UnsentMeansRefused'
  BY <1>1, <1>2, <1>3, <1>4 DEF History, FateFollowsWalk, PaidStartedMeans, UnsentMeansRefused
<1>8. EntryHasLeg'
  BY <1>1, <1>2, <1>4, <1>6 DEF History, EntryHasLeg, Ended
<1>9. ReasonIsProved'
  <2> SUFFICES ASSUME NEW k \in 1..(i - 1), Visited(k)', ~Metered(k),
                      \A j \in (k + 1)..i : Seen(j)' => chain.legs[j].route # chain.legs[k].route
               PROVE  paidEvidence'[chain.legs[k].route] \in {"unproved"} \cup fate'[k].proved
    BY <1>1, <1>2, <1>4 DEF ReasonIsProved
  <2>1. fate'[k] = fate[k] /\ Visited(k)  BY <1>1, <1>3 DEF Visited
  <2> QED BY <1>1, <1>2, <1>6, <2>1 DEF History, ReasonIsProved, Ended
<1>10. NothingProvedYet' /\ AdmittedIsJustified'
  BY <1>1, <1>2, <1>4 DEF History, NothingProvedYet, AdmittedIsJustified, InFlight, Leg, Last
<1>11. PaidNeedsEvidence'
  <2> SUFFICES ASSUME NEW p \in Legs, FirstPaid(p)' PROVE Justified(p)'
    BY <1>1 DEF PaidNeedsEvidence
  <2>1. /\ Sent(p) \/ p = i
        /\ Metered(p) /\ ~chain.paidPrimary
        /\ \A q \in 1..(p - 1) : (Sent(q) \/ q = i) => ~Metered(q)
    BY <1>1, <1>4 DEF FirstPaid
  <2>2. p <= i /\ Justified(p)
    <3>1. CASE p = i
      <4>1. ~paidStarted  BY <1>1, <1>5, <2>1, <3>1 DEF History, PaidStartedMeans, Sent
      <4> QED BY <1>1, <1>2, <2>1, <3>1, <4>1 DEF History, AdmittedIsJustified
    <3>2. CASE p < i
      <4>1. FirstPaid(p)  BY <1>1, <2>1, <3>2 DEF FirstPaid
      <4> QED BY <1>1, <3>2, <4>1 DEF History, PaidNeedsEvidence
    <3>3. CASE p > i
      BY <1>1, <1>5, <2>1, <3>3 DEF Sent
    <3> QED BY <1>1, <3>1, <3>2, <3>3
  <2>3. p \in Nat /\ \A k \in 1..(p - 1) : fate'[k] = fate[k]
    BY <1>1, <1>3, <2>2
  <2> QED BY <1>1, <2>2, <2>3, JustifiedStays
<1> QED BY <1>7, <1>8, <1>9, <1>10, <1>11 DEF History

\* Steps that leave the history alone.
LEMMA HistoryStays ==
    ASSUME TypeOK, History, UNCHANGED <<chain, i, paidEvidence, paidStarted, fate>>,
           pc' = pc \/ (pc = "sent" /\ pc' = "reading")
    PROVE  History'
<1>1. /\ Len(chain.legs) \in Nat /\ Legs = 1..Len(chain.legs) /\ i \in Legs
      /\ Legs' = Legs /\ chain' = chain
  BY LegFacts DEF Legs
<1>2. PaidNeedsEvidence'
  BY <1>1 DEF History, PaidNeedsEvidence, FirstPaid, Justified, Sent, Metered, Visited, Permitted
<1>3. FateFollowsWalk' /\ PaidStartedMeans' /\ UnsentMeansRefused'
  BY <1>1 DEF History, FateFollowsWalk, PaidStartedMeans, UnsentMeansRefused, Sent, Metered
<1>4. EntryHasLeg' /\ ReasonIsProved'
  BY <1>1 DEF History, EntryHasLeg, ReasonIsProved, Seen, InFlight, Visited, Metered, Ended
<1>5. NothingProvedYet'
  BY <1>1 DEF History, NothingProvedYet, InFlight, Metered, Leg, Last
<1>6. AdmittedIsJustified'
  <2>1. Justified(i) => Justified(i)'
    BY DEF Justified, Visited, Metered, Permitted
  <2> QED BY <1>1, <2>1 DEF History, AdmittedIsJustified, Metered
<1> QED BY <1>2, <1>3, <1>4, <1>5, <1>6 DEF History

-----------------------------------------------------------------------------
(* Types of the helpers *)

ClaudeStates == [serviceOutage : BOOLEAN, transportFailures : 0..2, outageConfirmed : BOOLEAN,
                 signalRecorded : BOOLEAN, authOrClient : BOOLEAN]
OutageStates == [count : 0..ConfirmedOutage, mine : BOOLEAN]
FateStates == [what : Fates, proved : SUBSET (Reasons \cup {"load_spill"})]
Steps == {"next", "admitted", "sent", "reading"} \cup Ended

\* The Claude locals keep their types.
LEMMA ClaudeTyped ==
    ASSUME TypeOK, NEW confirmed \in BOOLEAN
    PROVE  {claude, AfterTransport(claude, confirmed), After5xx(claude, confirmed),
            AfterStreamStart(claude, confirmed), AuthOrClient(claude)} \subseteq ClaudeStates
<1>1. claude \in ClaudeStates /\ chain.pinned \in BOOLEAN
  BY ChainsAreCompiled DEF TypeOK, ClaudeStates
<1>2. Signalled(claude, confirmed) \in ClaudeStates
  BY <1>1 DEF Signalled, ClaudeStates
<1>3. AfterTransport(claude, confirmed) \in ClaudeStates
  <2> DEFINE s == Signalled(claude, confirmed)
             n == IF claude.transportFailures < 2 THEN claude.transportFailures + 1 ELSE 2
             out == ~chain.pinned /\ (s.outageConfirmed \/ n >= 2)
  <2>1. n \in 0..2  BY <1>1 DEF ClaudeStates
  <2>2. out \in BOOLEAN  OBVIOUS
  <2>3. AfterTransport(claude, confirmed) = [s EXCEPT !.transportFailures = n, !.serviceOutage = out]
    BY DEF AfterTransport
  <2> HIDE DEF s, n, out
  <2>4. s \in ClaudeStates  BY <1>2 DEF s
  <2> QED BY <2>1, <2>2, <2>3, <2>4 DEF ClaudeStates
<1>4. After5xx(claude, confirmed) \in ClaudeStates
  BY <1>1, <1>2 DEF After5xx, ClaudeStates
<1>5. AfterStreamStart(claude, confirmed) \in ClaudeStates /\ AuthOrClient(claude) \in ClaudeStates
  BY <1>1, <1>2 DEF AfterStreamStart, AuthOrClient, ClaudeStates
<1> QED BY <1>1, <1>3, <1>4, <1>5

\* So does an outage counter.
LEMMA OutageTyped ==
    ASSUME NEW o \in OutageStates
    PROVE  {Failed(o), OneMore(o, FALSE), Forgotten} \subseteq OutageStates
BY DEF Failed, OneMore, Forgotten, OutageStates, ConfirmedOutage

\* A step that keeps each variable in its type keeps TypeOK.
LEMMA StepTyped ==
    ASSUME TypeOK, UNCHANGED chain, i' \in Legs, pc' \in Steps,
           held' \subseteq {"circuit", "account", "quota", "route", "telemetry"},
           initialReservation' \in {initialReservation, NoAccount},
           paidEvidence' \in [Routes -> Evidence], paidStarted' \in BOOLEAN,
           skipProfilesForUpstream' \in {skipProfilesForUpstream, NoUpstream, Leg.upstream},
           claude' \in ClaudeStates, emptyRigRetries' \in 0..1,
           outages' \in [Routes -> OutageStates], fate' \in [Legs -> FateStates]
    PROVE  TypeOK'
BY DEF TypeOK, Legs, Leg, ClaudeStates, OutageStates, FateStates, Steps, Ended

\* The next attempt is a leg of the chain.
LEMMA AdvanceTyped ==
    ASSUME TypeOK, UNCHANGED chain, Advance
    PROVE  i' \in Legs /\ pc' \in {"next", "exhausted"}
BY LegFacts DEF Advance, Last

\* Accounts are skipped, and Claude is given up, only once a request was sent.
LEMMA SkipsStay ==
    ASSUME TypeOK, SkipsFollowARequest, UNCHANGED chain,
           \A k \in Legs : Sent(k) => Sent(k)',
           \/ Sent(i)
           \/ /\ skipProfilesForUpstream' \in {skipProfilesForUpstream, NoUpstream}
              /\ claude'.serviceOutage = claude.serviceOutage
    PROVE  SkipsFollowARequest'
<1>1. Legs' = Legs /\ i \in Legs  BY LegFacts DEF Legs
<1> QED BY <1>1 DEF SkipsFollowARequest

-----------------------------------------------------------------------------
(* The kinds of steps *)

USE DEF walk, Considered, Visit, Fate, Learn, VisitLearns, Return, SkipAccounts, NextOrAnswer,
        NoResponse, Unread, Read, Claude

Reserved == initialReservation' \in {initialReservation, NoAccount}
Proofs == SUBSET (Reasons \cup {"load_spill"})

\* The entry of an attempt under way holds no reason, unless no leg follows.
LEMMA EntryUnderWay ==
    ASSUME TypeOK, History, InFlight
    PROVE  /\ paidEvidence[Leg.route] = "absent" => Metered(i)
           /\ Metered(i) \/ Last \/ paidEvidence[Leg.route] = "unproved"
<1>1. i \in 1..i /\ Seen(i)  BY LegFacts DEF Seen
<1> QED BY <1>1 DEF History, EntryHasLeg, NothingProvedYet, InFlight, Ended, Leg

\* A leg that is passed over.
LEMMA PassedOver ==
    ASSUME IInv, pc = "next", Advance, NEW w \in Ignored, Reserved,
           UNCHANGED <<chain, held, paidEvidence, paidStarted, claude, emptyRigRetries, outages>>,
           fate' = [fate EXCEPT ![i] = [what |-> w, proved |-> {}]],
           skipProfilesForUpstream' \in {skipProfilesForUpstream, NoUpstream},
           w = "skipped" => \E k \in Legs : Sent(k)
    PROVE  IInv'
<1>1. TypeOK /\ History /\ SkipsFollowARequest  BY DEF IInv
<1>2. i \in Legs /\ Legs' = Legs  BY <1>1, LegFacts DEF Legs
<1>3. w \in Fates /\ w \notin Spent /\ [what |-> w, proved |-> {}] \in FateStates
  BY DEF Ignored, Spent, Fates, FateStates
<1>4. ~Sent(i)  BY <1>1 DEF History, FateFollowsWalk, Sent
<1>5. History'
  BY <1>1, <1>3, <1>4, LegEnds DEF Ignored, Ended
<1>6. \A k \in Legs : Sent(k) => Sent(k)'
  BY <1>1, <1>2, <1>4 DEF TypeOK, Sent
<1>7. SkipsFollowARequest'
  BY <1>1, <1>6, SkipsStay
<1>8. fate' \in [Legs -> FateStates]  BY <1>1, <1>3 DEF TypeOK, FateStates
<1>9. TypeOK'
  BY <1>1, <1>8, StepTyped, AdvanceTyped DEF Reserved, TypeOK, Steps, Ended, ClaudeStates, OutageStates
<1> QED BY <1>5, <1>7, <1>9 DEF IInv

\* A leg that is refused: it is unproved, or it proved a reason.
LEMMA Refused ==
    ASSUME IInv, pc \in {"next", "admitted"}, Advance, Reserved,
           UNCHANGED <<chain, paidStarted, emptyRigRetries, outages>>,
           held' \subseteq held,
           NEW w \in {"hard", "open", "soft"}, NEW proved \in Proofs, Last => w # "soft",
           fate' = [fate EXCEPT ![i] = [what |-> w, proved |-> proved]],
           LET before == IF pc = "next" THEN Reset ELSE paidEvidence
           IN \/ paidEvidence' = before
              \/ \E r \in proved : paidEvidence' = [before EXCEPT ![Leg.route] = r],
           skipProfilesForUpstream' \in {skipProfilesForUpstream, NoUpstream},
           claude' \in ClaudeStates, claude'.serviceOutage = claude.serviceOutage
    PROVE  IInv'
<1>1. TypeOK /\ History /\ SkipsFollowARequest  BY DEF IInv
<1>2. i \in Legs /\ Legs' = Legs /\ Leg.route \in Routes /\ Metered(i) = Leg.metered
  BY <1>1, LegFacts DEF Legs, Leg, Metered
<1>3. w \in Fates \ Ignored /\ w \notin Spent /\ [what |-> w, proved |-> proved] \in FateStates
  BY DEF Ignored, Spent, Fates, FateStates, Proofs
<1>4. ~Sent(i)  BY <1>1 DEF History, FateFollowsWalk, Sent
<1>5. PICK x \in Evidence :
        /\ paidEvidence' = [paidEvidence EXCEPT ![Leg.route] = x]
        /\ x = "absent" => Metered(i) /\ paidEvidence[Leg.route] = "absent"
        /\ Metered(i) \/ Last \/ x \in {"unproved"} \cup proved
  <2> DEFINE before == IF pc = "next" THEN Reset ELSE paidEvidence
             old == before[Leg.route]
  <2>1. before = [paidEvidence EXCEPT ![Leg.route] = old] /\ old \in Evidence
    BY <1>1, <1>2 DEF Reset, TypeOK, Evidence
  <2>2. /\ old = "absent" => Metered(i) /\ paidEvidence[Leg.route] = "absent"
        /\ Metered(i) \/ Last \/ old = "unproved"
    <3>1. CASE pc = "next"  BY <1>1, <1>2, <3>1 DEF Reset, TypeOK
    <3>2. CASE pc = "admitted"
      BY <1>1, <3>2, EntryUnderWay DEF InFlight
    <3> QED BY <3>1, <3>2
  <2> HIDE DEF old
  <2>3. CASE paidEvidence' = before
    BY <2>1, <2>2, <2>3
  <2>4. CASE paidEvidence' # before
    <3>1. PICK r \in proved : paidEvidence' = [before EXCEPT ![Leg.route] = r]
      BY <2>4
    <3>2. r \in Evidence /\ r # "absent"  BY DEF Proofs, Evidence, Reasons
    <3>3. paidEvidence' = [paidEvidence EXCEPT ![Leg.route] = r]  BY <2>1, <3>1
    <3> QED BY <3>2, <3>3
  <2> QED BY <2>3, <2>4
<1>6. History'
  BY <1>1, <1>3, <1>4, <1>5, LegEnds DEF Ended
<1>7. \A k \in Legs : Sent(k) => Sent(k)'
  BY <1>1, <1>2, <1>4 DEF TypeOK, Sent
<1>8. SkipsFollowARequest'
  BY <1>1, <1>7, SkipsStay
<1>9. fate' \in [Legs -> FateStates] /\ paidEvidence' \in [Routes -> Evidence]
  BY <1>1, <1>3, <1>5 DEF TypeOK, FateStates
<1>10. TypeOK'
  BY <1>1, <1>9, StepTyped, AdvanceTyped DEF Reserved, TypeOK, Steps, Ended, OutageStates
<1> QED BY <1>6, <1>8, <1>10 DEF IInv

\* An attempt's fate is known, and its entry tells a reason it proved.
Proves(w, proved) ==
    /\ fate' = [fate EXCEPT ![i] = [what |-> w, proved |-> proved]]
    /\ \/ paidEvidence' = paidEvidence
       \/ \E r \in proved : paidEvidence' = [paidEvidence EXCEPT ![Leg.route] = r]

\* What comes of a request that was sent: the walk goes on or ends, and the
\* evidence stays unless a reason was proved.
LEMMA Came ==
    ASSUME IInv, pc \in {"sent", "reading"},
           Advance \/ (i' = i /\ pc' \in {"answered", "stopped"}),
           UNCHANGED <<chain, initialReservation, paidStarted>>,
           held' \in {{}, held},
           UNCHANGED <<fate, paidEvidence>> \/ \E w \in Spent, proved \in Proofs : Proves(w, proved),
           skipProfilesForUpstream' \in {skipProfilesForUpstream, NoUpstream, Leg.upstream},
           claude' \in ClaudeStates, emptyRigRetries' \in 0..1, outages' \in [Routes -> OutageStates]
    PROVE  IInv'
<1>1. TypeOK /\ History /\ SkipsFollowARequest  BY DEF IInv
<1>2. i \in Legs /\ Legs' = Legs /\ Leg.route \in Routes
  BY <1>1, LegFacts DEF Legs, Leg
<1>3. Sent(i)  BY <1>1 DEF History, FateFollowsWalk
<1>4. PICK v \in Spent, given \in Proofs : Proves(v, given)
  <2>1. CASE \E w \in Spent, proved \in Proofs : Proves(w, proved)
    BY <2>1
  <2>2. CASE UNCHANGED <<fate, paidEvidence>>
    <3>1. fate[i].what \in Spent /\ fate[i].proved \in Proofs /\ fate[i] \in FateStates
      BY <1>1, <1>2, <1>3 DEF TypeOK, Sent, Spent, Proofs, FateStates
    <3>2. fate' = [fate EXCEPT ![i] = [what |-> fate[i].what, proved |-> fate[i].proved]]
      BY <1>1, <1>2, <2>2, <3>1 DEF TypeOK, FateStates
    <3> QED BY <2>2, <3>1, <3>2 DEF Proves
  <2> QED BY <2>1, <2>2
<1> USE DEF Proves
<1>5. v \in Fates \ Ignored /\ v # "none" /\ [what |-> v, proved |-> given] \in FateStates
  BY DEF Ignored, Spent, Fates, FateStates, Proofs
<1>6. PICK x \in Evidence :
        /\ paidEvidence' = [paidEvidence EXCEPT ![Leg.route] = x]
        /\ x = "absent" => Metered(i) /\ paidEvidence[Leg.route] = "absent"
        /\ Metered(i) \/ Last \/ x \in {"unproved"} \cup given
  <2>1. CASE paidEvidence' = paidEvidence
    <3> DEFINE x == paidEvidence[Leg.route]
    <3>1. x \in Evidence /\ paidEvidence' = [paidEvidence EXCEPT ![Leg.route] = x]
      BY <1>1, <1>2, <2>1 DEF TypeOK
    <3>2. (x = "absent" => Metered(i)) /\ (Metered(i) \/ Last \/ x = "unproved")
      BY <1>1, EntryUnderWay DEF InFlight
    <3> QED BY <3>1, <3>2
  <2>2. CASE paidEvidence' # paidEvidence
    <3>1. PICK r \in given : paidEvidence' = [paidEvidence EXCEPT ![Leg.route] = r]
      BY <1>4, <2>2
    <3>2. r \in Evidence /\ r # "absent"  BY DEF Proofs, Evidence, Reasons
    <3> QED BY <3>1, <3>2
  <2> QED BY <2>1, <2>2
<1>7. History'
  <2>1. CASE Advance
    BY <1>1, <1>2, <1>3, <1>4, <1>5, <1>6, <2>1, LegEnds DEF Ended
  <2>2. CASE i' = i /\ pc' \in {"answered", "stopped"}
    <3>1. \A k \in Legs : k # i => fate'[k] = fate[k]
      BY <1>1, <1>2, <1>4 DEF TypeOK
    <3>2. \A k \in Legs : Sent(k)' <=> Sent(k)
      BY <1>1, <1>2, <1>3, <1>4 DEF TypeOK, Sent, Spent
    <3> QED BY <1>1, <2>2, <3>1, <3>2, WalkEnds
  <2> QED BY <2>1, <2>2
<1>8. SkipsFollowARequest'
  <2>1. \A k \in Legs : Sent(k) => Sent(k)'
    BY <1>1, <1>2, <1>4 DEF TypeOK, Sent, Spent
  <2> QED BY <1>1, <1>3, <2>1, SkipsStay
<1>9. fate' \in [Legs -> FateStates] /\ paidEvidence' \in [Routes -> Evidence]
  BY <1>1, <1>4, <1>5, <1>6 DEF TypeOK, FateStates
<1>10. i' \in Legs /\ pc' \in Steps
  BY <1>1, <1>2, AdvanceTyped DEF Steps, Ended
<1>11. TypeOK'
  BY <1>1, <1>9, <1>10, StepTyped DEF TypeOK
<1> QED BY <1>7, <1>8, <1>11 DEF IInv

\* The walk stops before it sends, or a step does not concern the history.
LEMMA Rest ==
    ASSUME IInv, History', UNCHANGED <<chain, i, fate, claude, emptyRigRetries, paidStarted>>, Reserved,
           pc' \in Steps, held' \subseteq {"circuit", "account", "quota", "route", "telemetry"},
           paidEvidence' \in [Routes -> Evidence], outages' \in [Routes -> OutageStates],
           skipProfilesForUpstream' \in {skipProfilesForUpstream, NoUpstream}
    PROVE  IInv'
<1>1. TypeOK /\ SkipsFollowARequest  BY DEF IInv
<1>2. TypeOK'
  BY <1>1, StepTyped DEF Reserved, TypeOK, ClaudeStates, FateStates
<1>3. SkipsFollowARequest'
  BY <1>1, SkipsStay DEF Sent
<1> QED BY <1>2, <1>3 DEF IInv

-----------------------------------------------------------------------------
(* The invariant is inductive *)

\* The gates before an attempt is admitted.
LEMMA GateStep == ASSUME IInv, Gate PROVE IInv'
<1>1. TypeOK /\ History /\ SkipsFollowARequest  BY DEF IInv
<1>2. /\ i \in Legs /\ Leg.route \in Routes /\ claude \in ClaudeStates /\ i \in Legs
      /\ AuthOrClient(claude) \in ClaudeStates
      /\ AuthOrClient(claude).serviceOutage = claude.serviceOutage
  BY <1>1, LegFacts, ClaudeTyped DEF Leg, AuthOrClient, ClaudeStates
<1>3. CASE SkipProfile
  <2>1. \E k \in Legs : Sent(k)  BY <1>1, <1>3 DEF SkipProfile, Skipped, SkipsFollowARequest
  <2> QED BY <1>3, <2>1, PassedOver DEF SkipProfile, Ignored, Reserved
<1>4. CASE Cancelled
  <2>1. History'  BY <1>1, <1>4, WalkEnds DEF Cancelled, Sent
  <2> QED BY <1>1, <1>4, <2>1, Rest DEF Cancelled, Reserved, TypeOK, Steps, Ended, OutageStates
<1>5. CASE SuppressPaid
  BY <1>5, PassedOver DEF SuppressPaid, Ignored, Reserved
<1>6. CASE SkipServiceOutage
  <2>1. \E k \in Legs : Sent(k)  BY <1>1, <1>6 DEF SkipServiceOutage, SkipsFollowARequest
  <2> QED BY <1>6, <2>1, PassedOver DEF SkipServiceOutage, Ignored, Reserved
<1>7. CASE RefuseQuota
  <2>1. {"quota-exhausted"} \in Proofs  BY DEF Proofs, Reasons
  <2> QED BY <1>2, <1>7, <2>1, Refused DEF RefuseQuota, Reserved
<1>8. UnavailableProof \in Proofs /\ UnavailableEvidence(Reset) \in {Reset[Leg.route]} \cup UnavailableProof
  BY DEF UnavailableProof, UnavailableEvidence, Proofs, Reasons
<1>9. Reset = [Reset EXCEPT ![Leg.route] = Reset[Leg.route]]
  BY <1>1, <1>2 DEF Reset, TypeOK
<1>10. CASE RefuseInstability
  <2>1. \/ paidEvidence' = Reset
        \/ \E r \in UnavailableProof : paidEvidence' = [Reset EXCEPT ![Leg.route] = r]
    BY <1>8, <1>9, <1>10 DEF RefuseInstability
  <2> QED BY <1>2, <1>8, <1>10, <2>1, Refused DEF RefuseInstability, Reserved
<1>11. CASE RefuseCircuit
  <2>1. \/ paidEvidence' = Reset
        \/ \E r \in UnavailableProof : paidEvidence' = [Reset EXCEPT ![Leg.route] = r]
    BY <1>8, <1>9, <1>11 DEF RefuseCircuit
  <2> QED BY <1>2, <1>8, <1>11, <2>1, Refused DEF RefuseCircuit, Reserved
<1>12. ASSUME NEW auth \in BOOLEAN, RefuseUnproved(auth) PROVE IInv'
  <2>1. {} \in Proofs  BY DEF Proofs
  <2> QED BY <1>2, <1>12, <2>1, Refused DEF RefuseUnproved, Reserved
<1>13. ASSUME NEW probe \in BOOLEAN, NEW bypass \in BOOLEAN, Admit(probe, bypass) PROVE IInv'
  <2>1. History'  BY <1>1, <1>13, AdmitHistory
  <2>2. UnavailableEvidence(Reset) \in Evidence /\ Reset \in [Routes -> Evidence]
    BY <1>1, <1>2 DEF UnavailableEvidence, Reset, TypeOK, Evidence, Reasons
  <2>3. paidEvidence' \in [Routes -> Evidence]
    BY <1>2, <1>13, <2>2 DEF Admit
  <2> QED BY <1>1, <1>13, <2>1, <2>3, Rest DEF Admit, Reserved, TypeOK, Steps, OutageStates
<1>14. CASE Spill
  <2>1. {"load_spill"} \in Proofs  BY DEF Proofs
  <2> QED BY <1>2, <1>14, <2>1, Refused DEF Spill, Reserved
<1>15. CASE GiveUp
  <2>1. History'  BY <1>1, <1>15, WalkEnds DEF GiveUp, Sent
  <2> QED BY <1>1, <1>15, <2>1, Rest DEF GiveUp, Reserved, TypeOK, Steps, Ended, OutageStates
<1>16. CASE RefuseProbe
  <2>1. {} \in Proofs  BY DEF Proofs
  <2> QED BY <1>2, <1>16, <2>1, Refused DEF RefuseProbe, Reserved
<1>17. ASSUME NEW quota \in BOOLEAN, Send(quota) PROVE IInv'
  <2>1. History'  BY <1>1, <1>17, SendHistory
  <2>2. fate' \in [Legs -> FateStates] /\ paidStarted' \in BOOLEAN
    BY <1>1, <1>2, <1>17, LegFacts DEF Send, TypeOK, FateStates, Fates, Leg, Metered
  <2>3. TypeOK'
    BY <1>1, <1>2, <1>17, <2>2, StepTyped DEF Send, TypeOK, Steps, OutageStates
  <2>4. \A k \in Legs : Sent(k) => Sent(k)'
    BY <1>1, <1>2, <1>17 DEF Send, TypeOK, Sent
  <2>5. SkipsFollowARequest'  BY <1>1, <1>17, <2>4, SkipsStay DEF Send
  <2> QED BY <2>1, <2>3, <2>5 DEF IInv
<1> QED BY <1>3, <1>4, <1>5, <1>6, <1>7, <1>10, <1>11, <1>12, <1>13, <1>14, <1>15, <1>16, <1>17 DEF Gate

\* What comes of the attempt that was sent.
LEMMA OutcomeStep == ASSUME IInv, Outcome PROVE IInv'
<1>1. TypeOK /\ History /\ SkipsFollowARequest  BY DEF IInv
<1>2. /\ i \in Legs /\ Leg.route \in Routes /\ claude \in ClaudeStates
      /\ emptyRigRetries \in 0..1 /\ outages \in [Routes -> OutageStates]
      /\ \A o \in OutageStates : outages' = [outages EXCEPT ![Leg.route] = o]
                                    => outages' \in [Routes -> OutageStates]
  BY <1>1, LegFacts, ClaudeTyped DEF TypeOK, OutageStates, Leg
<1>3. /\ Failed(outages[Leg.route]) \in OutageStates /\ Forgotten \in OutageStates
      /\ AuthOrClient(claude) \in ClaudeStates
      /\ \A confirmed \in BOOLEAN : /\ AfterTransport(claude, confirmed) \in ClaudeStates
                                    /\ After5xx(claude, confirmed) \in ClaudeStates
                                    /\ AfterStreamStart(claude, confirmed) \in ClaudeStates
  BY <1>1, <1>2, ClaudeTyped, OutageTyped
<1>4. {"sent", "blip", "down"} = Spent /\ {{}} \cup {{r} : r \in Reasons} \subseteq Proofs
  BY DEF Spent, Proofs
<1>5. ASSUME NEW auth \in BOOLEAN, Unsent(auth) PROVE IInv'
  BY <1>2, <1>3, <1>5, Came DEF Unsent
<1>6. CASE Abandoned
  BY <1>2, <1>6, Came DEF Abandoned
<1>7. ASSUME NEW limited \in BOOLEAN, NEW confirmed \in BOOLEAN, HeaderTimeout(limited, confirmed) PROVE IInv'
  <2>1. \E w \in Spent : Proves(w, {"response-header-timeout"})
    BY <1>4, <1>7 DEF HeaderTimeout, Proves
  <2>2. {"response-header-timeout"} \in Proofs  BY DEF Proofs, Reasons
  <2> QED BY <1>2, <1>3, <1>7, <2>1, <2>2, Came DEF HeaderTimeout
<1>8. ASSUME NEW local \in BOOLEAN, NEW confirmed \in BOOLEAN, TransportError(local, confirmed) PROVE IInv'
  <2>1. Proves("blip", {})  BY <1>8 DEF TransportError, Proves
  <2> QED BY <1>2, <1>3, <1>4, <1>8, <2>1, Came DEF TransportError
<1>9. CASE UnreadAbandoned
  BY <1>2, <1>9, Came DEF UnreadAbandoned
<1>10. CASE UnreadQuota
  <2>1. Proves("sent", {"quota-exhausted"})  BY <1>10 DEF UnreadQuota, Proves
  <2>2. {"quota-exhausted"} \in Proofs  BY DEF Proofs, Reasons
  <2> QED BY <1>2, <1>4, <1>10, <2>1, <2>2, Came DEF UnreadQuota
<1>11. CASE UnreadAuth
  BY <1>2, <1>3, <1>11, Came DEF UnreadAuth
<1>12. ASSUME NEW endTurn \in BOOLEAN, EmptyPrelude(endTurn) PROVE IInv'
  <2>1. UNCHANGED <<fate, paidEvidence>> \/ Proves("blip", {})
    BY <1>12 DEF EmptyPrelude, Proves
  <2> QED BY <1>2, <1>4, <1>12, <2>1, Came DEF EmptyPrelude
<1>13. ASSUME NEW local \in BOOLEAN, NEW confirmed \in BOOLEAN, StreamStartFails(local, confirmed) PROVE IInv'
  <2>1. Proves("blip", {})  BY <1>13 DEF StreamStartFails, Proves
  <2> QED BY <1>2, <1>3, <1>4, <1>13, <2>1, Came DEF StreamStartFails
<1>14. ASSUME NEW is5xx \in BOOLEAN, NEW confirmed \in BOOLEAN, BodyFails(is5xx, confirmed) PROVE IInv'
  <2> DEFINE proved == IF is5xx /\ Confirmed(Failed(outages[Leg.route]))
                       THEN {"confirmed-provider-outage"} ELSE {}
  <2>1. proved \in Proofs  BY DEF Proofs, Reasons
  <2>2. Proves("down", proved) \/ Proves("blip", proved)
    BY <1>14 DEF BodyFails, Proves
  <2>3. claude' \in ClaudeStates /\ outages' \in [Routes -> OutageStates]
    BY <1>2, <1>3, <1>14 DEF BodyFails
  <2> HIDE DEF proved
  <2> QED BY <1>2, <1>4, <1>14, <2>1, <2>2, <2>3, Came DEF BodyFails
<1>15. CASE UnreadRejection
  BY <1>2, <1>3, <1>15, Came DEF UnreadRejection
<1>16. ASSUME NEW stream \in BOOLEAN, Answer(stream) PROVE IInv'
  BY <1>2, <1>3, <1>16, Came DEF Answer
<1>17. ASSUME NEW confirmed \in BOOLEAN, ServerError(confirmed) PROVE IInv'
  <2> DEFINE proved == IF Confirmed(Failed(outages[Leg.route])) THEN {"confirmed-provider-outage"} ELSE {}
  <2>1. proved \in Proofs  BY DEF Proofs, Reasons
  <2>2. Proves("down", proved)
    BY <1>17 DEF ServerError, Proves
  <2>3. claude' \in ClaudeStates /\ outages' \in [Routes -> OutageStates]
    BY <1>2, <1>3, <1>17 DEF ServerError
  <2> HIDE DEF proved
  <2> QED BY <1>2, <1>4, <1>17, <2>1, <2>2, <2>3, Came DEF ServerError
<1>18. CASE Throttled
  <2>1. Proves("sent", {"quota-exhausted"})  BY <1>18 DEF Throttled, Proves
  <2>2. {"quota-exhausted"} \in Proofs  BY DEF Proofs, Reasons
  <2> QED BY <1>2, <1>4, <1>18, <2>1, <2>2, Came DEF Throttled
<1>19. ASSUME NEW kind, ClientError(kind) PROVE IInv'
  <2>1. \/ UNCHANGED <<fate, paidEvidence>>
        \/ Proves("sent", {"route-unavailable"}) \/ Proves("sent", {"quota-exhausted"})
    BY <1>19 DEF ClientError, Proves
  <2>2. {"route-unavailable"} \in Proofs /\ {"quota-exhausted"} \in Proofs  BY DEF Proofs, Reasons
  <2>3. Advance \/ (i' = i /\ pc' = "answered")  BY <1>19 DEF ClientError
  <2> QED BY <1>2, <1>3, <1>4, <1>19, <2>1, <2>2, <2>3, Came DEF ClientError
<1>20. CASE Headers
  <2>1. History'  BY <1>1, <1>20, HistoryStays DEF Headers
  <2> QED BY <1>1, <1>20, <2>1, Rest DEF Headers, Reserved, TypeOK, Steps, OutageStates
<1>21. CASE CloseBody
  <2>1. History'  BY <1>1, <1>21, HistoryStays DEF CloseBody
  <2> QED BY <1>1, <1>21, <2>1, Rest DEF CloseBody, Reserved, TypeOK, Steps, OutageStates
<1> QED BY <1>5, <1>6, <1>7, <1>8, <1>9, <1>10, <1>11, <1>12, <1>13, <1>14, <1>15, <1>16, <1>17, <1>18,
           <1>19, <1>20, <1>21 DEF Outcome

LEMMA OthersStep == ASSUME IInv, Others PROVE IInv'
<1>1. TypeOK /\ History  BY DEF IInv
<1>2. History'  BY <1>1, HistoryStays DEF Others
<1>3. outages' \in [Routes -> OutageStates]
  <2>1. outages \in [Routes -> OutageStates] /\ Leg.route \in Routes
    BY <1>1, LegFacts DEF TypeOK, OutageStates, Leg
  <2>2. {Forgotten, OneMore(outages[Leg.route], FALSE)} \subseteq OutageStates
    BY <2>1, OutageTyped
  <2> QED BY <2>1, <2>2 DEF Others
<1> QED BY <1>1, <1>2, <1>3, Rest DEF Others, Reserved, TypeOK, Steps

LEMMA NextIInv == IInv /\ [Next]_vars => IInv'
<1> SUFFICES ASSUME IInv, [Next]_vars PROVE IInv'
  OBVIOUS
<1>1. CASE UNCHANGED vars
  <2>1. TypeOK /\ History  BY DEF IInv
  <2>2. History'  BY <1>1, <2>1, HistoryStays DEF vars
  <2> QED BY <1>1, <2>1, <2>2, Rest DEF vars, Reserved, TypeOK, Steps, OutageStates
<1> QED BY <1>1, GateStep, OutcomeStep, OthersStep DEF Next

LEMMA InitIInv == Init => IInv
<1> SUFFICES ASSUME Init PROVE IInv
  OBVIOUS
<1>1. /\ Len(chain.legs) \in Nat \ {0} /\ Legs = 1..Len(chain.legs) /\ 1 \in Legs
      /\ chain.paidPrimary \in BOOLEAN /\ \A k \in Legs : Metered(k) \in BOOLEAN
  BY ChainsAreCompiled DEF Init, Legs, Metered
<1>2. TypeOK
  <2>1. /\ i \in Legs /\ pc \in Steps /\ paidEvidence \in [Routes -> Evidence] /\ paidStarted \in BOOLEAN
        /\ emptyRigRetries \in 0..1 /\ skipProfilesForUpstream = NoUpstream
    BY <1>1 DEF Init, Steps, Evidence
  <2>2. claude \in ClaudeStates
    <3>1. PICK b \in BOOLEAN :
             claude = [serviceOutage |-> FALSE, transportFailures |-> 0, outageConfirmed |-> b,
                       signalRecorded |-> FALSE, authOrClient |-> FALSE]
      BY DEF Init
    <3>2. 0 \in 0..2  OBVIOUS
    <3> QED BY <3>1, <3>2 DEF ClaudeStates
  <2>3. outages \in [Routes -> OutageStates]
    BY DEF Init, Forgotten, OutageStates, ConfirmedOutage
  <2>4. fate \in [Legs -> FateStates]
    BY DEF Init, Legs, FateStates, Fates
  <2> QED BY <2>1, <2>2, <2>3, <2>4 DEF Init, TypeOK, Steps, ClaudeStates, OutageStates, FateStates, Legs
<1>3. \A k \in Legs : ~Sent(k) /\ ~Visited(k) /\ fate[k].what = "none"
  BY DEF Init, Legs, Sent, Visited
<1>4. \A k \in 1..i : ~Seen(k)
  BY DEF Init, Seen, InFlight
<1>5. History
  BY <1>1, <1>3, <1>4 DEF Init, History, FateFollowsWalk, PaidStartedMeans, EntryHasLeg, ReasonIsProved,
     NothingProvedYet, AdmittedIsJustified, PaidNeedsEvidence, FirstPaid, UnsentMeansRefused, InFlight
<1>6. SkipsFollowARequest
  BY DEF Init, SkipsFollowARequest
<1> QED BY <1>2, <1>5, <1>6 DEF IInv

LEMMA SpecIInv == Spec => []IInv
BY InitIInv, NextIInv, PTL DEF Spec

-----------------------------------------------------------------------------
(* Skipped accounts *)

\* An account was passed over for a failure that no later answer takes back.
SpokenFor(k) == UpstreamFailed(k) \/ (ServiceFailed(k) /\ claude.signalRecorded)

\* The upstream being skipped failed before the legs that were skipped.
SkipFollowsFailure ==
    \E j \in 1..(i - 1) :
        /\ ClaudeFailed(j, {"blip", "down"}) /\ chain.legs[j].upstream = skipProfilesForUpstream
        /\ \A m \in (j + 1)..(i - 1) : fate[m].what = "skipped"

\* What the walk remembers of failures, and whom it passed over for them.
SkipInv ==
    /\ \A k \in Legs : fate[k].what = "skipped" => SpokenFor(k)
    /\ InFlight => skipProfilesForUpstream = NoUpstream
    /\ pc = "next" /\ skipProfilesForUpstream # NoUpstream => SkipFollowsFailure
    /\ pc \notin Ended /\ claude.serviceOutage => ServiceFailed(i) /\ claude.signalRecorded
    /\ pc \notin Ended /\ claude.transportFailures # 0 => \E j \in 1..(i - 1) : ClaudeFailed(j, {"blip"})

\* A recorded signal is the last, and Claude is given up for what happened.
Learnt(w) ==
    /\ claude.signalRecorded =>
          claude'.signalRecorded /\ claude'.outageConfirmed = claude.outageConfirmed
    /\ claude'.serviceOutage => claude.serviceOutage \/
          /\ ~chain.pinned /\ IsClaude(Leg) /\ claude'.signalRecorded
          /\ w = "down" \/ (w = "blip" /\ (claude'.outageConfirmed \/ claude.transportFailures # 0))
    /\ claude'.transportFailures # 0 => claude.transportFailures # 0 \/ (IsClaude(Leg) /\ w = "blip")

\* What the Claude locals learn of an attempt.
LEMMA LocalsLearn ==
    ASSUME TypeOK, NEW confirmed \in BOOLEAN, NEW w
    PROVE  /\ UNCHANGED claude => Learnt(w)
           /\ Claude(claude) => Learnt(w)
           /\ Claude(AuthOrClient(claude)) => Learnt(w)
           /\ Claude(AfterStreamStart(claude, confirmed)) => Learnt(w)
           /\ Claude(AfterTransport(claude, confirmed)) => Learnt("blip")
           /\ Claude(After5xx(claude, confirmed)) => Learnt("down")
<1>1. claude \in ClaudeStates  BY DEF TypeOK, ClaudeStates
<1>2. Signalled(claude, confirmed) \in ClaudeStates
  BY <1>1 DEF Signalled, ClaudeStates
<1>3. /\ Signalled(claude, confirmed).signalRecorded
      /\ claude.signalRecorded => Signalled(claude, confirmed) = claude
      /\ Signalled(claude, confirmed).serviceOutage = claude.serviceOutage
      /\ Signalled(claude, confirmed).transportFailures = claude.transportFailures
  BY <1>1 DEF Signalled, ClaudeStates
<1>4. Claude(AuthOrClient(claude)) => Learnt(w)
  BY <1>1 DEF AuthOrClient, Learnt, ClaudeStates
<1>5. Claude(AfterStreamStart(claude, confirmed)) => Learnt(w)
  BY <1>1, <1>3 DEF AfterStreamStart, Learnt
<1>6. Claude(AfterTransport(claude, confirmed)) => Learnt("blip")
  BY <1>1, <1>2, <1>3 DEF AfterTransport, Learnt, ClaudeStates
<1>7. Claude(After5xx(claude, confirmed)) => Learnt("down")
  BY <1>1, <1>2, <1>3 DEF After5xx, Learnt, ClaudeStates
<1> QED BY <1>4, <1>5, <1>6, <1>7 DEF Learnt

\* A failure of Claude before one leg is one before a later leg.
LEMMA FailureStays ==
    ASSUME TypeOK, UNCHANGED chain, NEW n \in Nat, NEW p \in Nat, n <= i, n <= p,
           \A j \in 1..(i - 1) : fate'[j] = fate[j],
           claude.signalRecorded, claude'.outageConfirmed = claude.outageConfirmed,
           ServiceFailed(n)
    PROVE  ServiceFailed(p)'
<1>1. i \in Nat  BY LegFacts
<1>2. \A how : \A j \in 1..(n - 1) : j \in 1..(p - 1) /\ (ClaudeFailed(j, how) => ClaudeFailed(j, how)')
  BY <1>1 DEF ClaudeFailed
<1> QED BY <1>2 DEF ServiceFailed

\* A leg that was passed over stays spoken for.
LEMMA SpokenStays ==
    ASSUME TypeOK, History, SkipInv, UNCHANGED chain, NEW w, Learnt(w),
           \A j \in 1..(i - 1) : fate'[j] = fate[j],
           fate'[i].what = "skipped" => fate[i].what = "skipped" \/ SpokenFor(i),
           \A k \in Legs : k > i => fate'[k] = fate[k]
    PROVE  (\A k \in Legs : fate[k].what = "skipped" => SpokenFor(k))'
<1>1. Legs' = Legs /\ Legs \subseteq Nat /\ i \in Legs  BY LegFacts DEF Legs
<1>2. SUFFICES ASSUME NEW k \in Legs, fate'[k].what = "skipped" PROVE SpokenFor(k)'
  BY <1>1
<1>3. k <= i  BY <1>1, <1>2 DEF History, FateFollowsWalk
<1>4. k \in Nat /\ i \in Nat /\ SpokenFor(k)
  <2>1. CASE k = i  BY <1>1, <1>2, <2>1 DEF SkipInv
  <2>2. CASE k # i
    <3>1. k \in 1..(i - 1)  BY <1>1, <1>3, <2>2, LegFacts
    <3> QED BY <1>1, <1>2, <3>1 DEF SkipInv
  <2> QED BY <2>1, <2>2
<1>5. CASE UpstreamFailed(k)
  <2>1. \A j \in 1..(k - 1) : j \in 1..(i - 1)  BY <1>3, <1>4
  <2>2. PICK j \in 1..(k - 1) : /\ ClaudeFailed(j, {"blip", "down"}) /\ chain.legs[j].upstream = chain.legs[k].upstream
                               /\ \A m \in (j + 1)..(k - 1) : fate[m].what = "skipped"
    BY <1>5 DEF UpstreamFailed
  <2>3. ClaudeFailed(j, {"blip", "down"})'  BY <2>1, <2>2 DEF ClaudeFailed
  <2>4. \A m \in (j + 1)..(k - 1) : m \in 1..(k - 1)  BY <1>4
  <2>5. \A m \in (j + 1)..(k - 1) : fate'[m].what = "skipped"  BY <2>1, <2>2, <2>4
  <2> QED BY <2>2, <2>3, <2>5 DEF SpokenFor, UpstreamFailed
<1>6. CASE ServiceFailed(k) /\ claude.signalRecorded
  <2>1. claude'.signalRecorded /\ claude'.outageConfirmed = claude.outageConfirmed
    BY <1>6 DEF Learnt
  <2>2. ServiceFailed(k)'  BY <1>3, <1>4, <1>6, <2>1, FailureStays
  <2> QED BY <2>1, <2>2 DEF SpokenFor
<1> QED BY <1>4, <1>5, <1>6 DEF SpokenFor

\* The walk goes on to the next leg, or is exhausted.
LEMMA SkipsGoOn ==
    ASSUME TypeOK, History, SkipInv, pc \notin Ended, UNCHANGED chain, Advance, NEW f,
           fate' = [fate EXCEPT ![i] = f], Learnt(f.what),
           f.what = "skipped" => SpokenFor(i),
           \/ skipProfilesForUpstream' = NoUpstream
           \/ skipProfilesForUpstream' = Leg.upstream /\ IsClaude(Leg) /\ f.what \in {"blip", "down"}
           \/ skipProfilesForUpstream' = skipProfilesForUpstream /\ pc = "next" /\ f.what = "skipped"
    PROVE  SkipInv'
<1>1. /\ i \in Legs /\ i \in Nat /\ DOMAIN fate = Legs
      /\ fate'[i] = f /\ \A k \in Legs : k # i => fate'[k] = fate[k]
      /\ \A j \in 1..(i - 1) : j \in Legs /\ fate'[j] = fate[j]
  BY LegFacts DEF TypeOK
<1>2. (\A k \in Legs : fate[k].what = "skipped" => SpokenFor(k))'
  BY <1>1, SpokenStays
<1>3. CASE Last
  BY <1>2, <1>3 DEF SkipInv, Advance, InFlight, Ended
<1>4. CASE ~Last
  <2> PICK n \in Nat \ {0} : n = i  BY <1>1, LegFacts
  <2>1. i' = i + 1 /\ pc' = "next" /\ i' - 1 = i  BY <1>1, <1>4 DEF Advance
  <2>2. \A how : \A j \in 1..(i - 1) : j \in 1..i /\ (ClaudeFailed(j, how) => ClaudeFailed(j, how)')
    BY <1>1 DEF ClaudeFailed
  <2>3. ASSUME IsClaude(Leg), NEW how, f.what \in how PROVE ClaudeFailed(n, how)'
    BY <1>1, <2>1, <2>3 DEF ClaudeFailed, Leg
  <2>4. ASSUME skipProfilesForUpstream' # NoUpstream PROVE SkipFollowsFailure'
    <3>1. CASE skipProfilesForUpstream' = Leg.upstream /\ IsClaude(Leg) /\ f.what \in {"blip", "down"}
      <4>1. ClaudeFailed(n, {"blip", "down"})' /\ n \in 1..n /\ (n + 1)..n = {}  BY <1>1, <2>3, <3>1
      <4>2. chain'.legs[n].upstream = skipProfilesForUpstream'  BY <3>1 DEF Leg
      <4> QED BY <2>1, <4>1, <4>2 DEF SkipFollowsFailure
    <3>2. CASE skipProfilesForUpstream' = skipProfilesForUpstream /\ pc = "next" /\ f.what = "skipped"
      <4>1. PICK j \in 1..(i - 1) :
               /\ ClaudeFailed(j, {"blip", "down"}) /\ chain.legs[j].upstream = skipProfilesForUpstream
               /\ \A m \in (j + 1)..(i - 1) : fate[m].what = "skipped"
        BY <2>4, <3>2 DEF SkipInv, SkipFollowsFailure
      <4>2. j \in 1..i /\ ClaudeFailed(j, {"blip", "down"})'  BY <2>2, <4>1
      <4>3. \A m \in (j + 1)..i : m = i \/ (m \in 1..(i - 1) /\ m \in (j + 1)..(i - 1))
        <5>1. j \in Nat /\ n \in Nat /\ 1 <= j  BY <4>1
        <5> QED BY <5>1
      <4>4. \A m \in (j + 1)..i : fate'[m].what = "skipped"  BY <1>1, <3>2, <4>1, <4>3
      <4> QED BY <2>1, <3>2, <4>1, <4>2, <4>4 DEF SkipFollowsFailure
    <3> QED BY <2>4, <3>1, <3>2
  <2>5. ASSUME claude'.serviceOutage PROVE ServiceFailed(i)' /\ claude'.signalRecorded
    <3>1. CASE claude.serviceOutage
      <4>1. ServiceFailed(i) /\ claude.signalRecorded  BY <3>1 DEF SkipInv
      <4>2. claude'.outageConfirmed = claude.outageConfirmed /\ claude'.signalRecorded  BY <4>1 DEF Learnt
      <4> QED BY <2>1, <2>2, <4>1, <4>2 DEF ServiceFailed
    <3>2. CASE ~claude.serviceOutage
      <4>1. /\ ~chain.pinned /\ IsClaude(Leg) /\ claude'.signalRecorded
            /\ f.what = "down" \/ (f.what = "blip" /\ (claude'.outageConfirmed \/ claude.transportFailures # 0))
        BY <2>5, <3>2 DEF Learnt
      <4>2. n \in 1..n  OBVIOUS
      <4>3. CASE f.what = "down"
        BY <2>1, <2>3, <4>1, <4>2, <4>3 DEF ServiceFailed
      <4>4. CASE f.what = "blip" /\ claude'.outageConfirmed
        BY <2>1, <2>3, <4>1, <4>2, <4>4 DEF ServiceFailed
      <4>5. CASE f.what = "blip" /\ claude.transportFailures # 0
        <5>1. PICK m \in 1..(i - 1) : ClaudeFailed(m, {"blip"})  BY <4>5 DEF SkipInv
        <5>2. m \in 1..i /\ m # i /\ ClaudeFailed(m, {"blip"})'  BY <1>1, <2>2, <5>1
        <5> QED BY <2>1, <2>3, <4>1, <4>2, <4>5, <5>2 DEF ServiceFailed
      <4> QED BY <4>1, <4>3, <4>4, <4>5
    <3> QED BY <3>1, <3>2
  <2>6. ASSUME claude'.transportFailures # 0 PROVE \E j \in 1..i : ClaudeFailed(j, {"blip"})'
    <3>1. n \in 1..n  OBVIOUS
    <3>2. CASE claude.transportFailures # 0  BY <2>2, <3>2 DEF SkipInv
    <3>3. CASE IsClaude(Leg) /\ f.what = "blip"
      <4>1. ClaudeFailed(n, {"blip"})'  BY <2>3, <3>3
      <4> QED BY <3>1, <4>1
    <3> QED BY <2>6, <3>2, <3>3 DEF Learnt
  <2> QED BY <1>2, <2>1, <2>4, <2>5, <2>6 DEF SkipInv, InFlight, Ended
<1> QED BY <1>3, <1>4

\* The walk ends, or does not concern the skipping.
LEMMA SkipsStop ==
    ASSUME TypeOK, History, SkipInv, UNCHANGED chain, i' = i, NEW f,
           fate' = [fate EXCEPT ![i] = f] \/ UNCHANGED fate, f.what # "skipped", NEW w, Learnt(w),
           \/ pc' \in Ended
           \/ /\ pc \notin Ended /\ UNCHANGED claude
              /\ \/ skipProfilesForUpstream' = NoUpstream
                 \/ pc' = pc /\ UNCHANGED skipProfilesForUpstream
                 \/ InFlight /\ UNCHANGED skipProfilesForUpstream
    PROVE  SkipInv'
<1>1. /\ i \in Legs /\ i \in Nat /\ DOMAIN fate = Legs
      /\ fate'[i].what = "skipped" => fate[i].what = "skipped"
      /\ \A k \in Legs : k # i => fate'[k] = fate[k]
      /\ \A j \in 1..(i - 1) : j \in Legs /\ fate'[j] = fate[j]
  BY LegFacts DEF TypeOK
<1>2. (\A k \in Legs : fate[k].what = "skipped" => SpokenFor(k))'
  BY <1>1, SpokenStays
<1>3. CASE pc' \in Ended
  BY <1>2, <1>3 DEF SkipInv, InFlight, Ended
<1>4. CASE pc' \notin Ended
  <2>1. pc \notin Ended /\ UNCHANGED claude  BY <1>4
  <2>2. \A how : \A j \in 1..(i - 1) : ClaudeFailed(j, how) => ClaudeFailed(j, how)'
    BY <1>1 DEF ClaudeFailed
  <2>3. claude'.serviceOutage => ServiceFailed(i)' /\ claude'.signalRecorded
    BY <2>1, <2>2 DEF SkipInv, ServiceFailed
  <2>4. claude'.transportFailures # 0 => \E j \in 1..(i - 1) : ClaudeFailed(j, {"blip"})'
    BY <2>1, <2>2 DEF SkipInv
  <2>5. (InFlight => skipProfilesForUpstream = NoUpstream)'
    BY <1>4, <2>1 DEF SkipInv, InFlight
  <2>6. ASSUME pc' = "next", skipProfilesForUpstream' # NoUpstream PROVE SkipFollowsFailure'
    <3>1. pc = "next" /\ UNCHANGED skipProfilesForUpstream
      BY <1>4, <2>6 DEF SkipInv, Ended, InFlight
    <3>2. PICK j \in 1..(i - 1) :
             /\ ClaudeFailed(j, {"blip", "down"}) /\ chain.legs[j].upstream = skipProfilesForUpstream
             /\ \A m \in (j + 1)..(i - 1) : fate[m].what = "skipped"
      BY <2>6, <3>1 DEF SkipInv, SkipFollowsFailure
    <3>3. \A m \in (j + 1)..(i - 1) : m \in 1..(i - 1)  BY <1>1, <3>2
    <3>4. \A m \in (j + 1)..(i - 1) : fate'[m].what = "skipped"  BY <1>1, <3>2, <3>3
    <3> QED BY <2>2, <3>1, <3>2, <3>4 DEF SkipFollowsFailure
  <2> QED BY <1>2, <2>3, <2>4, <2>5, <2>6 DEF SkipInv
<1> QED BY <1>3, <1>4

\* What comes of a request that was sent.
LEMMA CameSkips ==
    ASSUME TypeOK, History, SkipInv, pc \in {"sent", "reading"}, UNCHANGED chain,
           Advance \/ (i' = i /\ pc' \in Ended), NEW w \in Spent, NEW proved,
           \/ /\ UNCHANGED fate /\ Learnt(fate[i].what)
              /\ skipProfilesForUpstream' \in {skipProfilesForUpstream, NoUpstream}
           \/ /\ fate' = [fate EXCEPT ![i] = [what |-> w, proved |-> proved]] /\ Learnt(w)
              /\ \/ skipProfilesForUpstream' \in {skipProfilesForUpstream, NoUpstream}
                 \/ skipProfilesForUpstream' = Leg.upstream /\ IsClaude(Leg) /\ w \in {"blip", "down"}
    PROVE  SkipInv'
<1>1. pc \notin Ended /\ skipProfilesForUpstream = NoUpstream /\ fate[i].what \in Spent
  BY DEF SkipInv, InFlight, Ended, History, FateFollowsWalk, Sent, Spent
<1>2. fate = [fate EXCEPT ![i] = fate[i]] /\ "skipped" \notin Spent
  BY DEF TypeOK, Spent
<1>3. PICK f : /\ fate' = [fate EXCEPT ![i] = f] /\ Learnt(f.what) /\ f.what \in Spent
               /\ \/ skipProfilesForUpstream' = NoUpstream
                  \/ skipProfilesForUpstream' = Leg.upstream /\ IsClaude(Leg) /\ f.what \in {"blip", "down"}
  <2>1. CASE UNCHANGED fate /\ Learnt(fate[i].what) /\ skipProfilesForUpstream' = NoUpstream
    BY <1>1, <1>2, <2>1
  <2>2. CASE fate' = [fate EXCEPT ![i] = [what |-> w, proved |-> proved]] /\ Learnt(w)
             /\ \/ skipProfilesForUpstream' = NoUpstream
                \/ skipProfilesForUpstream' = Leg.upstream /\ IsClaude(Leg) /\ w \in {"blip", "down"}
    <3> DEFINE f == [what |-> w, proved |-> proved]
    <3>1. f.what = w  OBVIOUS
    <3> HIDE DEF f
    <3>2. fate' = [fate EXCEPT ![i] = f]  BY <2>2 DEF f
    <3> QED BY <2>2, <3>1, <3>2
  <2> QED BY <1>1, <2>1, <2>2
<1>4. CASE Advance  BY <1>1, <1>2, <1>3, <1>4, SkipsGoOn
<1>5. CASE i' = i /\ pc' \in Ended  BY <1>1, <1>2, <1>3, <1>5, SkipsStop
<1> QED BY <1>4, <1>5

\* A leg is refused, or an attempt begins.
LEMMA GateSkips == ASSUME TypeOK, History, SkipInv, Gate PROVE SkipInv'
<1>1. \A w : UNCHANGED claude => Learnt(w)  BY DEF Learnt
<1>2. /\ "next" \notin Ended /\ "admitted" \notin Ended /\ "stopped" \in Ended
      /\ pc = "admitted" => skipProfilesForUpstream = NoUpstream
  BY DEF Ended, SkipInv, InFlight
<1>3. CASE SkipProfile
  <2>1. SpokenFor(i)
    BY <1>3 DEF SkipProfile, Skipped, Leg, SkipInv, SkipFollowsFailure, SpokenFor, UpstreamFailed
  <2> QED BY <1>1, <1>2, <1>3, <2>1, SkipsGoOn DEF SkipProfile
<1>4. CASE Cancelled
  <2> DEFINE f == [what |-> "none"]
  <2>1. f.what # "skipped"  OBVIOUS
  <2> QED BY <1>1, <1>2, <1>4, <2>1, SkipsStop DEF Cancelled
<1>5. CASE SuppressPaid
  BY <1>1, <1>2, <1>5, SkipsGoOn DEF SuppressPaid
<1>6. CASE SkipServiceOutage
  <2>1. SpokenFor(i)
    BY <1>2, <1>6 DEF SkipServiceOutage, SkipInv, SpokenFor
  <2> QED BY <1>1, <1>2, <1>6, <2>1, SkipsGoOn DEF SkipServiceOutage
<1>7. CASE RefuseQuota
  BY <1>1, <1>2, <1>7, SkipsGoOn DEF RefuseQuota
<1>8. CASE RefuseInstability
  BY <1>1, <1>2, <1>8, SkipsGoOn DEF RefuseInstability
<1>9. CASE RefuseCircuit
  BY <1>1, <1>2, <1>9, SkipsGoOn DEF RefuseCircuit
<1>10. ASSUME NEW auth \in BOOLEAN, RefuseUnproved(auth) PROVE SkipInv'
  <2>1. \A w : Learnt(w)  BY <1>10, LocalsLearn DEF RefuseUnproved
  <2> QED BY <1>2, <1>10, <2>1, SkipsGoOn DEF RefuseUnproved
<1>11. ASSUME NEW probe \in BOOLEAN, NEW bypass \in BOOLEAN, Admit(probe, bypass) PROVE SkipInv'
  <2> DEFINE f == [what |-> "none"]
  <2>1. f.what # "skipped"  OBVIOUS
  <2> QED BY <1>1, <1>2, <1>11, <2>1, SkipsStop DEF Admit
<1>12. CASE Spill
  BY <1>1, <1>2, <1>12, SkipsGoOn DEF Spill
<1>13. CASE GiveUp
  <2> DEFINE f == [what |-> "none"]
  <2>1. f.what # "skipped"  OBVIOUS
  <2> QED BY <1>1, <1>2, <1>13, <2>1, SkipsStop DEF GiveUp
<1>14. CASE RefuseProbe
  BY <1>1, <1>2, <1>14, SkipsGoOn DEF RefuseProbe
<1>15. ASSUME NEW quota \in BOOLEAN, Send(quota) PROVE SkipInv'
  <2> DEFINE f == [what |-> "sent", proved |-> {}]
  <2>1. f.what # "skipped" /\ fate' = [fate EXCEPT ![i] = f] /\ Learnt("sent")  BY <1>1, <1>15 DEF Send
  <2>2. UNCHANGED <<chain, i, claude, skipProfilesForUpstream>> /\ InFlight /\ pc \notin Ended
    BY <1>2, <1>15 DEF Send, InFlight
  <2> HIDE DEF f
  <2> QED BY <2>1, <2>2, SkipsStop
<1> QED BY <1>3, <1>4, <1>5, <1>6, <1>7, <1>8, <1>9, <1>10, <1>11, <1>12, <1>13, <1>14, <1>15 DEF Gate

\* An attempt ends, the response's body among what it ends.
LEMMA OutcomeSkips == ASSUME TypeOK, History, SkipInv, Outcome PROVE SkipInv'
<1>1. \A w : UNCHANGED claude => Learnt(w)  BY DEF Learnt
<1>2. \A confirmed \in BOOLEAN : \A w :
         /\ Claude(claude) => Learnt(w)
         /\ Claude(AuthOrClient(claude)) => Learnt(w)
         /\ Claude(AfterStreamStart(claude, confirmed)) => Learnt(w)
         /\ Claude(AfterTransport(claude, confirmed)) => Learnt("blip")
         /\ Claude(After5xx(claude, confirmed)) => Learnt("down")
  BY LocalsLearn
<1>3. {"sent", "blip", "down"} = Spent /\ {"stopped", "answered"} \subseteq Ended
  BY DEF Spent, Ended
<1>4. CASE Abandoned
  BY <1>1, <1>3, <1>4, CameSkips DEF Abandoned
<1>5. CASE Headers
  <2>1. fate[i].what # "skipped" /\ pc \notin Ended
    BY <1>5 DEF Headers, History, FateFollowsWalk, Sent, Ended
  <2> QED BY <1>1, <1>5, <2>1, SkipsStop DEF Headers, InFlight
<1>6. CASE UnreadAbandoned
  BY <1>1, <1>3, <1>6, CameSkips DEF UnreadAbandoned
<1>7. CASE UnreadQuota
  BY <1>1, <1>3, <1>7, CameSkips DEF UnreadQuota
<1>8. CASE UnreadAuth
  BY <1>2, <1>3, <1>8, CameSkips DEF UnreadAuth
<1>9. CASE UnreadRejection
  BY <1>2, <1>3, <1>9, CameSkips DEF UnreadRejection
<1>10. ASSUME NEW auth \in BOOLEAN, Unsent(auth) PROVE SkipInv'
  <2>1. Learnt(fate[i].what)  BY <1>2, <1>10 DEF Unsent
  <2> QED BY <1>3, <1>10, <2>1, CameSkips DEF Unsent
<1>11. ASSUME NEW limited \in BOOLEAN, NEW confirmed \in BOOLEAN, HeaderTimeout(limited, confirmed) PROVE SkipInv'
  <2>1. CASE limited  BY <1>1, <1>3, <1>11, <2>1, CameSkips DEF HeaderTimeout
  <2>2. CASE ~limited
    <3>1. Learnt("blip")  BY <1>2, <1>11, <2>2 DEF HeaderTimeout
    <3> QED BY <1>3, <1>11, <2>2, <3>1, CameSkips DEF HeaderTimeout
  <2> QED BY <2>1, <2>2
<1>12. ASSUME NEW local \in BOOLEAN, NEW confirmed \in BOOLEAN, TransportError(local, confirmed) PROVE SkipInv'
  <2>1. Learnt("blip")  BY <1>2, <1>12 DEF TransportError
  <2> QED BY <1>3, <1>12, <2>1, CameSkips DEF TransportError
<1>13. ASSUME NEW local \in BOOLEAN, NEW confirmed \in BOOLEAN, StreamStartFails(local, confirmed) PROVE SkipInv'
  <2>1. Learnt("blip")  BY <1>2, <1>13 DEF StreamStartFails
  <2> QED BY <1>3, <1>13, <2>1, CameSkips DEF StreamStartFails
<1>14. ASSUME NEW is5xx \in BOOLEAN, NEW confirmed \in BOOLEAN, BodyFails(is5xx, confirmed) PROVE SkipInv'
  <2>1. CASE is5xx
    <3>1. Learnt("down")  BY <1>2, <1>14, <2>1 DEF BodyFails
    <3> QED BY <1>3, <1>14, <2>1, <3>1, CameSkips DEF BodyFails
  <2>2. CASE ~is5xx
    <3>1. Learnt("blip")  BY <1>2, <1>14, <2>2 DEF BodyFails
    <3> QED BY <1>3, <1>14, <2>2, <3>1, CameSkips DEF BodyFails
  <2> QED BY <2>1, <2>2
<1>15. ASSUME NEW endTurn \in BOOLEAN, EmptyPrelude(endTurn) PROVE SkipInv'
  <2>1. CASE UNCHANGED <<skipProfilesForUpstream, fate>>
    BY <1>1, <1>3, <1>15, <2>1, CameSkips DEF EmptyPrelude
  <2>2. CASE SkipAccounts /\ Fate("blip", {})
    BY <1>1, <1>3, <1>15, <2>2, CameSkips DEF EmptyPrelude
  <2> QED BY <1>15, <2>1, <2>2 DEF EmptyPrelude
<1>16. ASSUME NEW stream \in BOOLEAN, Answer(stream) PROVE SkipInv'
  BY <1>1, <1>3, <1>16, CameSkips DEF Answer
<1>17. ASSUME NEW confirmed \in BOOLEAN, ServerError(confirmed) PROVE SkipInv'
  <2>1. Learnt("down")  BY <1>2, <1>17 DEF ServerError
  <2> QED BY <1>3, <1>17, <2>1, CameSkips DEF ServerError
<1>18. CASE Throttled
  BY <1>1, <1>3, <1>18, CameSkips DEF Throttled
<1>19. ASSUME NEW kind, ClientError(kind) PROVE SkipInv'
  <2>1. Learnt("sent") /\ Learnt(fate[i].what)  BY <1>2, <1>19 DEF ClientError
  <2>2. \/ UNCHANGED fate
        \/ Fate("sent", {"route-unavailable"}) \/ Fate("sent", {"quota-exhausted"})
    BY <1>19 DEF ClientError
  <2>3. Advance \/ (i' = i /\ pc' = "answered")  BY <1>19 DEF ClientError
  <2> QED BY <1>3, <1>19, <2>1, <2>2, <2>3, CameSkips DEF ClientError
<1>20. CASE CloseBody
  <2> DEFINE f == [what |-> "none"]
  <2>1. f.what # "skipped"  OBVIOUS
  <2> QED BY <1>1, <1>3, <1>20, <2>1, SkipsStop DEF CloseBody
<1> QED BY <1>4, <1>5, <1>6, <1>7, <1>8, <1>9, <1>10, <1>11, <1>12, <1>13, <1>14, <1>15, <1>16, <1>17,
           <1>18, <1>19, <1>20 DEF Outcome

LEMMA NextSkips == IInv /\ SkipInv /\ [Next]_vars => SkipInv'
<1> SUFFICES ASSUME IInv, SkipInv, [Next]_vars PROVE SkipInv'
  OBVIOUS
<1>1. TypeOK /\ History  BY DEF IInv
<1>2. CASE Others \/ UNCHANGED vars
  <2>1. UNCHANGED <<chain, i, pc, skipProfilesForUpstream, claude, fate>>  BY <1>2 DEF Others, vars
  <2> QED BY <2>1 DEF SkipInv, SpokenFor, UpstreamFailed, ServiceFailed, ClaudeFailed, SkipFollowsFailure,
                      InFlight, Legs
<1> QED BY <1>1, <1>2, GateSkips, OutcomeSkips DEF Next

LEMMA InitSkips == Init => SkipInv
<1> SUFFICES ASSUME Init PROVE SkipInv
  OBVIOUS
<1>1. /\ pc = "next" /\ skipProfilesForUpstream = NoUpstream
      /\ claude.serviceOutage = FALSE /\ claude.transportFailures = 0
      /\ \A k \in Legs : fate[k].what = "none"
  BY DEF Init, Legs
<1> QED BY <1>1 DEF SkipInv, InFlight

LEMMA SpecSkipInv == Spec => []SkipInv
BY InitSkips, NextSkips, SpecIInv, PTL DEF Spec

-----------------------------------------------------------------------------
(* Results *)

\* The walk's variables keep their types: the index stays in the chain, the
\* skipped upstream and the reserved account are those of a leg of it.
THEOREM TypeCorrect == Spec => []TypeOK
<1>1. IInv => TypeOK  BY DEF IInv
<1> QED BY <1>1, SpecIInv, PTL

\* For chains of any length and any policy, the first metered leg that a
\* request is sent to was preceded by a proof, from every unmetered leg that
\* was visited, of a reason the chain permits: allowed and loadAllowed of the
\* cost policy look at routes only, and this says what that amounts to.
THEOREM MoneyNeedsEvidence == Spec => []PaidNeedsEvidence
<1>1. IInv => PaidNeedsEvidence  BY DEF IInv, History
<1> QED BY <1>1, SpecIInv, PTL

\* For chains of any length: a walk that sent nothing ended at a last leg that
\* was refused for a quota, an account, the cost policy or an open circuit, and
\* never because its legs were quarantined for instability, busy or skipped.
THEOREM UnsentWalksAreRefused == Spec => []UnsentMeansRefused
<1>1. IInv => UnsentMeansRefused  BY DEF IInv, History
<1> QED BY <1>1, SpecIInv, PTL

\* For chains of any length and any evidence: a Claude account is passed over
\* unasked only for a failure on the attempt before that its upstream answers
\* for, or because Claude was found down earlier in the same walk.
THEOREM SkipsAreJustified == Spec => []SkipsAreEarned
<1>1. SkipInv => SkipsAreEarned  BY DEF SkipInv, SpokenFor, SkipsAreEarned
<1> QED BY <1>1, SpecSkipInv, PTL

\* paidStarted, which lets later paid legs through without evidence, is set
\* exactly when the chain starts with money or a metered leg was sent.
THEOREM SpendingIsKnown == Spec => []PaidStartedMeans
<1>1. IInv => PaidStartedMeans  BY DEF IInv, History
<1> QED BY <1>1, SpecIInv, PTL

------------------------------------------------------------------------------
(***************************************************************************)
(* Proofs about Quarantine, for any requests, thresholds, durations and    *)
(* horizon: a route is quarantined by enough failures in one window, and   *)
(* healed by a streak of answers newer than its last failure.              *)
(*                                                                         *)
(* Invariant (QuarantineInv): what the record counts is what happened.     *)
(***************************************************************************)

\* The duration of a level after one of x.
Doubled(level, x) ==
  IF level <= 1 THEN BaseDuration
  ELSE IF x >= MaxDuration THEN x
  ELSE IF 2 * x > MaxDuration THEN MaxDuration
  ELSE 2 * x

Doublings(g, n) == \A k \in 0..n : g[k] = Doubled(k, g[k - 1])

\* A set of numbers with 0 and the successors of its members has every number.
LEMMA EveryNat ==
  ASSUME NEW N, 0 \in N, \A k \in Nat : k \in N => k + 1 \in N
  PROVE  Nat \subseteq N
<1> DEFINE T == {k \in Nat : k \notin N}
<1> SUFFICES ASSUME T # {} PROVE FALSE
  OBVIOUS
<1>1. PICK k \in T : \A y \in T : <<y, k>> \notin OpToRel(<, Nat)
  <2> T \subseteq Nat  OBVIOUS
  <2> HIDE DEF T
  <2> QED BY NatLessThanWellFounded, WFMin
<1>2. k \in Nat /\ k # 0 /\ k \notin N  OBVIOUS
<1>3. k - 1 \in Nat /\ (k - 1) + 1 = k  BY <1>2
<1>4. k - 1 \in T  BY <1>2, <1>3
<1>5. ~(k - 1 < k)  BY <1>1, <1>3, <1>4 DEF OpToRel
<1> QED BY <1>2, <1>5

\* quarantineDuration's recursion has a solution, and the function is one.
LEMMA DurationDoubles ==
  /\ DOMAIN Duration = Nat
  /\ \A n \in Nat : Duration[n] = Doubled(n, Duration[n - 1])
<1> DEFINE D(n) == CHOOSE g : Doublings(g, n)
           N == {n \in Nat : \E g : Doublings(g, n)}
           f == [n \in Nat |-> D(n)[n]]
<1>1. 0 \in N
  <2>1. Doublings([k \in 0..0 |-> BaseDuration], 0)
    BY DEF Doublings, Doubled
  <2> QED BY <2>1
<1>2. ASSUME NEW n \in Nat, n \in N PROVE n + 1 \in N
  <2>1. PICK g : Doublings(g, n)
    BY <1>2
  <2> DEFINE h == [k \in 0..(n + 1) |-> IF k = n + 1 THEN Doubled(k, g[n]) ELSE g[k]]
  <2>2. ASSUME NEW k \in 0..(n + 1) PROVE h[k] = Doubled(k, h[k - 1])
    <3>1. CASE k = n + 1
      <4>1. h[k] = Doubled(k, g[n])
        BY <3>1
      <4>2. h[k - 1] = g[n]
        BY <3>1
      <4> QED BY <4>1, <4>2
    <3>2. CASE k # n + 1
      <4>1. k \in 0..n /\ h[k] = g[k] /\ g[k] = Doubled(k, g[k - 1])
        BY <2>1, <2>2, <3>2 DEF Doublings
      <4>2. CASE k = 0
        BY <4>1, <4>2 DEF Doubled
      <4>3. CASE k # 0
        <5>1. k - 1 \in 0..(n + 1) /\ k - 1 # n + 1
          BY <4>1, <4>3
        <5>2. h[k - 1] = g[k - 1]
          BY <5>1
        <5> QED BY <4>1, <5>2
      <4> QED BY <4>2, <4>3
    <3> QED BY <3>1, <3>2
  <2>3. Doublings(h, n + 1)
    <3> HIDE DEF h
    <3> QED BY <2>2 DEF Doublings
  <2> QED BY <2>3
<1>3. \A n \in Nat : Doublings(D(n), n)
  <2>1. Nat \subseteq N
    <3> HIDE DEF N
    <3> QED BY <1>1, <1>2, EveryNat
  <2> QED BY <2>1
<1>4. \A n \in Nat : D(n + 1)[n] = D(n)[n]
  <2> DEFINE E == {k \in Nat : \A n \in Nat : k <= n => D(n + 1)[k] = D(n)[k]}
  <2>1. 0 \in E
    <3> SUFFICES ASSUME NEW n \in Nat PROVE D(n + 1)[0] = D(n)[0]
      OBVIOUS
    <3>1. 0 \in 0..(n + 1) /\ 0 \in 0..n /\ n + 1 \in Nat
      OBVIOUS
    <3>2. Doublings(D(n + 1), n + 1) /\ Doublings(D(n), n)
      BY <1>3, <3>1
    <3> HIDE DEF D
    <3> QED BY <3>1, <3>2 DEF Doublings, Doubled
  <2>2. ASSUME NEW k \in Nat, k \in E PROVE k + 1 \in E
    <3> SUFFICES ASSUME NEW n \in Nat, k + 1 <= n PROVE D(n + 1)[k + 1] = D(n)[k + 1]
      OBVIOUS
    <3>1. k + 1 \in 0..(n + 1) /\ k + 1 \in 0..n /\ n + 1 \in Nat /\ k <= n /\ (k + 1) - 1 = k
      OBVIOUS
    <3>2. Doublings(D(n + 1), n + 1) /\ Doublings(D(n), n)
      BY <1>3, <3>1
    <3>3. D(n + 1)[k] = D(n)[k]
      BY <2>2, <3>1
    <3> HIDE DEF D
    <3> QED BY <3>1, <3>2, <3>3 DEF Doublings
  <2>3. Nat \subseteq E
    <3> HIDE DEF E
    <3> QED BY <2>1, <2>2, EveryNat
  <2> QED BY <2>3
<1>5. \A n \in Nat : f[n] = Doubled(n, f[n - 1])
  <2> SUFFICES ASSUME NEW n \in Nat PROVE f[n] = Doubled(n, f[n - 1])
    OBVIOUS
  <2>1. f[n] = Doubled(n, D(n)[n - 1])
    <3>1. Doublings(D(n), n) /\ n \in 0..n /\ f[n] = D(n)[n]
      BY <1>3
    <3> HIDE DEF D, f
    <3> QED BY <3>1 DEF Doublings
  <2>2. CASE n = 0
    BY <2>1, <2>2 DEF Doubled
  <2>3. CASE n # 0
    <3>1. n - 1 \in Nat /\ (n - 1) + 1 = n
      BY <2>3
    <3>2. D(n)[n - 1] = D(n - 1)[n - 1]
      BY <1>4, <3>1
    <3>3. f[n - 1] = D(n - 1)[n - 1]
      BY <3>1
    <3> QED BY <2>1, <3>2, <3>3
  <2> QED BY <2>2, <2>3
<1>6. f = [n \in Nat |-> Doubled(n, f[n - 1])]
  <2> HIDE DEF D
  <2> QED BY <1>5
<1> DEFINE Is(g) == g = [n \in Nat |-> Doubled(n, g[n - 1])]
<1>7. Is(CHOOSE g : Is(g))
  <2>1. \E g : Is(g)
    <3>1. Is(f)
      BY <1>6
    <3> HIDE DEF Is, f
    <3> QED BY <3>1
  <2> HIDE DEF Is
  <2> QED BY <2>1
<1>8. Duration = CHOOSE g : Is(g)
  BY DEF Duration, Doubled
<1> QED BY <1>7, <1>8

\* Every level has a duration, and none is nothing.
LEMMA DurationIsPositive == \A n \in Nat : Duration[n] \in Nat \ {0}
<1> DEFINE N == {n \in Nat : Duration[n] \in Nat \ {0}}
<1>1. 0 \in N
  BY DurationDoubles, QuarantineAssumption DEF Doubled
<1>2. ASSUME NEW n \in Nat, n \in N PROVE n + 1 \in N
  <2>1. Duration[n + 1] = Doubled(n + 1, Duration[n])
    <3>1. n + 1 \in Nat /\ (n + 1) - 1 = n
      OBVIOUS
    <3> QED BY <3>1, DurationDoubles
  <2> QED BY <1>2, <2>1, QuarantineAssumption DEF Doubled
<1> HIDE DEF N
<1>3. Nat \subseteq N
  BY <1>1, <1>2, EveryNat
<1> QED BY <1>3 DEF N

\* The failures of the window that the route counts signals in.
InWindow(q, seen) == {t \in seen : t >= q.windowStart}

\* The record agrees with the history: it was last blamed for the same failure,
\* its clean answers are of the streak, and every signal is a failure of its window.
\* In quarantine it counts neither.
RecordIsHistory ==
  /\ route.lastFailure = failedAt
  /\ route.successes <= streak
  /\ route.signals <= Cardinality(InWindow(route, failures))
  /\ now < route.until => route.successes = 0 /\ route.signals = 0

\* No failure is in the future, and no window begins there.
Past == route.windowStart <= now /\ \A t \in failures : t <= now

QuarantineInv == QuarantineTypeOK /\ Past /\ RecordIsHistory

\* A new process has seen nothing.
LEMMA InitQuarantineInv == ASSUME QuarantineInit PROVE QuarantineInv
<1>1. 0 \in Instants /\ 1 \in Instants \ {0} /\ 0 \in Nat
  BY QuarantineAssumption DEF Instants
<1>2. Healthy \in RouteStates
  BY <1>1 DEF Healthy, RouteStates
<1>3. QuarantineTypeOK
  BY <1>1, <1>2 DEF QuarantineInit, QuarantineTypeOK
<1>4. InWindow(route, failures) = {}
  BY DEF QuarantineInit, InWindow
<1>5. Cardinality({}) = 0
  BY FS_EmptySet
<1> QED BY <1>1, <1>3, <1>4, <1>5 DEF QuarantineInit, QuarantineInv, Past, RecordIsHistory, Healthy

\* The clock goes on with every step that reads it.
LEMMA AdvanceGrows ==
  ASSUME QuarantineInv, Passes
  PROVE  now' \in Instants \ {0} /\ now' \in Nat /\ now \in Nat /\ now < now'
BY QuarantineAssumption DEF QuarantineInv, QuarantineTypeOK, Passes, Instants

\* The sets of failures that are counted are finite.
LEMMA WindowsAreFinite ==
  ASSUME NEW seen, seen \subseteq Instants, NEW q
  PROVE  IsFiniteSet(InWindow(q, seen)) /\ Cardinality(InWindow(q, seen)) \in Nat
<1>1. IsFiniteSet(Instants)
  <2>1. 0 \in Int /\ MaxTime \in Int
    BY QuarantineAssumption
  <2> QED BY <2>1, FS_Interval DEF Instants
<1>2. InWindow(q, seen) \subseteq Instants
  BY DEF InWindow
<1> QED BY <1>1, <1>2, FS_Subset, FS_CardinalityType

\* An expired quarantine turns into probation and nothing else.
LEMMA ExpiredKeeps ==
  ASSUME NEW q \in RouteStates, NEW t \in Nat
  PROVE  LET e == Expired(q, t) IN
         /\ e \in RouteStates /\ e.lastFailure = q.lastFailure /\ e.successes = q.successes
         /\ e.signals = q.signals /\ e.windowStart = q.windowStart /\ e.level = q.level
         /\ e.until # 0 => e.until = q.until
BY DEF Expired, RouteStates

\* A success is ignored, or counted, or heals the route.
LEMMA AfterSuccessCases ==
  ASSUME NEW q \in RouteStates, NEW s \in Instants, NEW t \in Nat
  PROVE  \/ AfterSuccess(q, s, t) = q
         \/ /\ q.lastFailure <= s /\ q.until <= t
            /\ \/ /\ q.successes + 1 >= RecoverySuccesses
                  /\ AfterSuccess(q, s, t) = [Healthy EXCEPT !.lastFailure = q.lastFailure]
               \/ /\ ~(q.successes + 1 >= RecoverySuccesses)
                  /\ AfterSuccess(q, s, t) = [q EXCEPT !.successes = q.successes + 1]
<1>1. q.lastFailure \in Nat /\ q.until \in Nat /\ s \in Nat
  BY QuarantineAssumption DEF RouteStates, Instants
<1> QED BY <1>1 DEF AfterSuccess, IgnoresSuccess

\* Each action keeps the invariant: the gate, which may begin a probation,
LEMMA CheckQuarantineInv ==
  ASSUME QuarantineInv, NEW r \in Requests, NEW last \in BOOLEAN, Check(r, last)
  PROVE  QuarantineInv' /\ route'.level = route.level
<1>1. now' \in Instants \ {0} /\ now' \in Nat /\ now \in Nat /\ now < now'
  BY AdvanceGrows DEF Check
<1>2. route \in RouteStates /\ route' = Expired(route, now')
  BY DEF Check, QuarantineInv, QuarantineTypeOK
<1>3. /\ route' \in RouteStates /\ route'.lastFailure = route.lastFailure
      /\ route'.successes = route.successes /\ route'.signals = route.signals
      /\ route'.windowStart = route.windowStart /\ route'.level = route.level
      /\ route'.until # 0 => route'.until = route.until
  BY <1>1, <1>2, ExpiredKeeps
<1>4. stage' \in [Requests -> {"idle", "admitted", "sent"}]
  BY DEF Check, QuarantineInv, QuarantineTypeOK
<1>5. InWindow(route', failures') = InWindow(route, failures)
  BY <1>3 DEF InWindow, Check
<1>6. QuarantineTypeOK' /\ Past'
  BY <1>1, <1>3, <1>4, QuarantineAssumption DEF Check, QuarantineInv, QuarantineTypeOK, RouteStates, Past, Instants
<1>7. RecordIsHistory'
  <2>1. UNCHANGED <<failedAt, streak>>
    BY DEF Check
  <2>2. now' < route'.until => now < route.until
    BY <1>1, <1>2, <1>3 DEF RouteStates
  <2> QED BY <1>3, <1>5, <2>1, <2>2 DEF QuarantineInv, RecordIsHistory
<1> QED BY <1>3, <1>6, <1>7 DEF QuarantineInv

\* a success,
LEMMA SucceedQuarantineInv ==
  ASSUME QuarantineInv, NEW r \in Requests, Succeed(r)
  PROVE  QuarantineInv' /\ (route'.level < route.level => streak' >= RecoverySuccesses)
         /\ route'.level <= route.level
<1>1. now' \in Instants \ {0} /\ now' \in Nat /\ now \in Nat /\ now < now'
  BY AdvanceGrows DEF Succeed
<1>2. /\ route \in RouteStates /\ started[r] \in Instants /\ failures \subseteq Instants
      /\ failedAt \in Instants /\ streak \in Nat /\ RecoverySuccesses \in Nat \ {0}
      /\ route.lastFailure = failedAt /\ route.successes <= streak
  BY QuarantineAssumption DEF QuarantineInv, QuarantineTypeOK, RecordIsHistory
<1>3. /\ route' = AfterSuccess(route, started[r], now')
      /\ streak' = IF started[r] >= failedAt /\ streak < RecoverySuccesses THEN streak + 1 ELSE streak
      /\ UNCHANGED <<offline, started, failures, failedAt>>
  BY DEF Succeed
<1>4. /\ route.successes \in Nat /\ route.level \in Nat /\ route.until \in Nat
      /\ route.signals \in Nat /\ failedAt \in Nat /\ started[r] \in Nat
  BY <1>2, QuarantineAssumption DEF RouteStates, Instants
<1>5. stage' \in [Requests -> {"idle", "admitted", "sent"}]
  BY DEF Succeed, QuarantineInv, QuarantineTypeOK
<1>6. streak' \in Nat /\ streak <= streak'
  BY <1>2, <1>3
<1>7. /\ route' \in RouteStates /\ route'.lastFailure = failedAt /\ route'.successes <= streak'
      /\ route'.signals <= Cardinality(InWindow(route', failures))
      /\ now' < route'.until => route'.successes = 0 /\ route'.signals = 0
      /\ route'.level < route.level => streak' >= RecoverySuccesses
      /\ route'.level <= route.level
      /\ route'.windowStart <= now'
  <2>0. route.windowStart \in Nat /\ route.windowStart <= now
    BY <1>2, QuarantineAssumption DEF QuarantineInv, Past, RouteStates, Instants
  <2>1. CASE route' = route
    BY <2>0, <1>1, <1>2, <1>4, <1>6, <2>1 DEF QuarantineInv, RecordIsHistory
  <2>2. CASE /\ route.lastFailure <= started[r] /\ route.until <= now'
             /\ route.successes + 1 >= RecoverySuccesses
             /\ route' = [Healthy EXCEPT !.lastFailure = route.lastFailure]
    <3>1. route' \in RouteStates
      <4>1. 0 \in Instants /\ 0 \in Nat
        BY QuarantineAssumption DEF Instants
      <4> QED BY <1>2, <2>2, <4>1 DEF Healthy, RouteStates
    <3>2. /\ route'.lastFailure = failedAt /\ route'.successes = 0 /\ route'.signals = 0
          /\ route'.until = 0 /\ route'.level = 0 /\ route'.windowStart = 0
      BY <1>2, <2>2 DEF Healthy
    <3>3. streak' >= RecoverySuccesses
      BY <1>2, <1>3, <1>4, <2>2
    <3>4. Cardinality(InWindow(route', failures)) \in Nat
      BY <1>2, WindowsAreFinite
    <3> QED BY <1>1, <1>4, <1>6, <3>1, <3>2, <3>3, <3>4
  <2>3. CASE /\ route.lastFailure <= started[r] /\ route.until <= now'
             /\ route' = [route EXCEPT !.successes = route.successes + 1]
             /\ ~(route.successes + 1 >= RecoverySuccesses)
    <3> DEFINE n == route.successes + 1
    <3>1. n \in Nat
      BY <1>4
    <3>2. /\ route' \in RouteStates /\ route'.lastFailure = failedAt /\ route'.successes = n
          /\ route'.signals = route.signals /\ route'.until = route.until
          /\ route'.level = route.level /\ route'.windowStart = route.windowStart
      <4> HIDE DEF n
      <4>1. route' = [route EXCEPT !.successes = n]
        BY <2>3 DEF n
      <4> QED BY <1>2, <3>1, <4>1 DEF RouteStates
    <3>3. n <= streak'
      BY <1>2, <1>3, <1>4, <2>3
    <3>4. InWindow(route', failures) = InWindow(route, failures)
      BY <3>2 DEF InWindow
    <3>5. route.signals <= Cardinality(InWindow(route, failures))
      BY DEF QuarantineInv, RecordIsHistory
    <3>6. ~(now' < route'.until)
      BY <1>1, <1>4, <2>3, <3>2
    <3> HIDE DEF n
    <3> QED BY <1>1, <1>4, <2>0, <3>2, <3>3, <3>4, <3>5, <3>6
  <2> QED BY <1>1, <1>2, <1>3, <2>1, <2>2, <2>3, AfterSuccessCases
<1>8. QuarantineTypeOK'
  BY <1>1, <1>3, <1>5, <1>6, <1>7 DEF QuarantineInv, QuarantineTypeOK
<1>9. Past'
  BY <1>1, <1>2, <1>3, <1>7 DEF QuarantineInv, Past, Instants
<1> QED BY <1>3, <1>7, <1>8, <1>9 DEF QuarantineInv, RecordIsHistory

\* A signal counts in its window, or opens one.
LEMMA CountedTypes ==
  ASSUME NEW q \in RouteStates, NEW signal \in Signals, NEW t \in Instants
  PROVE  LET c == Counted(q, signal, t) IN
         /\ c \in RouteStates /\ c.lastFailure = t /\ c.successes = 0
         /\ c.until = q.until /\ c.level = q.level /\ c.recovering = q.recovering
         /\ \/ c.windowStart = t /\ c.signals = 1
            \/ /\ c.windowStart = q.windowStart /\ c.signals = q.signals + 1
               /\ t - q.windowStart <= Window
<1> DEFINE fresh == q.windowStart = 0 \/ t - q.windowStart > Window
           start == IF fresh THEN t ELSE q.windowStart
           n == IF fresh THEN 1 ELSE q.signals + 1
           c == Counted(q, signal, t)
<1>1. start \in Instants /\ n \in Nat
  BY DEF RouteStates
<1>2. c = [q EXCEPT !.lastFailure = t, !.lastSignal = signal, !.successes = 0,
                    !.windowStart = start, !.signals = n]
  BY DEF Counted
<1>3. \/ start = t /\ n = 1
      \/ start = q.windowStart /\ n = q.signals + 1 /\ t - q.windowStart <= Window
  <2>1. q.windowStart \in Int /\ t \in Int /\ Window \in Int
    BY QuarantineAssumption DEF RouteStates, Instants
  <2> QED BY <2>1
<1>4. /\ c \in RouteStates /\ c.lastFailure = t /\ c.successes = 0
      /\ c.until = q.until /\ c.level = q.level /\ c.recovering = q.recovering
      /\ c.windowStart = start /\ c.signals = n
  <2> HIDE DEF fresh, start, n, c
  <2> QED BY <1>1, <1>2 DEF RouteStates
<1> QED BY <1>3, <1>4

\* A quarantine is one level up and starts a new window.
LEMMA QuarantinedTypes ==
  ASSUME NEW q \in RouteStates, NEW signal \in Signals, NEW t \in Instants
  PROVE  LET c == Quarantined(q, signal, t) IN
         /\ c \in RouteStates /\ c.lastFailure = q.lastFailure /\ c.successes = q.successes
         /\ c.signals = 0 /\ c.windowStart = t /\ c.level = q.level + 1
<1> DEFINE d == Duration[q.level + 1]
           u == IF t + d > q.until THEN t + d ELSE q.until
           l == q.level + 1
           c == Quarantined(q, signal, t)
<1>1. l \in Nat /\ q.until \in Nat /\ t \in Nat
  BY QuarantineAssumption DEF RouteStates, Instants
<1>2. d \in Nat
  <2> HIDE DEF d, l
  <2> QED BY <1>1, DurationIsPositive DEF d, l
<1>3. u \in Nat
  <2> HIDE DEF d
  <2> QED BY <1>1, <1>2
<1>4. c = [q EXCEPT !.level = l, !.until = u, !.reason = signal, !.signals = 0, !.windowStart = t,
                    !.recovering = FALSE]
  BY DEF Quarantined
<1>5. /\ c \in RouteStates /\ c.lastFailure = q.lastFailure /\ c.successes = q.successes
      /\ c.signals = 0 /\ c.windowStart = t /\ c.level = l
  <2>1. 0 \in Nat
    OBVIOUS
  <2> HIDE DEF d, u, l, c
  <2> QED BY <1>1, <1>3, <1>4, <2>1 DEF RouteStates
<1> QED BY <1>5

\* What is not after one instant is not after a later one.
LEMMA LateIsLater ==
  ASSUME NEW s \in Nat, NEW t \in Nat, NEW u \in Nat, s <= t, t < u
  PROVE  s <= u
OBVIOUS

\* What came after the start of a window is no further away than the start.
LEMMA LateIsInside ==
  ASSUME NEW s \in Nat, NEW t \in Nat, NEW u \in Nat, NEW w \in Nat, t >= s, u - s <= w
  PROVE  u - t <= w
OBVIOUS

\* A failure that counts keeps the invariant, and puts the route in quarantine
\* only with enough failures in the window, or on probation.
LEMMA FailQuarantineInv ==
  ASSUME QuarantineInv, NEW r \in Requests, NEW signal \in Signals, Fail(r, signal)
  PROVE  /\ QuarantineInv'
         /\ route'.level > route.level =>
              \/ route.recovering
              \/ Cardinality({t \in failures' : now' - t <= Window}) >= SignalThreshold
         /\ route'.level >= route.level
<1>1. now' \in Instants \ {0} /\ now' \in Nat /\ now \in Nat /\ now < now'
  BY AdvanceGrows DEF Fail
<1>2. /\ route \in RouteStates /\ failures \subseteq Instants /\ route.level \in Nat
      /\ route.until \in Nat /\ route.signals \in Nat /\ Window \in Nat /\ SignalThreshold \in Nat
      /\ route.windowStart \in Nat
  BY QuarantineAssumption DEF QuarantineInv, QuarantineTypeOK, RouteStates, Instants
<1>3. stage' \in [Requests -> {"idle", "admitted", "sent"}] /\ UNCHANGED <<offline, started>>
  BY DEF Fail, QuarantineInv, QuarantineTypeOK
<1>4. CASE offline /\ Shared(signal)
  <2>1. UNCHANGED <<route, failures, failedAt, streak>>
    BY <1>4 DEF Fail
  <2>2. QuarantineTypeOK' /\ Past'
    BY <1>1, <1>2, <1>3, <2>1 DEF QuarantineInv, QuarantineTypeOK, Past, Instants
  <2>3. RecordIsHistory'
    BY <1>1, <1>2, <2>1 DEF QuarantineInv, RecordIsHistory, InWindow
  <2> QED BY <1>2, <2>1, <2>2, <2>3 DEF QuarantineInv
<1>5. CASE ~(offline /\ Shared(signal))
  <2> DEFINE kept == {t \in failures : now' - t <= Window}
             c == Counted(route, signal, now')
  <2>1. /\ route' = AfterFailure(route, signal, now')
        /\ failures' = kept \union {now'}
        /\ failedAt' = now' /\ streak' = 0
    BY <1>5 DEF Fail
  <2>2. failures' \subseteq Instants /\ \A t \in failures' : t \in Nat /\ t <= now'
    <3>1. \A t \in failures : t \in Nat /\ t <= now
      BY <1>2 DEF QuarantineInv, Past, Instants
    <3>2. now' \in Instants /\ now' <= now'
      BY <1>1
    <3>3. kept \subseteq failures
      OBVIOUS
    <3> HIDE DEF kept
    <3>4. \A t \in failures' : t \in failures \/ t = now'
      BY <2>1, <3>3
    <3>5. ASSUME NEW t \in failures' PROVE t \in Instants /\ t \in Nat /\ t <= now'
      <4>1. CASE t = now'
        BY <1>1, <3>2, <4>1
      <4>2. CASE t \in failures
        <5>1. t \in Instants /\ t \in Nat /\ t <= now
          BY <1>2, <3>1, <4>2
        <5>2. t <= now'
          BY <1>1, <5>1, LateIsLater
        <5> QED BY <5>1, <5>2
      <4> QED BY <3>4, <4>1, <4>2
    <3> QED BY <3>5
  <2>3. now' \notin failures
    BY <1>1, <1>2 DEF QuarantineInv, Past, Instants
  <2>4. /\ c \in RouteStates /\ c.lastFailure = now' /\ c.successes = 0
        /\ c.until = route.until /\ c.level = route.level /\ c.recovering = route.recovering
        /\ \/ c.windowStart = now' /\ c.signals = 1
           \/ /\ c.windowStart = route.windowStart /\ c.signals = route.signals + 1
              /\ now' - route.windowStart <= Window
    <3>1. now' \in Instants
      BY <1>1
    <3> QED BY <1>2, <3>1, CountedTypes
  <2>5. c.signals <= Cardinality(InWindow(c, failures'))
    <3>0. IsFiniteSet(InWindow(c, failures')) /\ Cardinality(InWindow(c, failures')) \in Nat
      BY <2>2, WindowsAreFinite
    <3>1. CASE c.windowStart = now' /\ c.signals = 1
      <4>1. {now'} \subseteq InWindow(c, failures')
        BY <1>1, <2>1, <3>1 DEF InWindow
      <4>2. Cardinality({now'}) = 1
        BY FS_Singleton
      <4>3. Cardinality({now'}) <= Cardinality(InWindow(c, failures'))
        BY <3>0, <4>1, FS_Subset
      <4> QED BY <3>0, <3>1, <4>2, <4>3
    <3>2. CASE /\ c.windowStart = route.windowStart /\ c.signals = route.signals + 1
               /\ now' - route.windowStart <= Window
      <4> DEFINE W == InWindow(route, failures)
      <4>1. IsFiniteSet(W) /\ Cardinality(W) \in Nat
        BY <1>2, WindowsAreFinite
      <4>2. W \union {now'} \subseteq InWindow(c, failures')
        <5>1. ASSUME NEW t \in W PROVE t \in kept
          <6>1. t \in failures /\ t \in Nat /\ t >= route.windowStart
            BY <1>2 DEF InWindow, Instants
          <6>2. now' - route.windowStart <= Window /\ route.windowStart \in Nat
            BY <1>2, <3>2
          <6>3. now' - t <= Window
            BY <1>1, <1>2, <6>1, <6>2, LateIsInside
          <6> QED BY <6>1, <6>3
        <5>2. ASSUME NEW t \in W PROVE t >= c.windowStart
          BY <3>2 DEF InWindow
        <5>3. now' >= c.windowStart
          BY <1>1, <1>2, <3>2 DEF QuarantineInv, Past
        <5> QED BY <2>1, <5>1, <5>2, <5>3 DEF InWindow
      <4>3. now' \notin W
        BY <2>3 DEF InWindow
      <4>4. Cardinality(W \union {now'}) = Cardinality(W) + 1
        BY <4>1, <4>3, FS_AddElement
      <4>5. Cardinality(W \union {now'}) <= Cardinality(InWindow(c, failures'))
        BY <3>0, <4>2, FS_Subset
      <4>6. route.signals <= Cardinality(W)
        BY DEF QuarantineInv, RecordIsHistory
      <4> HIDE DEF W
      <4> QED BY <1>2, <3>0, <3>2, <4>1, <4>4, <4>5, <4>6
    <3> QED BY <2>4, <3>1, <3>2
  <2>6. route' \in RouteStates /\ route'.windowStart <= now' => QuarantineTypeOK' /\ Past'
    <3> HIDE DEF kept, c
    <3> QED BY <1>1, <1>3, <2>1, <2>2 DEF QuarantineInv, QuarantineTypeOK, Past
  <2>7. CASE InQuarantine(route, now')
    <3> DEFINE n == [route EXCEPT !.lastFailure = now', !.lastSignal = signal]
    <3>1. route' = n
      BY <2>1, <2>7 DEF AfterFailure
    <3>2. n \in RouteStates /\ n.successes = route.successes /\ n.signals = route.signals
          /\ n.until = route.until /\ n.level = route.level /\ n.lastFailure = now'
          /\ n.windowStart = route.windowStart
      BY <1>1, <1>2 DEF RouteStates
    <3>3. route.successes = 0 /\ route.signals = 0
      BY <1>1, <1>2, <2>7 DEF InQuarantine, QuarantineInv, RecordIsHistory
    <3>4. Cardinality(InWindow(route', failures')) \in Nat
      BY <2>2, WindowsAreFinite
    <3> HIDE DEF n
    <3>5. n.windowStart <= now'
      BY <1>1, <1>2, <3>2 DEF QuarantineInv, Past
    <3> QED BY <1>2, <2>1, <2>6, <3>1, <3>2, <3>3, <3>4, <3>5 DEF QuarantineInv, RecordIsHistory
  <2>8. CASE ~InQuarantine(route, now') /\ (c.signals >= SignalThreshold \/ c.recovering)
    <3> DEFINE n == Quarantined(c, signal, now')
    <3>1. route' = n
      BY <2>1, <2>8 DEF AfterFailure
    <3>2. /\ n \in RouteStates /\ n.lastFailure = now' /\ n.successes = 0
          /\ n.signals = 0 /\ n.level = route.level + 1 /\ n.windowStart = now'
      <4>1. now' \in Instants
        BY <1>1
      <4> HIDE DEF c
      <4> QED BY <2>4, <4>1, QuarantinedTypes
    <3>3. Cardinality(InWindow(route', failures')) \in Nat
      BY <2>2, WindowsAreFinite
    <3>4. QuarantineInv'
      <4> HIDE DEF n
      <4> QED BY <1>1, <2>1, <2>6, <3>1, <3>2, <3>3 DEF QuarantineInv, RecordIsHistory
    <3>5. ASSUME ~route.recovering
          PROVE  Cardinality({t \in failures' : now' - t <= Window}) >= SignalThreshold
      <4> DEFINE F == {t \in failures' : now' - t <= Window}
      <4>1. F = failures'
        BY <1>1, <1>2, <2>1
      <4>2. InWindow(c, failures') \subseteq F
        BY <4>1 DEF InWindow
      <4>3. IsFiniteSet(F) /\ Cardinality(F) \in Nat
        <5>1. InWindow([windowStart |-> 0], failures') = failures'
          BY <2>2 DEF InWindow
        <5>2. IsFiniteSet(failures') /\ Cardinality(failures') \in Nat
          BY <2>2, <5>1, WindowsAreFinite
        <5> QED BY <4>1, <5>2
      <4>4. Cardinality(InWindow(c, failures')) <= Cardinality(F)
        <5> HIDE DEF F, c
        <5> QED BY <4>2, <4>3, FS_Subset
      <4>5. c.signals >= SignalThreshold /\ c.signals \in Nat
        BY <2>4, <2>8, <3>5 DEF RouteStates
      <4>6. Cardinality(InWindow(c, failures')) \in Nat
        BY <2>2, WindowsAreFinite
      <4> HIDE DEF F, c
      <4>7. Cardinality(F) >= SignalThreshold
        BY <1>2, <2>5, <4>3, <4>4, <4>5, <4>6
      <4> QED BY <4>7 DEF F
    <3> HIDE DEF n
    <3> QED BY <1>2, <3>1, <3>2, <3>4, <3>5
  <2>9. CASE ~InQuarantine(route, now') /\ ~(c.signals >= SignalThreshold \/ c.recovering)
    <3>1. route' = c
      BY <2>1, <2>9 DEF AfterFailure
    <3>2. ~(now' < route.until)
      BY <2>4, <2>9 DEF InQuarantine
    <3> HIDE DEF c
    <3>3. c.windowStart <= now'
      BY <1>1, <1>2, <2>4 DEF QuarantineInv, Past
    <3> QED BY <1>2, <2>1, <2>4, <2>5, <2>6, <3>1, <3>2, <3>3 DEF QuarantineInv, RecordIsHistory
  <2> QED BY <2>7, <2>8, <2>9
<1> QED BY <1>4, <1>5

\* an attempt that is sent or leaves no verdict,
LEMMA SendOrLeaveQuarantineInv ==
  ASSUME QuarantineInv, NEW r \in Requests, SendAttempt(r) \/ Leave(r)
  PROVE  QuarantineInv' /\ UNCHANGED <<route, failures, streak, offline>>
<1>1. UNCHANGED <<route, offline, failures, failedAt, streak>>
  BY DEF SendAttempt, Leave
<1>2. stage' \in [Requests -> {"idle", "admitted", "sent"}]
  BY DEF SendAttempt, Leave, QuarantineInv, QuarantineTypeOK
<1>3. now' \in Instants \ {0} /\ now <= now' /\ started' \in [Requests -> Instants]
  <2>1. CASE SendAttempt(r)
    BY <2>1, AdvanceGrows DEF SendAttempt, QuarantineInv, QuarantineTypeOK
  <2>2. CASE Leave(r)
    BY <2>2, QuarantineAssumption DEF Leave, QuarantineInv, QuarantineTypeOK, Instants
  <2> QED BY <2>1, <2>2
<1>4. now \in Nat /\ now' \in Nat /\ route.until \in Nat /\ route.windowStart \in Nat /\ \A t \in failures : t \in Nat
  BY <1>3, QuarantineAssumption DEF QuarantineInv, QuarantineTypeOK, RouteStates, Instants
<1>5. QuarantineTypeOK' /\ Past'
  BY <1>1, <1>2, <1>3, <1>4 DEF QuarantineInv, QuarantineTypeOK, Past
<1>6. RecordIsHistory'
  BY <1>1, <1>3, <1>4 DEF QuarantineInv, RecordIsHistory, InWindow
<1> QED BY <1>1, <1>5, <1>6 DEF QuarantineInv

\* and an incident that forgives the route.
LEMMA IncidentQuarantineInv ==
  ASSUME QuarantineInv, IncidentConfirmed \/ IncidentEnds
  PROVE  QuarantineInv' /\ offline # offline' /\ (route'.level <= route.level)
<1>1. UNCHANGED <<now, stage, started, failures, failedAt, streak>> /\ offline' \in BOOLEAN
      /\ offline # offline'
  BY DEF IncidentConfirmed, IncidentEnds, QuarantineInv, QuarantineTypeOK
<1>2. route' = route \/ route' = [Healthy EXCEPT !.lastFailure = route.lastFailure]
  BY DEF IncidentConfirmed, IncidentEnds, Forgiven
<1>3. route \in RouteStates /\ route.level \in Nat
  BY DEF QuarantineInv, QuarantineTypeOK, RouteStates
<1>4. CASE route' = route
  BY <1>1, <1>3, <1>4 DEF QuarantineInv, QuarantineTypeOK, Past, RecordIsHistory, InWindow
<1>5. CASE route' = [Healthy EXCEPT !.lastFailure = route.lastFailure]
  <2>0. 0 \in Instants /\ 0 \in Nat
    BY QuarantineAssumption DEF Instants
  <2>1. /\ route' \in RouteStates /\ route'.lastFailure = route.lastFailure /\ route'.successes = 0
        /\ route'.signals = 0 /\ route'.level = 0
    BY <1>3, <1>5, <2>0 DEF Healthy, RouteStates
  <2>2. Cardinality(InWindow(route', failures')) \in Nat
    BY <1>1, WindowsAreFinite DEF QuarantineInv, QuarantineTypeOK
  <2>3. route'.windowStart = 0 /\ 0 <= now
    BY <1>5, QuarantineAssumption DEF Healthy, QuarantineInv, QuarantineTypeOK, Instants
  <2> QED BY <1>1, <1>3, <2>1, <2>2, <2>3 DEF QuarantineInv, QuarantineTypeOK, Past, RecordIsHistory
<1> QED BY <1>2, <1>4, <1>5

\* Every step keeps the invariant.
LEMMA NextQuarantineInv == ASSUME QuarantineInv, [QuarantineNext]_quarantineVars PROVE QuarantineInv'
<1>1. CASE UNCHANGED quarantineVars
  BY <1>1 DEF quarantineVars, QuarantineInv, QuarantineTypeOK, Past, RecordIsHistory, InWindow
<1>2. CASE QuarantineNext
  BY <1>2, CheckQuarantineInv, SucceedQuarantineInv, FailQuarantineInv, SendOrLeaveQuarantineInv, IncidentQuarantineInv DEF QuarantineNext
<1> QED BY <1>1, <1>2

\* The invariant holds throughout.
LEMMA SpecQuarantineInv == QuarantineSpec => []QuarantineInv
BY InitQuarantineInv, NextQuarantineInv, PTL DEF QuarantineSpec

\* A level that drops does so by forgiveness or by a full streak.
LEMMA HealStep ==
  ASSUME QuarantineInv, [QuarantineNext]_quarantineVars, route'.level < route.level
  PROVE  offline # offline' \/ streak' >= RecoverySuccesses
<1>1. route.level \in Nat /\ route'.level \in Nat
  BY NextQuarantineInv DEF QuarantineInv, QuarantineTypeOK, RouteStates
<1>2. CASE UNCHANGED quarantineVars
  BY <1>1, <1>2 DEF quarantineVars
<1>3. CASE QuarantineNext
  <2>1. CASE IncidentConfirmed \/ IncidentEnds
    BY <2>1, IncidentQuarantineInv
  <2>2. ASSUME NEW r \in Requests, NEW last \in BOOLEAN, Check(r, last) PROVE FALSE
    BY <1>1, <2>2, CheckQuarantineInv
  <2>3. ASSUME NEW r \in Requests, SendAttempt(r) \/ Leave(r) PROVE FALSE
    BY <1>1, <2>3, SendOrLeaveQuarantineInv
  <2>4. ASSUME NEW r \in Requests, NEW signal \in Signals, Fail(r, signal) PROVE FALSE
    <3>1. route'.level >= route.level
      BY <2>4, FailQuarantineInv
    <3> QED BY <1>1, <3>1
  <2>5. ASSUME NEW r \in Requests, Succeed(r) PROVE streak' >= RecoverySuccesses
    BY <2>5, SucceedQuarantineInv
  <2> QED BY <1>3, <2>1, <2>2, <2>3, <2>4, <2>5 DEF QuarantineNext
<1> QED BY <1>2, <1>3

\* A level that rises does so on probation or by enough signals in the window.
LEMMA QuarantineStep ==
  ASSUME QuarantineInv, [QuarantineNext]_quarantineVars, route'.level > route.level
  PROVE  \/ route.recovering
         \/ Cardinality({t \in failures' : now' - t <= Window}) >= SignalThreshold
<1>1. route.level \in Nat /\ route'.level \in Nat
  BY NextQuarantineInv DEF QuarantineInv, QuarantineTypeOK, RouteStates
<1>2. CASE UNCHANGED quarantineVars
  BY <1>1, <1>2 DEF quarantineVars
<1>3. CASE QuarantineNext
  <2>1. PICK r \in Requests, signal \in Signals : Fail(r, signal)
    BY <1>1, <1>3, CheckQuarantineInv, SucceedQuarantineInv, SendOrLeaveQuarantineInv, IncidentQuarantineInv DEF QuarantineNext
  <2> QED BY <2>1, FailQuarantineInv
<1> QED BY <1>2, <1>3

\* The route's record and the attempts keep their types, and the doubling
\* duration is a natural at every level.
THEOREM QuarantineTypeCorrect == QuarantineSpec => []QuarantineTypeOK
<1>1. QuarantineInv => QuarantineTypeOK
  BY DEF QuarantineInv
<1> QED BY <1>1, SpecQuarantineInv, PTL

\* HealedByCleanStreak for any requests, thresholds and durations: answers to
\* attempts sent before the last failure never heal a route.
THEOREM EscalationOutlivesLateAnswers == QuarantineSpec => HealedByCleanStreak
<1>1. QuarantineInv /\ [QuarantineNext]_quarantineVars =>
        [route'.level < route.level => offline # offline' \/ streak' >= RecoverySuccesses]_quarantineVars
  BY HealStep
<1> QED BY <1>1, SpecQuarantineInv, PTL DEF QuarantineSpec, HealedByCleanStreak

\* QuarantineIsEarned: with a counter that starts again with its window, a route
\* outside probation is quarantined only by SignalThreshold failures in the window.
THEOREM NoQuarantineUnearned == QuarantineSpec => QuarantineIsEarned
<1>1. QuarantineInv /\ [QuarantineNext]_quarantineVars =>
        [route'.level > route.level =>
           \/ route.recovering
           \/ Cardinality({t \in failures' : now' - t <= Window}) >= SignalThreshold]_quarantineVars
  BY QuarantineStep
<1> QED BY <1>1, SpecQuarantineInv, PTL DEF QuarantineSpec, QuarantineIsEarned
==============================================================================
