----------------------------- MODULE UsagePolicy -----------------------------
(***************************************************************************)
(* What a usage snapshot of a Claude account says about serving a model,   *)
(* and how accounts are ordered by it.  A snapshot is                      *)
(*   [source, age, five, week, earlier]                                    *)
(* with its source, the minutes since it was fetched, its two windows and  *)
(* the older observations of the account, oldest first.  A window is       *)
(* [used, left]: percent used and, as <<m>>, the minutes to its reset (not *)
(* positive: it has passed), or <<>> when the reset is not known.  An      *)
(* observation is [ago, five, week]: minutes before the fetch, percents in *)
(* the same windows.  limits is the policy of the account pool.            *)
(***************************************************************************)
EXTENDS Integers, Sequences

Windows == [used : Nat, left : Seq(Int)]
Sources == {"unknown", "oauth-api", "oauth-api-stale", "claude-cli-cache"}
UsageSnapshots == [source : Sources, age : Nat, five : Windows, week : Windows,
                   earlier : Seq([ago : Nat, five : Nat, week : Nat])]

UnknownUsage == [source |-> "unknown", age |-> 0, five |-> [used |-> 0, left |-> <<>>],
            week |-> [used |-> 0, left |-> <<>>], earlier |-> <<>>]

\* The snapshot a request is shown: after the cache's time it is marked stale,
\* after limits.stale minutes it is not used.
Seen(s, limits) ==
  CASE s.source = "unknown" \/ s.age >= limits.stale -> UnknownUsage
    [] s.source = "oauth-api" /\ s.age >= limits.cache -> [s EXCEPT !.source = "oauth-api-stale"]
    [] OTHER -> s

Passed(window) == window.left # <<>> /\ window.left[1] <= 0

\* A window that was reset after the snapshot proves nothing about the new one.
Allows(s, window, threshold) ==
  \/ window.used < threshold
  \/ Passed(window) /\ s.age > -window.left[1]

snapshotAllowed(s, limits) ==
  \/ s.source = "unknown"
  \/ Allows(s, s.five, limits.five) /\ Allows(s, s.week, limits.week)

-----------------------------------------------------------------------------
(* The soft reserves of workers (Sonnet, Haiku) and of Fable.              *)

\* A window that goes on filling as it did since `was`, elapsed minutes
\* before the fetch, is at limit when it ends.
Reaches(s, window, was, elapsed, limit) ==
  (window.used - was) * (window.left[1] + s.age) >= (limit - window.used) * elapsed

\* The oldest of the observations in among that is at least that old.
Observed(s, least, among) ==
  LET fits == {k \in among : s.earlier[k].ago \in least..30}
  IN {k \in fits : \A j \in fits : k <= j}

\* w: "five" or "week".
workerWindowReserved(s, w, limit) ==
  /\ limit > 0 /\ ~Passed(s[w])
  /\ \/ s[w].used >= limit
     \/ /\ s.source = "oauth-api" /\ s.age <= 2 /\ s[w].left # <<>>
        /\ \E k \in Observed(s, 10, {j \in DOMAIN s.earlier : s.earlier[j][w] <= s[w].used}) :
             Reaches(s, s[w], s.earlier[k][w], s.earlier[k].ago, limit)

claudeWorkerReserve(s, limits) ==
  /\ s.source # "unknown"
  /\ \/ workerWindowReserved(s, "five", limits.worker)
     \/ workerWindowReserved(s, "week",
                             IF limits.workerWeek > 0 THEN limits.workerWeek ELSE limits.worker)

claudeFableReserve(s, limits) ==
  /\ s.source = "oauth-api" /\ s.age <= limits.stale
  /\ s.week.left # <<>> /\ ~Passed(s.week)
  /\ \/ limits.fableMin > 0 /\ 100 - s.week.used < limits.fableMin
     \/ /\ limits.fablePace
        /\ \E k \in Observed(s, 15, DOMAIN s.earlier) : LET o == s.earlier[k]
             IN s.week.used - o.week >= 1 /\ Reaches(s, s.week, o.week, o.ago, 100)

Reserved(s, family, limits) ==
  CASE family = "fable" -> claudeFableReserve(s, limits)
    [] family \in {"sonnet", "haiku"} -> claudeWorkerReserve(s, limits)
    [] OTHER -> FALSE

\* snapshotAllowedForCandidate and claudeWorkerReserveReason; leg: its record.
UsageAllows(s, leg, limits) ==
  snapshotAllowed(s, limits) /\ ~(leg.subscription /\ Reserved(s, leg.family, limits))

-----------------------------------------------------------------------------
(* Orders of accounts: each is a list of keys compared one after another.  *)

Flag(b) == IF b THEN 1 ELSE 0
Lower(a, b) == \E k \in DOMAIN a : a[k] < b[k] /\ \A j \in 1..(k - 1) : a[j] = b[j]

Known(s) == Flag(s.source = "unknown")

\* chooseClaudeAccountWithPolicy for a conversation without a usable pin.
ChoiceKey(s, inFlight, reserve, headroomFirst) ==
  (IF headroomFirst THEN <<Known(s), s.five.used>> ELSE <<>>)
    \o (IF reserve THEN <<inFlight>> ELSE <<>>)
    \o <<Known(s), s.five.used, s.week.used>>

\* orderClaudeFallbackProfiles for the accounts after the selected one.
FallbackKey(s, inFlight, blocked, headroomFirst) ==
  <<Flag(blocked)>>
    \o (IF headroomFirst THEN <<Known(s), s.five.used>> ELSE <<>>)
    \o <<inFlight, Known(s), s.five.used, s.week.used>>
=============================================================================
