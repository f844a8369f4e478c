SPECIFICATION Spec
CONSTANTS
    NoAccount = "none"
    Routes <- MCRoutes
    Contended <- MCContended
    Chains <- MCChains
INVARIANTS
    PaidNeedsEvidence
    UnsentMeansRefused
    SkipsAreEarned
\* The request has been answered, or has failed.
CHECK_DEADLOCK FALSE
