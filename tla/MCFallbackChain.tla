-------------------------- MODULE MCFallbackChain --------------------------
(***************************************************************************)
(* Chains for FallbackChain: two accounts of one Claude model, a second    *)
(* Claude model, a subscription gateway and two metered alternatives, under *)
(* each kind of policy.                                                    *)
(***************************************************************************)
EXTENDS FallbackChain

Claude1(a) == [route |-> <<a, "sonnet">>, account |-> a, upstream |-> "sonnet", metered |-> FALSE]
Claude2(a) == [route |-> <<a, "opus">>, account |-> a, upstream |-> "opus", metered |-> FALSE]
Other(r)   == [route |-> <<r, "glm">>, account |-> NoAccount, upstream |-> "glm", metered |-> FALSE]
Paid(r)    == [route |-> <<r, "glm">>, account |-> NoAccount, upstream |-> "glm", metered |-> TRUE]

MCRoutes == {"a", "b"} \X {"sonnet", "opus"} \cup {"sub", "paid1", "paid2"} \X {"glm"}

Chain(legs, pinned, primary, paidOn, soft, rig) ==
    [legs |-> legs, pinned |-> pinned, paidPrimary |-> primary,
     allowPaid |-> paidOn # {}, paidOn |-> paidOn, soft |-> soft, rig |-> rig]

\* Two accounts, then a metered leg: the usual chain, default policy.
Pool == Chain(<<Claude1("a"), Claude1("b"), Paid("paid1")>>,
              FALSE, FALSE, {"quota-exhausted"}, FALSE, TRUE)
\* A Claude leg and a subscription before the metered leg.
Mixed == Chain(<<Claude1("a"), Other("sub"), Paid("paid1")>>,
               FALSE, FALSE, {"confirmed-provider-outage", "response-header-timeout"}, FALSE, FALSE)
\* A subscription between two metered legs, load spill, a pinned account.
Spilling == Chain(<<Claude1("a"), Paid("paid1"), Other("sub"), Paid("paid2")>>,
                  TRUE, FALSE, {"route-unavailable"}, TRUE, FALSE)
\* A chain that starts paid.
PaidFirst == Chain(<<Paid("paid1"), Claude1("a"), Paid("paid2")>>,
                   FALSE, TRUE, {"quota-exhausted"}, FALSE, FALSE)
\* Two models of one provider and upstream share their evidence.
Shared == Chain(<<Other("sub"), Other("sub"), Paid("paid1")>>,
                FALSE, FALSE, {"quota-exhausted", "confirmed-provider-outage"}, FALSE, FALSE)
\* No paid fallback at all.
Unpaid == Chain(<<Claude1("a"), Claude1("b"), Claude2("a")>>, FALSE, FALSE, {}, FALSE, FALSE)

\* The default policy with two metered alternatives.
TwoPaid == Chain(<<Claude1("a"), Paid("paid1"), Paid("paid2")>>,
                 FALSE, FALSE, {"quota-exhausted"}, FALSE, FALSE)

\* A healthy leg of another provider ranked between two accounts.
Between == Chain(<<Claude1("a"), Other("sub"), Claude1("b")>>, FALSE, FALSE, {}, FALSE, FALSE)

MCChains == {Pool, Mixed, Spilling, PaidFirst, Shared, Unpaid, TwoPaid, Between}

MCContended == {<<"sub", "glm">>}
=============================================================================
