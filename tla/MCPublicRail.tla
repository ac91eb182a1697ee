---------------------------- MODULE MCPublicRail ----------------------------
(* An instance of PublicRail for TLC.                                        *)
EXTENDS PublicRail, TLC

CONSTANTS c1, c2, t1, e1, a1, a2, a3

MCPlan(window, policy, rounds, revisions) ==
    [token |-> t1, amount |-> 2, quoted_fee |-> 1,
     fulfillment_window |-> window, review_window |-> 1,
     policy |-> policy, fulfillment_rounds |-> rounds,
     revision_rounds |-> revisions]

MCPlans == {MCPlan(2, 1, 2, 1), MCPlan(1, 2, 1, 0)}

AccountSymmetry == Permutations(Accounts)
=============================================================================
