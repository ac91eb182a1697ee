--------------------------- MODULE MCEscrowRekber ---------------------------
(* Instances of EscrowRekber for TLC.                                        *)
EXTENDS EscrowRekber

CONSTANTS c1, t1, e1, e2

MCPlan(token, amount, window, review, policy, rounds, revisions) ==
    [token |-> token, amount |-> amount, quoted_fee |-> 1,
     fulfillment_window |-> window, review_window |-> review,
     policy |-> policy, fulfillment_rounds |-> rounds,
     revision_rounds |-> revisions]

\* Every policy, revisions up to the limit, and a plan the contract refuses
\* because a revision would have no round left.
LifecyclePlans ==
    {MCPlan(t1, 2, 2, 2, 1, 3, 2),
     MCPlan(t1, 2, 2, 1, 1, 2, 2),
     MCPlan(t1, 2, 2, 1, 2, 2, 1),
     MCPlan(t1, 2, 2, 1, 3, 1, 0)}
=============================================================================
