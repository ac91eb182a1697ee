-------------------------- MODULE MCDisputeReview --------------------------
(* Instances of DisputeReview for TLC.                                       *)
EXTENDS DisputeReview

\* The payer's setup of a custody, and the payee's acceptance of it.
Setup(of) ==
    LET body == [custody |-> of, deal |-> "deal", rail |-> "shield", secrets |-> of]
    IN [custody |-> of, deal |-> "deal", rail |-> "shield", secrets |-> of,
        signature |-> body]

Acceptance(of, on) ==
    [custody |-> of, deal |-> "deal", rail |-> on,
     signature |-> [Setup(of).signature EXCEPT !.rail = on]]

Agreed == [setup |-> Setup("k"), acceptance |-> Acceptance("k", "shield")]
LaterSetup == [setup |-> Setup("k2"), acceptance |-> Acceptance("k", "shield")]
OtherRail == [setup |-> Setup("k"), acceptance |-> Acceptance("k", "public")]

Each(payer, payee) == [by \in Roles |-> IF by = "payer" THEN payer ELSE payee]

Writes(reason, packet, consent) ==
    [kind \in Kinds |-> CASE kind = "reason" -> reason [] kind = "packet" -> packet
                          [] kind = "consent" -> consent]

Scenario(role, policy, held, malformed, works, records) ==
    [me |-> role, policy |-> policy, agreement |-> held, malformed |-> malformed,
     works |-> works, records |-> records]

\* What is written under a name may be either party's. The payer disputes, and the
\* peer's details come twice; the payee answers, its first details may come late,
\* and the peer's first are refused; the payee disputes a revised work, with two
\* reasons under its name; the payee consents to a refund, with a consent that
\* counts and one that does not; and the device holds a later setup of the same
\* deal, or an acceptance on another rail.
Disputes ==
    {Scenario("payer", "submission", Agreed, {}, 1,
              Writes(Each(1, 0), Each(1, 2), Each(0, 0))),
     Scenario("payee", "submission", Agreed, {1}, 1,
              Writes(Each(0, 0), Each(2, 2), Each(0, 0))),
     Scenario("payee", "submission", Agreed, {}, 2,
              Writes(Each(0, 2), Each(0, 0), Each(0, 0))),
     Scenario("payer", "counterparty", Agreed, {}, 1,
              Writes(Each(0, 0), Each(0, 1), Each(0, 2))),
     Scenario("payee", "counterparty", LaterSetup, {}, 1,
              Writes(Each(0, 1), Each(1, 1), Each(0, 1))),
     Scenario("payer", "submission", OtherRail, {}, 1,
              Writes(Each(1, 0), Each(1, 1), Each(0, 0)))}

TwoShares == {Roles}
=============================================================================
