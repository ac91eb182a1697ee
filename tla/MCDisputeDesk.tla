--------------------------- MODULE MCDisputeDesk ---------------------------
(* Instances of DisputeDesk for TLC.                                         *)
EXTENDS DisputeDesk, TLC

CONSTANTS r1, r2, o1, a, k1

Grounds3 == {"term", "payer_document", "payee_statement"}

Answer(payerBps, support, flags) ==
    [decision |-> IF payerBps = 10000 THEN "payer" ELSE "payee",
     payerBps |-> payerBps, payeeBps |-> 10000 - payerBps, exact |-> TRUE,
     confident |-> TRUE, support |-> support, flags |-> flags]

\* An award with grounds, one on statements only, and one that may concern
\* somebody else.
Answers ==
    {Answer(10000, Grounds3, {}), Answer(0, {"term", "payee_statement"}, {}),
     Answer(10000, Grounds3, {"identity_uncertain"})}

OneCase == (a :> k1)
=============================================================================
