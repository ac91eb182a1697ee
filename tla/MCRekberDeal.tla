---------------------------- MODULE MCRekberDeal ----------------------------
(* Instances of RekberDeal for TLC.                                        *)
EXTENDS RekberDeal

\* A second acceptance under one of the policies: signing does not depend on it.
MCMaxSigned == [p \in Policies |-> IF p = 2 THEN 2 ELSE 1]
=============================================================================
