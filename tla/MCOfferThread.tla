---------------------------- MODULE MCOfferThread ----------------------------
(* Instances of OfferThread for TLC. The two parties are alike, and so are *)
(* the terms they may agree on.                                            *)
EXTENDS OfferThread, TLC

CONSTANTS a, b, shield, unshield, dear, cheap

Symmetry == Permutations(Parties) \union Permutations(Terms)
=============================================================================
