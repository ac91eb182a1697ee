------------------------------ MODULE MCMlsChat ------------------------------
(***************************************************************************)
(* Model checking of MlsChat.                                              *)
(***************************************************************************)
EXTENDS MlsChat, TLC

CONSTANTS a, b, a1, a2, b1, shield, public

HomeOf == [s \in Sessions |-> IF s = b1 THEN b ELSE a]

AnyMode == [s \in Sessions |-> Rails]
InviterSwitches == [s \in Sessions |-> IF s = b1 THEN {shield} ELSE Rails]

OneText == [d \in {a, b} |-> IF d = a THEN 1 ELSE 0]
TwoTexts == [d \in {a, b} |-> IF d = a THEN 2 ELSE 0]

NothingAges == {}
JoinerAges == {KeyPackage(b, 1)}

LongWelcome == [k \in Kinds |-> IF k = "welcome" THEN 2 ELSE 1]
OneFrame == [k \in Kinds |-> 1]

Tabs == Permutations({a1, a2})
=============================================================================
