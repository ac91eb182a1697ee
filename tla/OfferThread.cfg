SPECIFICATION Spec
CONSTANTS
  a = a
  b = b
  shield = shield
  unshield = unshield
  dear = dear
  cheap = cheap
  Parties = {a, b}
  Deviants = {a, b}
  Rails = {shield, unshield}
  FirstRail = shield
  Terms = {dear, cheap}
  ForgedKinds = {"accept"}
  MaxRecords = 3
  MaxPolls = 1
  MaxTurns = 1
SYMMETRY Symmetry
CHECK_DEADLOCK FALSE
INVARIANTS
  Consent
  SameDeals
