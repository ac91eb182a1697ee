SPECIFICATION Spec
CONSTANTS
  MaxCustodies = 2
  MaxSigned <- MCMaxSigned
  MaxOpened = 2
  MaxPrompts = 2
  MaxFunded = 1
  MaxWork = 1
  MaxRounds = 2
  MaxRevisions = 1
  Policies = {1, 2}
CHECK_DEADLOCK FALSE
INVARIANTS
  CapabilitiesKept
  LockHeld
