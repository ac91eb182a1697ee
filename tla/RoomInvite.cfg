SPECIFICATION Spec
CONSTANTS
  Guests = {"bob"}
  Groups = {"buyers", "sellers"}
  direct = direct
  None = None
  Rails = {"shield", "unshield"}
  MaxInvites = 2
  MaxTurns = 1
CHECK_DEADLOCK FALSE
INVARIANTS
  ReadyIsMade
  ChatAccessKept
PROPERTIES
  UsedLinkRetired
