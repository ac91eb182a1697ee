SPECIFICATION DeskSpec
CONSTANTS
  Surfaces = {"text", "file", "group", "offer", "coord"}
  Chats = {a, b}
  MaxSends = 2
  MaxTexts <- MCMaxTexts
  MaxReloads = 1
  NoText = 0
CHECK_DEADLOCK FALSE
INVARIANTS
  ResentOnlyAfterFailure
PROPERTIES
  PostedIsShown
  NeverStuck
  SendingReopens
