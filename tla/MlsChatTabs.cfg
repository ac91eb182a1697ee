SPECIFICATION Spec
SYMMETRY Tabs
CONSTANTS
  a = a
  b = b
  a1 = a1
  a2 = a2
  b1 = b1
  Inviter = a
  Joiner = b
  Sessions = {a1, a2, b1}
  NoSession = NoSession
  Home <- HomeOf
  Rails = {shield}
  Modes <- AnyMode
  shield = shield
  FrameCount <- OneFrame
  public = public
  MaxKeyPackages = 1
  MaxTexts <- OneText
  Aging <- JoinerAges
  MaxPackets = 9
  Tolerance = 5
INVARIANTS
  PostedOnce
  OneTextPerSecret
  OneGroup
  NothingLost
