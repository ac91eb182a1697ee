SPECIFICATION FairSpec
CONSTANTS
  a = a
  b = b
  a1 = a1
  a2 = a2
  b1 = b1
  shield = shield
  public = public
  Inviter = a
  Joiner = b
  Sessions = {a1, b1}
  NoSession = NoSession
  Home <- HomeOf
  Rails = {shield, public}
  Modes <- InviterSwitches
  FrameCount <- LongWelcome
  MaxKeyPackages = 1
  MaxTexts <- TwoTexts
  Aging <- NothingAges
  MaxPackets = 9
  Tolerance = 1
PROPERTIES
  JoinsEventually
  DeliversEventually
