SPECIFICATION FairSpec
CHECK_DEADLOCK FALSE
CONSTANTS
  None = None
  Nobody = Nobody
  NoMarker = NoMarker
  NoDigest = NoDigest
  NoScope = NoScope
  NoEvent = NoEvent
  Unused = Unused
PROPERTIES
  Progress
