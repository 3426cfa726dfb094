SPECIFICATION CursorSpec
CHECK_DEADLOCK FALSE
CONSTANTS
  None = None
  Absent = Absent
  NoGoMod = NoGoMod
  NoBlob = NoBlob
  Link = Link
  Unknown = Unknown
  Foreign = Foreign
  Runner = Runner
  Nobody = Nobody
  NoMarker = NoMarker
  Unused = Unused
INVARIANTS
  NoItemTwice
