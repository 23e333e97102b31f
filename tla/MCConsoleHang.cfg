SPECIFICATION FairSpec
CONSTANTS
  Rooms = {r1}
  Peers = {p1}
  None = None
  MaxTexts = 1
  MaxMoves = 1
  MaxEnds = 0
  MaxBreaks = 0
PROPERTIES
  Returns
CHECK_DEADLOCK FALSE
