SPECIFICATION Spec
CONSTANTS
  Rooms = {r1}
  Peers = {p1}
  None = None
  MaxTexts = 3
  MaxMoves = 2
  MaxEnds = 1
  MaxBreaks = 1
INVARIANTS
  StoredInSequence
  
  SendersKnown
CHECK_DEADLOCK FALSE
