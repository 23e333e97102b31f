SPECIFICATION FairSpec
CONSTANTS
  Rooms = {r1}
  Peers = {p1}
  Home <- MCHome
  None = None
  MaxReconnectAttempts = 1
  MaxTexts = 2
  MaxMoves = 2
  MaxBreaks = 1
INVARIANTS
  SentIsStored
  StoredInOrder
  RightSender
PROPERTIES
  JoinIsAnswered
  Heard
CHECK_DEADLOCK FALSE
