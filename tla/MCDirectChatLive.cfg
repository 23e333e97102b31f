SPECIFICATION FairSpec
CONSTANTS
  Peers = {2, 3}
  ForeignIds = {}
  Troubles = {}
  QueueCap = 2
  MaxSent = 2
  MaxMoves = 2
INVARIANTS
  NoCrash
PROPERTIES
  ChannelOpens
  DeliveredIsShown
CHECK_DEADLOCK FALSE
