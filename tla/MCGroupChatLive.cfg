SPECIFICATION FairChatSpec
CONSTANTS
  Sessions = {s1, s2}
  RoomIds = {r1}
  Usernames = {alice, bob}
  Leavers = {}
  Expired = Expired
  NoLink = NoLink
  MaxPeerSeq = 2
  MaxMsgSeq = 2
  Workers = 1
  MaxRequests = 2
  MaxMoves = 4
PROPERTIES
  OwedIsAcknowledged
CHECK_DEADLOCK FALSE
