SPECIFICATION ChatSpec
CONSTANTS
  Sessions = {s1, s2}
  RoomIds = {r1}
  Usernames = {alice, bob}
  Leavers = {alice}
  Expired = Expired
  NoLink = NoLink
  MaxPeerSeq = 4
  MaxMsgSeq = 2
  Workers = 1
  MaxRequests = 2
  MaxMoves = 5
SYMMETRY AddressSymmetry
INVARIANTS
  UnseenIsBuffered
  ShownInOrder
  NobodyMissing
  NoGhosts
PROPERTIES
  UsesRegistry
CHECK_DEADLOCK FALSE
