SPECIFICATION FaultSpec
CONSTANTS
  Sessions = {s1, s2}
  RoomIds = {r1, r2}
  Usernames = {alice, bob}
  Expired = Expired
  MaxPeerSeq = 2
  MaxMsgSeq = 2
  FaultKinds = {"restart", "store", "late"}
  MaxFaults = 1
  AckSeqs <- MCAckSeqs
SYMMETRY Symmetry
INVARIANTS
  MembersHaveRooms
  DeliveriesStayInRoom
  OneEntryPerRoom
  MessagesNumbered
  BufferedUntilAcked
