SPECIFICATION Spec
CONSTANTS
  Sessions = {s1, s2}
  RoomIds = {r1, r2}
  Usernames = {alice, bob, carol}
  Expired = Expired
  MaxPeerSeq = 3
  MaxMsgSeq = 2
SYMMETRY Symmetry
INVARIANTS
  ClientsAreMembers
  ConnectionsMatchClients
  UniqueUsernames
  DirectCapacity
  StoreConsistent
  BufferedUntilAcked
  NothingLingers
PROPERTIES
  OnlyOwnLeaveEndsMembership
  DeletedOnlyWhenAllAcked
  KeepsPromise
