------------------------- MODULE MCRoomRegistryFaults -------------------------
EXTENDS RoomRegistryFaults, TLC

\* Numbers a client may acknowledge: the first sent, and one never sent.
MCAckSeqs == {1, MaxMsgSeq + 1}

Symmetry ==
  Permutations(Sessions) \cup Permutations(RoomIds) \cup Permutations(Usernames)
=============================================================================
