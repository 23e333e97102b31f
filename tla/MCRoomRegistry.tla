---------------------------- MODULE MCRoomRegistry ----------------------------
EXTENDS RoomRegistry, TLC

\* Sessions, rooms and users are interchangeable.
Symmetry ==
  Permutations(Sessions) \cup Permutations(RoomIds) \cup Permutations(Usernames)
=============================================================================
