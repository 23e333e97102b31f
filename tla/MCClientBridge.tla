---------------------------- MODULE MCClientBridge ----------------------------
(* The graphical client: every peer is of the first room, so that a second   *)
(* room is one only the user asks for.                                       *)
EXTENDS ClientBridge

MCHome == [p \in Peers |-> CHOOSE r \in Rooms : TRUE]
=============================================================================
