----------------------------- MODULE MCClientViews -----------------------------
(* The windows: a chat with two members, a chat with one, and one more that  *)
(* the user may join.                                                        *)
EXTENDS ClientViews

CONSTANTS c1, c2, c3

MCChats == <<c1, c2>>
MCCrowd == (c1 :> 2) @@ (c2 :> 1)
=============================================================================
