----------------------------- MODULE MCGroupChat -----------------------------
EXTENDS GroupChat, TLC

\* Addresses are interchangeable; users are not, only some of them leave.
AddressSymmetry == Permutations(Sessions)
=============================================================================
