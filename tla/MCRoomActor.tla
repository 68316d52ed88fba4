----------------------------- MODULE MCRoomActor -----------------------------
EXTENDS RoomActor, TLC
Symmetry == Permutations(Users)
=============================================================================
