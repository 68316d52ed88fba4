------------------------------- MODULE MCLobby -------------------------------
EXTENDS Lobby, TLC
Symmetry == Permutations(Users) \cup Permutations(Requests)
=============================================================================
