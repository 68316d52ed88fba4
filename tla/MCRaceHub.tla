------------------------------ MODULE MCRaceHub ------------------------------
EXTENDS RaceHub
Symmetry == Permutations(Conns)
=============================================================================
