------------------------------ MODULE MCSession ------------------------------
EXTENDS Session, TLC
CONSTANT u1
OneUser == [c \in Conns |-> u1]
Symmetry == Permutations(Conns)
=============================================================================
