--------------------------- MODULE MCHomeLibrary ---------------------------
EXTENDS HomeLibrary, TLC
Symmetry == Permutations(Ops)
=============================================================================
