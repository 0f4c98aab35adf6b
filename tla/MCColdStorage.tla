---------------------------- MODULE MCColdStorage ----------------------------
EXTENDS ColdStorage, TLC
Symmetry == Permutations(Procs) \cup Permutations(Roots)
=============================================================================
