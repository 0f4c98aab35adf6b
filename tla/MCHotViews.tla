----------------------------- MODULE MCHotViews -----------------------------
EXTENDS HotViews, TLC
Symmetry == Permutations(Ops)
=============================================================================
