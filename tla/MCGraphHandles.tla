--------------------------- MODULE MCGraphHandles ---------------------------
EXTENDS GraphHandles, TLC

Symmetry == Permutations(Graphs) \cup Permutations(Rows)
=============================================================================
