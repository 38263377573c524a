----------------------------- MODULE MCItemLock -----------------------------
EXTENDS ItemLock, TLC
Symmetry == Permutations(Process) \cup Permutations(Session)
=============================================================================
