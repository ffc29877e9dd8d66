----------------------------- MODULE MCFrameBuff -----------------------------
EXTENDS FrameBuff, TLC

\* Handles and heap frames are interchangeable.
Symm == Permutations(Handles) \cup Permutations(HeapFbs)
=============================================================================
