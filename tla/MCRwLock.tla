------------------------------ MODULE MCRwLock ------------------------------
(***************************************************************************)
(* Instance of RwLock for TLC; the threads are interchangeable.            *)
(***************************************************************************)
EXTENDS RwLock, TLC

Symmetry == Permutations(Threads)
=============================================================================
