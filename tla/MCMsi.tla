-------------------------------- MODULE MCMsi --------------------------------
(* Instances of Msi for TLC. *)
EXTENDS Msi, TLC

(* Names, addresses and frames are interchangeable. *)
Symm == Permutations(Names) \cup Permutations(Objs) \cup Permutations(Frames)
=============================================================================
