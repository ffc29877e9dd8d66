------------------------------ MODULE MCFbQueue ------------------------------
(* Instances of FbQueue for TLC. *)
EXTENDS FbQueue
=============================================================================
