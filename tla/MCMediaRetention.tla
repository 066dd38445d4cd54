-------------------------- MODULE MCMediaRetention --------------------------
(***************************************************************************)
(* Instances of MediaRetention: runs are interchangeable.                   *)
(***************************************************************************)
EXTENDS MediaRetention, TLC

Symmetry == Permutations(Runs)

=============================================================================
