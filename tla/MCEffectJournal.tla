-------------------------- MODULE MCEffectJournal --------------------------
(* Small instances of EffectJournal for TLC. *)
EXTENDS EffectJournal, TLC

(* Processes, identities and digests are interchangeable. *)
Symmetry == Permutations(Proc) \cup Permutations(Effect) \cup Permutations(Args)
=============================================================================
