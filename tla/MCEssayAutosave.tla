-------------------------- MODULE MCEssayAutosave --------------------------
(* Instances of EssayAutosave for TLC. *)
EXTENDS EssayAutosave, TLC

Symmetry == Permutations(Blocks)
=============================================================================
