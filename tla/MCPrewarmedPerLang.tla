------------------------- MODULE MCPrewarmedPerLang -------------------------
(* Instance of PrewarmedPerLang for TLC. *)
EXTENDS PrewarmedPerLang, TLC

Symmetry == Permutations(Callers)
=============================================================================
