------------------------------ MODULE MCMacros ------------------------------
(* Small instances of Macros for TLC. *)
EXTENDS Macros, TLC

Symmetry == Permutations(Frames) \cup Permutations(MacroNames)
              \cup Permutations(Closures \ MacroNames)
=============================================================================
