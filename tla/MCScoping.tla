----------------------------- MODULE MCScoping -----------------------------
(* Small instances of Scoping for TLC. *)
EXTENDS Scoping, TLC

Symmetry == Permutations(Frames) \cup Permutations(Closures)
=============================================================================
