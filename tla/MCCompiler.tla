----------------------------- MODULE MCCompiler -----------------------------
(* Instances of Compiler for TLC.                                           *)
EXTENDS Compiler, TLC

BodiesUpTo(n) == UNION {[1..k -> Functions] : k \in 0..n}
BodiesUpTo1   == BodiesUpTo(1)
BodiesUpTo2   == BodiesUpTo(2)

Symmetry == Permutations(Functions)
=============================================================================
