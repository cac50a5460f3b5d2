----------------------------- MODULE MCAccount -----------------------------
(* Instances of Account for TLC: concurrent callers are interchangeable.   *)
EXTENDS Account, TLC

Symmetry == Permutations(Tasks)
=============================================================================
