----------------------------- MODULE MCArrays ------------------------------
(* Small instances of Arrays for TLC. *)
EXTENDS Arrays, TLC

Symmetric == Permutations(Roots)
=============================================================================
