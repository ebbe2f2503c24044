------------------------------- MODULE MCShim -------------------------------
(* Small instances of Shim for TLC.                                         *)
EXTENDS Shim, TLC

Symmetry == Permutations(Threads)
=============================================================================
