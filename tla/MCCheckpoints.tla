----------------------------- MODULE MCCheckpoints -----------------------------
(* Small instances of Checkpoints.                                          *)
EXTENDS Checkpoints, TLC

Symmetry == Permutations(Paths) \cup Permutations(Texts)
=============================================================================
