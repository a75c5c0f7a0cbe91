----------------------------- MODULE MCSequence -----------------------------
(* Instances of Sequence for TLC.                                          *)
EXTENDS Sequence, TLC

Symmetry == Permutations(Procs)
=============================================================================
