------------------------------ MODULE MCStore ------------------------------
(* Instances of Store for TLC.                                             *)
EXTENDS Store, TLC

\* Byte strings, values and processes are interchangeable.
Symmetry == Permutations(Bytes) \cup Permutations(Vals) \cup Permutations(Procs)
=============================================================================
