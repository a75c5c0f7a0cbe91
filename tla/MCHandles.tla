------------------------------ MODULE MCHandles ------------------------------
(* Instances of Handles for TLC.                                           *)
EXTENDS Handles, TLC

\* Handles of one kind are interchangeable.
Symmetry == Permutations(Envs) \cup Permutations(Txns) \cup Permutations(Keys)
=============================================================================
