---------------------------- MODULE MCDurability ----------------------------
EXTENDS Durability, TLC

\* Processes are interchangeable.
Symmetric == Permutations(Procs)

=============================================================================
