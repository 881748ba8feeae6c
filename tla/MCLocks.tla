------------------------------- MODULE MCLocks -------------------------------
EXTENDS Locks, TLC

Symmetry == Permutations(Conns) \cup Permutations(Lockers)

=============================================================================
