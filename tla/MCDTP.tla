------------------------------- MODULE MCDTP -------------------------------
EXTENDS DTP, TLC

Symmetry == Permutations(Jobs) \cup Permutations(Names)

=============================================================================
