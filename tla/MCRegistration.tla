--------------------------- MODULE MCRegistration ---------------------------
EXTENDS Registration, TLC
Symmetry == Permutations(Handlers) \cup Permutations(Names) \cup Permutations(Addresses)
=============================================================================
