-------------------------- MODULE MCAccountService --------------------------
EXTENDS AccountService, TLC
Symmetry == Permutations(Handlers)
=============================================================================
