------------------------------ MODULE MCWebApp ------------------------------
EXTENDS WebApp, TLC
Symmetry == Permutations(Jobs) \cup Permutations(Accounts) \cup Permutations(Tabs)
=============================================================================
