---------------------------- MODULE MCEscrowVault -----------------------------
EXTENDS EscrowVault, TLC

Symmetry == Permutations(Accounts) \cup Permutations(Tasks)
===============================================================================
