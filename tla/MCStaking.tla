------------------------------- MODULE MCStaking ------------------------------
EXTENDS Staking, TLC

AgentSymmetry == Permutations(Accounts)
===============================================================================
