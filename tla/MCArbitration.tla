----------------------------- MODULE MCArbitration -----------------------------
EXTENDS Arbitration, TLC

CONSTANTS p, v1, v2, v3

MCPanel == <<v1, v2>>

(* The poster of every task is an outsider, the worker is on the panel.       *)
MCPosterOf == [t \in Tasks |-> p]
MCWorkerOf == [t \in Tasks |-> v1]

Symmetry == Permutations(Tasks)
===============================================================================
