---------------------------- MODULE MCTaskRegistry ----------------------------
EXTENDS TaskRegistry, TLC

(* A policy asked when AZL is at 1 or 2 USD6 a unit; the dearer it is, the     *)
(* fewer units the targets are.                                              *)
Policy == INSTANCE PricingPolicy WITH
    Usd <- 2, EntryDepositUsd6 <- 4, LiveTaskReserveUsd6 <- 4, AccessFeeUsd6 <- 2,
    ExitCompensationUsd6 <- 1, ExitProtocolShareUsd6 <- 1

MCPolicyQuote == [price \in Prices |-> Policy!QuoteTask(IF price = 1 THEN 2 ELSE 1)]

Symmetry == Permutations(Accounts) \cup Permutations(Tasks)
===============================================================================
