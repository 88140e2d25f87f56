---------------------------- MODULE MCDepositVault ----------------------------
EXTENDS DepositVault, TLC

(* The quotes of one policy when a dollar buys one unit of AZL and when it     *)
(* buys two; at the first the exit shares are rounded up.                     *)
Policy == INSTANCE PricingPolicy WITH
    Usd <- 2, EntryDepositUsd6 <- 4, LiveTaskReserveUsd6 <- 4, AccessFeeUsd6 <- 2,
    ExitCompensationUsd6 <- 1, ExitProtocolShareUsd6 <- 1

MCQuotes == {Policy!QuoteTask(azlPerUsd6) : azlPerUsd6 \in {1, 2}}

Symmetry == Permutations(Accounts) \cup Permutations(Tasks)
===============================================================================
