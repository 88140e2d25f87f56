------------------------------ MODULE MCProtocol -------------------------------
EXTENDS Protocol, TLC

CONSTANTS a1, a2, v1

(* AZL at one USD6 a unit.                                                   *)
Policy == INSTANCE PricingPolicy WITH
    Usd <- 2, EntryDepositUsd6 <- 4, LiveTaskReserveUsd6 <- 4, AccessFeeUsd6 <- 2,
    ExitCompensationUsd6 <- 1, ExitProtocolShareUsd6 <- 1

MCPolicyQuote == [price \in Prices |-> Policy!QuoteTask(1)]

(* A panel member who also works as an agent.                                *)
MCMixedPanel == <<a2, v1>>
===============================================================================
