----------------------------- MODULE PricingPolicy ----------------------------
(***************************************************************************)
(* AzlPricingPolicy: five targets in millionths of a dollar, turned into AZL  *)
(* by one observation of the oracle, each rounded up for itself.             *)
(***************************************************************************)
EXTENDS Integers

CONSTANTS
    Usd,                \* one dollar, 1_000_000
    EntryDepositUsd6, LiveTaskReserveUsd6, AccessFeeUsd6,
    ExitCompensationUsd6, ExitProtocolShareUsd6

(* _scale *)
Scale(usd6, azlPerUsd6) == (usd6 * azlPerUsd6 + Usd - 1) \div Usd

QuoteTask(azlPerUsd6) ==
    [entryDeposit      |-> Scale(EntryDepositUsd6, azlPerUsd6),
     liveTaskReserve   |-> Scale(LiveTaskReserveUsd6, azlPerUsd6),
     accessFee         |-> Scale(AccessFeeUsd6, azlPerUsd6),
     exitCompensation  |-> Scale(ExitCompensationUsd6, azlPerUsd6),
     exitProtocolShare |-> Scale(ExitProtocolShareUsd6, azlPerUsd6)]

(* What reserveTask of the deposit vault requires of a quote.                  *)
Reservable(quote) ==
    /\ quote.entryDeposit > 0 /\ quote.liveTaskReserve > 0 /\ quote.accessFee > 0
    /\ quote.exitCompensation + quote.exitProtocolShare <= quote.liveTaskReserve
    /\ quote.accessFee <= quote.liveTaskReserve
===============================================================================
