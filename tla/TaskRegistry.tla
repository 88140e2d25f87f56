----------------------------- MODULE TaskRegistry -----------------------------
(***************************************************************************)
(* TaskRegistryV2, the task state machine, with the contracts it drives in    *)
(* the same transaction: the deposit vault (collateral and fees), the escrow  *)
(* vault (payment), the Action Credit ledger and the reputation registry.     *)
(*                                                                          *)
(* One transaction is one step.  Each is split in two conjuncts: its own      *)
(* requires, and what the contracts it calls require of it (<Tx>Accepted).    *)
(* Arbitration is here an outside caller that may settle a disputed task in   *)
(* any way ArbitrationModuleV2 allows, at any time; its own rules are in      *)
(* module Arbitration.                                                        *)
(***************************************************************************)
EXTENDS Integers, FiniteSets, Functions, Amounts

CONSTANTS
    Tasks, Accounts, Treasury, Nobody,
    Prices,              \* USD6 per AzlUnit the oracle may report
    AzlUnit,             \* AZL amounts per unit of price, 10^18 in the code
    PolicyQuote,         \* [Prices -> quote]: quoteTask() at that price
    TaskAmounts,         \* the totalAmounts posted
    MaxTaskUsd6,         \* ceiling of one task
    OpenTaskCapUsd6,     \* ceiling of all funded open tasks
    PosterCapBps,        \* POSTER_OPEN_TASK_CAP_BPS, of 10000
    MaxTaskDuration, FundingWindow, DeliveryGrace, PosterDisputeGrace,
    WorkerShares,        \* workerBps values arbitration awards
    CreditCap,           \* lifetime issue of Action Credits
    StartDeposit,        \* what each agent has deposited when the run starts
    MayRefuse,           \* payees whose token transfers may fail
    AgentAmounts,        \* the amounts agents move in and out of the vault
    MaxVaultBalance, MaxDeadline, MaxTime  \* model-checking bounds

VARIABLES tasks, openTaskTotalUsd6, posterOpenTaskTotalUsd6, now,
          vault, escrowVault, ledger, tally

registry == <<tasks, openTaskTotalUsd6, posterOpenTaskTotalUsd6>>
vars == <<registry, now, vault, escrowVault, ledger, tally>>

PolicyQuotes == {PolicyQuote[p] : p \in Prices}

Deposits == INSTANCE DepositVault WITH Quotes <- PolicyQuotes, MaxBalance <- MaxVaultBalance
Escrow == INSTANCE EscrowVault WITH MaxEscrowBalance <- 0, MaxDeposit <- 0
Credits == INSTANCE ActionCredits WITH CreditUnit <- 1
Reputation == INSTANCE ReputationRegistry

(* Tasks and accounts are finitely many, amounts and times whole numbers, and  *)
(* the policy's quotes have an exit fee.  What follows are the contract's own  *)
(* constants and what its constructor requires of the ceilings.              *)
ASSUME RegistryAssumption ==
    /\ IsFiniteSet(Tasks) /\ IsFiniteSet(Accounts)
    /\ Treasury \notin Accounts /\ Nobody \notin Accounts
    /\ \A price \in Prices :
          /\ PolicyQuote[price] \in Deposits!QuoteType
          /\ PolicyQuote[price].exitCompensation + PolicyQuote[price].exitProtocolShare > 0
    /\ Prices \subseteq Nat /\ TaskAmounts \subseteq Nat /\ AgentAmounts \subseteq Nat
    /\ WorkerShares \subseteq 0..10000
    /\ {MaxTaskUsd6, OpenTaskCapUsd6, PosterCapBps, MaxTaskDuration, FundingWindow,
        DeliveryGrace, PosterDisputeGrace, CreditCap, StartDeposit,
        MaxVaultBalance, MaxDeadline} \subseteq Nat
    /\ PosterDisputeGrace < DeliveryGrace
    /\ FundingWindow > 0
    /\ MaxTaskUsd6 <= OpenTaskCapUsd6
    /\ AzlUnit \in Nat \ {0}

State == {"NONE", "POSTED", "CLAIMED", "ACTIVE", "DISPUTED",
          "COMPLETED", "CANCELLED", "RESOLVED"}
Live == {"POSTED", "CLAIMED", "ACTIVE", "DISPUTED"}
Terminal == {"COMPLETED", "CANCELLED", "RESOLVED"}
Rulings == {"POSTER_WINS", "WORKER_WINS", "SPLIT", "MUTUAL"}

Task == [state : State, poster : Accounts \cup {Nobody}, worker : Accounts \cup {Nobody},
         totalAmount : Nat, funded : Nat, released : Nat,
         deadline : Nat, fundingDeadline : Nat, deliveredAt : Nat,
         declaredUsd6 : Nat, fundedBasisUsd6 : Nat, amountUsd6 : Nat,
         posterCredit : BOOLEAN, workerCredit : BOOLEAN,
         resolution : Rulings \cup {"NONE"}]

NoTask == [state |-> "NONE", poster |-> Nobody, worker |-> Nobody,
           totalAmount |-> 0, funded |-> 0, released |-> 0,
           deadline |-> 0, fundingDeadline |-> 0, deliveredAt |-> 0,
           declaredUsd6 |-> 0, fundedBasisUsd6 |-> 0, amountUsd6 |-> 0,
           posterCredit |-> FALSE, workerCredit |-> FALSE, resolution |-> "NONE"]

-------------------------------------------------------------------------------
(* Arithmetic and views of the registry.                                     *)

CeilDiv(m, n) == (m + n - 1) \div n

PosterCapUsd6 == (OpenTaskCapUsd6 * PosterCapBps) \div 10000

(* quoteUsdForAzlPar of the oracle, rounded up.                              *)
ParUsd6(amount, price) == CeilDiv(amount * price, AzlUnit)

RemainingOf(k) == k.funded - k.released

WasTimelyDelivered(k) == k.deliveredAt # 0 /\ k.deliveredAt <= k.deadline

Underfunded(k) == k.state = "CLAIMED" /\ k.funded < k.totalAmount

PosterDefaulted(k) ==
    /\ RemainingOf(k) > 0 /\ WasTimelyDelivered(k)
    /\ now > k.deliveredAt + DeliveryGrace

(* Every way an account's unbanked earnings can turn out in this transaction. *)
Earnings == {e \in [Accounts -> 0..CreditCap] : Credits!CanEarn(ledger, e)}

Refusals == SUBSET MayRefuse

-------------------------------------------------------------------------------
(* Steps several transactions share.                                         *)

(* releaseTask for the poster and, when there is one, the worker.            *)
UnlockedPoster(v, t) == Deposits!Release(v, t, tasks[t].poster)

CanUnlock(v, t) ==
    LET k == tasks[t]
    IN  /\ Deposits!CanRelease(v, t, k.poster)
        /\ k.worker # Nobody => Deposits!CanRelease(UnlockedPoster(v, t), t, k.worker)

(* Mutant: only the poster's collateral is unlocked.                         *)
UnlockPosterOnly(v, t) == UnlockedPoster(v, t)

Unlock(v, t) ==
    LET k == tasks[t]
    IN  IF k.worker = Nobody THEN UnlockedPoster(v, t)
        ELSE Deposits!Release(UnlockedPoster(v, t), t, k.worker)

(* debitAccessFeeTo from the poster to the worker, when it is due.            *)
CanCompensate(v, t, due) ==
    due => Deposits!CanDebitAccessFee(v, t, tasks[t].poster, tasks[t].worker)

Compensate(v, t, due, refusing) ==
    IF due THEN Deposits!DebitAccessFee(v, t, tasks[t].poster, tasks[t].worker, refusing)
    ELSE v

(* _settleCredits: the poster's spent credit first, then the worker's.        *)
AfterPosterCredit(l, t, posterTo, earned) ==
    IF tasks[t].posterCredit
    THEN Credits!SettleSpentCredit(l, t, tasks[t].poster, posterTo, TRUE, earned)
    ELSE l

CanSettleCredits(l, t) ==
    LET k == tasks[t]
    IN  /\ k.posterCredit => Credits!CanSettleSpentCredit(l, t, k.poster, TRUE)
        /\ k.workerCredit =>
              Credits!CanSettleSpentCredit(AfterPosterCredit(l, t, Nobody, Credits!NoEarnings),
                                           t, k.worker, FALSE)

(* Mutant: the worker's credit is forgotten.                                 *)
SettlePosterCreditOnly(l, t, posterTo, workerTo, earned) ==
    AfterPosterCredit(l, t, posterTo, earned)

SettleCredits(l, t, posterTo, workerTo, earned) ==
    LET k == tasks[t]
        updated == IF k.posterCredit /\ posterTo # Nobody THEN {k.poster, posterTo} ELSE {}
        first == AfterPosterCredit(l, t, posterTo, earned)
    IN  IF k.workerCredit
        THEN Credits!SettleSpentCredit(first, t, k.worker, workerTo, FALSE,
                                       Credits!Rest(earned, updated))
        ELSE first

(* _releaseOpenTaskAmount, and the part of _reconcileOpenTaskAmount that      *)
(* lowers the totals: both take n off the task's open amount.                 *)
CanLowerOpenAmount(t, n) ==
    n <= openTaskTotalUsd6 /\ n <= posterOpenTaskTotalUsd6[tasks[t].poster]

LowerOpenAmount(t, n) ==
    /\ openTaskTotalUsd6' = openTaskTotalUsd6 - n
    /\ posterOpenTaskTotalUsd6' = Minus(posterOpenTaskTotalUsd6, tasks[t].poster, n)

(* The task record every terminal path leaves: the open amount is released    *)
(* and the credit flags are cleared.                                         *)
Ended(k, state) ==
    [k EXCEPT !.state = state, !.amountUsd6 = 0,
              !.posterCredit = FALSE, !.workerCredit = FALSE]

EndAccepted(t) == CanLowerOpenAmount(t, tasks[t].amountUsd6) /\ CanSettleCredits(ledger, t)

-------------------------------------------------------------------------------
(* Transactions of the poster and the worker.                                *)

Init ==
    /\ tasks = [t \in Tasks |-> NoTask]
    /\ openTaskTotalUsd6 = 0
    /\ posterOpenTaskTotalUsd6 = [a \in Accounts |-> 0]
    /\ now = 1
    /\ vault = [Deposits!EmptyVault EXCEPT
                   !.balance = StartDeposit * Cardinality(Accounts),
                   !.deposits = [a \in Accounts |-> StartDeposit],
                   !.totalDeposits = StartDeposit * Cardinality(Accounts)]
    /\ escrowVault = Escrow!EmptyEscrowVault
    /\ ledger = [Credits!EmptyLedger EXCEPT !.stakingActive = TRUE]
    /\ tally = Reputation!NoTally

(* post: the quote and the USD6 value are latched at the price of this        *)
(* transaction.                                                              *)
Post(p, t, amount, deadline, price, earned, refusing) ==
    LET waived == Credits!Spends(ledger, p, t, TRUE, earned)
        usd6 == ParUsd6(amount, price)
    IN  /\ tasks[t].state = "NONE"
        /\ amount > 0 /\ now < deadline /\ deadline <= now + MaxTaskDuration
        /\ usd6 > 0 /\ usd6 <= MaxTaskUsd6 /\ usd6 <= OpenTaskCapUsd6
        /\ Deposits!CanReserve(vault, t, p, waived, TRUE, PolicyQuote[price])
        /\ tasks' = [tasks EXCEPT ![t] =
                        [NoTask EXCEPT !.state = "POSTED", !.poster = p,
                                       !.totalAmount = amount, !.deadline = deadline,
                                       !.declaredUsd6 = usd6, !.posterCredit = waived]]
        /\ ledger' = Credits!TrySpend(ledger, p, t, TRUE, earned)
        /\ vault' = Deposits!Reserve(vault, t, p, waived, TRUE, PolicyQuote[price], refusing)
        /\ UNCHANGED <<openTaskTotalUsd6, posterOpenTaskTotalUsd6, now, escrowVault, tally>>

(* claim: the worker reserves at the poster's quote and the escrow opens.     *)
Claim(w, t, earned, refusing) ==
    LET waived == Credits!Spends(ledger, w, t, FALSE, earned)
        quote == vault.taskQuotes[t]
    IN  /\ tasks[t].state = "POSTED" /\ w # tasks[t].poster /\ now <= tasks[t].deadline
        /\ Deposits!CanReserve(vault, t, w, waived, FALSE, quote)
        /\ Escrow!CanCreateEscrow(escrowVault, t, tasks[t].poster, w)
        /\ tasks' = [tasks EXCEPT ![t].state = "CLAIMED", ![t].worker = w,
                                  ![t].fundingDeadline = now + FundingWindow,
                                  ![t].workerCredit = waived]
        /\ ledger' = Credits!TrySpend(ledger, w, t, FALSE, earned)
        /\ vault' = Deposits!Reserve(vault, t, w, waived, FALSE, quote, refusing)
        /\ escrowVault' = Escrow!CreateEscrow(escrowVault, t, tasks[t].poster, w)
        /\ UNCHANGED <<openTaskTotalUsd6, posterOpenTaskTotalUsd6, now, tally>>

(* The USD6 basis of the funded part: the declared value pro rata or the live *)
(* value, whichever is higher, and never below what was admitted before.      *)
FundedBasis(k, newFunded, price) ==
    LET atPost == IF newFunded = k.totalAmount THEN k.declaredUsd6
                  ELSE CeilDiv(k.declaredUsd6 * newFunded, k.totalAmount)
    IN  AtLeast(AtLeast(atPost, ParUsd6(newFunded, price)), k.fundedBasisUsd6)

(* Mutant: the poster's cap alone is checked when a task is funded.          *)
WithinPosterCap(poster, added) == posterOpenTaskTotalUsd6[poster] + added <= PosterCapUsd6

WithinCaps(poster, added) ==
    /\ openTaskTotalUsd6 + added <= OpenTaskCapUsd6
    /\ posterOpenTaskTotalUsd6[poster] + added <= PosterCapUsd6

(* fund: the escrow pulls the AZL; the last part makes the task ACTIVE.       *)
Fund(t, amount, price) ==
    LET k == tasks[t]
        newFunded == k.funded + amount
        basis == FundedBasis(k, newFunded, price)
        added == basis - k.fundedBasisUsd6
    IN  /\ k.state \in {"CLAIMED", "ACTIVE"} /\ amount > 0
        /\ newFunded <= k.totalAmount /\ now <= k.deadline
        /\ k.state = "CLAIMED" => now <= k.fundingDeadline
        /\ WithinCaps(k.poster, added)
        /\ Escrow!CanFundEscrow(escrowVault, t, amount)
        /\ tasks' = [tasks EXCEPT ![t].funded = newFunded, ![t].fundedBasisUsd6 = basis,
                                  ![t].amountUsd6 = basis,
                                  ![t].state = IF newFunded = k.totalAmount
                                               THEN "ACTIVE" ELSE @]
        /\ openTaskTotalUsd6' = openTaskTotalUsd6 + added
        /\ posterOpenTaskTotalUsd6' = Plus(posterOpenTaskTotalUsd6, k.poster, added)
        /\ escrowVault' = Escrow!FundEscrow(escrowVault, t, amount)
        /\ UNCHANGED <<now, vault, ledger, tally>>

MarkDelivered(t) ==
    LET k == tasks[t]
    IN  /\ k.state = "ACTIVE" /\ k.deliveredAt = 0
        /\ k.funded = k.totalAmount /\ k.released < k.funded /\ now <= k.deadline
        /\ tasks' = [tasks EXCEPT ![t].deliveredAt = now]
        /\ UNCHANGED <<openTaskTotalUsd6, posterOpenTaskTotalUsd6, now,
                       vault, escrowVault, ledger, tally>>

(* _finalizeCompletion, after n was released to the worker: both parties'     *)
(* collateral is unlocked and the spent credits are settled to nobody.        *)
FinalizeAccepted(t, n) ==
    /\ n > 0 => Escrow!CanReleaseEscrow(escrowVault, t, n)
    /\ Escrow!CanCloseEscrow(Escrow!ReleaseEscrow(escrowVault, t, n, {}), t)
    /\ CanUnlock(vault, t)
    /\ EndAccepted(t)
    /\ Reputation!CanRecord(tally, t)

Finalize(t, n, refusing) ==
    LET k == tasks[t]
    IN  /\ tasks' = [tasks EXCEPT ![t] = [Ended(k, "COMPLETED") EXCEPT !.released = k.released + n]]
        /\ LowerOpenAmount(t, k.amountUsd6)
        /\ escrowVault' = Escrow!CloseEscrow(
                             Escrow!ReleaseEscrow(escrowVault, t, n, refusing), t)
        /\ vault' = Unlock(vault, t)
        /\ ledger' = SettleCredits(ledger, t, Nobody, Nobody, Credits!NoEarnings)
        /\ tally' = Reputation!RecordCompletion(tally, t, k.poster, k.worker)
        /\ now' = now

(* _reconcileOpenTaskAmount: the open amount shrinks with the unreleased part, *)
(* rounded up.                                                               *)
ReconciledAmount(k, n) ==
    LET pro == CeilDiv(k.fundedBasisUsd6 * (RemainingOf(k) - n), k.funded)
    IN  IF pro < k.amountUsd6 THEN pro ELSE k.amountUsd6

ReleaseRequires(t, n) ==
    /\ tasks[t].state = "ACTIVE" /\ n > 0 /\ tasks[t].released + n <= tasks[t].funded

(* release of a part of what is left.                                        *)
ReleasePart(t, n, refusing) ==
    LET k == tasks[t]
        open == ReconciledAmount(k, n)
    IN  /\ ReleaseRequires(t, n) /\ n < RemainingOf(k)
        /\ Escrow!CanReleaseEscrow(escrowVault, t, n)
        /\ CanLowerOpenAmount(t, k.amountUsd6 - open)
        /\ tasks' = [tasks EXCEPT ![t].released = @ + n, ![t].amountUsd6 = open]
        /\ LowerOpenAmount(t, k.amountUsd6 - open)
        /\ escrowVault' = Escrow!ReleaseEscrow(escrowVault, t, n, refusing)
        /\ UNCHANGED <<now, vault, ledger, tally>>

(* complete, or a release of everything left: the task is completed.          *)
CompleteRequires(t) ==
    /\ tasks[t].state = "ACTIVE" /\ tasks[t].funded = tasks[t].totalAmount

Complete(t, refusing) ==
    /\ CompleteRequires(t)
    /\ FinalizeAccepted(t, RemainingOf(tasks[t]))
    /\ Finalize(t, RemainingOf(tasks[t]), refusing)

CancelRequires(t) ==
    /\ tasks[t].state \in {"POSTED", "CLAIMED"} /\ tasks[t].funded = 0

(* A worker who paid its access fee in AZL is compensated; one who spent a    *)
(* credit gets the credit back.                                              *)
WorkerPaidFee(t) == tasks[t].worker # Nobody /\ ~tasks[t].workerCredit

CancelAccepted(t) ==
    /\ tasks[t].worker # Nobody => Escrow!CanCloseEscrow(escrowVault, t)
    /\ CanCompensate(vault, t, WorkerPaidFee(t))
    /\ CanUnlock(Compensate(vault, t, WorkerPaidFee(t), {}), t)
    /\ EndAccepted(t)

(* cancel: the poster's spent credit goes to the worker, if there is one.     *)
Cancel(t, earned, refusing) ==
    LET k == tasks[t]
        worker == k.worker
    IN  /\ CancelRequires(t)
        /\ CancelAccepted(t)
        /\ tasks' = [tasks EXCEPT ![t] = Ended(k, "CANCELLED")]
        /\ LowerOpenAmount(t, k.amountUsd6)
        /\ escrowVault' = IF worker = Nobody THEN escrowVault
                          ELSE Escrow!CloseEscrow(escrowVault, t)
        /\ vault' = Unlock(Compensate(vault, t, WorkerPaidFee(t), refusing), t)
        /\ ledger' = SettleCredits(ledger, t, IF worker = Nobody THEN k.poster ELSE worker,
                                   worker, earned)
        /\ UNCHANGED <<now, tally>>

-------------------------------------------------------------------------------
(* expire: anybody may end a task that is past its deadline or was not funded *)
(* in time.  Three ways: the poster defaulted on a timely delivery, the       *)
(* poster left the claim underfunded, or nobody is to blame.  (A task nobody   *)
(* posted passes the registry's own check and is refused by releaseTask.)      *)

(* Mutant: a timely delivery does not hold expiry up.                        *)
ExpireIgnoringDelivery(t) ==
    LET k == tasks[t]
    IN  /\ k.state \in {"POSTED", "CLAIMED", "ACTIVE"}
        /\ now > k.deadline \/ (Underfunded(k) /\ now > k.fundingDeadline)

ExpireRequires(t) ==
    LET k == tasks[t]
    IN  /\ k.state \in {"POSTED", "CLAIMED", "ACTIVE"}
        /\ now > k.deadline \/ (Underfunded(k) /\ now > k.fundingDeadline)
        /\ WasTimelyDelivered(k) => PosterDefaulted(k) \/ RemainingOf(k) = 0

(* Mutant: a worker who paid its fee is compensated whoever let the task lapse. *)
LapseCompensates(t) == PosterDefaulted(tasks[t]) \/ WorkerPaidFee(t)

ExpiryCompensates(t) ==
    \/ PosterDefaulted(tasks[t])
    \/ Underfunded(tasks[t]) /\ WorkerPaidFee(t)

ExpireAccepted(t) ==
    LET k == tasks[t]
    IN  /\ RemainingOf(k) > 0 => Escrow!CanRefundEscrow(escrowVault, t)
        /\ RemainingOf(k) = 0 /\ k.worker # Nobody => Escrow!CanCloseEscrow(escrowVault, t)
        /\ CanCompensate(vault, t, ExpiryCompensates(t))
        /\ CanUnlock(Compensate(vault, t, ExpiryCompensates(t), {}), t)
        /\ EndAccepted(t)
        /\ PosterDefaulted(k) => Reputation!CanRecord(tally, t)

(* Mutant: an escrow with nothing in it is left open.                        *)
EscrowLeftOpen(t, refusing) ==
    IF RemainingOf(tasks[t]) > 0 THEN Escrow!RefundEscrow(escrowVault, t, refusing)
    ELSE escrowVault

(* What is left in escrow goes back to the poster.                            *)
EscrowAfterExpiry(t, refusing) ==
    IF RemainingOf(tasks[t]) > 0 THEN Escrow!RefundEscrow(escrowVault, t, refusing)
    ELSE IF tasks[t].worker # Nobody THEN Escrow!CloseEscrow(escrowVault, t)
    ELSE escrowVault

Expire(t, earned, refusing) ==
    LET k == tasks[t]
        blamed == PosterDefaulted(k) \/ Underfunded(k)
    IN  /\ ExpireRequires(t)
        /\ ExpireAccepted(t)
        /\ tasks' = [tasks EXCEPT ![t] = Ended(k, "CANCELLED")]
        /\ LowerOpenAmount(t, k.amountUsd6)
        /\ escrowVault' = EscrowAfterExpiry(t, refusing)
        /\ vault' = Unlock(Compensate(vault, t, ExpiryCompensates(t), refusing), t)
        /\ ledger' = SettleCredits(ledger, t, IF blamed THEN k.worker ELSE k.poster,
                                   IF blamed \/ k.state = "ACTIVE" THEN k.worker ELSE Nobody,
                                   earned)
        /\ tally' = IF PosterDefaulted(k) THEN Reputation!RecordPosterExpiry(tally, t, k.poster)
                    ELSE tally
        /\ now' = now

-------------------------------------------------------------------------------
(* Disputes.                                                                 *)

MayDispute(t, party) ==
    LET k == tasks[t]
    IN  /\ k.state = "ACTIVE" /\ party \in {k.poster, k.worker}
        /\ party = k.poster /\ WasTimelyDelivered(k)
              => now <= k.deliveredAt + PosterDisputeGrace
        /\ k.funded = k.totalAmount /\ k.funded > k.released

(* openDispute: arbitration takes the case and freezes the escrow.            *)
OpenDispute(t, party) ==
    /\ MayDispute(t, party)
    /\ Escrow!CanFreeze(escrowVault, t)
    /\ tasks' = [tasks EXCEPT ![t].state = "DISPUTED"]
    /\ escrowVault' = Escrow!Freeze(escrowVault, t)
    /\ UNCHANGED <<openTaskTotalUsd6, posterOpenTaskTotalUsd6, now, vault, ledger, tally>>

Defaulter(k, outcome) == IF outcome = "POSTER_WINS" THEN k.worker ELSE k.poster
Harmed(k, outcome) == IF outcome = "POSTER_WINS" THEN k.poster ELSE k.worker

Decided(outcome) == outcome \in {"POSTER_WINS", "WORKER_WINS"}

CanResolveDispute(t, outcome) ==
    LET k == tasks[t]
    IN  /\ k.state = "DISPUTED" /\ k.amountUsd6 # 0
        /\ Deposits!CanResolveTask(vault, t, k.poster, k.worker, Decided(outcome),
                                   Defaulter(k, outcome))
        /\ k.funded = k.totalAmount
        /\ k.posterCredit => Credits!CanSettleSpentCredit(ledger, t, k.poster, TRUE)
        /\ k.workerCredit => Credits!CanSettleSpentCredit(ledger, t, k.worker, FALSE)

ExitCharged(v, t, outcome, refusing) ==
    IF Decided(outcome)
    THEN Deposits!DebitExitFee(v, t, Defaulter(tasks[t], outcome),
                               Harmed(tasks[t], outcome), refusing)
    ELSE v

(* What the preflight does not ask: the calls that follow it.                 *)
ResolveAccepted(t, outcome) ==
    /\ Decided(outcome) => Deposits!CanDebitExitFee(vault, t, Defaulter(tasks[t], outcome))
    /\ CanUnlock(ExitCharged(vault, t, outcome, {}), t)
    /\ EndAccepted(t)

(* _validateAllocation of ArbitrationModuleV2.                               *)
ValidAllocation(outcome, bps) ==
    \/ outcome = "POSTER_WINS" /\ bps = 0
    \/ outcome = "WORKER_WINS" /\ bps = 10000
    \/ outcome = "SPLIT" /\ bps >= 1000 /\ bps <= 9000
    \/ outcome = "MUTUAL" /\ bps \in {0, 5000}

SettleRequires(t, outcome) ==
    /\ Escrow!CanSettle(escrowVault, t)
    /\ CanResolveDispute(t, outcome)
    /\ Reputation!CanRecord(tally, t)

(* ArbitrationModuleV2._settle: escrow, then registry, then reputation.       *)
Settle(t, outcome, bps, unresolved, earned, refusing) ==
    LET k == tasks[t]
        marked == IF unresolved THEN Reputation!RecordUnresolved(tally, k.poster) ELSE tally
    IN  /\ SettleRequires(t, outcome)
        /\ Escrow!CanSettleEscrow(escrowVault, t, bps)
        /\ ResolveAccepted(t, outcome)
        /\ escrowVault' = Escrow!SettleEscrow(escrowVault, t, bps, refusing)
        /\ tasks' = [tasks EXCEPT ![t] = [Ended(k, "RESOLVED") EXCEPT !.resolution = outcome]]
        /\ LowerOpenAmount(t, k.amountUsd6)
        /\ vault' = Unlock(ExitCharged(vault, t, outcome, refusing), t)
        /\ ledger' = SettleCredits(ledger, t,
                                   IF outcome = "WORKER_WINS" THEN k.worker ELSE Nobody,
                                   Nobody, earned)
        /\ tally' = Reputation!RecordDispute(marked, t, Harmed(k, outcome),
                                             Defaulter(k, outcome), ~Decided(outcome))
        /\ now' = now

Rule(t, outcome, bps, earned, refusing) ==
    /\ ValidAllocation(outcome, bps)
    /\ Settle(t, outcome, bps, FALSE, earned, refusing)

(* timeout: nobody ruled in time; the escrow goes back to the poster.         *)
TimeoutDispute(t, earned, refusing) ==
    /\ Reputation!CanRecord(tally, t)
    /\ Settle(t, "MUTUAL", 0, TRUE, earned, refusing)

-------------------------------------------------------------------------------
(* What happens to the vaults between task transactions.                     *)

AgentWithdraw(a, n) ==
    /\ Deposits!CanWithdraw(vault, a, n)
    /\ vault' = Deposits!Withdraw(vault, a, n)
    /\ UNCHANGED <<registry, now, escrowVault, ledger, tally>>

GatewayCredit(a, n) ==
    /\ vault.balance + n <= MaxVaultBalance
    /\ Deposits!CanCredit(Deposits!Receive(vault, n), a, n)
    /\ vault' = Deposits!Credit(Deposits!Receive(vault, n), a, n)
    /\ UNCHANGED <<registry, now, escrowVault, ledger, tally>>

ClaimDepositPayout(a) ==
    /\ Deposits!CanClaimPayout(vault, a)
    /\ vault' = Deposits!ClaimPayout(vault, a)
    /\ UNCHANGED <<registry, now, escrowVault, ledger, tally>>

ClaimEscrowPayout(a) ==
    /\ Escrow!CanClaimEscrowPayout(escrowVault, a)
    /\ escrowVault' = Escrow!ClaimEscrowPayout(escrowVault, a)
    /\ UNCHANGED <<registry, now, vault, ledger, tally>>

Tick ==
    /\ now < MaxTime
    /\ now' = now + 1
    /\ UNCHANGED <<registry, vault, escrowVault, ledger, tally>>

UndisputedStep(t) ==
    \/ \E p \in Accounts, amount \in TaskAmounts, deadline \in 1..MaxDeadline, price \in Prices,
         earned \in Earnings, refusing \in Refusals :
         Post(p, t, amount, deadline, price, earned, refusing)
    \/ \E w \in Accounts, earned \in Earnings, refusing \in Refusals :
         Claim(w, t, earned, refusing)
    \/ \E amount \in 1..tasks[t].totalAmount, price \in Prices : Fund(t, amount, price)
    \/ MarkDelivered(t)
    \/ \E n \in 1..tasks[t].funded, refusing \in Refusals : ReleasePart(t, n, refusing)
    \/ \E refusing \in Refusals : Complete(t, refusing)
    \/ \E earned \in Earnings, refusing \in Refusals :
         Cancel(t, earned, refusing) \/ Expire(t, earned, refusing)

DisputeStep(t) ==
    \/ \E party \in Accounts : OpenDispute(t, party)
    \/ \E earned \in Earnings, refusing \in Refusals :
         \/ TimeoutDispute(t, earned, refusing)
         \/ \E outcome \in Rulings, bps \in WorkerShares : Rule(t, outcome, bps, earned, refusing)

AccountStep ==
    \/ \E a \in Accounts, n \in AgentAmounts : AgentWithdraw(a, n) \/ GatewayCredit(a, n)
    \/ \E a \in Accounts : ClaimDepositPayout(a) \/ ClaimEscrowPayout(a)

Next ==
    \/ \E t \in Tasks : UndisputedStep(t) \/ DisputeStep(t)
    \/ AccountStep
    \/ Tick

Spec == Init /\ [][Next]_vars

-------------------------------------------------------------------------------
(* Properties.                                                               *)

TypeOK ==
    /\ tasks \in [Tasks -> Task]
    /\ openTaskTotalUsd6 \in Nat
    /\ posterOpenTaskTotalUsd6 \in [Accounts -> Nat]
    /\ now \in Nat
    /\ vault \in Deposits!VaultType
    /\ escrowVault \in Escrow!EscrowVaultType
    /\ ledger \in Credits!LedgerType
    /\ tally \in Reputation!TallyType

Parties(k) == {k.poster, k.worker} \ {Nobody}

(* The registry and the escrow vault never disagree about a task: who its     *)
(* parties are, what is in it, and whether it is open, frozen or settled.     *)
EscrowFollowsTask ==
    \A t \in Tasks :
        LET k == tasks[t]
            e == escrowVault.escrows[t]
        IN  /\ (e.state = "NONE") <=> (k.worker = Nobody)
            /\ (e.state = "FUNDED") <=> (k.state \in {"CLAIMED", "ACTIVE"})
            /\ (e.state = "FROZEN") <=> (k.state = "DISPUTED")
            /\ e.deposited = k.funded
            /\ k.state \in Live => e.released = k.released
            /\ e.state # "NONE" => e.poster = k.poster /\ e.worker = k.worker

(* Collateral is locked for exactly the parties of the live tasks: nobody's   *)
(* collateral is freed early, and none stays behind when a task has ended.    *)
CollateralFollowsTask ==
    \A t \in Tasks, a \in Accounts :
        (vault.taskReservations[t][a].amount > 0) <=>
            (tasks[t].state \in Live /\ a \in Parties(tasks[t]))

(* Exposure accounting: the running totals are the sums over the open tasks,  *)
(* within the global cap and each poster's share of it, and a task with       *)
(* unreleased AZL has a positive open amount (a disputed task whose amount    *)
(* were 0 could never be resolved).                                          *)
ExposureWithinCaps ==
    /\ openTaskTotalUsd6 = SumFunction([t \in Tasks |-> tasks[t].amountUsd6])
    /\ openTaskTotalUsd6 <= OpenTaskCapUsd6
    /\ \A a \in Accounts :
        /\ posterOpenTaskTotalUsd6[a] =
              SumFunctionOnSet([t \in Tasks |-> tasks[t].amountUsd6],
                               {t \in Tasks : tasks[t].poster = a})
        /\ posterOpenTaskTotalUsd6[a] <= PosterCapUsd6
    /\ \A t \in Tasks :
        tasks[t].state \in Live /\ RemainingOf(tasks[t]) > 0 => tasks[t].amountUsd6 > 0

(* A credit spent on a task is outstanding exactly while the task is live and *)
(* flagged: it is settled once, whichever way the task ends.                  *)
CreditsFollowTask ==
    \A t \in Tasks :
        LET k == tasks[t]
        IN  /\ ledger.taskCreditPayer[t][TRUE] = IF k.posterCredit THEN k.poster ELSE Nobody
            /\ ledger.taskCreditPayer[t][FALSE] = IF k.workerCredit THEN k.worker ELSE Nobody
            /\ k.posterCredit \/ k.workerCredit => k.state \in Live

(* No ending of a task can revert in a contract it calls: when the registry's *)
(* own conditions for completing, cancelling or expiring hold, every callee   *)
(* accepts, and a disputed task can be given any outcome.  A revert would lock *)
(* the escrow for good, since these are the only ways out.                    *)
EndingsNeverRevert ==
    \A t \in Tasks :
        /\ CompleteRequires(t) => FinalizeAccepted(t, RemainingOf(tasks[t]))
        /\ CancelRequires(t) => CancelAccepted(t)
        /\ ExpireRequires(t) => ExpireAccepted(t)
        /\ tasks[t].state = "DISPUTED" =>
              \A outcome \in Rulings :
                  /\ SettleRequires(t, outcome)
                  /\ ResolveAccepted(t, outcome)
                  /\ \A bps \in WorkerShares : Escrow!CanSettleEscrow(escrowVault, t, bps)

(* A timely delivery cannot be expired for free: the task ends by expiry only *)
(* after the grace, the poster is charged the access fee again for the worker *)
(* and takes a loss.                                                         *)
DeliveryNotExpiredForFree ==
    [][\A t \in Tasks :
          /\ tasks[t].state = "ACTIVE" /\ WasTimelyDelivered(tasks[t])
          /\ tasks'[t].state = "CANCELLED"
          => LET poster == tasks[t].poster
             IN  /\ now > tasks[t].deliveredAt + DeliveryGrace
                 /\ vault'.deposits[poster] = vault.deposits[poster] - vault.taskQuotes[t].accessFee
                 /\ tally'.losses[poster] = tally.losses[poster] + 1
      ]_vars

(* The account pays an access fee: it posts or claims without a credit.        *)
PaysToEnter(t, a) ==
    \/ /\ tasks[t].state = "NONE" /\ tasks'[t].state = "POSTED"
       /\ a = tasks'[t].poster /\ ~tasks'[t].posterCredit
    \/ /\ tasks[t].state = "POSTED" /\ tasks'[t].state = "CLAIMED"
       /\ a = tasks'[t].worker /\ ~tasks'[t].workerCredit

(* A ruling goes against the account.                                         *)
LosesRuling(t, a) ==
    /\ tasks[t].state = "DISPUTED" /\ tasks'[t].state = "RESOLVED"
    /\ \/ tasks'[t].resolution = "POSTER_WINS" /\ a = tasks[t].worker
       \/ tasks'[t].resolution = "WORKER_WINS" /\ a = tasks[t].poster

(* The poster withdraws a task it has not funded, or lets it lapse without the *)
(* funding, after a worker paid to claim it.                                  *)
LeavesUnfunded(t, a) ==
    LET k == tasks[t]
    IN  /\ a = k.poster /\ k.state = "CLAIMED" /\ ~k.workerCredit
        /\ tasks'[t].state = "CANCELLED"
        /\ k.funded = 0 \/ now > k.deadline \/ now > k.fundingDeadline

(* The poster lets a task lapse without paying for a delivery made in time.    *)
LeavesUnpaid(t, a) ==
    LET k == tasks[t]
    IN  /\ a = k.poster /\ k.state = "ACTIVE" /\ tasks'[t].state = "CANCELLED"
        /\ WasTimelyDelivered(k) /\ k.released < k.funded
        /\ now > k.deliveredAt + DeliveryGrace

(* The account takes AZL out by itself: no task and no other deposit is        *)
(* touched.                                                                  *)
TakesOut(a) ==
    /\ UNCHANGED tasks
    /\ \A b \in Accounts \ {a} : vault'.deposits[b] >= vault.deposits[b]

ChargedFairly(a) ==
    vault'.deposits[a] < vault.deposits[a] =>
        \/ TakesOut(a)
        \/ \E t \in Tasks : PaysToEnter(t, a)
        \/ \E t \in Tasks :
              /\ LosesRuling(t, a) \/ LeavesUnfunded(t, a) \/ LeavesUnpaid(t, a)
              /\ vault.deposits[a] - vault'.deposits[a] <= vault.taskReservations[t][a].amount

(* No step takes from an account's deposit otherwise than by its own           *)
(* withdrawal, its fee on entering a task, or for its own fault: it lost the   *)
(* ruling, or it is the poster who left the worker unfunded or unpaid; and     *)
(* then no more than the collateral it reserved for that task.  A task that    *)
(* completes, lapses with nothing delivered, is split or times out costs       *)
(* nobody anything.                                                          *)
ChargedOnlyForFault == [][\A a \in Accounts : ChargedFairly(a)]_vars

(* The registry with its vaults implements the life of a task as TaskLifecycle *)
(* states it: collateral as the deposit vault has it, AZL as the escrow vault  *)
(* has it.                                                                   *)
Lifecycle == INSTANCE TaskLifecycle WITH
    stage <- [t \in Tasks |->
                CASE tasks[t].state = "NONE" -> "none"
                  [] tasks[t].state = "POSTED" -> "offered"
                  [] tasks[t].state \in {"CLAIMED", "ACTIVE"} -> "taken"
                  [] tasks[t].state = "DISPUTED" -> "frozen"
                  [] OTHER -> "over"],
    locked <- [t \in Tasks |-> {a \in Accounts : vault.taskReservations[t][a].amount > 0}],
    held <- [t \in Tasks |-> Escrow!Remaining(escrowVault, t)]

ImplementsLifecycle == Lifecycle!Spec
===============================================================================
