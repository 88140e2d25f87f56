----------------------------- MODULE DepositVault -----------------------------
(***************************************************************************)
(* AgentDepositVaultV2: the AZL every agent deposits, the collateral each   *)
(* live task reserves in it, the fees debited from it and the payouts it    *)
(* defers when a transfer fails.                                            *)
(*                                                                          *)
(* Every external function is a pair of operators over the contract's       *)
(* state, a record: Can<Function> is the conjunction of its requires, with  *)
(* Solidity's checked subtractions among them, and <Function> is the state  *)
(* it leaves.  TaskRegistry calls several of them in one transaction.       *)
(* Below them the contract on its own: registry, gateway, agents and owner  *)
(* may call whatever they may call, in any order.                           *)
(***************************************************************************)
EXTENDS Naturals, FiniteSets, Functions, Amounts

CONSTANTS
    Tasks,       \* task ids
    Accounts,    \* agents: posters and workers
    Treasury,    \* TreasuryRouterV2, which receives protocol fees
    Quotes,      \* the quotes AzlPricingPolicy can produce
    MaxBalance   \* bound on the AZL the vault holds (model checking only)

QuoteType == [entryDeposit : Nat, liveTaskReserve : Nat, accessFee : Nat,
              exitCompensation : Nat, exitProtocolShare : Nat]

ReservationType == [amount : Nat, exitCompensation : Nat,
                    exitProtocolShare : Nat, accessCompensation : Nat]

NoQuote == [entryDeposit |-> 0, liveTaskReserve |-> 0, accessFee |-> 0,
            exitCompensation |-> 0, exitProtocolShare |-> 0]

NoReservation == [amount |-> 0, exitCompensation |-> 0,
                  exitProtocolShare |-> 0, accessCompensation |-> 0]

(* Task ids and addresses are finitely many; AzlPricingPolicy requires an      *)
(* exit fee.                                                                 *)
ASSUME VaultAssumption ==
    /\ IsFiniteSet(Tasks) /\ IsFiniteSet(Accounts)
    /\ Treasury \notin Accounts
    /\ Quotes \subseteq QuoteType
    /\ \A q \in Quotes : q.exitCompensation + q.exitProtocolShare > 0
    /\ MaxBalance \in Nat

Payees == Accounts \cup {Treasury}

VaultType ==
    [balance : Nat,                            \* azl.balanceOf(vault)
     deposits : [Accounts -> Nat],
     reserved : [Accounts -> Nat],
     activeTaskReservations : [Accounts -> Nat],
     latchedEntryFloor : [Accounts -> Nat],
     taskQuotes : [Tasks -> QuoteType],
     taskReservations : [Tasks -> [Accounts -> ReservationType]],
     pendingPayouts : [Payees -> Nat],
     totalDeposits : Nat,
     totalReserved : Nat,
     totalPendingPayouts : Nat]

EmptyVault ==
    [balance |-> 0,
     deposits |-> [a \in Accounts |-> 0],
     reserved |-> [a \in Accounts |-> 0],
     activeTaskReservations |-> [a \in Accounts |-> 0],
     latchedEntryFloor |-> [a \in Accounts |-> 0],
     taskQuotes |-> [t \in Tasks |-> NoQuote],
     taskReservations |-> [t \in Tasks |-> [a \in Accounts |-> NoReservation]],
     pendingPayouts |-> [p \in Payees |-> 0],
     totalDeposits |-> 0,
     totalReserved |-> 0,
     totalPendingPayouts |-> 0]

-------------------------------------------------------------------------------
(* Helpers of the contract.                                                 *)

(* Mutant: reserved collateral counts as available.                          *)
WholeDeposit(v, a) == v.deposits[a]

Available(v, a) == Monus(v.deposits[a], v.reserved[a])

(* Mutant: withdrawals forget the entry floor of live tasks.                 *)
WithdrawableAboveCollateral(v, a) == Available(v, a)

Withdrawable(v, a) ==
    Monus(Available(v, a),
          IF v.activeTaskReservations[a] = 0 THEN 0 ELSE v.latchedEntryFloor[a])

Liabilities(v) == v.totalDeposits + v.totalPendingPayouts

(* AZL is a standard token: a transfer moves the exact amount or nothing.    *)
(* refusing is the set of recipients whose transfers fail in this            *)
(* transaction; a failed transfer is owed instead of reverting the task.     *)
Paid(v, to, n, refusing) == to \notin refusing /\ n <= v.balance

PayOrDefer(v, to, n, refusing) ==
    IF n = 0 THEN v
    ELSE IF Paid(v, to, n, refusing)
    THEN [v EXCEPT !.balance = @ - n]
    ELSE [v EXCEPT !.pendingPayouts = Plus(@, to, n), !.totalPendingPayouts = @ + n]

CanDebit(v, a, n) == n <= v.deposits[a] /\ n <= v.totalDeposits

Debit(v, a, n) ==
    [v EXCEPT !.deposits = Minus(@, a, n), !.totalDeposits = @ - n]

(* _releaseTask and _decrementReservationCount: the entry floor is cleared   *)
(* with the account's last reservation.                                      *)
CanRelease(v, t, a) ==
    LET n == v.taskReservations[t][a].amount
    IN  n > 0 => /\ n <= v.reserved[a]
                 /\ n <= v.totalReserved
                 /\ v.activeTaskReservations[a] > 0

(* Mutant: the entry floor stays after the last reservation.                 *)
ReleaseKeepingFloor(v, t, a) ==
    LET n == v.taskReservations[t][a].amount
    IN  IF n = 0 THEN v
        ELSE [v EXCEPT
                !.taskReservations[t][a] = NoReservation,
                !.reserved = Minus(@, a, n),
                !.totalReserved = @ - n,
                !.activeTaskReservations = Minus(@, a, 1)]

Release(v, t, a) ==
    LET n == v.taskReservations[t][a].amount
    IN  IF n = 0 THEN v
        ELSE [v EXCEPT
                !.taskReservations[t][a] = NoReservation,
                !.reserved = Minus(@, a, n),
                !.totalReserved = @ - n,
                !.activeTaskReservations = Minus(@, a, 1),
                !.latchedEntryFloor =
                    IF v.activeTaskReservations[a] = 1 THEN [@ EXCEPT ![a] = 0] ELSE @]

-------------------------------------------------------------------------------
(* External functions.                                                       *)

CanCredit(v, a, n) == n > 0 /\ v.balance >= Liabilities(v) + n

Credit(v, a, n) == 
    [v EXCEPT !.deposits = Plus(@, a, n), !.totalDeposits = @ + n]

(* Mutant: only the deposit limits a withdrawal.                             *)
WithdrawAnything(v, a, n) == n > 0 /\ CanDebit(v, a, n) /\ n <= v.balance

CanWithdraw(v, a, n) == n > 0 /\ n <= Withdrawable(v, a) /\ CanDebit(v, a, n)
                        /\ n <= v.balance

Withdraw(v, a, n) == [Debit(v, a, n) EXCEPT !.balance = @ - n]

(* reserveTask: the poster (createQuote) latches the quote policy.quoteTask() *)
(* returns, q; the worker reuses it.  A waived fee was paid in Action Credit. *)
QuoteFor(v, t, createQuote, q) == IF createQuote THEN q ELSE v.taskQuotes[t]

EntryFloor(v, a, quote) ==
    AtLeast(quote.entryDeposit, v.latchedEntryFloor[a])

AccessFee(quote, waive) == IF waive THEN 0 ELSE quote.accessFee

(* Mutant: an account may reserve twice for one task.                        *)
ReserveTwice(v, t, a, waive, createQuote, q) ==
    LET quote == QuoteFor(v, t, createQuote, q)
        fee == AccessFee(quote, waive)
    IN  /\ createQuote => v.taskQuotes[t].liveTaskReserve = 0
        /\ quote.entryDeposit > 0 /\ quote.liveTaskReserve > 0 /\ quote.accessFee > 0
        /\ quote.exitCompensation + quote.exitProtocolShare <= quote.liveTaskReserve
        /\ quote.accessFee <= quote.liveTaskReserve
        /\ Available(v, a) >= EntryFloor(v, a, quote) + quote.liveTaskReserve + fee
        /\ CanDebit(v, a, fee)

CanReserve(v, t, a, waive, createQuote, q) ==
    LET quote == QuoteFor(v, t, createQuote, q)
        fee == AccessFee(quote, waive)
    IN  /\ createQuote => v.taskQuotes[t].liveTaskReserve = 0
        /\ quote.entryDeposit > 0 /\ quote.liveTaskReserve > 0 /\ quote.accessFee > 0
        /\ quote.exitCompensation + quote.exitProtocolShare <= quote.liveTaskReserve
        /\ quote.accessFee <= quote.liveTaskReserve
        /\ v.taskReservations[t][a].amount = 0
        /\ Available(v, a) >= EntryFloor(v, a, quote) + quote.liveTaskReserve + fee
        /\ CanDebit(v, a, fee)

Reserve(v, t, a, waive, createQuote, q, refusing) ==
    LET quote == QuoteFor(v, t, createQuote, q)
        fee == AccessFee(quote, waive)
        latched ==
            [v EXCEPT
                !.taskQuotes[t] = quote,
                !.latchedEntryFloor[a] = EntryFloor(v, a, quote),
                !.taskReservations[t][a] =
                    [amount |-> quote.liveTaskReserve,
                     exitCompensation |-> quote.exitCompensation,
                     exitProtocolShare |-> quote.exitProtocolShare,
                     accessCompensation |-> quote.accessFee],
                !.activeTaskReservations = Plus(@, a, 1),
                !.reserved = Plus(@, a, quote.liveTaskReserve),
                !.totalReserved = @ + quote.liveTaskReserve]
    IN  PayOrDefer(Debit(latched, a, fee), Treasury, fee, refusing)

ExitFee(v, t, a) == v.taskReservations[t][a].exitCompensation
                    + v.taskReservations[t][a].exitProtocolShare

(* canResolveTask: the preflight of a ruling; defaulter = harmed when nobody  *)
(* defaulted (two zero addresses in the code).                                *)
CanResolveTask(v, t, poster, worker, ruled, defaulter) ==
    /\ v.taskReservations[t][poster].amount > 0
    /\ v.taskReservations[t][worker].amount > 0
    /\ ruled => /\ ExitFee(v, t, defaulter) > 0
                /\ ExitFee(v, t, defaulter) <= v.taskReservations[t][defaulter].amount
                /\ ExitFee(v, t, defaulter) <= v.deposits[defaulter]

CanDebitExitFee(v, t, a) ==
    LET fee == ExitFee(v, t, a)
    IN  /\ v.taskReservations[t][a].amount > 0 /\ fee > 0
        /\ fee <= v.taskReservations[t][a].amount
        /\ CanRelease(v, t, a)
        /\ CanDebit(v, a, fee)

(* debitExitFee: unlock the reservation, charge the defaulter, compensate the *)
(* harmed party and send the treasury its share.                              *)
DebitExitFee(v, t, a, harmed, refusing) ==
    LET r == v.taskReservations[t][a]
        charged == Debit(Release(v, t, a), a, ExitFee(v, t, a))
        compensated == PayOrDefer(charged, harmed, r.exitCompensation, refusing)
    IN  PayOrDefer(compensated, Treasury, r.exitProtocolShare, refusing)

CanDebitAccessFee(v, t, a, recipient) ==
    LET fee == v.taskReservations[t][a].accessCompensation
    IN  /\ recipient # a /\ fee > 0
        /\ fee <= v.taskReservations[t][a].amount
        /\ CanRelease(v, t, a)
        /\ CanDebit(v, a, fee)

(* debitAccessFeeTo: the access fee again, this time to the party the         *)
(* account left waiting.                                                      *)
DebitAccessFee(v, t, a, recipient, refusing) ==
    LET fee == v.taskReservations[t][a].accessCompensation
    IN  PayOrDefer(Debit(Release(v, t, a), a, fee), recipient, fee, refusing)

CanClaimPayout(v, p) ==
    LET n == v.pendingPayouts[p]
    IN  n > 0 /\ n <= v.totalPendingPayouts /\ n <= v.balance

(* Mutant: the payout is paid and stays a liability.                         *)
ClaimKeepingTotal(v, p) ==
    LET n == v.pendingPayouts[p]
    IN  [v EXCEPT !.pendingPayouts[p] = 0, !.balance = @ - n]

ClaimPayout(v, p) ==
    LET n == v.pendingPayouts[p]
    IN  [v EXCEPT !.pendingPayouts[p] = 0, !.totalPendingPayouts = @ - n,
                  !.balance = @ - n]

CanRescueSurplus(v, n) == n > 0 /\ v.balance >= Liabilities(v) + n

Receive(v, n) == [v EXCEPT !.balance = @ + n]

Send(v, n) == [v EXCEPT !.balance = @ - n]

-------------------------------------------------------------------------------
(* The contract on its own: its callers call in any order with any arguments. *)

VARIABLE vault

Init == vault = EmptyVault

(* AzlPaymentGateway._guardAndCredit transfers the AZL and credits it in one  *)
(* transaction.                                                               *)
GatewayCredit(a, n) ==
    /\ vault.balance + n <= MaxBalance
    /\ CanCredit(Receive(vault, n), a, n)
    /\ vault' = Credit(Receive(vault, n), a, n)

(* Anyone may send AZL to the vault without being credited.                   *)
Donate(n) ==
    /\ n > 0 /\ vault.balance + n <= MaxBalance
    /\ vault' = Receive(vault, n)

AgentWithdraw(a, n) ==
    /\ CanWithdraw(vault, a, n)
    /\ vault' = Withdraw(vault, a, n)

RegistryReserve(t, a, waive, createQuote, q, refusing) ==
    /\ CanReserve(vault, t, a, waive, createQuote, q)
    /\ vault' = Reserve(vault, t, a, waive, createQuote, q, refusing)

RegistryRelease(t, a) ==
    /\ CanRelease(vault, t, a)
    /\ vault' = Release(vault, t, a)

RegistryDebitExitFee(t, a, harmed, refusing) ==
    /\ CanDebitExitFee(vault, t, a)
    /\ vault' = DebitExitFee(vault, t, a, harmed, refusing)

RegistryDebitAccessFee(t, a, recipient, refusing) ==
    /\ CanDebitAccessFee(vault, t, a, recipient)
    /\ vault' = DebitAccessFee(vault, t, a, recipient, refusing)

PayeeClaim(p) ==
    /\ CanClaimPayout(vault, p)
    /\ vault' = ClaimPayout(vault, p)

OwnerRescue(n) ==
    /\ CanRescueSurplus(vault, n)
    /\ vault' = Send(vault, n)

Next ==
    \/ \E a \in Accounts, n \in 1..MaxBalance :
          GatewayCredit(a, n) \/ AgentWithdraw(a, n)
    \/ \E n \in 1..MaxBalance : Donate(n) \/ OwnerRescue(n)
    \/ \E t \in Tasks, a \in Accounts, waive \in BOOLEAN, createQuote \in BOOLEAN,
          q \in Quotes, refusing \in SUBSET {Treasury} :
          RegistryReserve(t, a, waive, createQuote, q, refusing)
    \/ \E t \in Tasks, a \in Accounts : RegistryRelease(t, a)
    \/ \E t \in Tasks, a \in Accounts, b \in Accounts, refusing \in SUBSET Payees :
          \/ RegistryDebitExitFee(t, a, b, refusing)
          \/ RegistryDebitAccessFee(t, a, b, refusing)
    \/ \E p \in Payees : PayeeClaim(p)

Spec == Init /\ [][Next]_vault

-------------------------------------------------------------------------------
TypeOK == vault \in VaultType

(* An agent's deposit always covers its reserved collateral and, while a task *)
(* is live, the entry floor latched for it (GL-05 of contracts/PROPERTIES.md). *)
(* No sequence of fees, releases, withdrawals and new tasks at other prices   *)
(* may break it.                                                             *)
ReservationsBacked ==
    \A a \in Accounts :
        vault.deposits[a] >= vault.reserved[a] + vault.latchedEntryFloor[a]

(* The entry floor is held exactly as long as the agent has a live task.      *)
FloorOnlyWhileActive ==
    \A a \in Accounts :
        (vault.latchedEntryFloor[a] > 0) <=> (vault.activeTaskReservations[a] > 0)

(* The vault can pay every deposit and every deferred payout at once.         *)
Solvent == vault.balance >= Liabilities(vault)

(* The running totals and counters are the sums of what they summarise: they  *)
(* are updated apart from it, on every path through fees and releases.        *)
BooksBalance ==
    /\ vault.totalDeposits = SumFunction(vault.deposits)
    /\ vault.totalReserved = SumFunction(vault.reserved)
    /\ vault.totalPendingPayouts = SumFunction(vault.pendingPayouts)
    /\ \A a \in Accounts :
        /\ vault.reserved[a] =
              SumFunction([t \in Tasks |-> vault.taskReservations[t][a].amount])
        /\ vault.activeTaskReservations[a] =
              Cardinality({t \in Tasks : vault.taskReservations[t][a].amount > 0})

(* Whatever happened since a reservation was made, its task can be settled in *)
(* any of the three ways: released, charged the exit fee of a lost dispute,   *)
(* or charged the access fee of a default.  A revert here would lock the      *)
(* task's escrow.                                                             *)
SettlementNeverReverts ==
    \A t \in Tasks, a \in Accounts :
        vault.taskReservations[t][a].amount > 0 =>
            /\ CanRelease(vault, t, a)
            /\ CanDebitExitFee(vault, t, a)
            /\ \A b \in Accounts \ {a} : CanDebitAccessFee(vault, t, a, b)
===============================================================================
