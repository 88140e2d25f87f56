---------------------------- MODULE Protocol_proofs ----------------------------
(***************************************************************************)
(* The task registry with its two vaults, its credit ledger and its tally, and *)
(* the market that joins it to arbitration, for any tasks, accounts, verifiers, *)
(* prices, amounts, ceilings, windows and quotes.                             *)
(*   The registry: it and the contracts it calls never disagree about a task,   *)
(* no ending of a task reverts, nobody pays but for a fault, and the whole      *)
(* implements TaskLifecycle.  The argument is one inductive invariant,          *)
(* RegistryInv, kept by every transaction; what the vaults do is taken from      *)
(* DepositVault_proofs and EscrowVault_proofs.  Then, that the quotes of the    *)
(* pricing policy are ones the vault accepts.                                 *)
(*   The market: every step of Protocol is a step of the registry and a step of  *)
(* arbitration, or leaves them alone, so the invariants of TaskRegistry and of   *)
(* Arbitration_proofs carry over; that the two sides agree about every dispute   *)
(* is the one conjunct that belongs to neither (AllAgree).                     *)
(***************************************************************************)
EXTENDS Protocol, PricingPolicy, SumTheorems, FiniteSetTheorems, TLAPS

DP == INSTANCE DepositVault_proofs WITH Quotes <- PolicyQuotes, MaxBalance <- MaxVaultBalance
EP == INSTANCE EscrowVault_proofs WITH MaxEscrowBalance <- 0, MaxDeposit <- 0

-------------------------------------------------------------------------------
(* The vaults as the registry calls them.  What DepositVault_proofs and         *)
(* EscrowVault_proofs state about one vault is stated here of the operators     *)
(* the registry uses.                                                         *)

(* What the two vaults assume of their constants holds of the registry's.       *)
LEMMA SameFinite ==
    ASSUME NEW S, IsFiniteSet(S)
    PROVE  DP!IsFiniteSet(S) /\ EP!IsFiniteSet(S)
BY DEF IsFiniteSet, DP!IsFiniteSet, EP!IsFiniteSet

(* What the deposit vault assumes of its constants holds of the registry's.   *)
LEMMA VaultConstants == DP!VaultAssumption
<1>1. DP!IsFiniteSet(Tasks) /\ DP!IsFiniteSet(Accounts) /\ MaxVaultBalance \in Nat
  BY RegistryAssumption, SameFinite
<1>2. \A q \in PolicyQuotes : /\ q \in Deposits!QuoteType
                              /\ q.exitCompensation + q.exitProtocolShare > 0
  BY RegistryAssumption DEF PolicyQuotes
<1>3. PolicyQuotes \subseteq DP!QuoteType
  BY <1>2 DEF DP!QuoteType, Deposits!QuoteType
<1> QED BY <1>1, <1>2, <1>3, RegistryAssumption

(* What the escrow vault assumes of its constants holds of the registry's.    *)
LEMMA EscrowConstants == EP!EscrowAssumption
<1>1. EP!IsFiniteSet(Tasks) /\ EP!IsFiniteSet(Accounts)
  BY RegistryAssumption, SameFinite
<1> QED BY <1>1, RegistryAssumption DEF EP!FullBps

KeptDeposits(v) == DP!Kept(v)
KeptEscrows(v) == EP!Sound(v, 0)

(* Releasing a reservation.                                                   *)
LEMMA SameRelease ==
    ASSUME NEW v, NEW t, NEW a
    PROVE  /\ DP!Release(v, t, a) = Deposits!Release(v, t, a)
           /\ DP!CanRelease(v, t, a) = Deposits!CanRelease(v, t, a)
BY DEF DP!Release, Deposits!Release, DP!CanRelease, Deposits!CanRelease,
       DP!NoReservation, Deposits!NoReservation, DP!Minus, Deposits!Minus

(* Paying or deferring, and debiting a deposit.                               *)
LEMMA SamePay ==
    ASSUME NEW v, NEW to, NEW n, NEW refusing
    PROVE  /\ DP!PayOrDefer(v, to, n, refusing) = Deposits!PayOrDefer(v, to, n, refusing)
           /\ DP!Debit(v, to, n) = Deposits!Debit(v, to, n)
           /\ DP!CanDebit(v, to, n) = Deposits!CanDebit(v, to, n)
BY DEF DP!PayOrDefer, Deposits!PayOrDefer, DP!Paid, Deposits!Paid, DP!Plus, Deposits!Plus,
       DP!Debit, Deposits!Debit, DP!Minus, Deposits!Minus, DP!CanDebit, Deposits!CanDebit

(* Reserving collateral with its access fee.                                  *)
LEMMA SameReserve ==
    ASSUME NEW v, NEW t, NEW a, NEW waive, NEW createQuote, NEW q, NEW refusing
    PROVE  /\ DP!Reserve(v, t, a, waive, createQuote, q, refusing)
                 = Deposits!Reserve(v, t, a, waive, createQuote, q, refusing)
           /\ DP!CanReserve(v, t, a, waive, createQuote, q)
                 = Deposits!CanReserve(v, t, a, waive, createQuote, q)
BY SamePay
   DEF DP!Reserve, Deposits!Reserve, DP!CanReserve, Deposits!CanReserve,
       DP!QuoteFor, Deposits!QuoteFor, DP!AccessFee, Deposits!AccessFee,
       DP!EntryFloor, Deposits!EntryFloor, DP!AtLeast, Deposits!AtLeast,
       DP!Available, Deposits!Available, DP!Monus, Deposits!Monus, DP!Plus, Deposits!Plus

(* The exit fee and the access fee of a default.                              *)
LEMMA SameFees ==
    ASSUME NEW v, NEW t, NEW a, NEW b, NEW refusing
    PROVE  /\ DP!DebitExitFee(v, t, a, b, refusing) = Deposits!DebitExitFee(v, t, a, b, refusing)
           /\ DP!CanDebitExitFee(v, t, a) = Deposits!CanDebitExitFee(v, t, a)
           /\ DP!ExitFee(v, t, a) = Deposits!ExitFee(v, t, a)
           /\ DP!DebitAccessFee(v, t, a, b, refusing)
                 = Deposits!DebitAccessFee(v, t, a, b, refusing)
           /\ DP!CanDebitAccessFee(v, t, a, b) = Deposits!CanDebitAccessFee(v, t, a, b)
BY SamePay, SameRelease
   DEF DP!DebitExitFee, Deposits!DebitExitFee, DP!CanDebitExitFee, Deposits!CanDebitExitFee,
       DP!ExitFee, Deposits!ExitFee, DP!DebitAccessFee, Deposits!DebitAccessFee,
       DP!CanDebitAccessFee, Deposits!CanDebitAccessFee

(* The account's own calls: withdraw, credit, receive and claim.              *)
LEMMA SameAccounts ==
    ASSUME NEW v, NEW a, NEW n
    PROVE  /\ DP!Withdraw(v, a, n) = Deposits!Withdraw(v, a, n)
           /\ DP!CanWithdraw(v, a, n) = Deposits!CanWithdraw(v, a, n)
           /\ DP!Credit(v, a, n) = Deposits!Credit(v, a, n)
           /\ DP!CanCredit(v, a, n) = Deposits!CanCredit(v, a, n)
           /\ DP!Receive(v, n) = Deposits!Receive(v, n)
           /\ DP!ClaimPayout(v, a) = Deposits!ClaimPayout(v, a)
           /\ DP!CanClaimPayout(v, a) = Deposits!CanClaimPayout(v, a)
BY SamePay
   DEF DP!Withdraw, Deposits!Withdraw, DP!CanWithdraw, Deposits!CanWithdraw,
       DP!Withdrawable, Deposits!Withdrawable, DP!Available, Deposits!Available,
       DP!Monus, Deposits!Monus, DP!Credit, Deposits!Credit, DP!Plus, Deposits!Plus,
       DP!CanCredit, Deposits!CanCredit, DP!Liabilities, Deposits!Liabilities,
       DP!Receive, Deposits!Receive, DP!ClaimPayout, Deposits!ClaimPayout,
       DP!CanClaimPayout, Deposits!CanClaimPayout

(* The sums over accounts and tasks.                                          *)
LEMMA SameSums ==
    ASSUME NEW f, NEW S
    PROVE  /\ Credits!SumFunctionOnSet(f, S) = SumFunctionOnSet(f, S)
           /\ DP!SumFunctionOnSet(f, S) = SumFunctionOnSet(f, S)
           /\ EP!SumFunctionOnSet(f, S) = SumFunctionOnSet(f, S)
BY DEF Credits!SumFunctionOnSet, DP!SumFunctionOnSet, EP!SumFunctionOnSet, SumFunctionOnSet,
       Credits!FoldFunctionOnSet, DP!FoldFunctionOnSet, EP!FoldFunctionOnSet, FoldFunctionOnSet,
       Credits!MapThenFoldSet, DP!MapThenFoldSet, EP!MapThenFoldSet, MapThenFoldSet

(* The lemmas of DepositVault_proofs, of the registry's operators.              *)
VaultFields(v) ==
    /\ v \in Deposits!VaultType
    /\ v.taskReservations \in [Tasks -> [Accounts -> Deposits!ReservationType]]
    /\ v.taskQuotes \in [Tasks -> Deposits!QuoteType]
    /\ v.deposits \in [Accounts -> Nat]

(* A kept vault has its type.                                                 *)
LEMMA KeptVaultType ==
    ASSUME NEW v, KeptDeposits(v)
    PROVE  VaultFields(v)
<1>1. v \in DP!VaultType
  BY VaultConstants, DP!KeptType DEF KeptDeposits
<1>2. v \in Deposits!VaultType
  BY <1>1 DEF DP!VaultType, DP!Payees, DP!QuoteType, DP!ReservationType,
              Deposits!VaultType, Deposits!Payees, Deposits!QuoteType, Deposits!ReservationType
<1> QED BY <1>2 DEF Deposits!VaultType, VaultFields

(* What reserveTask does to a vault that keeps its books.                     *)
LEMMA ReserveStep ==
    ASSUME NEW v, KeptDeposits(v), NEW t \in Tasks, NEW a \in Accounts, NEW waive \in BOOLEAN,
           NEW createQuote \in BOOLEAN, NEW q, createQuote => q \in PolicyQuotes, NEW refusing,
           Deposits!CanReserve(v, t, a, waive, createQuote, q),
           NEW quote, quote = Deposits!QuoteFor(v, t, createQuote, q)
    PROVE  LET r == Deposits!Reserve(v, t, a, waive, createQuote, q, refusing)
           IN  /\ KeptDeposits(r)
               /\ quote.liveTaskReserve > 0
               /\ r.taskQuotes = [v.taskQuotes EXCEPT ![t] = quote]
               /\ r.taskReservations = [v.taskReservations EXCEPT ![t][a] =
                     [amount |-> quote.liveTaskReserve,
                      exitCompensation |-> quote.exitCompensation,
                      exitProtocolShare |-> quote.exitProtocolShare,
                      accessCompensation |-> quote.accessFee]]
<1>1. DP!CanReserve(v, t, a, waive, createQuote, q) /\ DP!Kept(v)
  BY SameReserve DEF KeptDeposits
<1> DEFINE r == DP!Reserve(v, t, a, waive, createQuote, q, refusing)
           offer == DP!QuoteFor(v, t, createQuote, q)
<1>2. DP!Reserved(v, r, t, a, offer)
  BY <1>1, VaultConstants, DP!ReserveKept
<1>3. /\ r = Deposits!Reserve(v, t, a, waive, createQuote, q, refusing)
      /\ offer = quote
  BY SameReserve DEF DP!QuoteFor, Deposits!QuoteFor
<1> HIDE DEF r, offer
<1> QED BY <1>2, <1>3 DEF KeptDeposits, DP!Reserved, DP!ReservationAt

(* What releaseTask does to it.                                               *)
LEMMA ReleaseStep ==
    ASSUME NEW v, KeptDeposits(v), NEW t \in Tasks, NEW a \in Accounts
    PROVE  LET r == Deposits!Release(v, t, a)
           IN  /\ Deposits!CanRelease(v, t, a)
               /\ KeptDeposits(r)
               /\ r.deposits = v.deposits /\ r.taskQuotes = v.taskQuotes
               /\ r.taskReservations =
                     [v.taskReservations EXCEPT ![t][a] =
                         IF v.taskReservations[t][a].amount = 0 THEN @
                         ELSE Deposits!NoReservation]
<1>1. DP!Kept(v)
  BY DEF KeptDeposits
<1>2. DP!NoReservation = Deposits!NoReservation
  BY DEF DP!NoReservation, Deposits!NoReservation
<1> QED BY <1>1, <1>2, SameRelease, VaultConstants, DP!ReleaseKept DEF KeptDeposits

(* What debitExitFee does to it.                                              *)
LEMMA ExitFeeStep ==
    ASSUME NEW v, KeptDeposits(v), NEW t \in Tasks, NEW a \in Accounts, NEW harmed \in Accounts,
           NEW refusing, v.taskReservations[t][a].amount > 0
    PROVE  LET r == Deposits!DebitExitFee(v, t, a, harmed, refusing)
           IN  /\ Deposits!CanDebitExitFee(v, t, a)
               /\ KeptDeposits(r)
               /\ r.deposits = Deposits!Minus(v.deposits, a, Deposits!ExitFee(v, t, a))
               /\ r.taskQuotes = v.taskQuotes
               /\ r.taskReservations =
                     [v.taskReservations EXCEPT ![t][a] = Deposits!NoReservation]
<1>1. DP!Kept(v)
  BY DEF KeptDeposits
<1>2. DP!NoReservation = Deposits!NoReservation
  BY DEF DP!NoReservation, Deposits!NoReservation
<1>3. DP!Minus(v.deposits, a, DP!ExitFee(v, t, a))
         = Deposits!Minus(v.deposits, a, Deposits!ExitFee(v, t, a))
  BY SameFees DEF DP!Minus, Deposits!Minus
<1> QED BY <1>1, <1>2, <1>3, SameFees, VaultConstants, DP!ExitFeeKept DEF KeptDeposits

(* What debitAccessFeeTo does to it.                                          *)
LEMMA AccessFeeStep ==
    ASSUME NEW v, KeptDeposits(v), NEW t \in Tasks, NEW a \in Accounts, NEW b \in Accounts,
           b # a, NEW refusing, v.taskReservations[t][a].amount > 0
    PROVE  LET r == Deposits!DebitAccessFee(v, t, a, b, refusing)
           IN  /\ Deposits!CanDebitAccessFee(v, t, a, b)
               /\ KeptDeposits(r)
               /\ r.deposits =
                     Deposits!Minus(v.deposits, a, v.taskReservations[t][a].accessCompensation)
               /\ r.taskQuotes = v.taskQuotes
               /\ r.taskReservations =
                     [v.taskReservations EXCEPT ![t][a] = Deposits!NoReservation]
<1>1. DP!Kept(v)
  BY DEF KeptDeposits
<1>2. DP!NoReservation = Deposits!NoReservation
  BY DEF DP!NoReservation, Deposits!NoReservation
<1>3. \A n : DP!Minus(v.deposits, a, n) = Deposits!Minus(v.deposits, a, n)
  BY DEF DP!Minus, Deposits!Minus
<1> QED BY <1>1, <1>2, <1>3, SameFees, VaultConstants, DP!AccessFeeKept DEF KeptDeposits

(* What the calls of an account do to it.                                     *)
LEMMA AccountSteps ==
    ASSUME NEW v, KeptDeposits(v), NEW a \in Accounts, NEW n \in Nat
    PROVE  /\ LET r == Deposits!Withdraw(v, a, n)
              IN  Deposits!CanWithdraw(v, a, n) =>
                     /\ KeptDeposits(r) /\ r.taskReservations = v.taskReservations
                     /\ r.taskQuotes = v.taskQuotes
           /\ LET r == Deposits!Credit(Deposits!Receive(v, n), a, n)
              IN  Deposits!CanCredit(Deposits!Receive(v, n), a, n) =>
                     /\ KeptDeposits(r) /\ r.taskReservations = v.taskReservations
                     /\ r.taskQuotes = v.taskQuotes
           /\ LET r == Deposits!ClaimPayout(v, a)
              IN  Deposits!CanClaimPayout(v, a) =>
                     /\ KeptDeposits(r) /\ r.taskReservations = v.taskReservations
                     /\ r.taskQuotes = v.taskQuotes
<1>1. DP!Kept(v)
  BY DEF KeptDeposits
<1> QED BY <1>1, SameAccounts, VaultConstants, DP!AccountKept DEF KeptDeposits

(* The lemmas of EscrowVault_proofs, of the registry's operators.               *)
LEMMA SameEscrow ==
    ASSUME NEW v, NEW t, NEW n, NEW a, NEW b, NEW refusing
    PROVE  /\ EP!Remaining(v, t) = Escrow!Remaining(v, t)
           /\ EP!CreateEscrow(v, t, a, b) = Escrow!CreateEscrow(v, t, a, b)
           /\ EP!CanCreateEscrow(v, t, a, b) = Escrow!CanCreateEscrow(v, t, a, b)
           /\ EP!FundEscrow(v, t, n) = Escrow!FundEscrow(v, t, n)
           /\ EP!CanFundEscrow(v, t, n) = Escrow!CanFundEscrow(v, t, n)
           /\ EP!Freeze(v, t) = Escrow!Freeze(v, t)
           /\ EP!CanFreeze(v, t) = Escrow!CanFreeze(v, t)
           /\ EP!CloseEscrow(v, t) = Escrow!CloseEscrow(v, t)
           /\ EP!CanCloseEscrow(v, t) = Escrow!CanCloseEscrow(v, t)
           /\ EP!CanReleaseEscrow(v, t, n) = Escrow!CanReleaseEscrow(v, t, n)
           /\ EP!CanRefundEscrow(v, t) = Escrow!CanRefundEscrow(v, t)
           /\ EP!CanSettle(v, t) = Escrow!CanSettle(v, t)
           /\ EP!CanSettleEscrow(v, t, n) = Escrow!CanSettleEscrow(v, t, n)
           /\ EP!ClaimEscrowPayout(v, a) = Escrow!ClaimEscrowPayout(v, a)
           /\ EP!CanClaimEscrowPayout(v, a) = Escrow!CanClaimEscrowPayout(v, a)
BY DEF EP!Remaining, Escrow!Remaining, EP!CreateEscrow, Escrow!CreateEscrow,
       EP!CanCreateEscrow, Escrow!CanCreateEscrow, EP!FundEscrow, Escrow!FundEscrow,
       EP!CanFundEscrow, Escrow!CanFundEscrow, EP!Freeze, Escrow!Freeze,
       EP!CanFreeze, Escrow!CanFreeze, EP!CloseEscrow, Escrow!CloseEscrow,
       EP!CanCloseEscrow, Escrow!CanCloseEscrow, EP!CanReleaseEscrow, Escrow!CanReleaseEscrow,
       EP!CanRefundEscrow, Escrow!CanRefundEscrow, EP!CanSettle, Escrow!CanSettle,
       EP!CanSettleEscrow, Escrow!CanSettleEscrow, EP!FullBps, Escrow!FullBps,
       EP!IsParties, Escrow!IsParties, EP!ClaimEscrowPayout, Escrow!ClaimEscrowPayout,
       EP!CanClaimEscrowPayout, Escrow!CanClaimEscrowPayout

(* The payments of the escrow vault, as its proofs state them.                *)
LEMMA SamePayments ==
    ASSUME NEW v, NEW t, NEW n, NEW refusing
    PROVE  /\ EP!ReleaseEscrow(v, t, n, refusing) = Escrow!ReleaseEscrow(v, t, n, refusing)
           /\ EP!RefundEscrow(v, t, refusing) = Escrow!RefundEscrow(v, t, refusing)
           /\ EP!SettleEscrow(v, t, n, refusing) = Escrow!SettleEscrow(v, t, n, refusing)
<1>1. \A w, to, m : EP!PayOrOwe(w, to, m, refusing) = Escrow!PayOrOwe(w, to, m, refusing)
  BY DEF EP!PayOrOwe, Escrow!PayOrOwe, EP!Plus, Escrow!Plus
<1>2. EP!Emptied(v, t) = Escrow!Emptied(v, t)
  BY DEF EP!Emptied, Escrow!Emptied, EP!Remaining, Escrow!Remaining
<1> QED BY <1>1, <1>2
        DEF EP!ReleaseEscrow, Escrow!ReleaseEscrow, EP!RefundEscrow, Escrow!RefundEscrow,
            EP!SettleEscrow, Escrow!SettleEscrow, EP!WorkerAmount, Escrow!WorkerAmount,
            EP!Remaining, Escrow!Remaining, EP!FullBps, Escrow!FullBps

SoundEscrow(e) ==
    /\ e.released <= e.deposited
    /\ e.state = "SETTLED" => e.released = e.deposited
    /\ e.state = "NONE" => e.deposited = 0
    /\ e.state # "NONE" => Escrow!IsParties(e)

(* A sound escrow vault has its type, and each of its escrows is sound.       *)
LEMMA KeptEscrowType ==
    ASSUME NEW v, KeptEscrows(v)
    PROVE  /\ v \in Escrow!EscrowVaultType
           /\ v.escrows \in [Tasks -> Escrow!Escrow]
           /\ \A t \in Tasks : SoundEscrow(v.escrows[t])
<1>1. EP!Sound(v, 0) /\ v \in EP!EscrowVaultType
  BY DEF KeptEscrows, EP!Sound
<1>2. v \in Escrow!EscrowVaultType
  BY <1>1 DEF EP!EscrowVaultType, EP!Escrow, EP!EscrowState,
              Escrow!EscrowVaultType, Escrow!Escrow, Escrow!EscrowState
<1>3. ASSUME NEW t \in Tasks PROVE SoundEscrow(v.escrows[t])
  BY <1>1, EscrowConstants, EP!KeptFacts
     DEF SoundEscrow, EP!SoundEscrow, EP!IsParties, Escrow!IsParties
<1> QED BY <1>2, <1>3 DEF Escrow!EscrowVaultType

(* What createEscrow does to a sound escrow vault.                            *)
LEMMA OpenEscrowStep ==
    ASSUME NEW v, KeptEscrows(v), NEW t \in Tasks, NEW p \in Accounts, NEW w \in Accounts,
           v.escrows[t].state = "NONE"
    PROVE  LET r == Escrow!CreateEscrow(v, t, p, w)
           IN  /\ Escrow!CanCreateEscrow(v, t, p, w) /\ KeptEscrows(r)
               /\ r.escrows = [v.escrows EXCEPT ![t] =
                      [poster |-> p, worker |-> w, deposited |-> 0, released |-> 0,
                       state |-> "FUNDED"]]
<1>1. /\ EP!CanCreateEscrow(v, t, p, w)
      /\ EP!Sound(EP!CreateEscrow(v, t, p, w), 0)
      /\ EP!CreateEscrow(v, t, p, w).escrows = [v.escrows EXCEPT ![t] =
             [poster |-> p, worker |-> w, deposited |-> 0, released |-> 0,
             state |-> "FUNDED"]]
  BY EscrowConstants, EP!OpenKept DEF KeptEscrows
<1>2. /\ EP!CanCreateEscrow(v, t, p, w) = Escrow!CanCreateEscrow(v, t, p, w)
      /\ EP!CreateEscrow(v, t, p, w) = Escrow!CreateEscrow(v, t, p, w)
  BY SameEscrow, SamePayments
<1> QED BY <1>1, <1>2 DEF KeptEscrows

(* What deposit does to it.                                                   *)
LEMMA FundEscrowStep ==
    ASSUME NEW v, KeptEscrows(v), NEW t \in Tasks, NEW n \in Nat, n > 0,
           v.escrows[t].state = "FUNDED"
    PROVE  LET r == Escrow!FundEscrow(v, t, n)
           IN  /\ Escrow!CanFundEscrow(v, t, n) /\ KeptEscrows(r)
               /\ r.escrows = [v.escrows EXCEPT ![t] =
                      [@ EXCEPT !.deposited = v.escrows[t].deposited + n]]
BY SameEscrow, EscrowConstants, EP!FundKept DEF KeptEscrows

(* What freeze does to it.                                                    *)
LEMMA FreezeEscrowStep ==
    ASSUME NEW v, KeptEscrows(v), NEW t \in Tasks, v.escrows[t].state = "FUNDED"
    PROVE  LET r == Escrow!Freeze(v, t)
           IN  /\ Escrow!CanFreeze(v, t) /\ KeptEscrows(r)
               /\ r.escrows = [v.escrows EXCEPT ![t] = [@ EXCEPT !.state = "FROZEN"]]
<1>1. /\ EP!CanFreeze(v, t)
      /\ EP!Sound(EP!Freeze(v, t), 0)
      /\ EP!Freeze(v, t).escrows = [v.escrows EXCEPT ![t] = [@ EXCEPT !.state = "FROZEN"]]
  BY EscrowConstants, EP!FreezeKept DEF KeptEscrows
<1>2. /\ EP!CanFreeze(v, t) = Escrow!CanFreeze(v, t)
      /\ EP!Freeze(v, t) = Escrow!Freeze(v, t)
  BY SameEscrow, SamePayments
<1> QED BY <1>1, <1>2 DEF KeptEscrows

(* What close does to it.                                                     *)
LEMMA CloseEscrowStep ==
    ASSUME NEW v, KeptEscrows(v), NEW t \in Tasks, v.escrows[t].state = "FUNDED",
           v.escrows[t].released = v.escrows[t].deposited
    PROVE  LET r == Escrow!CloseEscrow(v, t)
           IN  /\ Escrow!CanCloseEscrow(v, t) /\ KeptEscrows(r)
               /\ r.escrows = [v.escrows EXCEPT ![t] = [@ EXCEPT !.state = "SETTLED"]]
<1>1. /\ EP!CanCloseEscrow(v, t)
      /\ EP!Sound(EP!CloseEscrow(v, t), 0)
      /\ EP!CloseEscrow(v, t).escrows = [v.escrows EXCEPT ![t] = [@ EXCEPT !.state = "SETTLED"]]
  BY EscrowConstants, EP!CloseKept DEF KeptEscrows
<1>2. /\ EP!CanCloseEscrow(v, t) = Escrow!CanCloseEscrow(v, t)
      /\ EP!CloseEscrow(v, t) = Escrow!CloseEscrow(v, t)
  BY SameEscrow, SamePayments
<1> QED BY <1>1, <1>2 DEF KeptEscrows

(* What release does to it.                                                   *)
LEMMA ReleaseEscrowStep ==
    ASSUME NEW v, KeptEscrows(v), NEW t \in Tasks, NEW n \in Nat, NEW refusing, n > 0,
           v.escrows[t].state = "FUNDED", n <= Escrow!Remaining(v, t)
    PROVE  LET r == Escrow!ReleaseEscrow(v, t, n, refusing)
           IN  /\ Escrow!CanReleaseEscrow(v, t, n) /\ KeptEscrows(r)
               /\ r.escrows = [v.escrows EXCEPT ![t] =
                      [@ EXCEPT !.released = v.escrows[t].released + n]]
<1>0. n <= EP!Remaining(v, t)
  BY SameEscrow
<1>1. /\ EP!CanReleaseEscrow(v, t, n)
      /\ EP!Sound(EP!ReleaseEscrow(v, t, n, refusing), 0)
      /\ EP!ReleaseEscrow(v, t, n, refusing).escrows = [v.escrows EXCEPT ![t] =
             [@ EXCEPT !.released = v.escrows[t].released + n]]
  BY <1>0, EscrowConstants, EP!ReleaseKept DEF KeptEscrows
<1>2. /\ EP!CanReleaseEscrow(v, t, n) = Escrow!CanReleaseEscrow(v, t, n)
      /\ EP!ReleaseEscrow(v, t, n, refusing) = Escrow!ReleaseEscrow(v, t, n, refusing)
  BY SameEscrow, SamePayments
<1> QED BY <1>1, <1>2 DEF KeptEscrows

WithEscrow(f, t, x) == [f EXCEPT ![t] = x]

IsShare(bps) == bps \in 0..Escrow!FullBps

(* What settle does to it.                                                    *)
LEMMA SettleEscrowStep ==
    ASSUME NEW v, KeptEscrows(v), NEW t \in Tasks, NEW bps, IsShare(bps), NEW refusing,
           v.escrows[t].state = "FROZEN"
    PROVE  LET r == Escrow!SettleEscrow(v, t, bps, refusing)
           IN  /\ Escrow!CanSettle(v, t) /\ Escrow!CanSettleEscrow(v, t, bps)
               /\ KeptEscrows(r)
               /\ r.escrows = WithEscrow(v.escrows, t,
                      [v.escrows[t] EXCEPT !.released = v.escrows[t].deposited,
                                           !.state = "SETTLED"])
<1>1. bps \in 0..EP!FullBps
  BY DEF IsShare, EP!FullBps, Escrow!FullBps
<1>2. /\ EP!CanSettle(v, t)
      /\ EP!CanSettleEscrow(v, t, bps)
      /\ EP!Sound(EP!SettleEscrow(v, t, bps, refusing), 0)
      /\ EP!Drained(v, EP!SettleEscrow(v, t, bps, refusing), t)
  BY EscrowConstants, <1>1, EP!SettleKept DEF KeptEscrows
<1>3. /\ EP!CanSettle(v, t) = Escrow!CanSettle(v, t)
      /\ EP!CanSettleEscrow(v, t, bps) = Escrow!CanSettleEscrow(v, t, bps)
      /\ EP!SettleEscrow(v, t, bps, refusing) = Escrow!SettleEscrow(v, t, bps, refusing)
  BY SameEscrow, SamePayments
<1> QED BY <1>2, <1>3 DEF KeptEscrows, EP!Drained, WithEscrow

(* What refund does to it.                                                    *)
LEMMA RefundEscrowStep ==
    ASSUME NEW v, KeptEscrows(v), NEW t \in Tasks, NEW refusing, v.escrows[t].state = "FUNDED"
    PROVE  LET r == Escrow!RefundEscrow(v, t, refusing)
           IN  /\ Escrow!CanRefundEscrow(v, t) /\ KeptEscrows(r)
               /\ r.escrows = [v.escrows EXCEPT ![t] =
                      [@ EXCEPT !.released = v.escrows[t].deposited, !.state = "SETTLED"]]
<1>1. /\ EP!CanRefundEscrow(v, t)
      /\ EP!Sound(EP!RefundEscrow(v, t, refusing), 0)
      /\ EP!Drained(v, EP!RefundEscrow(v, t, refusing), t)
  BY EscrowConstants, EP!RefundKept DEF KeptEscrows
<1>2. /\ EP!CanRefundEscrow(v, t) = Escrow!CanRefundEscrow(v, t)
      /\ EP!RefundEscrow(v, t, refusing) = Escrow!RefundEscrow(v, t, refusing)
  BY SameEscrow, SamePayments
<1> QED BY <1>1, <1>2 DEF KeptEscrows, EP!Drained

(* What claimPayout does to it.                                               *)
LEMMA ClaimEscrowStep ==
    ASSUME NEW v, KeptEscrows(v), NEW a \in Accounts, Escrow!CanClaimEscrowPayout(v, a)
    PROVE  LET r == Escrow!ClaimEscrowPayout(v, a)
           IN  KeptEscrows(r) /\ r.escrows = v.escrows
BY SameEscrow, EscrowConstants, EP!ClaimKept DEF KeptEscrows

-------------------------------------------------------------------------------
(* Action Credits as the registry spends and settles them.                     *)

Spent(c) == {s \in Tasks \X BOOLEAN : c.taskCreditPayer[s[1]][s[2]] # Nobody}

(* The ledger counts one outstanding credit for each payer it remembers.        *)
KeptLedger(c) ==
    /\ c \in Credits!LedgerType
    /\ c.outstandingTaskCredits = Cardinality(Spent(c))

(* One slot of r is x, and otherwise r remembers the payers of c.               *)
SlotIs(c, r, t, isPost, x) ==
    \A s \in Tasks, b \in BOOLEAN :
        r.taskCreditPayer[s][b] = IF s = t /\ b = isPost THEN x ELSE c.taskCreditPayer[s][b]

(* One slot of the spent credits is taken.                                    *)
LEMMA SlotSet ==
    ASSUME NEW p \in [Tasks -> [BOOLEAN -> Accounts \cup {Nobody}]], NEW t \in Tasks,
           NEW isPost \in BOOLEAN, NEW x \in Accounts \cup {Nobody}
    PROVE  LET r == [p EXCEPT ![t][isPost] = x]
           IN  /\ r \in [Tasks -> [BOOLEAN -> Accounts \cup {Nobody}]]
               /\ \A s \in Tasks, b \in BOOLEAN :
                     r[s][b] = IF s = t /\ b = isPost THEN x ELSE p[s][b]
OBVIOUS

(* Only finitely many credits can be outstanding.                              *)
LEMMA SpentFinite ==
    ASSUME NEW c
    PROVE  IsFiniteSet(Spent(c)) /\ Cardinality(Spent(c)) \in Nat
<1>1. IsFiniteSet(BOOLEAN)
  <2>1. BOOLEAN = {TRUE} \cup {FALSE}
    OBVIOUS
  <2>2. IsFiniteSet({TRUE} \cup {FALSE})
    BY FS_Singleton, FS_AddElement
  <2> QED BY <2>1, <2>2
<1>2. IsFiniteSet(Tasks \X BOOLEAN)
  <2>1. IsFiniteSet(Tasks)
    BY RegistryAssumption
  <2> QED BY <1>1, <2>1, FS_Product, Zenon
<1>3. Spent(c) \in SUBSET (Tasks \X BOOLEAN)
  BY DEF Spent
<1>4. IsFiniteSet(Spent(c))
  BY <1>2, <1>3, FS_Subset
<1> QED BY <1>4, FS_CardinalityType

(* Taking an empty slot counts one up, freeing a taken one counts one down.     *)
LEMMA SlotTaken ==
    ASSUME NEW c, NEW r, NEW t \in Tasks, NEW isPost \in BOOLEAN, NEW x, SlotIs(c, r, t, isPost, x),
           x # Nobody, c.taskCreditPayer[t][isPost] = Nobody
    PROVE  Cardinality(Spent(r)) = Cardinality(Spent(c)) + 1
<1>1. Spent(r) = Spent(c) \cup {<<t, isPost>>} /\ <<t, isPost>> \notin Spent(c)
  BY DEF Spent, SlotIs
<1> QED BY <1>1, SpentFinite, FS_AddElement

(* One slot of the spent credits is freed.                                    *)
LEMMA SlotFreed ==
    ASSUME NEW c, NEW r, NEW t \in Tasks, NEW isPost \in BOOLEAN, SlotIs(c, r, t, isPost, Nobody),
           c.taskCreditPayer[t][isPost] # Nobody
    PROVE  /\ Cardinality(Spent(r)) = Cardinality(Spent(c)) - 1
           /\ Cardinality(Spent(r)) \in Nat /\ Cardinality(Spent(c)) \in Nat
<1>1. Spent(r) = Spent(c) \ {<<t, isPost>>} /\ <<t, isPost>> \in Spent(c)
  BY DEF Spent, SlotIs
<1> QED BY <1>1, SpentFinite, FS_RemoveElement

(* The ledger's fields.                                                       *)
LedgerFields(c) ==
    /\ c.stakingActive \in BOOLEAN
    /\ c.bankedCredits \in [Accounts -> Nat]
    /\ c.taskCreditPayer \in [Tasks -> [BOOLEAN -> Accounts \cup {Nobody}]]
    /\ c.totalCreditsIssued \in Nat
    /\ c.outstandingTaskCredits \in Nat

(* The fields of a kept ledger.                                               *)
LEMMA LedgerHas ==
    ASSUME NEW c \in Credits!LedgerType
    PROVE  LedgerFields(c)
BY DEF Credits!LedgerType, LedgerFields

(* Replacing what is banked and issued touches no slot.                        *)
WithBanks(c, b, n) == [c EXCEPT !.bankedCredits = b, !.totalCreditsIssued = n]

(* A ledger with other banked credits keeps its slots.                        *)
LEMMA LedgerBanks ==
    ASSUME NEW c \in Credits!LedgerType, NEW b \in [Accounts -> Nat], NEW n \in Nat,
           NEW r, r = WithBanks(c, b, n)
    PROVE  /\ r \in Credits!LedgerType
           /\ r.taskCreditPayer = c.taskCreditPayer
           /\ r.outstandingTaskCredits = c.outstandingTaskCredits
           /\ r.stakingActive = c.stakingActive
           /\ r.bankedCredits = b
BY DEF Credits!LedgerType, WithBanks

(* Replacing the slots and their count.                                        *)
WithSlots(c, p, n) == [c EXCEPT !.taskCreditPayer = p, !.outstandingTaskCredits = n]

(* A ledger with other slots keeps what is banked.                            *)
LEMMA LedgerSlots ==
    ASSUME NEW c \in Credits!LedgerType, NEW n \in Nat,
           NEW p \in [Tasks -> [BOOLEAN -> Accounts \cup {Nobody}]],
           NEW r, r = WithSlots(c, p, n)
    PROVE  /\ r \in Credits!LedgerType
           /\ r.taskCreditPayer = p
           /\ r.outstandingTaskCredits = n
           /\ r.bankedCredits = c.bankedCredits
BY DEF Credits!LedgerType, WithSlots

(* Banking what an account earned touches no slot.                             *)
LEMMA UpdateStep ==
    ASSUME NEW c \in Credits!LedgerType, NEW who \in SUBSET Accounts,
           NEW earned \in [Accounts -> Nat]
    PROVE  LET r == Credits!Update(c, who, earned)
           IN  /\ r \in Credits!LedgerType
               /\ r.taskCreditPayer = c.taskCreditPayer
               /\ r.outstandingTaskCredits = c.outstandingTaskCredits
               /\ r.stakingActive = c.stakingActive
               /\ \A a \in who : r.bankedCredits[a] = c.bankedCredits[a] + earned[a]
<1> DEFINE n == Credits!SumFunctionOnSet(earned, who)
           m == c.totalCreditsIssued + n
           b == [a \in Accounts |-> c.bankedCredits[a] + (IF a \in who THEN earned[a] ELSE 0)]
<1>0. LedgerFields(c)
  BY LedgerHas
<1>1. n \in Nat
  <2>1. IsFiniteSet(who)
    BY RegistryAssumption, FS_Subset
  <2>2. NatsOn(earned, who)
    BY DEF NatsOn
  <2>3. SumFunctionOnSet(earned, who) \in Nat
    BY <2>1, <2>2, SumType
  <2> QED BY <2>3, SameSums
<1>2. m \in Nat
  <2> HIDE DEF n
  <2> QED BY <1>0, <1>1 DEF LedgerFields
<1>3. b \in [Accounts -> Nat]
  BY <1>0 DEF LedgerFields
<1>4. \A a \in who : b[a] = c.bankedCredits[a] + earned[a]
  OBVIOUS
<1>5. Credits!Update(c, who, earned) = [c EXCEPT !.bankedCredits = b, !.totalCreditsIssued = m]
  BY DEF Credits!Update, Credits!LedgerType
<1> DEFINE r == Credits!Update(c, who, earned)
<1> HIDE DEF n, m, b, r
<1>6. /\ r \in Credits!LedgerType
      /\ r.taskCreditPayer = c.taskCreditPayer
      /\ r.outstandingTaskCredits = c.outstandingTaskCredits
      /\ r.stakingActive = c.stakingActive
      /\ r.bankedCredits = b
  <2>1. r = WithBanks(c, b, m)
    BY <1>5 DEF r, WithBanks
  <2> QED BY <1>2, <1>3, <2>1, LedgerBanks
<1> QED BY <1>4, <1>6 DEF r

(* trySpendCredit takes an empty slot or none at all.                          *)
LEMMA SpendStep ==
    ASSUME NEW c, KeptLedger(c), NEW a \in Accounts, NEW t \in Tasks, NEW isPost \in BOOLEAN,
           NEW earned \in [Accounts -> Nat]
    PROVE  LET r == Credits!TrySpend(c, a, t, isPost, earned)
           IN  /\ KeptLedger(r)
               /\ IF Credits!Spends(c, a, t, isPost, earned)
                  THEN SlotIs(c, r, t, isPost, a)
                  ELSE r.taskCreditPayer = c.taskCreditPayer
<1> DEFINE u == Credits!Update(c, {a}, earned)
           r == Credits!TrySpend(c, a, t, isPost, earned)
           p == [u.taskCreditPayer EXCEPT ![t][isPost] = a]
           b == [u.bankedCredits EXCEPT ![a] = u.bankedCredits[a] - 1]
           w == WithBanks(u, b, u.totalCreditsIssued)
           n == u.outstandingTaskCredits + 1
<1>0. c \in Credits!LedgerType
  BY DEF KeptLedger
<1>1. /\ u \in Credits!LedgerType
      /\ u.taskCreditPayer = c.taskCreditPayer
      /\ u.outstandingTaskCredits = c.outstandingTaskCredits
      /\ u.bankedCredits[a] = c.bankedCredits[a] + earned[a]
  BY <1>0, UpdateStep
<1>2. CASE ~c.stakingActive
  BY <1>2 DEF Credits!TrySpend, Credits!Spends
<1>3. CASE c.stakingActive /\ ~Credits!Spends(c, a, t, isPost, earned)
  <2>1. r = u
    BY <1>3 DEF Credits!TrySpend
  <2> HIDE DEF r, u
  <2>2. KeptLedger(r)
    <3>1. Spent(u) = Spent(c)
      BY <1>1 DEF Spent
    <3> QED BY <1>1, <2>1, <3>1 DEF KeptLedger
  <2> QED BY <1>1, <1>3, <2>1, <2>2 DEF r
<1>4. CASE c.stakingActive /\ Credits!Spends(c, a, t, isPost, earned)
  <2>1. r = WithSlots(w, p, n)
    <3>1. r = [u EXCEPT !.bankedCredits = Credits!Minus(@, a, 1),
                        !.taskCreditPayer[t][isPost] = a,
                        !.outstandingTaskCredits = @ + 1]
      BY <1>4 DEF Credits!TrySpend
    <3> HIDE DEF u, r
    <3> QED BY <1>1, <3>1 DEF Credits!Minus, Credits!LedgerType, WithBanks, WithSlots
  <2>2. u.bankedCredits[a] >= 1 /\ c.taskCreditPayer[t][isPost] = Nobody
    BY <1>1, <1>4 DEF Credits!Spends
  <2> HIDE DEF u, r
  <2>0. LedgerFields(u)
    BY <1>1, LedgerHas
  <2>3. b \in [Accounts -> Nat] /\ n \in Nat /\ u.totalCreditsIssued \in Nat
    BY <2>0, <2>2 DEF LedgerFields
  <2>4. /\ p \in [Tasks -> [BOOLEAN -> Accounts \cup {Nobody}]]
        /\ \A s \in Tasks, x \in BOOLEAN :
              p[s][x] = IF s = t /\ x = isPost THEN a ELSE c.taskCreditPayer[s][x]
    BY <1>1, <2>0, SlotSet DEF LedgerFields
  <2>5. n = c.outstandingTaskCredits + 1
    BY <1>1
  <2> HIDE DEF p, b, n
  <2>6. w \in Credits!LedgerType
    BY <1>1, <2>3, LedgerBanks
  <2> HIDE DEF w
  <2>7. r \in Credits!LedgerType /\ r.taskCreditPayer = p /\ r.outstandingTaskCredits = n
    <3>1. p \in [Tasks -> [BOOLEAN -> Accounts \cup {Nobody}]]
      BY <2>4
    <3> QED BY <2>1, <2>3, <2>6, <3>1, LedgerSlots
  <2>8. SlotIs(c, r, t, isPost, a)
    BY <2>4, <2>7 DEF SlotIs
  <2>9. Cardinality(Spent(r)) = Cardinality(Spent(c)) + 1
    <3>1. a # Nobody
      BY RegistryAssumption
    <3> QED BY <2>2, <2>8, <3>1, SlotTaken
  <2>10. KeptLedger(r)
    BY <2>5, <2>7, <2>9 DEF KeptLedger
  <2> QED BY <1>4, <2>8, <2>10 DEF r
<1> QED BY <1>2, <1>3, <1>4

(* A spent credit can be settled, to anybody or nobody, and frees its slot.     *)
LEMMA SettleStep ==
    ASSUME NEW c, KeptLedger(c), NEW t \in Tasks, NEW from \in Accounts,
           NEW to \in Accounts \cup {Nobody}, NEW isPost \in BOOLEAN,
           NEW earned \in [Accounts -> Nat], c.taskCreditPayer[t][isPost] = from
    PROVE  LET r == Credits!SettleSpentCredit(c, t, from, to, isPost, earned)
           IN  /\ Credits!CanSettleSpentCredit(c, t, from, isPost)
               /\ KeptLedger(r)
               /\ SlotIs(c, r, t, isPost, Nobody)
<1> DEFINE p == [c.taskCreditPayer EXCEPT ![t][isPost] = Nobody]
           n == c.outstandingTaskCredits - 1
           s == WithSlots(c, p, n)
           u == Credits!Update(s, {from, to}, earned)
           b == [u.bankedCredits EXCEPT ![to] = u.bankedCredits[to] + 1]
           r == Credits!SettleSpentCredit(c, t, from, to, isPost, earned)
<1>0. c \in Credits!LedgerType /\ from # Nobody /\ LedgerFields(c)
  BY RegistryAssumption, LedgerHas DEF KeptLedger
<1>1. /\ p \in [Tasks -> [BOOLEAN -> Accounts \cup {Nobody}]]
      /\ \A x \in Tasks, y \in BOOLEAN :
            p[x][y] = IF x = t /\ y = isPost THEN Nobody ELSE c.taskCreditPayer[x][y]
  BY <1>0, SlotSet DEF LedgerFields
<1>2. s = [c EXCEPT !.taskCreditPayer[t][isPost] = Nobody, !.outstandingTaskCredits = n]
  BY <1>0 DEF Credits!LedgerType, WithSlots
<1>3. r = IF to = Nobody THEN s
          ELSE WithBanks(u, b, u.totalCreditsIssued)
  <2>1. r = IF to = Nobody THEN s ELSE [u EXCEPT !.bankedCredits = Credits!Plus(@, to, 1)]
    BY <1>2 DEF Credits!SettleSpentCredit
  <2>2. CASE to = Nobody
    BY <2>1, <2>2
  <2>3. CASE to # Nobody
    <3>1. u.bankedCredits = [a \in Accounts |-> s.bankedCredits[a]
                               + (IF a \in {from, to} THEN earned[a] ELSE 0)]
          /\ u = [s EXCEPT !.bankedCredits = u.bankedCredits,
                           !.totalCreditsIssued = u.totalCreditsIssued]
      <4> HIDE DEF p
      <4> QED BY <1>0 DEF Credits!Update, Credits!LedgerType, WithSlots
    <3> HIDE DEF u
    <3> QED BY <1>0, <2>1, <2>3, <3>1 DEF Credits!Plus, Credits!LedgerType, WithSlots, WithBanks
  <2> QED BY <2>2, <2>3
<1> HIDE DEF r
<1>4. n \in Nat /\ Credits!CanSettleSpentCredit(c, t, from, isPost)
  <2> DEFINE q == [taskCreditPayer |-> p]
  <2>1. SlotIs(c, q, t, isPost, Nobody)
    <3> HIDE DEF p
    <3> QED BY <1>1 DEF SlotIs
  <2> HIDE DEF q
  <2>2. Cardinality(Spent(q)) = Cardinality(Spent(c)) - 1
        /\ Cardinality(Spent(q)) \in Nat /\ Cardinality(Spent(c)) \in Nat
    BY <1>0, <2>1, SlotFreed
  <2>3. n \in Nat /\ c.outstandingTaskCredits >= 1
    BY <2>2 DEF KeptLedger
  <2> QED BY <1>0, <2>3 DEF Credits!CanSettleSpentCredit
<1>5. n = c.outstandingTaskCredits - 1
  OBVIOUS
<1> HIDE DEF p, n
<1>6. s \in Credits!LedgerType /\ s.taskCreditPayer = p /\ s.outstandingTaskCredits = n
  BY <1>0, <1>1, <1>4, LedgerSlots
<1> HIDE DEF s
<1>7. r \in Credits!LedgerType /\ r.taskCreditPayer = p /\ r.outstandingTaskCredits = n
  <2>1. CASE to = Nobody
    BY <1>3, <1>6, <2>1
  <2>2. CASE to # Nobody
    <3>0. {from, to} \in SUBSET Accounts
      BY <2>2
    <3>1. /\ u \in Credits!LedgerType /\ u.taskCreditPayer = s.taskCreditPayer
          /\ u.outstandingTaskCredits = s.outstandingTaskCredits
      BY <1>6, <3>0, UpdateStep
    <3> HIDE DEF u
    <3>2. LedgerFields(u)
      BY <3>1, LedgerHas
    <3>3. b \in [Accounts -> Nat] /\ u.totalCreditsIssued \in Nat
      BY <2>2, <3>2 DEF LedgerFields
    <3>4. r = WithBanks(u, b, u.totalCreditsIssued)
      BY <1>3, <2>2
    <3> HIDE DEF b
    <3>5. /\ r \in Credits!LedgerType /\ r.taskCreditPayer = u.taskCreditPayer
          /\ r.outstandingTaskCredits = u.outstandingTaskCredits
      BY SMTT(30), <3>1, <3>3, <3>4, LedgerBanks
    <3> QED BY <1>6, <3>1, <3>5
  <2> QED BY <2>1, <2>2
<1>8. SlotIs(c, r, t, isPost, Nobody)
  BY <1>1, <1>7 DEF SlotIs
<1>9. KeptLedger(r)
  <2>1. Cardinality(Spent(r)) = Cardinality(Spent(c)) - 1
    BY <1>0, <1>8, SlotFreed
  <2> QED BY <1>5, <1>7, <2>1 DEF KeptLedger
<1> QED BY <1>4, <1>8, <1>9 DEF r

-------------------------------------------------------------------------------
(* The inductive invariant.  A task, its escrow, its collateral, its spent      *)
(* credits and its record agree, task by task; the two running totals are sums  *)
(* over the tasks, within the caps.                                           *)

(* What the registry keeps about a task by itself.                             *)
SoundTask(k) ==
    /\ k.state = "NONE" => k.poster = Nobody /\ k.worker = Nobody /\ k.funded = 0
                           /\ k.released = 0 /\ k.fundedBasisUsd6 = 0
    /\ k.state # "NONE" => /\ k.poster \in Accounts /\ k.totalAmount > 0 /\ k.declaredUsd6 > 0
                           /\ k.worker # k.poster
    /\ k.worker = Nobody => /\ k.state \in {"NONE", "POSTED", "CANCELLED"}
                            /\ k.funded = 0 /\ ~k.workerCredit
    /\ k.state = "POSTED" => k.worker = Nobody
    /\ k.state \in {"POSTED", "CLAIMED"} => /\ k.deliveredAt = 0 /\ k.released = 0
                                            /\ k.amountUsd6 = k.fundedBasisUsd6
                                            /\ k.funded < k.totalAmount
    /\ k.state \in {"ACTIVE", "DISPUTED"} => k.funded = k.totalAmount /\ k.released < k.funded
    /\ k.funded > 0 => k.fundedBasisUsd6 > 0
    /\ k.state \in Live /\ k.released < k.funded => k.amountUsd6 > 0
    /\ k.state \notin Live => k.amountUsd6 = 0 /\ ~k.posterCredit /\ ~k.workerCredit

EscrowLink(k, e) ==
    /\ (e.state = "NONE") <=> (k.worker = Nobody)
    /\ (e.state = "FUNDED") <=> (k.state \in {"CLAIMED", "ACTIVE"})
    /\ (e.state = "FROZEN") <=> (k.state = "DISPUTED")
    /\ e.deposited = k.funded
    /\ k.state \in Live => e.released = k.released
    /\ e.state # "NONE" => e.poster = k.poster /\ e.worker = k.worker

CollateralLink(k, r, q) ==
    \A a \in Accounts :
        /\ (r[a].amount > 0) <=> (k.state \in Live /\ a \in Parties(k))
        /\ r[a].amount > 0 => r[a].accessCompensation = q.accessFee

CreditLink(k, c) ==
    /\ c[TRUE] = IF k.posterCredit THEN k.poster ELSE Nobody
    /\ c[FALSE] = IF k.workerCredit THEN k.worker ELSE Nobody

RecordLink(k, recorded) == recorded => k.state \in Terminal

(* What the contracts have of a task.                                         *)
Linked(k, e, r, q, c, recorded) ==
    /\ SoundTask(k)
    /\ EscrowLink(k, e)
    /\ CollateralLink(k, r, q)
    /\ CreditLink(k, c)
    /\ RecordLink(k, recorded)

LinkedAt(t) ==
    Linked(tasks[t], escrowVault.escrows[t], vault.taskReservations[t], vault.taskQuotes[t],
           ledger.taskCreditPayer[t], tally.recorded[t])

OpenAmounts(ts) == [t \in Tasks |-> ts[t].amountUsd6]
PostedBy(ts, a) == {t \in Tasks : ts[t].poster = a}

Exposed(ts, total, byPoster) ==
    /\ total = SumFunction(OpenAmounts(ts))
    /\ \A a \in Accounts : byPoster[a] = SumFunctionOnSet(OpenAmounts(ts), PostedBy(ts, a))

Capped(total, byPoster) ==
    /\ total <= OpenTaskCapUsd6
    /\ \A a \in Accounts : byPoster[a] <= PosterCapUsd6

RegistryType ==
    /\ tasks \in [Tasks -> Task]
    /\ openTaskTotalUsd6 \in Nat
    /\ posterOpenTaskTotalUsd6 \in [Accounts -> Nat]
    /\ now \in Nat
    /\ tally \in Reputation!TallyType

Exposure ==
    /\ Exposed(tasks, openTaskTotalUsd6, posterOpenTaskTotalUsd6)
    /\ Capped(openTaskTotalUsd6, posterOpenTaskTotalUsd6)

RegistryInv ==
    /\ RegistryType
    /\ KeptDeposits(vault)
    /\ KeptEscrows(escrowVault)
    /\ KeptLedger(ledger)
    /\ Exposure
    /\ \A t \in Tasks : LinkedAt(t)

-------------------------------------------------------------------------------
(* The steps several transactions share.                                       *)

(* From v to r nothing changed but that the accounts S have no collateral left   *)
(* in task t.                                                                 *)
Freed(v, r, t, S) ==
    /\ KeptDeposits(r)
    /\ r.taskQuotes = v.taskQuotes
    /\ \A s \in Tasks : s # t => r.taskReservations[s] = v.taskReservations[s]
    /\ \A a \in Accounts : IF a \in S THEN r.taskReservations[t][a].amount = 0
                           ELSE r.taskReservations[t][a] = v.taskReservations[t][a]

(* Freeing two reservations of a task in turn frees both.                     *)
LEMMA FreedTwice ==
    ASSUME NEW v, NEW u, NEW r, NEW t \in Tasks, NEW a \in Accounts, NEW b \in Accounts,
           Freed(v, u, t, {a}), Freed(u, r, t, {b})
    PROVE  Freed(v, r, t, {a, b})
BY DEF Freed

(* Replacing one reservation of one task.                                      *)
WithReservation(f, t, a, x) == [f EXCEPT ![t][a] = x]

(* Only that reservation is another one afterwards.                           *)
LEMMA OneReservation ==
    ASSUME NEW v, KeptDeposits(v), NEW r, KeptDeposits(r), NEW t \in Tasks, NEW a \in Accounts,
           NEW x, r.taskReservations = WithReservation(v.taskReservations, t, a, x)
    PROVE  /\ \A s \in Tasks : s # t => r.taskReservations[s] = v.taskReservations[s]
           /\ \A b \in Accounts : r.taskReservations[t][b] =
                 IF b = a THEN x ELSE v.taskReservations[t][b]
BY KeptVaultType DEF VaultFields, WithReservation

(* Clearing an account's reservation frees it.                                 *)
LEMMA ClearedIsFreed ==
    ASSUME NEW v, KeptDeposits(v), NEW r, KeptDeposits(r), NEW t \in Tasks, NEW a \in Accounts,
           NEW x, x.amount = 0, r.taskReservations = WithReservation(v.taskReservations, t, a, x),
           r.taskQuotes = v.taskQuotes
    PROVE  Freed(v, r, t, {a})
<1>1. /\ \A s \in Tasks : s # t => r.taskReservations[s] = v.taskReservations[s]
      /\ \A b \in Accounts : r.taskReservations[t][b] =
             IF b = a THEN x ELSE v.taskReservations[t][b]
  BY OneReservation
<1> QED BY <1>1 DEF Freed

(* Releasing a reservation is always accepted, and frees it and no other.     *)
LEMMA ReleaseFrees ==
    ASSUME NEW v, KeptDeposits(v), NEW t \in Tasks, NEW a \in Accounts
    PROVE  LET r == Deposits!Release(v, t, a)
           IN  /\ Deposits!CanRelease(v, t, a)
               /\ Freed(v, r, t, {a})
               /\ r.deposits = v.deposits
<1> DEFINE r == Deposits!Release(v, t, a)
           x == IF v.taskReservations[t][a].amount = 0 THEN v.taskReservations[t][a]
                ELSE Deposits!NoReservation
<1>1. /\ Deposits!CanRelease(v, t, a) /\ KeptDeposits(r)
      /\ r.deposits = v.deposits /\ r.taskQuotes = v.taskQuotes
      /\ r.taskReservations = WithReservation(v.taskReservations, t, a, x)
  BY ReleaseStep DEF WithReservation
<1>2. x.amount = 0
  BY DEF Deposits!NoReservation
<1> HIDE DEF r, x
<1>3. Freed(v, r, t, {a})
  BY <1>1, <1>2, ClearedIsFreed
<1> QED BY <1>1, <1>3 DEF r

(* The parties of a task.                                                     *)
Partied(t) ==
    /\ tasks[t].poster \in Accounts /\ tasks[t].worker \in Accounts \cup {Nobody}
    /\ tasks[t].worker # tasks[t].poster

(* Unlocking a task is always accepted and frees its parties' collateral.       *)
Unlocked(v, r, t) ==
    /\ KeptDeposits(r)
    /\ r.deposits = v.deposits /\ r.taskQuotes = v.taskQuotes
    /\ \A s \in Tasks : s # t => r.taskReservations[s] = v.taskReservations[s]
    /\ \A a \in Accounts : IF a \in Parties(tasks[t]) THEN r.taskReservations[t][a].amount = 0
                           ELSE r.taskReservations[t][a] = v.taskReservations[t][a]

(* Unlocking a task frees the collateral of its parties.                      *)
LEMMA UnlockStep ==
    ASSUME NEW v, KeptDeposits(v), NEW t \in Tasks, Partied(t)
    PROVE  CanUnlock(v, t) /\ Unlocked(v, Unlock(v, t), t)
<1> DEFINE p == tasks[t].poster
           w == tasks[t].worker
           u == UnlockedPoster(v, t)
           r == Deposits!Release(u, t, w)
<1>1. p \in Accounts /\ p # Nobody /\ w \in Accounts \cup {Nobody}
  BY RegistryAssumption DEF Partied
<1>2. /\ Deposits!CanRelease(v, t, p) /\ Freed(v, u, t, {p}) /\ u.deposits = v.deposits
  BY <1>1, ReleaseFrees DEF UnlockedPoster
<1>3. CASE w = Nobody
  <2>1. CanUnlock(v, t) /\ Unlock(v, t) = u
    BY <1>2, <1>3 DEF CanUnlock, Unlock
  <2>2. Parties(tasks[t]) = {p}
    BY <1>1, <1>3 DEF Parties
  <2> HIDE DEF u, p
  <2> QED BY <1>2, <2>1, <2>2 DEF Freed, Unlocked
<1>4. CASE w # Nobody
  <2>0. w \in Accounts /\ KeptDeposits(u)
    BY <1>1, <1>2, <1>4 DEF Freed
  <2>1. Deposits!CanRelease(u, t, w) /\ Freed(u, r, t, {w}) /\ r.deposits = u.deposits
    <3> HIDE DEF u, w
    <3> QED BY <2>0, ReleaseFrees
  <2>2. CanUnlock(v, t) /\ Unlock(v, t) = r
    BY <1>2, <1>4, <2>1 DEF CanUnlock, Unlock
  <2>3. Parties(tasks[t]) = {p, w}
    BY <1>1, <1>4 DEF Parties
  <2> HIDE DEF u, p, w, r
  <2>4. Freed(v, r, t, {p, w})
    BY <1>1, <1>2, <2>0, <2>1, FreedTwice
  <2> QED BY <1>2, <2>1, <2>2, <2>3, <2>4 DEF Freed, Unlocked
<1> QED BY <1>3, <1>4

(* A party that has collateral in a task can be charged the access fee again.   *)
LEMMA CompensateStep ==
    ASSUME NEW v, KeptDeposits(v), NEW t \in Tasks, Partied(t), NEW due \in BOOLEAN, NEW refusing,
           due => /\ v.taskReservations[t][tasks[t].poster].amount > 0
                  /\ tasks[t].worker # Nobody
    PROVE  LET r == Compensate(v, t, due, refusing)
               p == tasks[t].poster
           IN  /\ CanCompensate(v, t, due)
               /\ Freed(v, r, t, IF due THEN {p} ELSE {})
               /\ r.deposits = IF due THEN Deposits!Minus(v.deposits, p,
                                               v.taskReservations[t][p].accessCompensation)
                               ELSE v.deposits
<1> DEFINE p == tasks[t].poster
           w == tasks[t].worker
           r == Compensate(v, t, due, refusing)
<1>1. CASE due
  <2>1. p \in Accounts /\ w \in Accounts /\ w # p /\ v.taskReservations[t][p].amount > 0
    BY <1>1 DEF Partied
  <2>2. /\ r = Deposits!DebitAccessFee(v, t, p, w, refusing)
        /\ Deposits!CanDebitAccessFee(v, t, p, w) => CanCompensate(v, t, due)
    BY <1>1 DEF Compensate, CanCompensate
  <2> HIDE DEF p, w, r
  <2>3. /\ Deposits!CanDebitAccessFee(v, t, p, w) /\ KeptDeposits(r)
        /\ r.deposits = Deposits!Minus(v.deposits, p, v.taskReservations[t][p].accessCompensation)
        /\ r.taskQuotes = v.taskQuotes
        /\ r.taskReservations = WithReservation(v.taskReservations, t, p, Deposits!NoReservation)
    BY <2>1, <2>2, AccessFeeStep DEF WithReservation
  <2>4. Deposits!NoReservation.amount = 0
    BY DEF Deposits!NoReservation
  <2>5. Freed(v, r, t, {p})
    BY <2>1, <2>3, <2>4, ClearedIsFreed
  <2> QED BY <1>1, <2>2, <2>3, <2>5 DEF p, r
<1>2. CASE ~due
  BY <1>2 DEF Compensate, CanCompensate, Freed
<1> QED BY <1>1, <1>2

(* A defaulter that has collateral in a task can be charged the exit fee.        *)
LEMMA ChargeStep ==
    ASSUME NEW v, KeptDeposits(v), NEW t \in Tasks, Partied(t), NEW outcome \in Rulings,
           NEW refusing, \A a \in {tasks[t].poster, tasks[t].worker} :
                            a \in Accounts /\ v.taskReservations[t][a].amount > 0
    PROVE  LET r == ExitCharged(v, t, outcome, refusing)
               a == Defaulter(tasks[t], outcome)
           IN  /\ Decided(outcome) => Deposits!CanDebitExitFee(v, t, a)
               /\ Freed(v, r, t, IF Decided(outcome) THEN {a} ELSE {})
               /\ r.deposits = IF Decided(outcome)
                               THEN Deposits!Minus(v.deposits, a, Deposits!ExitFee(v, t, a))
                               ELSE v.deposits
<1> DEFINE a == Defaulter(tasks[t], outcome)
           h == Harmed(tasks[t], outcome)
           r == ExitCharged(v, t, outcome, refusing)
<1>1. CASE Decided(outcome)
  <2>1. a \in Accounts /\ h \in Accounts /\ v.taskReservations[t][a].amount > 0
    BY DEF Defaulter, Harmed
  <2>2. r = Deposits!DebitExitFee(v, t, a, h, refusing)
    BY <1>1 DEF ExitCharged
  <2> HIDE DEF a, h, r
  <2>3. /\ Deposits!CanDebitExitFee(v, t, a) /\ KeptDeposits(r)
        /\ r.deposits = Deposits!Minus(v.deposits, a, Deposits!ExitFee(v, t, a))
        /\ r.taskQuotes = v.taskQuotes
        /\ r.taskReservations = WithReservation(v.taskReservations, t, a, Deposits!NoReservation)
    BY SMTT(30), <2>1, <2>2, ExitFeeStep DEF WithReservation
  <2>4. Deposits!NoReservation.amount = 0
    BY DEF Deposits!NoReservation
  <2>5. Freed(v, r, t, {a})
    BY <2>1, <2>3, <2>4, ClearedIsFreed
  <2> QED BY <1>1, <2>3, <2>5 DEF a, r
<1>2. CASE ~Decided(outcome)
  BY <1>2 DEF ExitCharged, Freed
<1> QED BY <1>1, <1>2

(* Freeing some of the parties and then unlocking the task leaves no collateral  *)
(* of theirs.                                                                 *)
LEMMA UnlockAfter ==
    ASSUME NEW v, NEW u, NEW t \in Tasks, Partied(t),
           NEW S \in SUBSET Parties(tasks[t]), Freed(v, u, t, S)
    PROVE  LET r == Unlock(u, t)
           IN  /\ CanUnlock(u, t)
               /\ r.deposits = u.deposits
               /\ Freed(v, r, t, Parties(tasks[t]))
<1> DEFINE r == Unlock(u, t)
<1>1. KeptDeposits(u)
  BY DEF Freed
<1>2. CanUnlock(u, t) /\ Unlocked(u, r, t)
  BY <1>1, UnlockStep
<1> HIDE DEF r
<1>3. Freed(v, r, t, Parties(tasks[t]))
  <2> DEFINE P == Parties(tasks[t])
  <2> HIDE DEF P
  <2>1. S \subseteq P
    BY DEF P
  <2>2. Freed(v, r, t, P)
    BY <1>2, <2>1 DEF Freed, Unlocked, P
  <2> QED BY <2>2 DEF P
<1> QED BY <1>2, <1>3 DEF Unlocked, r

(* _settleCredits is always accepted and frees both of a task's slots.          *)
LEMMA SlotsElsewhere ==
    ASSUME NEW c, KeptLedger(c), NEW r, KeptLedger(r), NEW t \in Tasks, NEW isPost \in BOOLEAN,
           NEW x, SlotIs(c, r, t, isPost, x)
    PROVE  \A s \in Tasks : s # t => r.taskCreditPayer[s] = c.taskCreditPayer[s]
<1>1. /\ c.taskCreditPayer \in [Tasks -> [BOOLEAN -> Accounts \cup {Nobody}]]
      /\ r.taskCreditPayer \in [Tasks -> [BOOLEAN -> Accounts \cup {Nobody}]]
  BY LedgerHas DEF KeptLedger, LedgerFields
<1>2. TAKE s \in Tasks
<1>3. HAVE s # t
<1>4. /\ c.taskCreditPayer[s] \in [BOOLEAN -> Accounts \cup {Nobody}]
      /\ r.taskCreditPayer[s] \in [BOOLEAN -> Accounts \cup {Nobody}]
  BY <1>1
<1>5. \A b \in BOOLEAN : r.taskCreditPayer[s][b] = c.taskCreditPayer[s][b]
  BY <1>3 DEF SlotIs
<1> QED BY <1>4, <1>5

Flagged(t) == tasks[t].posterCredit \in BOOLEAN /\ tasks[t].workerCredit \in BOOLEAN
              /\ (tasks[t].worker = Nobody => ~tasks[t].workerCredit)

PosterCreditFreed(c, r, t) ==
    /\ KeptLedger(r)
    /\ \A s \in Tasks : s # t => r.taskCreditPayer[s] = c.taskCreditPayer[s]
    /\ r.taskCreditPayer[t][TRUE] = Nobody
    /\ r.taskCreditPayer[t][FALSE] = c.taskCreditPayer[t][FALSE]

(* Settling the poster's spent credit.                                        *)
LEMMA PosterCreditStep ==
    ASSUME NEW c, KeptLedger(c), NEW t \in Tasks, Partied(t), Flagged(t),
           CreditLink(tasks[t], c.taskCreditPayer[t]), NEW to \in Accounts \cup {Nobody},
           NEW earned \in [Accounts -> Nat]
    PROVE  LET r == AfterPosterCredit(c, t, to, earned)
           IN  /\ tasks[t].posterCredit =>
                     Credits!CanSettleSpentCredit(c, t, tasks[t].poster, TRUE)
               /\ PosterCreditFreed(c, r, t)
<1> DEFINE r == AfterPosterCredit(c, t, to, earned)
           p == tasks[t].poster
<1>1. CASE tasks[t].posterCredit
  <2>1. p \in Accounts /\ c.taskCreditPayer[t][TRUE] = p
    BY <1>1 DEF Partied, CreditLink
  <2>2. r = Credits!SettleSpentCredit(c, t, p, to, TRUE, earned)
    BY <1>1 DEF AfterPosterCredit
  <2> HIDE DEF r, p
  <2>3. /\ Credits!CanSettleSpentCredit(c, t, p, TRUE) /\ KeptLedger(r)
        /\ SlotIs(c, r, t, TRUE, Nobody)
    BY <2>1, <2>2, SettleStep
  <2>4. \A s \in Tasks : s # t => r.taskCreditPayer[s] = c.taskCreditPayer[s]
    BY ZenonT(30), <2>3, SlotsElsewhere
  <2>5. r.taskCreditPayer[t][TRUE] = Nobody
        /\ r.taskCreditPayer[t][FALSE] = c.taskCreditPayer[t][FALSE]
    BY <2>3 DEF SlotIs
  <2> QED BY <2>3, <2>4, <2>5 DEF r, p, PosterCreditFreed
<1>2. CASE ~tasks[t].posterCredit
  BY <1>2 DEF AfterPosterCredit, CreditLink, PosterCreditFreed
<1> QED BY <1>1, <1>2 DEF Flagged

CreditsFreed(c, r, t) ==
    /\ KeptLedger(r)
    /\ \A s \in Tasks : s # t => r.taskCreditPayer[s] = c.taskCreditPayer[s]
    /\ r.taskCreditPayer[t][TRUE] = Nobody
    /\ r.taskCreditPayer[t][FALSE] = Nobody

(* Settling the worker's spent credit after it.                               *)
LEMMA WorkerCreditStep ==
    ASSUME NEW c, KeptLedger(c), NEW t \in Tasks, Partied(t), Flagged(t), tasks[t].workerCredit,
           c.taskCreditPayer[t][FALSE] = tasks[t].worker, c.taskCreditPayer[t][TRUE] = Nobody,
           NEW to \in Accounts \cup {Nobody}, NEW earned \in [Accounts -> Nat]
    PROVE  LET r == Credits!SettleSpentCredit(c, t, tasks[t].worker, to, FALSE, earned)
           IN  /\ Credits!CanSettleSpentCredit(c, t, tasks[t].worker, FALSE)
               /\ CreditsFreed(c, r, t)
<1> DEFINE w == tasks[t].worker
           r == Credits!SettleSpentCredit(c, t, w, to, FALSE, earned)
<1>1. w \in Accounts /\ c.taskCreditPayer[t][FALSE] = w
  BY DEF Partied, Flagged
<1> HIDE DEF w
<1>2. /\ Credits!CanSettleSpentCredit(c, t, w, FALSE) /\ KeptLedger(r)
      /\ SlotIs(c, r, t, FALSE, Nobody)
  BY <1>1, SettleStep
<1> HIDE DEF r
<1>3. \A s \in Tasks : s # t => r.taskCreditPayer[s] = c.taskCreditPayer[s]
  BY ZenonT(30), <1>2, SlotsElsewhere
<1>4. r.taskCreditPayer[t][FALSE] = Nobody /\ r.taskCreditPayer[t][TRUE] = Nobody
  BY <1>2 DEF SlotIs
<1> QED BY <1>2, <1>3, <1>4 DEF CreditsFreed, r, w

(* Settling a task's credits frees both of its slots.                         *)
LEMMA SettleCreditsStep ==
    ASSUME NEW c, KeptLedger(c), NEW t \in Tasks, Partied(t), Flagged(t),
           CreditLink(tasks[t], c.taskCreditPayer[t]), NEW posterTo \in Accounts \cup {Nobody},
           NEW workerTo \in Accounts \cup {Nobody}, NEW earned \in [Accounts -> Nat]
    PROVE  /\ CanSettleCredits(c, t)
           /\ CreditsFreed(c, SettleCredits(c, t, posterTo, workerTo, earned), t)
<1> DEFINE k == tasks[t]
           none == AfterPosterCredit(c, t, Nobody, Credits!NoEarnings)
           first == AfterPosterCredit(c, t, posterTo, earned)
           updated == IF k.posterCredit /\ posterTo # Nobody THEN {k.poster, posterTo} ELSE {}
           rest == Credits!Rest(earned, updated)
           r == SettleCredits(c, t, posterTo, workerTo, earned)
<1>1. Credits!NoEarnings \in [Accounts -> Nat] /\ rest \in [Accounts -> Nat]
  BY DEF Credits!NoEarnings, Credits!Rest
<1>2. /\ k.posterCredit => Credits!CanSettleSpentCredit(c, t, k.poster, TRUE)
      /\ KeptLedger(none) /\ none.taskCreditPayer[t][TRUE] = Nobody
      /\ none.taskCreditPayer[t][FALSE] = c.taskCreditPayer[t][FALSE]
  <2>1. /\ k.posterCredit => Credits!CanSettleSpentCredit(c, t, k.poster, TRUE)
        /\ PosterCreditFreed(c, none, t)
    BY <1>1, PosterCreditStep
  <2> QED BY <2>1 DEF PosterCreditFreed
<1>3. /\ KeptLedger(first)
      /\ \A s \in Tasks : s # t => first.taskCreditPayer[s] = c.taskCreditPayer[s]
      /\ first.taskCreditPayer[t][TRUE] = Nobody
      /\ first.taskCreditPayer[t][FALSE] = c.taskCreditPayer[t][FALSE]
  <2>1. PosterCreditFreed(c, first, t)
    BY PosterCreditStep
  <2> QED BY <2>1 DEF PosterCreditFreed
<1>4. r = IF k.workerCredit
          THEN Credits!SettleSpentCredit(first, t, k.worker, workerTo, FALSE, rest)
          ELSE first
  BY DEF SettleCredits
<1> HIDE DEF none, first, rest, r
<1>5. CASE k.workerCredit
  <2>1. c.taskCreditPayer[t][FALSE] = k.worker
    BY <1>5 DEF CreditLink
  <2>2. Credits!CanSettleSpentCredit(none, t, k.worker, FALSE)
    BY <1>1, <1>2, <1>5, <2>1, WorkerCreditStep
  <2>3. CreditsFreed(first, r, t)
    BY <1>1, <1>3, <1>4, <1>5, <2>1, WorkerCreditStep
  <2>4. CanSettleCredits(c, t)
    BY <1>2, <2>2 DEF CanSettleCredits, none
  <2> QED BY <1>3, <2>3, <2>4 DEF CreditsFreed, r
<1>6. CASE ~k.workerCredit
  <2>1. c.taskCreditPayer[t][FALSE] = Nobody /\ r = first
    BY <1>4, <1>6 DEF CreditLink
  <2>2. CanSettleCredits(c, t)
    BY <1>2, <1>6 DEF CanSettleCredits
  <2> QED BY <1>3, <2>1, <2>2 DEF CreditsFreed, r
<1> QED BY <1>5, <1>6 DEF Flagged

(* Each party's spent credit could be settled by itself.                       *)
LEMMA CreditsHeld ==
    ASSUME NEW c, KeptLedger(c), NEW t \in Tasks, Partied(t), Flagged(t),
           CreditLink(tasks[t], c.taskCreditPayer[t])
    PROVE  /\ tasks[t].posterCredit =>
                 Credits!CanSettleSpentCredit(c, t, tasks[t].poster, TRUE)
           /\ tasks[t].workerCredit =>
                 Credits!CanSettleSpentCredit(c, t, tasks[t].worker, FALSE)
<1> DEFINE k == tasks[t]
<1>1. Credits!NoEarnings \in [Accounts -> Nat]
  BY DEF Credits!NoEarnings
<1>2. k.posterCredit => Credits!CanSettleSpentCredit(c, t, k.poster, TRUE)
  BY <1>1, PosterCreditStep
<1>3. ASSUME k.workerCredit PROVE Credits!CanSettleSpentCredit(c, t, k.worker, FALSE)
  <2>1. c.taskCreditPayer[t][FALSE] = k.worker /\ k.worker \in Accounts
    BY <1>3 DEF CreditLink, Partied, Flagged
  <2> HIDE DEF k
  <2> QED BY <1>1, <2>1, SettleStep
<1> QED BY <1>2, <1>3

-------------------------------------------------------------------------------
(* Amounts and exposure.                                                      *)

(* The product of two positive numbers is positive.                           *)
LEMMA ProductPositive ==
    ASSUME NEW m \in Nat, NEW n \in Nat
    PROVE  m * n \in Nat /\ (m > 0 /\ n > 0 => m * n > 0)
OBVIOUS

(* Division rounded up: what it bounds, and that it never rounds to zero.     *)
LEMMA CeilDivFacts ==
    ASSUME NEW m \in Nat, NEW n \in Nat, n > 0
    PROVE  CeilDiv(m, n) \in Nat /\ (m > 0 => CeilDiv(m, n) > 0)
<1> DEFINE d == (m + n - 1) \div n
<1>1. m + n - 1 \in Nat
  OBVIOUS
<1>2. d \in Int /\ d * n <= m + n - 1 /\ m + n - 1 < (d + 1) * n
  BY <1>1
<1>3. d >= 0
  <2>1. CASE d + 1 <= 0
    <3>1. (d + 1) * n <= 0
      BY <1>2, <2>1
    <3> QED BY <1>1, <1>2, <3>1
  <2> QED BY <1>2, <2>1
<1>4. ASSUME m > 0 PROVE d > 0
  <2>1. CASE d = 0
    BY <1>2, <1>4, <2>1
  <2> QED BY <1>2, <1>3, <2>1
<1> QED BY <1>2, <1>3, <1>4 DEF CeilDiv

(* The basis of a funding is positive and never falls.                        *)
LEMMA FundedBasisFacts ==
    ASSUME NEW k \in Task, k.totalAmount > 0, k.declaredUsd6 > 0, NEW n \in Nat, n > 0,
           NEW price \in Prices
    PROVE  /\ FundedBasis(k, n, price) \in Nat
           /\ FundedBasis(k, n, price) > 0
           /\ FundedBasis(k, n, price) >= k.fundedBasisUsd6
<1> DEFINE pro == CeilDiv(k.declaredUsd6 * n, k.totalAmount)
           par == ParUsd6(n, price)
<1>0. /\ k.totalAmount \in Nat /\ k.declaredUsd6 \in Nat /\ k.fundedBasisUsd6 \in Nat
      /\ price \in Nat /\ AzlUnit \in Nat /\ AzlUnit > 0
  <2>1. k.totalAmount \in Nat /\ k.declaredUsd6 \in Nat /\ k.fundedBasisUsd6 \in Nat
    BY DEF Task
  <2>2. price \in Nat /\ AzlUnit \in Nat /\ AzlUnit > 0
    BY SMTT(30), RegistryAssumption
  <2> QED BY <2>1, <2>2
<1>1. pro \in Nat /\ pro > 0
  <2>1. k.declaredUsd6 * n \in Nat /\ k.declaredUsd6 * n > 0
    BY <1>0, ProductPositive
  <2> QED BY <1>0, <2>1, CeilDivFacts
<1>2. par \in Nat
  <2>1. n * price \in Nat
    BY <1>0, ProductPositive
  <2> QED BY <1>0, <2>1, CeilDivFacts DEF ParUsd6
<1> HIDE DEF pro, par
<1> QED BY <1>0, <1>1, <1>2 DEF FundedBasis, AtLeast, pro, par

(* The open amount after a payment never grows, and is positive while AZL is  *)
(* left.                                                                      *)
LEMMA ReconciledFacts ==
    ASSUME NEW k \in Task, NEW n \in Nat, k.released + n < k.funded, k.fundedBasisUsd6 > 0,
           k.amountUsd6 > 0
    PROVE  /\ ReconciledAmount(k, n) \in Nat
           /\ ReconciledAmount(k, n) > 0
           /\ ReconciledAmount(k, n) <= k.amountUsd6
<1> DEFINE rest == RemainingOf(k) - n
           pro == CeilDiv(k.fundedBasisUsd6 * rest, k.funded)
<1>0. /\ k.funded \in Nat /\ k.released \in Nat /\ k.fundedBasisUsd6 \in Nat
      /\ k.amountUsd6 \in Nat
  BY DEF Task
<1>1. rest \in Nat /\ rest > 0 /\ k.funded > 0
  BY <1>0 DEF RemainingOf
<1> HIDE DEF rest
<1>2. pro \in Nat /\ pro > 0
  <2>1. k.fundedBasisUsd6 * rest \in Nat /\ k.fundedBasisUsd6 * rest > 0
    BY <1>0, <1>1, ProductPositive
  <2> QED BY <1>0, <1>1, <2>1, CeilDivFacts
<1> HIDE DEF pro
<1> QED BY <1>0, <1>2 DEF ReconciledAmount, pro, rest

(* The open amounts are natural numbers.                                      *)
LEMMA OpenAmountsType ==
    ASSUME NEW ts \in [Tasks -> Task], NEW a
    PROVE  /\ OpenAmounts(ts) \in [Tasks -> Nat]
           /\ \A t \in Tasks : OpenAmounts(ts)[t] = ts[t].amountUsd6
           /\ IsFiniteSet(Tasks) /\ IsFiniteSet(PostedBy(ts, a))
           /\ PostedBy(ts, a) \in SUBSET Tasks
           /\ NatsOn(OpenAmounts(ts), PostedBy(ts, a))
<1>1. OpenAmounts(ts) \in [Tasks -> Nat] /\ \A t \in Tasks : OpenAmounts(ts)[t] = ts[t].amountUsd6
  BY DEF OpenAmounts, Task
<1>2. PostedBy(ts, a) \in SUBSET Tasks
  BY DEF PostedBy
<1>3. IsFiniteSet(Tasks) /\ IsFiniteSet(PostedBy(ts, a))
  BY <1>2, RegistryAssumption, FS_Subset
<1> QED BY <1>1, <1>2, <1>3 DEF NatsOn

Moved(f, p, m, n) == [f EXCEPT ![p] = f[p] - m + n]

(* When a task's open amount changes, both totals move by as much.              *)
LEMMA ExposureMoves ==
    ASSUME NEW ts \in [Tasks -> Task], NEW total \in Nat, NEW byPoster \in [Accounts -> Nat],
           Exposed(ts, total, byPoster), NEW t \in Tasks, NEW k \in Task,
           k.poster = ts[t].poster, k.poster \in Accounts,
           NEW us \in [Tasks -> Task], us[t] = k, \A s \in Tasks : s # t => us[s] = ts[s]
    PROVE  LET m == ts[t].amountUsd6
               n == k.amountUsd6
           IN  /\ m <= total /\ m <= byPoster[k.poster]
               /\ Exposed(us, total - m + n, Moved(byPoster, k.poster, m, n))
<1> DEFINE m == ts[t].amountUsd6
           n == k.amountUsd6
           f == OpenAmounts(ts)
           g == OpenAmounts(us)
           P(a) == PostedBy(ts, a)
           total2 == total - m + n
           by2 == Moved(byPoster, k.poster, m, n)
<1>0. /\ f \in [Tasks -> Nat] /\ g \in [Tasks -> Nat] /\ IsFiniteSet(Tasks)
      /\ f[t] = m /\ g[t] = n /\ m \in Nat /\ n \in Nat
      /\ \A s \in Tasks : s # t => g[s] = f[s]
  BY OpenAmountsType
<1>1. m <= total /\ total2 = SumFunction(g)
  <2>1. /\ f[t] <= SumFunction(f) /\ SumFunction(g) = SumFunction(f) - f[t] + g[t]
        /\ SumFunction(f) \in Nat
    <3> HIDE DEF f, g
    <3> QED BY <1>0, TotalChange
  <2> QED BY <1>0, <2>1 DEF Exposed
<1>2. ASSUME NEW a \in Accounts
      PROVE  /\ PostedBy(us, a) = P(a) /\ IsFiniteSet(P(a)) /\ NatsOn(f, P(a))
             /\ P(a) \in SUBSET Tasks
             /\ t \in P(a) <=> a = k.poster
             /\ byPoster[a] = SumFunctionOnSet(f, P(a))
  <2>1. PostedBy(us, a) = P(a) /\ (t \in P(a) <=> a = k.poster)
    BY DEF PostedBy
  <2> QED BY <2>1, OpenAmountsType DEF Exposed
<1> HIDE DEF f, g, P
<1>3. m <= byPoster[k.poster]
      /\ byPoster[k.poster] - m + n = SumFunctionOnSet(g, P(k.poster))
  <2>1. /\ IsFiniteSet(P(k.poster)) /\ NatsOn(f, P(k.poster)) /\ t \in P(k.poster)
        /\ \A y \in P(k.poster) \ {t} : g[y] = f[y]
    BY <1>0, <1>2
  <2>2. /\ f[t] <= SumFunctionOnSet(f, P(k.poster))
        /\ SumFunctionOnSet(g, P(k.poster)) = SumFunctionOnSet(f, P(k.poster)) - f[t] + g[t]
    BY <1>0, <2>1, SumChange
  <2> QED BY <1>0, <1>2, <2>2
<1>4. ASSUME NEW a \in Accounts, a # k.poster PROVE byPoster[a] = SumFunctionOnSet(g, P(a))
  <2>1. IsFiniteSet(P(a)) /\ NatsOn(f, P(a)) /\ \A y \in P(a) : g[y] = f[y]
    BY <1>0, <1>2, <1>4
  <2>2. SumFunctionOnSet(g, P(a)) = SumFunctionOnSet(f, P(a))
    BY <2>1, SumEqual
  <2> QED BY <1>2, <2>2
<1>5. \A a \in Accounts : by2[a] = SumFunctionOnSet(g, P(a))
  BY <1>3, <1>4 DEF Moved
<1>6. Exposed(us, total2, by2)
  <2>1. \A a \in Accounts : by2[a] = SumFunctionOnSet(g, PostedBy(us, a))
    BY <1>2, <1>5
  <2> HIDE DEF by2, total2
  <2> QED BY <1>1, <2>1 DEF Exposed, g
<1> QED BY <1>1, <1>3, <1>6

(* A tally that recorded at most t.                                            *)
Tallied(r, q, t) ==
    q \in Reputation!TallyType /\ \A s \in Tasks : s # t => q.recorded[s] = r.recorded[s]

TallyFields(r) ==
    /\ r.recorded \in [Tasks -> BOOLEAN] /\ r.completed \in [Accounts -> Nat]
    /\ r.wins \in [Accounts -> Nat] /\ r.losses \in [Accounts -> Nat]

(* The fields of a tally.                                                     *)
LEMMA TallyHas ==
    ASSUME NEW r \in Reputation!TallyType
    PROVE  TallyFields(r)
BY DEF Reputation!TallyType, TallyFields

WithTallies(q, c, x, l) == [q EXCEPT !.completed = c, !.wins = x, !.losses = l]

(* A tally with changed fields is a tally.                                    *)
LEMMA TallyWith ==
    ASSUME NEW q \in Reputation!TallyType, NEW c \in [Accounts -> Nat],
           NEW x \in [Accounts -> Nat], NEW l \in [Accounts -> Nat],
           NEW r, r = WithTallies(q, c, x, l)
    PROVE  r \in Reputation!TallyType /\ r.recorded = q.recorded
BY DEF Reputation!TallyType, WithTallies

(* Recording an outcome keeps the tally, and records no other task.           *)
LEMMA TallySteps ==
    ASSUME NEW r \in Reputation!TallyType, NEW t \in Tasks, NEW p \in Accounts,
           NEW w \in Accounts, NEW neutral \in BOOLEAN
    PROVE  /\ Tallied(r, Reputation!RecordCompletion(r, t, p, w), t)
           /\ Tallied(r, Reputation!RecordPosterExpiry(r, t, p), t)
           /\ Tallied(r, Reputation!RecordDispute(r, t, p, w, neutral), t)
           /\ Tallied(r, Reputation!RecordUnresolved(r, p), t)
<1> DEFINE rec == [r.recorded EXCEPT ![t] = TRUE]
           q == Reputation!Recorded(r, t)
           Up(f, a) == Reputation!Plus(f, a, 1)
           q1 == Reputation!RecordCompletion(r, t, p, w)
           q2 == Reputation!RecordPosterExpiry(r, t, p)
           q3 == Reputation!RecordDispute(r, t, p, w, neutral)
           q4 == Reputation!RecordUnresolved(r, p)
<1>0. TallyFields(r)
  BY TallyHas
<1>1. rec \in [Tasks -> BOOLEAN] /\ \A s \in Tasks : s # t => rec[s] = r.recorded[s]
  BY <1>0 DEF TallyFields
<1>2. \A f \in [Accounts -> Nat], a \in Accounts : Up(f, a) \in [Accounts -> Nat]
  BY DEF Reputation!Plus
<1>3. q \in Reputation!TallyType /\ q.recorded = rec /\ TallyFields(q)
  <2>1. q = [r EXCEPT !.recorded = rec]
    BY <1>0 DEF Reputation!Recorded, TallyFields, Reputation!TallyType
  <2> HIDE DEF q, rec
  <2>2. q \in Reputation!TallyType /\ q.recorded = rec
    BY <1>1, <2>1 DEF Reputation!TallyType
  <2> QED BY <2>2, TallyHas
<1>4. q4 = WithTallies(r, r.completed, r.wins, Up(r.losses, p))
  BY DEF Reputation!RecordUnresolved, Reputation!TallyType, WithTallies
<1>5. /\ q1 = [q EXCEPT !.completed = Up(Up(@, p), w)]
      /\ q2 = [q EXCEPT !.losses = Up(@, p)]
      /\ q3 = IF neutral THEN q ELSE [q EXCEPT !.wins = Up(@, p), !.losses = Up(@, w)]
  BY DEF Reputation!RecordCompletion, Reputation!RecordPosterExpiry, Reputation!RecordDispute
<1> HIDE DEF q, Up, rec, q1, q2, q3, q4
<1>6. /\ q1 = WithTallies(q, Up(Up(q.completed, p), w), q.wins, q.losses)
      /\ q2 = WithTallies(q, q.completed, q.wins, Up(q.losses, p))
      /\ q3 = IF neutral THEN q ELSE WithTallies(q, q.completed, Up(q.wins, p), Up(q.losses, w))
  BY <1>3, <1>5 DEF Reputation!TallyType, WithTallies
<1>7. /\ Up(Up(q.completed, p), w) \in [Accounts -> Nat] /\ Up(q.losses, p) \in [Accounts -> Nat]
      /\ Up(q.wins, p) \in [Accounts -> Nat] /\ Up(q.losses, w) \in [Accounts -> Nat]
      /\ Up(r.losses, p) \in [Accounts -> Nat]
      /\ q.completed \in [Accounts -> Nat] /\ q.wins \in [Accounts -> Nat]
      /\ q.losses \in [Accounts -> Nat]
      /\ r.completed \in [Accounts -> Nat] /\ r.wins \in [Accounts -> Nat]
  BY <1>0, <1>2, <1>3 DEF TallyFields
<1>8. \A c, x, l : c \in [Accounts -> Nat] /\ x \in [Accounts -> Nat] /\ l \in [Accounts -> Nat] =>
         /\ WithTallies(q, c, x, l) \in Reputation!TallyType
         /\ WithTallies(q, c, x, l).recorded = rec
         /\ WithTallies(r, c, x, l) \in Reputation!TallyType
         /\ WithTallies(r, c, x, l).recorded = r.recorded
  BY <1>3, TallyWith
<1>9. /\ q1 \in Reputation!TallyType /\ q1.recorded = rec
      /\ q2 \in Reputation!TallyType /\ q2.recorded = rec
      /\ q4 \in Reputation!TallyType /\ q4.recorded = r.recorded
  BY <1>4, <1>6, <1>7, <1>8
<1>10. q3 \in Reputation!TallyType /\ q3.recorded = rec
  BY <1>3, <1>6, <1>7, <1>8
<1> QED BY <1>1, <1>9, <1>10 DEF Tallied, q1, q2, q3, q4

(* What a step leaves alone when it is about the task t.                        *)
OthersSame(t) ==
    \A s \in Tasks : s # t =>
        /\ tasks'[s] = tasks[s]
        /\ escrowVault'.escrows[s] = escrowVault.escrows[s]
        /\ vault'.taskReservations[s] = vault.taskReservations[s]
        /\ vault'.taskQuotes[s] = vault.taskQuotes[s]
        /\ ledger'.taskCreditPayer[s] = ledger.taskCreditPayer[s]
        /\ tally'.recorded[s] = tally.recorded[s]

(* A step about one task that leaves it linked leaves them all linked.          *)
LEMMA OneTaskStep ==
    ASSUME RegistryInv, NEW t \in Tasks, OthersSame(t), LinkedAt(t)', RegistryType', Exposure',
           KeptDeposits(vault)', KeptEscrows(escrowVault)', KeptLedger(ledger)'
    PROVE  RegistryInv'
<1>1. \A s \in Tasks : LinkedAt(s)'
  <2> SUFFICES ASSUME NEW s \in Tasks, s # t PROVE LinkedAt(s)'
    OBVIOUS
  <2>1. LinkedAt(s)
    BY DEF RegistryInv
  <2> QED BY <2>1 DEF OthersSame, LinkedAt
<1> QED BY <1>1 DEF RegistryInv

(* The task t becomes k, and nothing else.                                     *)
LEMMA TaskBecomes ==
    ASSUME RegistryType, NEW t \in Tasks, NEW k \in Task, tasks' = [tasks EXCEPT ![t] = k]
    PROVE  /\ tasks' \in [Tasks -> Task] /\ tasks'[t] = k
           /\ \A s \in Tasks : s # t => tasks'[s] = tasks[s]
BY DEF RegistryType

(* An open amount that shrinks or stays can always be taken off the totals,      *)
(* which stay within the caps.                                                *)
LEMMA ExposureLowered ==
    ASSUME RegistryType, Exposure, NEW t \in Tasks, tasks[t].poster \in Accounts,
           NEW k \in Task, k.poster = tasks[t].poster, k.amountUsd6 <= tasks[t].amountUsd6
    PROVE  LET d == tasks[t].amountUsd6 - k.amountUsd6
           IN  /\ CanLowerOpenAmount(t, d)
               /\ tasks' = [tasks EXCEPT ![t] = k] /\ LowerOpenAmount(t, d) =>
                     /\ Exposure'
                     /\ openTaskTotalUsd6' \in Nat
                     /\ posterOpenTaskTotalUsd6' \in [Accounts -> Nat]
<1> DEFINE m == tasks[t].amountUsd6
           n == k.amountUsd6
           p == tasks[t].poster
           us == [tasks EXCEPT ![t] = k]
           d == m - n
<1>0. /\ tasks \in [Tasks -> Task] /\ openTaskTotalUsd6 \in Nat
      /\ posterOpenTaskTotalUsd6 \in [Accounts -> Nat] /\ m \in Nat /\ n \in Nat /\ n <= m
      /\ p \in Accounts
  BY DEF RegistryType, Task
<1>1. us \in [Tasks -> Task] /\ us[t] = k /\ \A s \in Tasks : s # t => us[s] = tasks[s]
  BY <1>0
<1> HIDE DEF us
<1>2. /\ m <= openTaskTotalUsd6 /\ m <= posterOpenTaskTotalUsd6[p]
      /\ Exposed(us, openTaskTotalUsd6 - m + n, Moved(posterOpenTaskTotalUsd6, p, m, n))
  BY <1>0, <1>1, ExposureMoves DEF Exposure
<1> HIDE DEF m, n, p
<1>3. CanLowerOpenAmount(t, d)
  BY <1>0, <1>2 DEF CanLowerOpenAmount, p
<1>4. ASSUME tasks' = us, LowerOpenAmount(t, d)
      PROVE  /\ Exposure' /\ openTaskTotalUsd6' \in Nat
             /\ posterOpenTaskTotalUsd6' \in [Accounts -> Nat]
  <2>1. openTaskTotalUsd6' = openTaskTotalUsd6 - m + n
        /\ posterOpenTaskTotalUsd6' = [posterOpenTaskTotalUsd6 EXCEPT ![p] =
                                          posterOpenTaskTotalUsd6[p] - d]
    BY <1>0, <1>4 DEF LowerOpenAmount, Minus, p
  <2>2. posterOpenTaskTotalUsd6[p] - d = posterOpenTaskTotalUsd6[p] - m + n
        /\ posterOpenTaskTotalUsd6[p] - d \in Nat
        /\ posterOpenTaskTotalUsd6[p] - d <= posterOpenTaskTotalUsd6[p]
    BY <1>0, <1>2
  <2>3. posterOpenTaskTotalUsd6' = Moved(posterOpenTaskTotalUsd6, p, m, n)
    BY <2>1, <2>2 DEF Moved
  <2>4. Exposed(tasks', openTaskTotalUsd6', posterOpenTaskTotalUsd6')
    BY <1>2, <1>4, <2>1, <2>3
  <2>5. openTaskTotalUsd6' \in Nat /\ openTaskTotalUsd6' <= openTaskTotalUsd6
    BY <1>0, <1>2, <2>1
  <2>6. posterOpenTaskTotalUsd6' \in [Accounts -> Nat]
        /\ \A a \in Accounts : posterOpenTaskTotalUsd6'[a] <= posterOpenTaskTotalUsd6[a]
    BY <1>0, <2>1, <2>2
  <2>7. Capped(openTaskTotalUsd6', posterOpenTaskTotalUsd6')
    <3>1. Capped(openTaskTotalUsd6, posterOpenTaskTotalUsd6)
      BY DEF Exposure
    <3>2. OpenTaskCapUsd6 \in Nat /\ PosterCapUsd6 \in Int
      <4>1. OpenTaskCapUsd6 \in Nat /\ PosterCapBps \in Nat
        BY RegistryAssumption
      <4>2. OpenTaskCapUsd6 * PosterCapBps \in Nat
        BY <4>1, ProductPositive
      <4> QED BY <4>1, <4>2 DEF PosterCapUsd6
    <3> QED BY <1>0, <2>5, <2>6, <3>1, <3>2 DEF Capped
  <2> QED BY <2>4, <2>5, <2>6, <2>7 DEF Exposure
<1> QED BY <1>3, <1>4 DEF us, m, n, p

(* A step that leaves the open amount of its task alone leaves the totals alone.  *)
LEMMA ExposureSame ==
    ASSUME RegistryType, Exposure, NEW t \in Tasks, tasks[t].poster \in Accounts,
           NEW k \in Task, k.poster = tasks[t].poster, k.amountUsd6 = tasks[t].amountUsd6,
           tasks' = [tasks EXCEPT ![t] = k],
           UNCHANGED <<openTaskTotalUsd6, posterOpenTaskTotalUsd6>>
    PROVE  Exposure'
<1>1. /\ tasks[t].amountUsd6 \in Nat /\ posterOpenTaskTotalUsd6 \in [Accounts -> Nat]
      /\ openTaskTotalUsd6 \in Nat
  BY DEF RegistryType, Task
<1>2. LowerOpenAmount(t, 0)
  BY <1>1 DEF LowerOpenAmount, Minus
<1>3. tasks[t].amountUsd6 - k.amountUsd6 = 0 /\ k.amountUsd6 <= tasks[t].amountUsd6
  BY <1>1
<1> QED BY <1>2, <1>3, ExposureLowered

-------------------------------------------------------------------------------
(* What the invariant says of one task.                                        *)
TaskFacts(t) ==
    /\ tasks[t] \in Task
    /\ SoundTask(tasks[t])
    /\ EscrowLink(tasks[t], escrowVault.escrows[t])
    /\ CollateralLink(tasks[t], vault.taskReservations[t], vault.taskQuotes[t])
    /\ CreditLink(tasks[t], ledger.taskCreditPayer[t])
    /\ RecordLink(tasks[t], tally.recorded[t])
    /\ SoundEscrow(escrowVault.escrows[t])
    /\ tasks[t].state \in State

(* What the invariant says of one task.                                       *)
LEMMA InvAt ==
    ASSUME RegistryInv, NEW t \in Tasks
    PROVE  TaskFacts(t)
<1>1. LinkedAt(t) /\ tasks[t] \in Task
  BY DEF RegistryInv, RegistryType
<1>2. SoundEscrow(escrowVault.escrows[t])
  BY KeptEscrowType DEF RegistryInv
<1>3. tasks[t].state \in State
  BY <1>1 DEF Task
<1> QED BY <1>1, <1>2, <1>3 DEF TaskFacts, LinkedAt, Linked

(* The parties of a posted task.                                              *)
LEMMA PostedHas ==
    ASSUME NEW t \in Tasks, TaskFacts(t), tasks[t].state # "NONE"
    PROVE  /\ Partied(t) /\ Flagged(t) /\ tasks[t].poster \in Accounts
           /\ tasks[t].worker \in Accounts \cup {Nobody}
           /\ \A a \in Accounts : a \in Parties(tasks[t]) <=>
                                     a = tasks[t].poster \/ a = tasks[t].worker
<1>1. /\ tasks[t].poster \in Accounts /\ tasks[t].worker # tasks[t].poster
      /\ (tasks[t].worker = Nobody => ~tasks[t].workerCredit)
  BY DEF TaskFacts, SoundTask
<1>2. /\ tasks[t].worker \in Accounts \cup {Nobody} /\ tasks[t].posterCredit \in BOOLEAN
      /\ tasks[t].workerCredit \in BOOLEAN
  BY DEF TaskFacts, Task
<1>3. Nobody \notin Accounts
  BY RegistryAssumption
<1> QED BY <1>1, <1>2, <1>3 DEF Partied, Flagged, Parties

(* How a task that ends leaves its own record.                                 *)
EndedAs(k, j) ==
    /\ j \in Task /\ j.state \in Terminal /\ j.amountUsd6 = 0
    /\ ~j.posterCredit /\ ~j.workerCredit
    /\ j.poster = k.poster /\ j.worker = k.worker /\ j.funded = k.funded
    /\ j.totalAmount = k.totalAmount /\ j.declaredUsd6 = k.declaredUsd6
    /\ j.fundedBasisUsd6 = k.fundedBasisUsd6
    /\ k.worker = Nobody => j.state = "CANCELLED"

(* ... its escrow, ...                                                        *)
EscrowEnded(t, r) ==
    LET e == escrowVault.escrows[t]
        f == r.escrows[t]
    IN  /\ KeptEscrows(r)
        /\ \A s \in Tasks : s # t => r.escrows[s] = escrowVault.escrows[s]
        /\ IF tasks[t].worker = Nobody THEN f = e
           ELSE /\ f.state = "SETTLED" /\ f.deposited = e.deposited
                /\ f.poster = e.poster /\ f.worker = e.worker

(* ... and the rest.                                                          *)
LEMMA EndingKept ==
    ASSUME RegistryInv, NEW t \in Tasks, tasks[t].state \in Live,
           NEW j, EndedAs(tasks[t], j), tasks' = [tasks EXCEPT ![t] = j],
           LowerOpenAmount(t, tasks[t].amountUsd6), EscrowEnded(t, escrowVault'),
           Freed(vault, vault', t, Parties(tasks[t])), CreditsFreed(ledger, ledger', t),
           Tallied(tally, tally', t), now' = now
    PROVE  RegistryInv'
<1> DEFINE k == tasks[t]
<1>1. TaskFacts(t) /\ k.state # "NONE"
  BY InvAt DEF Live
<1>2. /\ tasks' \in [Tasks -> Task] /\ tasks'[t] = j
      /\ \A s \in Tasks : s # t => tasks'[s] = tasks[s]
  BY TaskBecomes DEF RegistryInv, EndedAs
<1>3. SoundTask(j)
  <2>1. SoundTask(k)
    BY <1>1 DEF TaskFacts
  <2> QED BY <1>1, <2>1 DEF SoundTask, EndedAs, Terminal, Live
<1>4. EscrowLink(j, escrowVault'.escrows[t])
  <2>1. EscrowLink(k, escrowVault.escrows[t])
    BY <1>1 DEF TaskFacts
  <2>2. k.worker = Nobody => k.state \in {"POSTED"}
    BY <1>1 DEF TaskFacts, SoundTask, Live
  <2> QED BY <2>1, <2>2 DEF EscrowLink, EscrowEnded, EndedAs, Terminal, Live
<1>5. CollateralLink(j, vault'.taskReservations[t], vault'.taskQuotes[t])
  <2>1. \A a \in Accounts : ~ (vault'.taskReservations[t][a].amount > 0)
    <3> SUFFICES ASSUME NEW a \in Accounts
                 PROVE  ~ (vault'.taskReservations[t][a].amount > 0)
      OBVIOUS
    <3>1. CASE a \in Parties(k)
      BY <3>1 DEF Freed
    <3>2. CASE a \notin Parties(k)
      BY <1>1, <3>2 DEF Freed, TaskFacts, CollateralLink
    <3> QED BY <3>1, <3>2
  <2>2. j.state \notin Live
    BY DEF EndedAs, Terminal, Live
  <2> QED BY <2>1, <2>2 DEF CollateralLink
<1>6. CreditLink(j, ledger'.taskCreditPayer[t]) /\ RecordLink(j, tally'.recorded[t])
  BY DEF CreditsFreed, CreditLink, EndedAs, RecordLink
<1>7. LinkedAt(t)'
  BY <1>2, <1>3, <1>4, <1>5, <1>6 DEF LinkedAt, Linked
<1>8. OthersSame(t)
  BY <1>2 DEF OthersSame, EscrowEnded, Freed, CreditsFreed, Tallied
<1>9. /\ Exposure' /\ openTaskTotalUsd6' \in Nat
      /\ posterOpenTaskTotalUsd6' \in [Accounts -> Nat]
  <2>1. /\ k.amountUsd6 \in Nat /\ j \in Task /\ j.amountUsd6 = 0 /\ j.poster = k.poster
        /\ k.poster \in Accounts
    BY <1>1, PostedHas DEF TaskFacts, Task, EndedAs
  <2>2. k.amountUsd6 - j.amountUsd6 = k.amountUsd6 /\ j.amountUsd6 <= k.amountUsd6
    BY <2>1
  <2> QED BY <2>1, <2>2, ExposureLowered DEF RegistryInv
<1>10. RegistryType'
  BY <1>2, <1>9 DEF RegistryType, RegistryInv, Tallied
<1>11. KeptDeposits(vault)' /\ KeptEscrows(escrowVault)' /\ KeptLedger(ledger)'
  BY DEF Freed, EscrowEnded, CreditsFreed
<1> QED BY <1>7, <1>8, <1>9, <1>10, <1>11, OneTaskStep

-------------------------------------------------------------------------------
(* The endings: none of them can revert, and each keeps the invariant.          *)

(* The earnings of a transaction are amounts.                                 *)
LEMMA EarningsType ==
    ASSUME NEW earned \in Earnings
    PROVE  earned \in [Accounts -> Nat]
<1>1. earned \in [Accounts -> 0..CreditCap] /\ CreditCap \in Nat
  BY RegistryAssumption DEF Earnings
<1> QED BY <1>1

(* Unlocking, lowering the totals, settling the credits and recording: what      *)
(* every ending of a live task calls.                                         *)
LEMMA EndingAccepted ==
    ASSUME RegistryInv, NEW t \in Tasks, tasks[t].state \in Live
    PROVE  /\ EndAccepted(t) /\ CanUnlock(vault, t) /\ Reputation!CanRecord(tally, t)
           /\ \A posterTo \in Accounts \cup {Nobody}, workerTo \in Accounts \cup {Nobody},
                 earned \in [Accounts -> Nat] :
                 CreditsFreed(ledger, SettleCredits(ledger, t, posterTo, workerTo, earned), t)
<1> DEFINE k == tasks[t]
<1>1. TaskFacts(t) /\ k.state # "NONE"
  BY InvAt DEF Live
<1>2. Partied(t) /\ Flagged(t) /\ k.poster \in Accounts
  BY <1>1, PostedHas
<1>3. CreditLink(k, ledger.taskCreditPayer[t]) /\ KeptLedger(ledger) /\ KeptDeposits(vault)
  BY <1>1 DEF TaskFacts, RegistryInv
<1>4. CanLowerOpenAmount(t, k.amountUsd6)
  <2> DEFINE j == [k EXCEPT !.amountUsd6 = 0]
  <2>1. k \in Task
    BY <1>1 DEF TaskFacts
  <2>2. j \in Task /\ j.poster = k.poster /\ j.amountUsd6 = 0 /\ k.amountUsd6 \in Nat
    BY <2>1 DEF Task
  <2> HIDE DEF j
  <2>3. j.amountUsd6 <= k.amountUsd6 /\ k.amountUsd6 - j.amountUsd6 = k.amountUsd6
    BY <2>2
  <2>4. RegistryType /\ Exposure
    BY DEF RegistryInv
  <2> QED BY <1>2, <2>2, <2>3, <2>4, ExposureLowered
<1>5. Credits!NoEarnings \in [Accounts -> Nat]
  BY DEF Credits!NoEarnings
<1>6. CanSettleCredits(ledger, t)
  BY <1>2, <1>3, <1>5, SettleCreditsStep
<1>7. ASSUME NEW posterTo \in Accounts \cup {Nobody}, NEW workerTo \in Accounts \cup {Nobody},
             NEW earned \in [Accounts -> Nat]
      PROVE  CreditsFreed(ledger, SettleCredits(ledger, t, posterTo, workerTo, earned), t)
  BY <1>2, <1>3, SettleCreditsStep
<1>8. CanUnlock(vault, t)
  BY <1>2, <1>3, UnlockStep
<1>9. Reputation!CanRecord(tally, t)
  <2>1. RecordLink(k, tally.recorded[t])
    BY <1>1 DEF TaskFacts
  <2>2. k.state \notin Terminal
    BY DEF Live, Terminal
  <2> QED BY <2>1, <2>2 DEF RecordLink, Reputation!CanRecord
<1> QED BY <1>4, <1>6, <1>7, <1>8, <1>9 DEF EndAccepted

(* Replacing one task's escrow.                                               *)
LEMMA OneEscrow ==
    ASSUME NEW f \in [Tasks -> Escrow!Escrow], NEW t \in Tasks, NEW x
    PROVE  /\ WithEscrow(f, t, x)[t] = x
           /\ \A s \in Tasks : s # t => WithEscrow(f, t, x)[s] = f[s]
BY DEF WithEscrow

EscrowFields(e) ==
    /\ e.poster \in Accounts \cup {Nobody} /\ e.worker \in Accounts \cup {Nobody}
    /\ e.deposited \in Nat /\ e.released \in Nat /\ e.state \in Escrow!EscrowState

(* The fields of an escrow.                                                   *)
LEMMA EscrowHas ==
    ASSUME NEW v, KeptEscrows(v), NEW t \in Tasks
    PROVE  v.escrows[t] \in Escrow!Escrow /\ EscrowFields(v.escrows[t]) /\ SoundEscrow(v.escrows[t])
<1>1. v.escrows[t] \in Escrow!Escrow /\ SoundEscrow(v.escrows[t])
  BY KeptEscrowType
<1> QED BY <1>1 DEF Escrow!Escrow, EscrowFields

(* An escrow closed, refunded or settled has ended.                            *)
LEMMA ClosedEnds ==
    ASSUME KeptEscrows(escrowVault), NEW t \in Tasks, tasks[t].worker # Nobody,
           NEW r, KeptEscrows(r), NEW n,
           r.escrows = WithEscrow(escrowVault.escrows, t,
                          [escrowVault.escrows[t] EXCEPT !.released = n, !.state = "SETTLED"])
    PROVE  EscrowEnded(t, r)
<1> DEFINE x == [escrowVault.escrows[t] EXCEPT !.released = n, !.state = "SETTLED"]
<1>1. /\ x.state = "SETTLED" /\ x.deposited = escrowVault.escrows[t].deposited
      /\ x.poster = escrowVault.escrows[t].poster /\ x.worker = escrowVault.escrows[t].worker
  BY EscrowHas DEF Escrow!Escrow
<1> HIDE DEF x
<1>2. r.escrows[t] = x /\ \A s \in Tasks : s # t => r.escrows[s] = escrowVault.escrows[s]
  <2>1. r.escrows = WithEscrow(escrowVault.escrows, t, x)
    BY DEF x
  <2>2. escrowVault.escrows \in [Tasks -> Escrow!Escrow]
    BY KeptEscrowType
  <2> QED BY <2>1, <2>2, OneEscrow
<1> QED BY <1>1, <1>2 DEF EscrowEnded

(* Closing an escrow that nothing is left in.                                  *)
LEMMA CloseEnds ==
    ASSUME KeptEscrows(escrowVault), NEW t \in Tasks, tasks[t].worker # Nobody,
           escrowVault.escrows[t].state = "FUNDED",
           escrowVault.escrows[t].released = escrowVault.escrows[t].deposited
    PROVE  /\ Escrow!CanCloseEscrow(escrowVault, t)
           /\ EscrowEnded(t, Escrow!CloseEscrow(escrowVault, t))
<1> DEFINE r == Escrow!CloseEscrow(escrowVault, t)
           e == escrowVault.escrows[t]
<1>1. /\ Escrow!CanCloseEscrow(escrowVault, t) /\ KeptEscrows(r)
      /\ r.escrows = WithEscrow(escrowVault.escrows, t, [e EXCEPT !.state = "SETTLED"])
  BY CloseEscrowStep DEF WithEscrow
<1>2. [e EXCEPT !.state = "SETTLED"] = [e EXCEPT !.released = e.released, !.state = "SETTLED"]
  BY EscrowHas DEF Escrow!Escrow
<1>3. r.escrows = WithEscrow(escrowVault.escrows, t,
                             [e EXCEPT !.released = e.released, !.state = "SETTLED"])
  BY <1>1, <1>2
<1> HIDE DEF r
<1>4. EscrowEnded(t, r)
  BY <1>1, <1>3, ClosedEnds
<1> QED BY <1>1, <1>4 DEF r

(* Paying out all that is left and closing.                                    *)
LEMMA PayAndCloseEnds ==
    ASSUME KeptEscrows(escrowVault), NEW t \in Tasks, tasks[t].worker # Nobody,
           NEW n \in Nat, n > 0, escrowVault.escrows[t].state = "FUNDED",
           n = Escrow!Remaining(escrowVault, t), NEW refusing
    PROVE  LET u == Escrow!ReleaseEscrow(escrowVault, t, n, refusing)
           IN  /\ Escrow!CanReleaseEscrow(escrowVault, t, n)
               /\ Escrow!CanCloseEscrow(u, t)
               /\ EscrowEnded(t, Escrow!CloseEscrow(u, t))
<1> DEFINE e == escrowVault.escrows[t]
           u == Escrow!ReleaseEscrow(escrowVault, t, n, refusing)
           x == [e EXCEPT !.released = e.released + n]
           r == Escrow!CloseEscrow(u, t)
           y == [e EXCEPT !.released = e.released + n, !.state = "SETTLED"]
<1>0. EscrowFields(e) /\ n = e.deposited - e.released
  BY EscrowHas DEF Escrow!Remaining
<1>1. /\ Escrow!CanReleaseEscrow(escrowVault, t, n) /\ KeptEscrows(u)
      /\ u.escrows = WithEscrow(escrowVault.escrows, t, x)
  <2>1. n <= Escrow!Remaining(escrowVault, t)
    OBVIOUS
  <2> QED BY <2>1, ReleaseEscrowStep DEF WithEscrow
<1>2. /\ x.state = "FUNDED" /\ x.released = x.deposited
      /\ y = [x EXCEPT !.state = "SETTLED"]
  BY <1>0, EscrowHas DEF Escrow!Escrow, EscrowFields
<1> HIDE DEF u, x, y
<1>3. u.escrows[t] = x
  <2>1. escrowVault.escrows \in [Tasks -> Escrow!Escrow]
    BY KeptEscrowType
  <2> QED BY <1>1, <2>1, OneEscrow
<1>4. /\ Escrow!CanCloseEscrow(u, t) /\ KeptEscrows(r)
      /\ r.escrows = WithEscrow(u.escrows, t, y)
  <2>1. u.escrows[t].state = "FUNDED" /\ u.escrows[t].released = u.escrows[t].deposited
    BY <1>2, <1>3
  <2>2. /\ Escrow!CanCloseEscrow(u, t) /\ KeptEscrows(r)
        /\ r.escrows = [u.escrows EXCEPT ![t] = [u.escrows[t] EXCEPT !.state = "SETTLED"]]
    BY <1>1, <2>1, CloseEscrowStep
  <2> QED BY <1>2, <1>3, <2>2 DEF WithEscrow
<1>5. r.escrows = WithEscrow(escrowVault.escrows, t, y)
  <2> HIDE DEF r
  <2>1. \A f : WithEscrow(WithEscrow(f, t, x), t, y) = WithEscrow(f, t, y)
    BY DEF WithEscrow
  <2> QED BY <1>1, <1>4, <2>1
<1> HIDE DEF r
<1>6. EscrowEnded(t, r)
  BY <1>4, <1>5, ClosedEnds DEF y
<1> QED BY <1>1, <1>4, <1>6 DEF r, u

(* Refunding the poster.                                                       *)
LEMMA RefundEnds ==
    ASSUME KeptEscrows(escrowVault), NEW t \in Tasks, tasks[t].worker # Nobody,
           escrowVault.escrows[t].state = "FUNDED", NEW refusing
    PROVE  /\ Escrow!CanRefundEscrow(escrowVault, t)
           /\ EscrowEnded(t, Escrow!RefundEscrow(escrowVault, t, refusing))
<1> DEFINE r == Escrow!RefundEscrow(escrowVault, t, refusing)
           n == escrowVault.escrows[t].deposited
<1>1. /\ Escrow!CanRefundEscrow(escrowVault, t) /\ KeptEscrows(r)
      /\ r.escrows = WithEscrow(escrowVault.escrows, t,
                         [escrowVault.escrows[t] EXCEPT !.released = n, !.state = "SETTLED"])
  BY RefundEscrowStep DEF WithEscrow
<1> HIDE DEF r, n
<1>2. EscrowEnded(t, r)
  BY <1>1, ClosedEnds
<1> QED BY <1>1, <1>2 DEF r

(* Splitting a frozen escrow.                                                  *)
LEMMA SettleEnds ==
    ASSUME KeptEscrows(escrowVault), NEW t \in Tasks, tasks[t].worker # Nobody,
           escrowVault.escrows[t].state = "FROZEN", NEW bps, IsShare(bps), NEW refusing
    PROVE  /\ Escrow!CanSettle(escrowVault, t) /\ Escrow!CanSettleEscrow(escrowVault, t, bps)
           /\ EscrowEnded(t, Escrow!SettleEscrow(escrowVault, t, bps, refusing))
<1> DEFINE r == Escrow!SettleEscrow(escrowVault, t, bps, refusing)
           n == escrowVault.escrows[t].deposited
<1>1. /\ Escrow!CanSettle(escrowVault, t) /\ Escrow!CanSettleEscrow(escrowVault, t, bps)
      /\ KeptEscrows(r)
      /\ r.escrows = WithEscrow(escrowVault.escrows, t,
                         [escrowVault.escrows[t] EXCEPT !.released = n, !.state = "SETTLED"])
  BY SettleEscrowStep
<1> HIDE DEF r, n
<1>2. EscrowEnded(t, r)
  BY <1>1, ClosedEnds
<1> QED BY <1>1, <1>2 DEF r

Paid(k, n) == [Ended(k, "COMPLETED") EXCEPT !.released = n]
Ruled(k, outcome) == [Ended(k, "RESOLVED") EXCEPT !.resolution = outcome]

(* The record of a cancelled task.                                            *)
LEMMA CancelledTask ==
    ASSUME NEW k \in Task
    PROVE  /\ EndedAs(k, Ended(k, "CANCELLED"))
           /\ Ended(k, "CANCELLED").state = "CANCELLED"
           /\ Ended(k, "CANCELLED").resolution = k.resolution
BY DEF Ended, EndedAs, Task, State, Terminal

(* The record of a completed task.                                            *)
LEMMA PaidTask ==
    ASSUME NEW k \in Task, k.worker # Nobody, NEW n \in Nat
    PROVE  EndedAs(k, Paid(k, n)) /\ Paid(k, n).state = "COMPLETED"
BY DEF Paid, Ended, EndedAs, Task, State, Terminal

(* The record of a resolved task.                                             *)
LEMMA RuledTask ==
    ASSUME NEW k \in Task, k.worker # Nobody, NEW outcome \in Rulings
    PROVE  /\ EndedAs(k, Ruled(k, outcome)) /\ Ruled(k, outcome).state = "RESOLVED"
           /\ Ruled(k, outcome).resolution = outcome
BY DEF Ruled, Ended, EndedAs, Task, State, Terminal

(* A task's two parties, once somebody claimed it.                             *)
LEMMA ClaimedHas ==
    ASSUME NEW t \in Tasks, TaskFacts(t), tasks[t].state \in {"CLAIMED", "ACTIVE", "DISPUTED"}
    PROVE  /\ tasks[t].poster \in Accounts /\ tasks[t].worker \in Accounts
           /\ tasks[t].worker # Nobody /\ tasks[t].worker # tasks[t].poster
           /\ tasks[t].state \in Live /\ tasks[t].state # "NONE"
           /\ Parties(tasks[t]) = {tasks[t].poster, tasks[t].worker}
           /\ vault.taskReservations[t][tasks[t].poster].amount > 0
           /\ vault.taskReservations[t][tasks[t].worker].amount > 0
<1>1. tasks[t].worker # Nobody /\ tasks[t].state # "NONE" /\ tasks[t].state \in Live
  BY DEF TaskFacts, SoundTask, Live
<1>2. /\ tasks[t].poster \in Accounts /\ tasks[t].worker \in Accounts
      /\ tasks[t].worker # tasks[t].poster
      /\ \A a \in Accounts : a \in Parties(tasks[t]) <=>
                                a = tasks[t].poster \/ a = tasks[t].worker
  BY <1>1, PostedHas DEF Partied
<1>3. Parties(tasks[t]) = {tasks[t].poster, tasks[t].worker}
  BY <1>1, <1>2, RegistryAssumption DEF Parties
<1>4. \A a \in Accounts : a \in Parties(tasks[t]) => vault.taskReservations[t][a].amount > 0
  BY <1>1 DEF TaskFacts, CollateralLink
<1> QED BY <1>1, <1>2, <1>3, <1>4

(* Unlocking a task frees its parties' collateral and takes nothing off a     *)
(* deposit.                                                                   *)
LEMMA UnlockAll ==
    ASSUME RegistryInv, NEW t \in Tasks, tasks[t].state # "NONE"
    PROVE  /\ Freed(vault, Unlock(vault, t), t, Parties(tasks[t]))
           /\ Unlock(vault, t).deposits = vault.deposits
<1>1. Freed(vault, vault, t, {}) /\ {} \in SUBSET Parties(tasks[t])
  BY DEF Freed, RegistryInv
<1>2. Partied(t)
  BY InvAt, PostedHas
<1> QED BY <1>1, <1>2, UnlockAfter

(* complete, and a release of all that is left.                                *)
LEMMA CompleteAccepted ==
    ASSUME RegistryInv, NEW t \in Tasks, CompleteRequires(t), NEW refusing
    PROVE  LET n == RemainingOf(tasks[t])
           IN  /\ n \in Nat /\ n > 0
               /\ FinalizeAccepted(t, n)
               /\ EscrowEnded(t, Escrow!CloseEscrow(
                                    Escrow!ReleaseEscrow(escrowVault, t, n, refusing), t))
<1> DEFINE k == tasks[t]
           n == RemainingOf(k)
<1>1. TaskFacts(t) /\ k.state = "ACTIVE"
  BY InvAt DEF CompleteRequires
<1>2. k.worker # Nobody /\ k.state \in Live
  BY <1>1, ClaimedHas
<1>3. /\ n \in Nat /\ n > 0 /\ n = Escrow!Remaining(escrowVault, t)
      /\ escrowVault.escrows[t].state = "FUNDED"
  <2>1. k.released < k.funded /\ k.released \in Nat /\ k.funded \in Nat
    BY <1>1 DEF TaskFacts, SoundTask, Task
  <2>2. /\ escrowVault.escrows[t].state = "FUNDED"
        /\ escrowVault.escrows[t].deposited = k.funded
        /\ escrowVault.escrows[t].released = k.released
    BY <1>1, <1>2 DEF TaskFacts, EscrowLink
  <2> QED BY <2>1, <2>2 DEF RemainingOf, Escrow!Remaining
<1>4. KeptEscrows(escrowVault)
  BY DEF RegistryInv
<1> HIDE DEF n
<1>5. /\ Escrow!CanReleaseEscrow(escrowVault, t, n)
      /\ Escrow!CanCloseEscrow(Escrow!ReleaseEscrow(escrowVault, t, n, {}), t)
      /\ EscrowEnded(t, Escrow!CloseEscrow(
                           Escrow!ReleaseEscrow(escrowVault, t, n, refusing), t))
  BY <1>2, <1>3, <1>4, PayAndCloseEnds
<1>6. FinalizeAccepted(t, n)
  BY <1>2, <1>5, EndingAccepted DEF FinalizeAccepted
<1> QED BY <1>3, <1>5, <1>6 DEF n

(* approveAndComplete keeps the invariant.                                    *)
LEMMA CompleteKept ==
    ASSUME RegistryInv, NEW t \in Tasks, NEW refusing, Complete(t, refusing)
    PROVE  /\ RegistryInv' /\ vault'.deposits = vault.deposits
           /\ tasks[t].state = "ACTIVE" /\ EndedAs(tasks[t], tasks'[t])
           /\ tasks'[t].state = "COMPLETED" /\ \A s \in Tasks : s # t => tasks'[s] = tasks[s]
<1> DEFINE k == tasks[t]
           n == RemainingOf(k)
           j == Paid(k, k.released + n)
<1>1. CompleteRequires(t) /\ Finalize(t, n, refusing)
  BY DEF Complete
<1>2. TaskFacts(t) /\ k.state = "ACTIVE" /\ k \in Task /\ k.released \in Nat
  BY <1>1, InvAt DEF CompleteRequires, TaskFacts, Task
<1>3. k.poster \in Accounts /\ k.worker \in Accounts /\ k.worker # Nobody /\ k.state \in Live
      /\ k.state # "NONE"
  BY <1>2, ClaimedHas
<1>4. /\ n \in Nat
      /\ EscrowEnded(t, Escrow!CloseEscrow(
                           Escrow!ReleaseEscrow(escrowVault, t, n, refusing), t))
  BY <1>1, CompleteAccepted
<1>5. EscrowEnded(t, escrowVault')
  BY <1>1, <1>4 DEF Finalize
<1>6. EndedAs(k, j) /\ j.state = "COMPLETED"
  <2>1. k.released + n \in Nat
    BY <1>2, <1>4
  <2> QED BY <1>2, <1>3, <2>1, PaidTask
<1>7. tasks' = [tasks EXCEPT ![t] = j] /\ LowerOpenAmount(t, k.amountUsd6) /\ now' = now
  BY <1>1 DEF Finalize, Paid
<1>8. Freed(vault, vault', t, Parties(k)) /\ vault'.deposits = vault.deposits
  <2>1. vault' = Unlock(vault, t)
    BY <1>1 DEF Finalize
  <2> QED BY <1>3, <2>1, UnlockAll
<1>9. CreditsFreed(ledger, ledger', t)
  <2>1. Credits!NoEarnings \in [Accounts -> Nat]
    BY DEF Credits!NoEarnings
  <2>2. ledger' = SettleCredits(ledger, t, Nobody, Nobody, Credits!NoEarnings)
    BY <1>1 DEF Finalize
  <2> QED BY <1>3, <2>1, <2>2, EndingAccepted
<1>10. Tallied(tally, tally', t)
  <2>1. tally' = Reputation!RecordCompletion(tally, t, k.poster, k.worker)
    BY <1>1 DEF Finalize
  <2>2. tally \in Reputation!TallyType
    BY DEF RegistryInv, RegistryType
  <2> QED BY <1>3, <2>1, <2>2, TallySteps
<1> HIDE DEF j
<1>11. RegistryInv'
  BY <1>3, <1>5, <1>6, <1>7, <1>8, <1>9, <1>10, EndingKept
<1>12. tasks'[t] = j /\ \A s \in Tasks : s # t => tasks'[s] = tasks[s]
  BY <1>6, <1>7, TaskBecomes DEF EndedAs, RegistryInv
<1> QED BY <1>2, <1>6, <1>8, <1>11, <1>12

(* Compensating the worker, when that is due, and unlocking.                   *)
LEMMA CompensateEnds ==
    ASSUME RegistryInv, NEW t \in Tasks, tasks[t].state \in Live, NEW due \in BOOLEAN,
           due => tasks[t].worker # Nobody, NEW refusing
    PROVE  LET u == Compensate(vault, t, due, refusing)
               r == Unlock(u, t)
               p == tasks[t].poster
           IN  /\ CanCompensate(vault, t, due)
               /\ CanUnlock(u, t)
               /\ Freed(vault, r, t, Parties(tasks[t]))
               /\ r.deposits = IF due THEN Deposits!Minus(vault.deposits, p,
                                               vault.taskQuotes[t].accessFee)
                               ELSE vault.deposits
<1> DEFINE p == tasks[t].poster
           S == IF due THEN {p} ELSE {}
           u == Compensate(vault, t, due, refusing)
           r == Unlock(u, t)
           fee == vault.taskReservations[t][p].accessCompensation
<1>1. TaskFacts(t) /\ tasks[t].state # "NONE" /\ KeptDeposits(vault)
  BY InvAt DEF Live, RegistryInv
<1>2. Partied(t) /\ p \in Accounts /\ p \in Parties(tasks[t])
  BY <1>1, PostedHas
<1>3. vault.taskReservations[t][p].amount > 0 /\ fee = vault.taskQuotes[t].accessFee
  BY <1>1, <1>2 DEF TaskFacts, CollateralLink
<1>4. /\ CanCompensate(vault, t, due) /\ Freed(vault, u, t, S)
      /\ u.deposits = IF due THEN Deposits!Minus(vault.deposits, p, fee) ELSE vault.deposits
  BY <1>1, <1>2, <1>3, CompensateStep
<1>5. S \in SUBSET Parties(tasks[t])
  BY <1>2
<1> HIDE DEF u, S, fee, p
<1>6. CanUnlock(u, t) /\ Unlock(u, t).deposits = u.deposits
      /\ Freed(vault, Unlock(u, t), t, Parties(tasks[t]))
  BY <1>2, <1>4, <1>5, UnlockAfter
<1> QED BY <1>3, <1>4, <1>6 DEF u, p

(* Cancelling is accepted by every contract it calls.                         *)
LEMMA CancelAlways ==
    ASSUME RegistryInv, NEW t \in Tasks, CancelRequires(t)
    PROVE  CancelAccepted(t) /\ tasks[t].state \in Live
           /\ (tasks[t].worker # Nobody => EscrowEnded(t, Escrow!CloseEscrow(escrowVault, t)))
<1> DEFINE k == tasks[t]
           due == WorkerPaidFee(t)
<1>1. /\ TaskFacts(t) /\ k.state \in {"POSTED", "CLAIMED"} /\ k.state \in Live /\ k.funded = 0
      /\ KeptEscrows(escrowVault)
  BY InvAt DEF CancelRequires, Live, RegistryInv
<1>2. ASSUME k.worker # Nobody
      PROVE  /\ Escrow!CanCloseEscrow(escrowVault, t)
             /\ EscrowEnded(t, Escrow!CloseEscrow(escrowVault, t))
  <2>1. k.state = "CLAIMED" /\ k.released = 0
    BY <1>1, <1>2 DEF TaskFacts, SoundTask
  <2>2. /\ escrowVault.escrows[t].state = "FUNDED"
        /\ escrowVault.escrows[t].released = escrowVault.escrows[t].deposited
    BY <1>1, <2>1 DEF TaskFacts, EscrowLink
  <2> QED BY <1>1, <1>2, <2>2, CloseEnds
<1>3. due \in BOOLEAN /\ (due => k.worker # Nobody)
  BY DEF WorkerPaidFee
<1> HIDE DEF due
<1>4. CanCompensate(vault, t, due) /\ CanUnlock(Compensate(vault, t, due, {}), t)
  BY <1>1, <1>3, CompensateEnds
<1>5. EndAccepted(t)
  BY <1>1, EndingAccepted
<1> QED BY <1>1, <1>2, <1>4, <1>5 DEF CancelAccepted, due

(* The deposits after an ending by cancel or expiry: the access fee is taken     *)
(* off the poster's, when the worker is due one.                               *)
FeeTaken(t, due) ==
    vault'.deposits = IF due THEN Deposits!Minus(vault.deposits, tasks[t].poster,
                                                 vault.taskQuotes[t].accessFee)
                      ELSE vault.deposits

(* cancelTask keeps the invariant.                                            *)
LEMMA CancelKept ==
    ASSUME RegistryInv, NEW t \in Tasks, NEW earned \in Earnings, NEW refusing,
           Cancel(t, earned, refusing)
    PROVE  /\ RegistryInv' /\ FeeTaken(t, WorkerPaidFee(t)) /\ CancelRequires(t)
           /\ tasks[t].state \in {"POSTED", "CLAIMED"} /\ EndedAs(tasks[t], tasks'[t])
           /\ tasks'[t].state = "CANCELLED" /\ \A s \in Tasks : s # t => tasks'[s] = tasks[s]
<1> DEFINE k == tasks[t]
           j == Ended(k, "CANCELLED")
           due == WorkerPaidFee(t)
           u == Compensate(vault, t, due, refusing)
           posterTo == IF k.worker = Nobody THEN k.poster ELSE k.worker
<1>1. CancelRequires(t) /\ k.state \in {"POSTED", "CLAIMED"}
  BY DEF Cancel, CancelRequires
<1>2. TaskFacts(t) /\ k.state \in Live /\ k.state # "NONE" /\ k \in Task
  BY <1>1, InvAt DEF Live, TaskFacts
<1>3. EscrowEnded(t, escrowVault')
  <2>1. CASE k.worker = Nobody
    BY <2>1 DEF Cancel, EscrowEnded, RegistryInv
  <2>2. CASE k.worker # Nobody
    <3>1. escrowVault' = Escrow!CloseEscrow(escrowVault, t)
      BY <2>2 DEF Cancel
    <3> QED BY <1>1, <2>2, <3>1, CancelAlways
  <2> QED BY <2>1, <2>2
<1>4. EndedAs(k, j) /\ j.state = "CANCELLED"
  BY <1>2, CancelledTask
<1>5. /\ tasks' = [tasks EXCEPT ![t] = j] /\ LowerOpenAmount(t, k.amountUsd6) /\ now' = now
      /\ tally' = tally /\ vault' = Unlock(u, t)
      /\ ledger' = SettleCredits(ledger, t, posterTo, k.worker, earned)
  BY DEF Cancel
<1>6. due \in BOOLEAN /\ (due => k.worker # Nobody)
  BY DEF WorkerPaidFee
<1>7. Freed(vault, vault', t, Parties(k)) /\ FeeTaken(t, due)
  <2> HIDE DEF due
  <2> QED BY <1>2, <1>5, <1>6, CompensateEnds DEF FeeTaken
<1>8. CreditsFreed(ledger, ledger', t)
  <2>1. posterTo \in Accounts \cup {Nobody} /\ k.worker \in Accounts \cup {Nobody}
    BY <1>2, PostedHas
  <2>2. earned \in [Accounts -> Nat]
    BY EarningsType
  <2> HIDE DEF posterTo
  <2> QED BY <1>2, <1>5, <2>1, <2>2, EndingAccepted
<1>9. Tallied(tally, tally', t)
  BY <1>5 DEF Tallied, RegistryInv, RegistryType
<1> HIDE DEF j, due
<1>10. RegistryInv'
  BY <1>2, <1>3, <1>4, <1>5, <1>7, <1>8, <1>9, EndingKept
<1>11. tasks'[t] = j /\ \A s \in Tasks : s # t => tasks'[s] = tasks[s]
  BY <1>4, <1>5, TaskBecomes DEF EndedAs, RegistryInv
<1> QED BY <1>1, <1>4, <1>7, <1>10, <1>11 DEF due

(* What the three ways to expire have in common.                               *)
LEMMA ExpiryFacts ==
    ASSUME RegistryInv, NEW t \in Tasks, ExpireRequires(t)
    PROVE  LET k == tasks[t]
           IN  /\ TaskFacts(t) /\ k.state \in {"POSTED", "CLAIMED", "ACTIVE"} /\ k.state \in Live
               /\ k.state # "NONE" /\ k \in Task
               /\ RemainingOf(k) > 0 =>
                     /\ k.worker # Nobody /\ escrowVault.escrows[t].state = "FUNDED"
               /\ RemainingOf(k) = 0 /\ k.worker # Nobody =>
                     /\ escrowVault.escrows[t].state = "FUNDED"
                     /\ escrowVault.escrows[t].released = escrowVault.escrows[t].deposited
               /\ RemainingOf(k) \in Nat
               /\ ExpiryCompensates(t) \in BOOLEAN
               /\ ExpiryCompensates(t) => k.worker # Nobody
               /\ PosterDefaulted(k) => k.state = "ACTIVE"
               /\ Underfunded(k) => k.state = "CLAIMED"
<1> DEFINE k == tasks[t]
           e == escrowVault.escrows[t]
<1>1. TaskFacts(t) /\ k.state \in {"POSTED", "CLAIMED", "ACTIVE"} /\ k.state \in Live
      /\ k.state # "NONE" /\ k \in Task
  BY InvAt DEF ExpireRequires, Live, TaskFacts
<1>2. /\ k.released \in Nat /\ k.funded \in Nat /\ k.deliveredAt \in Nat
      /\ k.state \in {"CLAIMED", "ACTIVE"} => e.state = "FUNDED"
      /\ e.released = k.released /\ e.deposited = k.funded
  BY <1>1 DEF TaskFacts, EscrowLink, Task
<1>3. /\ k.worker = Nobody => k.state = "POSTED" /\ k.funded = 0
      /\ k.state = "POSTED" => k.worker = Nobody
      /\ k.state \in {"POSTED", "CLAIMED"} => k.deliveredAt = 0 /\ k.released = 0
      /\ k.state = "ACTIVE" => k.released < k.funded
  BY <1>1 DEF TaskFacts, SoundTask
<1>4. RemainingOf(k) \in Nat /\ (RemainingOf(k) > 0 => k.worker # Nobody)
      /\ (RemainingOf(k) = 0 => k.released = k.funded)
  BY <1>1, <1>2, <1>3 DEF RemainingOf
<1>5. ExpiryCompensates(t) => k.worker # Nobody
  BY <1>4 DEF ExpiryCompensates, PosterDefaulted, WorkerPaidFee
<1>6. PosterDefaulted(k) => k.state = "ACTIVE"
  BY <1>1, <1>3 DEF PosterDefaulted, WasTimelyDelivered
<1> QED BY <1>1, <1>2, <1>3, <1>4, <1>5, <1>6 DEF ExpiryCompensates, Underfunded

(* How the escrow of an expired task ends.                                    *)
LEMMA ExpiredEscrowEnds ==
    ASSUME RegistryInv, NEW t \in Tasks, ExpireRequires(t), NEW refusing
    PROVE  /\ RemainingOf(tasks[t]) > 0 => Escrow!CanRefundEscrow(escrowVault, t)
           /\ RemainingOf(tasks[t]) = 0 /\ tasks[t].worker # Nobody =>
                 Escrow!CanCloseEscrow(escrowVault, t)
           /\ EscrowEnded(t, EscrowAfterExpiry(t, refusing))
<1> DEFINE k == tasks[t]
<1>1. /\ RemainingOf(k) > 0 => k.worker # Nobody /\ escrowVault.escrows[t].state = "FUNDED"
      /\ RemainingOf(k) = 0 /\ k.worker # Nobody =>
            /\ escrowVault.escrows[t].state = "FUNDED"
            /\ escrowVault.escrows[t].released = escrowVault.escrows[t].deposited
      /\ RemainingOf(k) \in Nat /\ KeptEscrows(escrowVault)
  BY ExpiryFacts DEF RegistryInv
<1>2. CASE RemainingOf(k) > 0
  <2>1. /\ Escrow!CanRefundEscrow(escrowVault, t)
        /\ EscrowEnded(t, Escrow!RefundEscrow(escrowVault, t, refusing))
    BY <1>1, <1>2, RefundEnds
  <2> QED BY <1>1, <1>2, <2>1 DEF EscrowAfterExpiry
<1>3. CASE RemainingOf(k) = 0 /\ k.worker # Nobody
  <2>1. /\ Escrow!CanCloseEscrow(escrowVault, t)
        /\ EscrowEnded(t, Escrow!CloseEscrow(escrowVault, t))
    BY <1>1, <1>3, CloseEnds
  <2> QED BY <1>1, <1>3, <2>1 DEF EscrowAfterExpiry
<1>4. CASE RemainingOf(k) = 0 /\ k.worker = Nobody
  <2>1. EscrowEnded(t, escrowVault)
    BY <1>1, <1>4 DEF EscrowEnded
  <2> QED BY <1>1, <1>4, <2>1 DEF EscrowAfterExpiry
<1> QED BY <1>1, <1>2, <1>3, <1>4

(* Expiring is accepted by every contract it calls.                           *)
LEMMA ExpireAlways ==
    ASSUME RegistryInv, NEW t \in Tasks, ExpireRequires(t)
    PROVE  ExpireAccepted(t)
<1> DEFINE due == ExpiryCompensates(t)
<1>1. tasks[t].state \in Live /\ due \in BOOLEAN /\ (due => tasks[t].worker # Nobody)
  BY ExpiryFacts
<1> HIDE DEF due
<1>2. CanCompensate(vault, t, due) /\ CanUnlock(Compensate(vault, t, due, {}), t)
  BY <1>1, CompensateEnds
<1>3. EndAccepted(t) /\ Reputation!CanRecord(tally, t)
  BY <1>1, EndingAccepted
<1>4. /\ RemainingOf(tasks[t]) > 0 => Escrow!CanRefundEscrow(escrowVault, t)
      /\ RemainingOf(tasks[t]) = 0 /\ tasks[t].worker # Nobody =>
            Escrow!CanCloseEscrow(escrowVault, t)
  BY ExpiredEscrowEnds
<1> QED BY <1>2, <1>3, <1>4 DEF ExpireAccepted, due

(* expireTask keeps the invariant.                                            *)
LEMMA ExpireKept ==
    ASSUME RegistryInv, NEW t \in Tasks, NEW earned \in Earnings, NEW refusing,
           Expire(t, earned, refusing)
    PROVE  /\ RegistryInv' /\ FeeTaken(t, ExpiryCompensates(t)) /\ ExpireRequires(t)
           /\ EndedAs(tasks[t], tasks'[t])
           /\ tasks'[t].state = "CANCELLED" /\ \A s \in Tasks : s # t => tasks'[s] = tasks[s]
           /\ tally' = IF PosterDefaulted(tasks[t])
                       THEN Reputation!RecordPosterExpiry(tally, t, tasks[t].poster) ELSE tally
<1> DEFINE k == tasks[t]
           j == Ended(k, "CANCELLED")
           due == ExpiryCompensates(t)
           u == Compensate(vault, t, due, refusing)
           blamed == PosterDefaulted(k) \/ Underfunded(k)
           posterTo == IF blamed THEN k.worker ELSE k.poster
           workerTo == IF blamed \/ k.state = "ACTIVE" THEN k.worker ELSE Nobody
<1>1. ExpireRequires(t)
  BY DEF Expire
<1>2. /\ TaskFacts(t) /\ k.state \in Live /\ k.state # "NONE" /\ k \in Task
      /\ due \in BOOLEAN /\ (due => k.worker # Nobody)
  BY <1>1, ExpiryFacts
<1>3. EscrowEnded(t, escrowVault')
  <2>1. escrowVault' = EscrowAfterExpiry(t, refusing)
    BY DEF Expire
  <2> QED BY <1>1, <2>1, ExpiredEscrowEnds
<1>4. EndedAs(k, j) /\ j.state = "CANCELLED"
  BY <1>2, CancelledTask
<1>5. /\ tasks' = [tasks EXCEPT ![t] = j] /\ LowerOpenAmount(t, k.amountUsd6) /\ now' = now
      /\ vault' = Unlock(u, t)
      /\ ledger' = SettleCredits(ledger, t, posterTo, workerTo, earned)
      /\ tally' = IF PosterDefaulted(k) THEN Reputation!RecordPosterExpiry(tally, t, k.poster)
                  ELSE tally
  BY DEF Expire
<1>6. Freed(vault, vault', t, Parties(k)) /\ FeeTaken(t, due)
  <2> HIDE DEF due
  <2> QED BY <1>2, <1>5, CompensateEnds DEF FeeTaken
<1>7. k.poster \in Accounts /\ k.worker \in Accounts \cup {Nobody}
  BY <1>2, PostedHas
<1>8. CreditsFreed(ledger, ledger', t)
  <2>1. posterTo \in Accounts \cup {Nobody} /\ workerTo \in Accounts \cup {Nobody}
    BY <1>7
  <2>2. earned \in [Accounts -> Nat]
    BY EarningsType
  <2> HIDE DEF posterTo, workerTo
  <2> QED BY <1>2, <1>5, <2>1, <2>2, EndingAccepted
<1>9. Tallied(tally, tally', t)
  <2>1. tally \in Reputation!TallyType
    BY DEF RegistryInv, RegistryType
  <2>2. Tallied(tally, Reputation!RecordPosterExpiry(tally, t, k.poster), t)
    BY <1>7, <2>1, TallySteps
  <2>3. Tallied(tally, tally, t)
    BY <2>1 DEF Tallied
  <2> QED BY <1>5, <2>2, <2>3
<1> HIDE DEF j, due, blamed, posterTo, workerTo
<1>10. RegistryInv'
  BY <1>2, <1>3, <1>4, <1>5, <1>6, <1>8, <1>9, EndingKept
<1>11. tasks'[t] = j /\ \A s \in Tasks : s # t => tasks'[s] = tasks[s]
  BY <1>4, <1>5, TaskBecomes DEF EndedAs, RegistryInv
<1> QED BY <1>1, <1>4, <1>5, <1>6, <1>10, <1>11 DEF due

(* Charging the defaulter, when there is one, and unlocking.                   *)
LEMMA ChargeEnds ==
    ASSUME RegistryInv, NEW t \in Tasks, tasks[t].state = "DISPUTED", NEW outcome \in Rulings,
           NEW refusing
    PROVE  LET u == ExitCharged(vault, t, outcome, refusing)
               r == Unlock(u, t)
               a == Defaulter(tasks[t], outcome)
           IN  /\ Decided(outcome) => Deposits!CanDebitExitFee(vault, t, a)
               /\ CanUnlock(u, t)
               /\ Freed(vault, r, t, Parties(tasks[t]))
               /\ r.deposits = IF Decided(outcome)
                               THEN Deposits!Minus(vault.deposits, a, Deposits!ExitFee(vault, t, a))
                               ELSE vault.deposits
<1> DEFINE k == tasks[t]
           a == Defaulter(k, outcome)
           S == IF Decided(outcome) THEN {a} ELSE {}
           u == ExitCharged(vault, t, outcome, refusing)
           P == Parties(k)
<1>1. TaskFacts(t) /\ KeptDeposits(vault)
  BY InvAt DEF RegistryInv
<1>2. /\ k.poster \in Accounts /\ k.worker \in Accounts /\ k.worker # k.poster
      /\ P = {k.poster, k.worker}
      /\ vault.taskReservations[t][k.poster].amount > 0
      /\ vault.taskReservations[t][k.worker].amount > 0
  BY <1>1, ClaimedHas
<1>3. Partied(t)
  BY <1>2 DEF Partied
<1>4. \A b \in {k.poster, k.worker} : b \in Accounts /\ vault.taskReservations[t][b].amount > 0
  BY <1>2
<1>5. /\ Decided(outcome) => Deposits!CanDebitExitFee(vault, t, a)
      /\ Freed(vault, u, t, S)
      /\ u.deposits = IF Decided(outcome)
                      THEN Deposits!Minus(vault.deposits, a, Deposits!ExitFee(vault, t, a))
                      ELSE vault.deposits
  BY <1>1, <1>3, <1>4, ChargeStep
<1>6. S \in SUBSET P
  BY <1>2 DEF Defaulter
<1> HIDE DEF u, S
<1>7. CanUnlock(u, t) /\ Unlock(u, t).deposits = u.deposits /\ Freed(vault, Unlock(u, t), t, P)
  BY <1>3, <1>5, <1>6, UnlockAfter
<1> QED BY <1>5, <1>7 DEF u

(* A disputed task can be given any outcome.                                   *)
LEMMA RulingAlways ==
    ASSUME RegistryInv, NEW t \in Tasks, tasks[t].state = "DISPUTED", NEW outcome \in Rulings
    PROVE  /\ SettleRequires(t, outcome)
           /\ ResolveAccepted(t, outcome)
           /\ \A bps : IsShare(bps) => Escrow!CanSettleEscrow(escrowVault, t, bps)
<1> DEFINE k == tasks[t]
           a == Defaulter(k, outcome)
<1>1. TaskFacts(t) /\ KeptEscrows(escrowVault) /\ KeptLedger(ledger) /\ k.state # "NONE"
  BY InvAt DEF RegistryInv
<1>2. /\ k.poster \in Accounts /\ k.worker \in Accounts /\ k.worker # Nobody /\ k.state \in Live
      /\ vault.taskReservations[t][k.poster].amount > 0
      /\ vault.taskReservations[t][k.worker].amount > 0
  BY <1>1, ClaimedHas
<1>3. k.amountUsd6 # 0 /\ k.funded = k.totalAmount
  BY <1>1, <1>2 DEF TaskFacts, SoundTask, Task
<1>4. /\ Decided(outcome) => Deposits!CanDebitExitFee(vault, t, a)
      /\ CanUnlock(ExitCharged(vault, t, outcome, {}), t)
  BY ChargeEnds
<1>5. Deposits!CanResolveTask(vault, t, k.poster, k.worker, Decided(outcome), a)
  <2> HIDE DEF a, k
  <2> QED BY <1>2, <1>4 DEF Deposits!CanResolveTask, Deposits!CanDebitExitFee, Deposits!CanDebit
<1>6. /\ k.posterCredit => Credits!CanSettleSpentCredit(ledger, t, k.poster, TRUE)
      /\ k.workerCredit => Credits!CanSettleSpentCredit(ledger, t, k.worker, FALSE)
  <2>1. Partied(t) /\ Flagged(t) /\ CreditLink(k, ledger.taskCreditPayer[t])
    BY <1>1, PostedHas DEF TaskFacts
  <2> QED BY <1>1, <2>1, CreditsHeld
<1>7. CanResolveDispute(t, outcome)
  BY <1>3, <1>5, <1>6 DEF CanResolveDispute
<1>8. escrowVault.escrows[t].state = "FROZEN"
  BY <1>1 DEF TaskFacts, EscrowLink
<1>9. \A bps : IsShare(bps) => /\ Escrow!CanSettleEscrow(escrowVault, t, bps)
                              /\ Escrow!CanSettle(escrowVault, t)
  BY <1>1, <1>2, <1>8, SettleEnds
<1>10. Escrow!CanSettle(escrowVault, t)
  <2>1. IsShare(0)
    BY DEF IsShare, Escrow!FullBps
  <2> QED BY <1>9, <2>1
<1>11. EndAccepted(t) /\ Reputation!CanRecord(tally, t)
  BY <1>2, EndingAccepted
<1> QED BY <1>4, <1>7, <1>9, <1>10, <1>11 DEF SettleRequires, ResolveAccepted

(* What is recorded of one task in two steps is recorded of that task alone.  *)
LEMMA TalliedTwice ==
    ASSUME NEW r, NEW q, NEW u, NEW t \in Tasks, Tallied(r, q, t), Tallied(q, u, t)
    PROVE  Tallied(r, u, t)
BY DEF Tallied

(* The deposits after a ruling: the defaulter alone pays the exit fee.          *)
ExitFeeTaken(t, outcome) ==
    LET a == Defaulter(tasks[t], outcome)
    IN  vault'.deposits = IF Decided(outcome)
                          THEN Deposits!Minus(vault.deposits, a, Deposits!ExitFee(vault, t, a))
                          ELSE vault.deposits

(* A ruling, or the timeout of a dispute, keeps the invariant.                *)
LEMMA SettleKept ==
    ASSUME RegistryInv, NEW t \in Tasks, NEW outcome \in Rulings, NEW bps, IsShare(bps),
           NEW unresolved \in BOOLEAN, NEW earned \in Earnings, NEW refusing,
           Settle(t, outcome, bps, unresolved, earned, refusing)
    PROVE  /\ RegistryInv' /\ ExitFeeTaken(t, outcome)
           /\ tasks[t].state = "DISPUTED" /\ EndedAs(tasks[t], tasks'[t])
           /\ tasks'[t].state = "RESOLVED" /\ tasks'[t].resolution = outcome
           /\ \A s \in Tasks : s # t => tasks'[s] = tasks[s]
<1> DEFINE k == tasks[t]
           j == Ruled(k, outcome)
           u == ExitCharged(vault, t, outcome, refusing)
           marked == IF unresolved THEN Reputation!RecordUnresolved(tally, k.poster) ELSE tally
           posterTo == IF outcome = "WORKER_WINS" THEN k.worker ELSE Nobody
           winner == Harmed(k, outcome)
           loser == Defaulter(k, outcome)
           neutral == ~Decided(outcome)
<1>1. k.state = "DISPUTED"
  BY DEF Settle, SettleRequires, CanResolveDispute
<1>2. TaskFacts(t) /\ k \in Task /\ KeptEscrows(escrowVault)
  BY InvAt DEF TaskFacts, RegistryInv
<1>3. /\ k.poster \in Accounts /\ k.worker \in Accounts /\ k.worker # Nobody /\ k.state \in Live
      /\ k.state # "NONE"
  BY <1>1, <1>2, ClaimedHas
<1>4. /\ tasks' = [tasks EXCEPT ![t] = j] /\ LowerOpenAmount(t, k.amountUsd6) /\ now' = now
      /\ vault' = Unlock(u, t)
      /\ escrowVault' = Escrow!SettleEscrow(escrowVault, t, bps, refusing)
      /\ ledger' = SettleCredits(ledger, t, posterTo, Nobody, earned)
      /\ tally' = Reputation!RecordDispute(marked, t, winner, loser, neutral)
  BY DEF Settle, Ruled
<1>5. EscrowEnded(t, escrowVault')
  <2>1. escrowVault.escrows[t].state = "FROZEN"
    BY <1>1, <1>2 DEF TaskFacts, EscrowLink
  <2> QED BY <1>2, <1>3, <1>4, <2>1, SettleEnds
<1>6. EndedAs(k, j) /\ j.state = "RESOLVED" /\ j.resolution = outcome
  BY <1>2, <1>3, RuledTask
<1>7. Freed(vault, vault', t, Parties(k)) /\ ExitFeeTaken(t, outcome)
  BY <1>1, <1>4, ChargeEnds DEF ExitFeeTaken
<1>8. CreditsFreed(ledger, ledger', t)
  <2>1. posterTo \in Accounts \cup {Nobody} /\ Nobody \in Accounts \cup {Nobody}
    BY <1>3
  <2>2. earned \in [Accounts -> Nat]
    BY EarningsType
  <2> HIDE DEF posterTo
  <2> QED BY <1>3, <1>4, <2>1, <2>2, EndingAccepted
<1>9. Tallied(tally, tally', t)
  <2>1. tally \in Reputation!TallyType
    BY DEF RegistryInv, RegistryType
  <2>2. Tallied(tally, marked, t)
    <3>1. Tallied(tally, tally, t)
      BY <2>1 DEF Tallied
    <3>2. Tallied(tally, Reputation!RecordUnresolved(tally, k.poster), t)
      BY <1>3, <2>1, TallySteps
    <3> QED BY <3>1, <3>2
  <2>3. marked \in Reputation!TallyType
    <3> HIDE DEF marked
    <3> QED BY <2>2 DEF Tallied
  <2>4. winner \in Accounts /\ loser \in Accounts /\ neutral \in BOOLEAN
    BY <1>3 DEF Harmed, Defaulter
  <2> HIDE DEF marked, winner, loser, neutral
  <2>5. Tallied(marked, tally', t)
    BY <1>4, <2>3, <2>4, TallySteps
  <2> QED BY <2>2, <2>5, TalliedTwice
<1> HIDE DEF j
<1>10. RegistryInv'
  BY <1>3, <1>4, <1>5, <1>6, <1>7, <1>8, <1>9, EndingKept
<1>11. tasks'[t] = j /\ \A s \in Tasks : s # t => tasks'[s] = tasks[s]
  BY <1>4, <1>6, TaskBecomes DEF EndedAs, RegistryInv
<1> QED BY <1>1, <1>6, <1>7, <1>10, <1>11

-------------------------------------------------------------------------------
(* The transactions between claim and the end of a task.  They touch the task,   *)
(* its escrow and the totals only.                                            *)

(* A step changes the record of one task only, ...                             *)
OnlyTask(t) == \A s \in Tasks : s # t => tasks'[s] = tasks[s]

SameParties(k, j) == j.poster = k.poster /\ j.worker = k.worker

SameMoney(k, j) == j.funded = k.funded /\ j.released = k.released

(* ... and before the end of a task it is one of these changes.                *)
Progress(k, j) ==
    \/ /\ k.state = "NONE" /\ j.state = "POSTED"
       /\ j.poster \in Accounts /\ j.worker = Nobody /\ j.funded = 0 /\ j.released = 0
    \/ /\ k.state = "POSTED" /\ j.state = "CLAIMED"
       /\ j.poster = k.poster /\ j.worker \in Accounts /\ j.worker # k.poster
       /\ SameMoney(k, j)
    \/ /\ k.state \in {"CLAIMED", "ACTIVE"} /\ j.state \in {"CLAIMED", "ACTIVE"}
       /\ SameParties(k, j)
       /\ \/ SameMoney(k, j)
          \/ j.funded > k.funded /\ j.released = k.released
          \/ j.funded = k.funded /\ j.released > k.released /\ j.released < j.funded
    \/ /\ k.state = "ACTIVE" /\ j.state = "DISPUTED"
       /\ SameParties(k, j) /\ SameMoney(k, j)

(* What stays of a claimed task.                                               *)
SameDeal(k, j) ==
    /\ j \in Task /\ j.state \in Live
    /\ j.poster = k.poster /\ j.worker = k.worker
    /\ j.posterCredit = k.posterCredit /\ j.workerCredit = k.workerCredit

(* A step of a claimed task that changes only its record and its escrow keeps *)
(* the invariant.                                                             *)
LEMMA OngoingKept ==
    ASSUME RegistryInv, NEW t \in Tasks, tasks[t].state \in {"CLAIMED", "ACTIVE"},
           NEW j, SameDeal(tasks[t], j), tasks' = [tasks EXCEPT ![t] = j],
           SoundTask(j), EscrowLink(j, escrowVault'.escrows[t]), KeptEscrows(escrowVault'),
           \A s \in Tasks : s # t => escrowVault'.escrows[s] = escrowVault.escrows[s],
           Exposure', openTaskTotalUsd6' \in Nat, posterOpenTaskTotalUsd6' \in [Accounts -> Nat],
           UNCHANGED <<now, vault, ledger, tally>>
    PROVE  RegistryInv'
<1> DEFINE k == tasks[t]
<1>1. TaskFacts(t) /\ k.state \in Live
  BY InvAt DEF Live
<1>2. /\ tasks' \in [Tasks -> Task] /\ tasks'[t] = j
      /\ \A s \in Tasks : s # t => tasks'[s] = tasks[s]
  BY TaskBecomes DEF RegistryInv, SameDeal
<1>3. CollateralLink(j, vault.taskReservations[t], vault.taskQuotes[t])
  BY <1>1 DEF TaskFacts, CollateralLink, SameDeal, Parties
<1>4. CreditLink(j, ledger.taskCreditPayer[t])
  BY <1>1 DEF TaskFacts, CreditLink, SameDeal
<1>5. RecordLink(j, tally.recorded[t])
  <2>1. k.state \notin Terminal
    BY DEF Terminal
  <2> QED BY <1>1, <2>1 DEF TaskFacts, RecordLink
<1>6. LinkedAt(t)'
  BY <1>2, <1>3, <1>4, <1>5 DEF LinkedAt, Linked
<1>7. OthersSame(t)
  BY <1>2 DEF OthersSame
<1>8. RegistryType'
  BY <1>2 DEF RegistryInv, RegistryType
<1>9. KeptDeposits(vault)' /\ KeptEscrows(escrowVault)' /\ KeptLedger(ledger)'
  BY DEF RegistryInv
<1> QED BY <1>6, <1>7, <1>8, <1>9, OneTaskStep

(* What is known of a claimed task.                                            *)
LEMMA DealHas ==
    ASSUME RegistryInv, NEW t \in Tasks, tasks[t].state \in {"CLAIMED", "ACTIVE"}
    PROVE  LET k == tasks[t]
           IN  /\ TaskFacts(t) /\ k \in Task /\ k.state \in Live
               /\ k.poster \in Accounts /\ k.worker # Nobody
               /\ escrowVault.escrows[t].state = "FUNDED"
               /\ escrowVault.escrows[t].deposited = k.funded
               /\ escrowVault.escrows[t].released = k.released
               /\ KeptEscrows(escrowVault) /\ RegistryType /\ Exposure
<1> DEFINE k == tasks[t]
<1>1. TaskFacts(t) /\ k \in Task /\ k.state \in Live
  BY InvAt DEF TaskFacts, Live
<1>2. k.poster \in Accounts /\ k.worker # Nobody
  BY <1>1 DEF TaskFacts, SoundTask
<1>3. /\ escrowVault.escrows[t].state = "FUNDED"
      /\ escrowVault.escrows[t].deposited = k.funded
      /\ escrowVault.escrows[t].released = k.released
  BY <1>1 DEF TaskFacts, EscrowLink
<1> QED BY <1>1, <1>2, <1>3 DEF RegistryInv

DeliveredAt(k, n) == [k EXCEPT !.deliveredAt = n]

(* The record of a delivered task.                                            *)
LEMMA DeliveredTask ==
    ASSUME NEW k \in Task, NEW n \in Nat, SoundTask(k), k.state = "ACTIVE"
    PROVE  /\ SameDeal(k, DeliveredAt(k, n)) /\ SoundTask(DeliveredAt(k, n))
           /\ DeliveredAt(k, n).state = k.state /\ DeliveredAt(k, n).funded = k.funded
           /\ DeliveredAt(k, n).released = k.released
           /\ DeliveredAt(k, n).amountUsd6 = k.amountUsd6
<1> DEFINE j == DeliveredAt(k, n)
<1>1. j \in Task
  BY DEF DeliveredAt, Task
<1>2. /\ j.state = k.state /\ j.poster = k.poster /\ j.worker = k.worker
      /\ j.totalAmount = k.totalAmount /\ j.funded = k.funded /\ j.released = k.released
      /\ j.declaredUsd6 = k.declaredUsd6 /\ j.fundedBasisUsd6 = k.fundedBasisUsd6
      /\ j.amountUsd6 = k.amountUsd6 /\ j.posterCredit = k.posterCredit
      /\ j.workerCredit = k.workerCredit
  BY DEF DeliveredAt, Task
<1> HIDE DEF j
<1>3. SoundTask(j)
  BY <1>2 DEF SoundTask, Live
<1> QED BY <1>1, <1>2, <1>3 DEF SameDeal, Live, j

(* markDelivered keeps the invariant.                                         *)
LEMMA MarkDeliveredKept ==
    ASSUME RegistryInv, NEW t \in Tasks, MarkDelivered(t)
    PROVE  RegistryInv' /\ OnlyTask(t) /\ Progress(tasks[t], tasks'[t])
<1> DEFINE k == tasks[t]
           j == DeliveredAt(k, now)
<1>1. /\ k.state = "ACTIVE" /\ tasks' = [tasks EXCEPT ![t] = j]
      /\ UNCHANGED <<openTaskTotalUsd6, posterOpenTaskTotalUsd6, now,
                     vault, escrowVault, ledger, tally>>
  BY DEF MarkDelivered, DeliveredAt
<1>2. /\ TaskFacts(t) /\ k \in Task /\ k.poster \in Accounts /\ KeptEscrows(escrowVault)
      /\ RegistryType /\ Exposure
  BY <1>1, DealHas
<1>3. /\ SameDeal(k, j) /\ SoundTask(j) /\ j.state = k.state /\ j.funded = k.funded
      /\ j.released = k.released /\ j.amountUsd6 = k.amountUsd6
  BY <1>1, <1>2, DeliveredTask DEF TaskFacts, RegistryType
<1> HIDE DEF j
<1>4. EscrowLink(j, escrowVault'.escrows[t])
  BY <1>1, <1>2, <1>3 DEF TaskFacts, EscrowLink, SameDeal
<1>5. j \in Task /\ j.poster = k.poster
  BY <1>3 DEF SameDeal
<1>6. Exposure'
  BY <1>1, <1>2, <1>3, <1>5, ExposureSame
<1>7. openTaskTotalUsd6' \in Nat /\ posterOpenTaskTotalUsd6' \in [Accounts -> Nat]
  BY <1>1, <1>2 DEF RegistryType
<1>8. RegistryInv'
  BY <1>1, <1>2, <1>3, <1>4, <1>6, <1>7, OngoingKept
<1>9. tasks'[t] = j /\ \A s \in Tasks : s # t => tasks'[s] = tasks[s]
  BY <1>1, <1>2, <1>5, TaskBecomes
<1>10. Progress(k, j)
  BY <1>1, <1>3 DEF Progress, SameDeal, SameParties, SameMoney
<1> QED BY <1>8, <1>9, <1>10 DEF OnlyTask

Disputed(k) == [k EXCEPT !.state = "DISPUTED"]

(* The record of a disputed task.                                             *)
LEMMA DisputedTask ==
    ASSUME NEW k \in Task, SoundTask(k), k.state = "ACTIVE"
    PROVE  /\ SameDeal(k, Disputed(k)) /\ SoundTask(Disputed(k))
           /\ Disputed(k).state = "DISPUTED" /\ Disputed(k).funded = k.funded
           /\ Disputed(k).released = k.released
           /\ Disputed(k).amountUsd6 = k.amountUsd6
<1> DEFINE j == Disputed(k)
<1>1. j \in Task
  BY DEF Disputed, Task, State
<1>2. /\ j.state = "DISPUTED" /\ j.poster = k.poster /\ j.worker = k.worker
      /\ j.totalAmount = k.totalAmount /\ j.funded = k.funded /\ j.released = k.released
      /\ j.declaredUsd6 = k.declaredUsd6 /\ j.fundedBasisUsd6 = k.fundedBasisUsd6
      /\ j.amountUsd6 = k.amountUsd6 /\ j.posterCredit = k.posterCredit
      /\ j.workerCredit = k.workerCredit
  BY DEF Disputed, Task
<1> HIDE DEF j
<1>3. SoundTask(j)
  BY <1>2 DEF SoundTask, Live
<1> QED BY <1>1, <1>2, <1>3 DEF SameDeal, Live, j

(* openDispute keeps the invariant.                                           *)
LEMMA OpenDisputeKept ==
    ASSUME RegistryInv, NEW t \in Tasks, NEW party, OpenDispute(t, party)
    PROVE  RegistryInv' /\ OnlyTask(t) /\ Progress(tasks[t], tasks'[t])
<1> DEFINE k == tasks[t]
           j == Disputed(k)
<1>1. /\ k.state = "ACTIVE" /\ tasks' = [tasks EXCEPT ![t] = j]
      /\ escrowVault' = Escrow!Freeze(escrowVault, t)
      /\ UNCHANGED <<openTaskTotalUsd6, posterOpenTaskTotalUsd6, now, vault, ledger, tally>>
  BY DEF OpenDispute, MayDispute, Disputed
<1>2. /\ TaskFacts(t) /\ k \in Task /\ k.poster \in Accounts /\ KeptEscrows(escrowVault)
      /\ RegistryType /\ Exposure /\ escrowVault.escrows[t].state = "FUNDED"
  BY <1>1, DealHas
<1>3. /\ SameDeal(k, j) /\ SoundTask(j) /\ j.state = "DISPUTED" /\ j.funded = k.funded
      /\ j.released = k.released /\ j.amountUsd6 = k.amountUsd6
  BY <1>1, <1>2, DisputedTask DEF TaskFacts
<1> HIDE DEF j
<1>4. /\ KeptEscrows(escrowVault')
      /\ escrowVault'.escrows = [escrowVault.escrows EXCEPT ![t] = [@ EXCEPT !.state = "FROZEN"]]
  BY <1>1, <1>2, FreezeEscrowStep
<1>5. escrowVault.escrows \in [Tasks -> Escrow!Escrow]
  BY <1>2, KeptEscrowType
<1>6. /\ \A s \in Tasks : s # t => escrowVault'.escrows[s] = escrowVault.escrows[s]
      /\ escrowVault'.escrows[t] = [escrowVault.escrows[t] EXCEPT !.state = "FROZEN"]
  BY <1>4, <1>5
<1>7. EscrowLink(j, escrowVault'.escrows[t])
  <2>1. escrowVault.escrows[t] \in Escrow!Escrow
    BY <1>5
  <2>2. /\ escrowVault'.escrows[t].state = "FROZEN"
        /\ escrowVault'.escrows[t].deposited = escrowVault.escrows[t].deposited
        /\ escrowVault'.escrows[t].released = escrowVault.escrows[t].released
        /\ escrowVault'.escrows[t].poster = escrowVault.escrows[t].poster
        /\ escrowVault'.escrows[t].worker = escrowVault.escrows[t].worker
    BY <1>6, <2>1 DEF Escrow!Escrow
  <2> QED BY <1>1, <1>2, <1>3, <2>2 DEF TaskFacts, EscrowLink, SameDeal, Live
<1>8. j \in Task /\ j.poster = k.poster
  BY <1>3 DEF SameDeal
<1>9. Exposure'
  BY <1>1, <1>2, <1>3, <1>8, ExposureSame
<1>10. openTaskTotalUsd6' \in Nat /\ posterOpenTaskTotalUsd6' \in [Accounts -> Nat]
  BY <1>1, <1>2 DEF RegistryType
<1>11. RegistryInv'
  BY <1>1, <1>3, <1>4, <1>6, <1>7, <1>9, <1>10, OngoingKept
<1>12. tasks'[t] = j /\ \A s \in Tasks : s # t => tasks'[s] = tasks[s]
  BY <1>1, <1>2, <1>8, TaskBecomes
<1>13. Progress(k, j)
  BY <1>1, <1>3 DEF Progress, SameDeal, SameParties, SameMoney
<1> QED BY <1>11, <1>12, <1>13 DEF OnlyTask

PartPaid(k, n, open) == [k EXCEPT !.released = n, !.amountUsd6 = open]

(* The record of a task that is paid in part.                                 *)
LEMMA PartPaidTask ==
    ASSUME NEW k \in Task, SoundTask(k), k.state = "ACTIVE", NEW n \in Nat, n < k.funded,
           NEW open \in Nat, open > 0
    PROVE  /\ SameDeal(k, PartPaid(k, n, open)) /\ SoundTask(PartPaid(k, n, open))
           /\ PartPaid(k, n, open).state = "ACTIVE" /\ PartPaid(k, n, open).funded = k.funded
           /\ PartPaid(k, n, open).released = n
           /\ PartPaid(k, n, open).amountUsd6 = open
<1> DEFINE j == PartPaid(k, n, open)
<1>1. j \in Task
  BY DEF PartPaid, Task
<1>2. /\ j.state = k.state /\ j.poster = k.poster /\ j.worker = k.worker
      /\ j.totalAmount = k.totalAmount /\ j.funded = k.funded /\ j.released = n
      /\ j.declaredUsd6 = k.declaredUsd6 /\ j.fundedBasisUsd6 = k.fundedBasisUsd6
      /\ j.amountUsd6 = open /\ j.posterCredit = k.posterCredit
      /\ j.workerCredit = k.workerCredit
  BY DEF PartPaid, Task
<1> HIDE DEF j
<1>3. SoundTask(j)
  BY <1>2 DEF SoundTask, Live
<1> QED BY <1>1, <1>2, <1>3 DEF SameDeal, Live, j

(* releasePart keeps the invariant.                                           *)
LEMMA ReleasePartKept ==
    ASSUME RegistryInv, NEW t \in Tasks, NEW n \in Nat, NEW refusing, ReleasePart(t, n, refusing)
    PROVE  RegistryInv' /\ OnlyTask(t) /\ Progress(tasks[t], tasks'[t])
<1> DEFINE k == tasks[t]
           open == ReconciledAmount(k, n)
           m == k.released + n
           j == PartPaid(k, m, open)
           d == k.amountUsd6 - open
<1>1. /\ k.state = "ACTIVE" /\ tasks' = [tasks EXCEPT ![t] = j] /\ n > 0
      /\ n < RemainingOf(k)
      /\ LowerOpenAmount(t, d)
      /\ escrowVault' = Escrow!ReleaseEscrow(escrowVault, t, n, refusing)
      /\ UNCHANGED <<now, vault, ledger, tally>>
  BY DEF ReleasePart, ReleaseRequires, PartPaid
<1>2. /\ TaskFacts(t) /\ k \in Task /\ k.poster \in Accounts /\ KeptEscrows(escrowVault)
      /\ RegistryType /\ Exposure /\ escrowVault.escrows[t].state = "FUNDED"
      /\ escrowVault.escrows[t].deposited = k.funded
      /\ escrowVault.escrows[t].released = k.released
  BY <1>1, DealHas
<1>3. /\ k.released \in Nat /\ k.funded \in Nat /\ k.amountUsd6 \in Nat /\ m \in Nat
      /\ m < k.funded
  BY <1>1, <1>2 DEF Task, RemainingOf
<1>4. k.fundedBasisUsd6 > 0 /\ k.amountUsd6 > 0
  BY <1>1, <1>2, <1>3 DEF TaskFacts, SoundTask, Live
<1>5. open \in Nat /\ open > 0 /\ open <= k.amountUsd6
  BY <1>2, <1>3, <1>4, ReconciledFacts
<1> HIDE DEF open
<1>6. /\ SameDeal(k, j) /\ SoundTask(j) /\ j.state = "ACTIVE" /\ j.funded = k.funded
      /\ j.released = m /\ j.amountUsd6 = open
  BY <1>1, <1>2, <1>3, <1>5, PartPaidTask DEF TaskFacts
<1> HIDE DEF j, m
<1>7. /\ KeptEscrows(escrowVault')
      /\ escrowVault'.escrows = [escrowVault.escrows EXCEPT ![t] =
             [@ EXCEPT !.released = escrowVault.escrows[t].released + n]]
  <2>1. n <= Escrow!Remaining(escrowVault, t)
    BY <1>1, <1>2, <1>3 DEF Escrow!Remaining, RemainingOf
  <2> QED BY <1>1, <1>2, <2>1, ReleaseEscrowStep
<1>8. escrowVault.escrows \in [Tasks -> Escrow!Escrow]
  BY <1>2, KeptEscrowType
<1>9. /\ \A s \in Tasks : s # t => escrowVault'.escrows[s] = escrowVault.escrows[s]
      /\ escrowVault'.escrows[t] = [escrowVault.escrows[t] EXCEPT !.released = m]
  BY <1>2, <1>7, <1>8 DEF m
<1>10. EscrowLink(j, escrowVault'.escrows[t])
  <2>1. escrowVault.escrows[t] \in Escrow!Escrow
    BY <1>8
  <2>2. /\ escrowVault'.escrows[t].state = escrowVault.escrows[t].state
        /\ escrowVault'.escrows[t].deposited = escrowVault.escrows[t].deposited
        /\ escrowVault'.escrows[t].released = m
        /\ escrowVault'.escrows[t].poster = escrowVault.escrows[t].poster
        /\ escrowVault'.escrows[t].worker = escrowVault.escrows[t].worker
    BY <1>9, <2>1 DEF Escrow!Escrow
  <2> QED BY <1>1, <1>2, <1>6, <2>2 DEF TaskFacts, EscrowLink, SameDeal, Live
<1>11. j \in Task /\ j.poster = k.poster
  BY <1>6 DEF SameDeal
<1>12. /\ Exposure' /\ openTaskTotalUsd6' \in Nat
       /\ posterOpenTaskTotalUsd6' \in [Accounts -> Nat]
  BY <1>1, <1>2, <1>5, <1>6, <1>11, ExposureLowered
<1>13. RegistryInv'
  BY <1>1, <1>6, <1>7, <1>9, <1>10, <1>12, OngoingKept
<1>14. tasks'[t] = j /\ \A s \in Tasks : s # t => tasks'[s] = tasks[s]
  BY <1>1, <1>2, <1>11, TaskBecomes
<1>15. Progress(k, j)
  <2>1. m > k.released /\ m < k.funded
    BY <1>1, <1>3 DEF m
  <2> QED BY <1>1, <1>6, <2>1 DEF Progress, SameDeal, SameParties
<1> QED BY <1>13, <1>14, <1>15 DEF OnlyTask

(* A higher open amount that the caps admit.                                   *)
LEMMA ExposureRaised ==
    ASSUME RegistryType, Exposure, NEW t \in Tasks, tasks[t].poster \in Accounts,
           NEW k \in Task, k.poster = tasks[t].poster, k.amountUsd6 >= tasks[t].amountUsd6,
           WithinCaps(tasks[t].poster, k.amountUsd6 - tasks[t].amountUsd6),
           tasks' = [tasks EXCEPT ![t] = k],
           openTaskTotalUsd6' = openTaskTotalUsd6 + (k.amountUsd6 - tasks[t].amountUsd6),
           posterOpenTaskTotalUsd6' = Plus(posterOpenTaskTotalUsd6, tasks[t].poster,
                                           k.amountUsd6 - tasks[t].amountUsd6)
    PROVE  /\ Exposure' /\ openTaskTotalUsd6' \in Nat
           /\ posterOpenTaskTotalUsd6' \in [Accounts -> Nat]
<1> DEFINE m == tasks[t].amountUsd6
           n == k.amountUsd6
           p == tasks[t].poster
           us == [tasks EXCEPT ![t] = k]
           d == n - m
<1>0. /\ tasks \in [Tasks -> Task] /\ openTaskTotalUsd6 \in Nat
      /\ posterOpenTaskTotalUsd6 \in [Accounts -> Nat] /\ m \in Nat /\ n \in Nat /\ n >= m
      /\ p \in Accounts /\ d \in Nat
  BY DEF RegistryType, Task
<1>1. us \in [Tasks -> Task] /\ us[t] = k /\ \A s \in Tasks : s # t => us[s] = tasks[s]
  BY <1>0
<1>2. /\ tasks' = us /\ WithinCaps(p, d) /\ openTaskTotalUsd6' = openTaskTotalUsd6 + d
      /\ posterOpenTaskTotalUsd6' = [posterOpenTaskTotalUsd6 EXCEPT ![p] =
                                        posterOpenTaskTotalUsd6[p] + d]
  BY DEF Plus
<1> HIDE DEF us
<1>3. Exposed(us, openTaskTotalUsd6 - m + n, Moved(posterOpenTaskTotalUsd6, p, m, n))
  BY <1>0, <1>1, ExposureMoves DEF Exposure
<1> HIDE DEF m, n, p
<1>4. /\ openTaskTotalUsd6' = openTaskTotalUsd6 - m + n
      /\ posterOpenTaskTotalUsd6[p] + d = posterOpenTaskTotalUsd6[p] - m + n
      /\ posterOpenTaskTotalUsd6[p] + d \in Nat
  BY <1>0, <1>2
<1>5. posterOpenTaskTotalUsd6' = Moved(posterOpenTaskTotalUsd6, p, m, n)
  BY <1>2, <1>4 DEF Moved
<1>6. Exposed(tasks', openTaskTotalUsd6', posterOpenTaskTotalUsd6')
  BY <1>2, <1>3, <1>4, <1>5
<1>7. openTaskTotalUsd6' \in Nat /\ posterOpenTaskTotalUsd6' \in [Accounts -> Nat]
  BY <1>0, <1>2, <1>4
<1>8. Capped(openTaskTotalUsd6', posterOpenTaskTotalUsd6')
  <2>1. Capped(openTaskTotalUsd6, posterOpenTaskTotalUsd6)
    BY DEF Exposure
  <2>2. \A a \in Accounts : posterOpenTaskTotalUsd6'[a] =
            IF a = p THEN posterOpenTaskTotalUsd6[p] + d ELSE posterOpenTaskTotalUsd6[a]
    BY <1>0, <1>2
  <2> QED BY <1>2, <2>1, <2>2 DEF Capped, WithinCaps
<1> QED BY <1>6, <1>7, <1>8 DEF Exposure

FundedTo(k, n, basis) ==
    [k EXCEPT !.funded = n, !.fundedBasisUsd6 = basis, !.amountUsd6 = basis,
              !.state = IF n = k.totalAmount THEN "ACTIVE" ELSE k.state]

(* The record of a funded task.                                               *)
LEMMA FundedTask ==
    ASSUME NEW k \in Task, SoundTask(k), k.state = "CLAIMED", NEW n \in Nat, n <= k.totalAmount,
           n > 0, NEW basis \in Nat, basis > 0
    PROVE  /\ SameDeal(k, FundedTo(k, n, basis)) /\ SoundTask(FundedTo(k, n, basis))
           /\ FundedTo(k, n, basis).state \in {"CLAIMED", "ACTIVE"}
           /\ FundedTo(k, n, basis).funded = n
           /\ FundedTo(k, n, basis).released = k.released
           /\ FundedTo(k, n, basis).amountUsd6 = basis
<1> DEFINE j == FundedTo(k, n, basis)
<1>0. k.released = 0 /\ k.totalAmount \in Nat /\ k.poster \in Accounts
  BY DEF SoundTask, Task
<1>1. j \in Task
  BY DEF FundedTo, Task, State
<1>2. /\ j.state = IF n = k.totalAmount THEN "ACTIVE" ELSE "CLAIMED"
      /\ j.poster = k.poster /\ j.worker = k.worker
      /\ j.totalAmount = k.totalAmount /\ j.funded = n /\ j.released = k.released
      /\ j.declaredUsd6 = k.declaredUsd6 /\ j.fundedBasisUsd6 = basis
      /\ j.amountUsd6 = basis /\ j.posterCredit = k.posterCredit
      /\ j.workerCredit = k.workerCredit /\ j.deliveredAt = k.deliveredAt
  BY DEF FundedTo, Task
<1> HIDE DEF j
<1>3. SoundTask(j)
  BY <1>0, <1>2 DEF SoundTask, Live
<1>4. j.state \in {"CLAIMED", "ACTIVE"}
  BY <1>2
<1> QED BY <1>1, <1>2, <1>3, <1>4 DEF SameDeal, Live, j

(* fundEscrow keeps the invariant.                                            *)
LEMMA FundKept ==
    ASSUME RegistryInv, NEW t \in Tasks, NEW amount \in Nat, NEW price \in Prices,
           Fund(t, amount, price)
    PROVE  RegistryInv' /\ OnlyTask(t) /\ Progress(tasks[t], tasks'[t])
<1> DEFINE k == tasks[t]
           m == k.funded + amount
           basis == FundedBasis(k, m, price)
           added == basis - k.fundedBasisUsd6
           j == FundedTo(k, m, basis)
<1>1. /\ k.state \in {"CLAIMED", "ACTIVE"} /\ amount > 0 /\ m <= k.totalAmount
      /\ WithinCaps(k.poster, added)
      /\ tasks' = [tasks EXCEPT ![t] = j]
      /\ openTaskTotalUsd6' = openTaskTotalUsd6 + added
      /\ posterOpenTaskTotalUsd6' = Plus(posterOpenTaskTotalUsd6, k.poster, added)
      /\ escrowVault' = Escrow!FundEscrow(escrowVault, t, amount)
      /\ UNCHANGED <<now, vault, ledger, tally>>
  BY DEF Fund, FundedTo
<1>2. /\ TaskFacts(t) /\ k \in Task /\ k.poster \in Accounts /\ KeptEscrows(escrowVault)
      /\ RegistryType /\ Exposure /\ escrowVault.escrows[t].state = "FUNDED"
      /\ escrowVault.escrows[t].deposited = k.funded
      /\ escrowVault.escrows[t].released = k.released
  BY <1>1, DealHas
<1>3. /\ k.funded \in Nat /\ k.totalAmount \in Nat /\ m \in Nat /\ m > 0
      /\ k.amountUsd6 \in Nat /\ k.fundedBasisUsd6 \in Nat
  BY <1>1, <1>2 DEF Task
<1>4. k.state = "CLAIMED"
  BY <1>1, <1>2, <1>3 DEF TaskFacts, SoundTask
<1>5. k.amountUsd6 = k.fundedBasisUsd6 /\ k.totalAmount > 0 /\ k.declaredUsd6 > 0
  BY <1>2, <1>4 DEF TaskFacts, SoundTask
<1> HIDE DEF m
<1>6. basis \in Nat /\ basis > 0 /\ basis >= k.fundedBasisUsd6
  BY <1>2, <1>3, <1>5, FundedBasisFacts
<1> HIDE DEF basis
<1>7. /\ SameDeal(k, j) /\ SoundTask(j) /\ j.state \in {"CLAIMED", "ACTIVE"} /\ j.funded = m
      /\ j.released = k.released /\ j.amountUsd6 = basis
  BY <1>1, <1>2, <1>3, <1>4, <1>6, FundedTask DEF TaskFacts
<1> HIDE DEF j
<1>8. /\ KeptEscrows(escrowVault')
      /\ escrowVault'.escrows = [escrowVault.escrows EXCEPT ![t] =
             [@ EXCEPT !.deposited = escrowVault.escrows[t].deposited + amount]]
  BY <1>1, <1>2, FundEscrowStep
<1>9. escrowVault.escrows \in [Tasks -> Escrow!Escrow]
  BY <1>2, KeptEscrowType
<1>10. /\ \A s \in Tasks : s # t => escrowVault'.escrows[s] = escrowVault.escrows[s]
       /\ escrowVault'.escrows[t] = [escrowVault.escrows[t] EXCEPT !.deposited = m]
  BY <1>2, <1>8, <1>9 DEF m
<1>11. EscrowLink(j, escrowVault'.escrows[t])
  <2>1. escrowVault.escrows[t] \in Escrow!Escrow
    BY <1>9
  <2>2. /\ escrowVault'.escrows[t].state = escrowVault.escrows[t].state
        /\ escrowVault'.escrows[t].deposited = m
        /\ escrowVault'.escrows[t].released = escrowVault.escrows[t].released
        /\ escrowVault'.escrows[t].poster = escrowVault.escrows[t].poster
        /\ escrowVault'.escrows[t].worker = escrowVault.escrows[t].worker
    BY <1>10, <2>1 DEF Escrow!Escrow
  <2> QED BY <1>1, <1>2, <1>7, <2>2 DEF TaskFacts, EscrowLink, SameDeal, Live
<1>12. j \in Task /\ j.poster = k.poster
  BY <1>7 DEF SameDeal
<1>13. added = j.amountUsd6 - k.amountUsd6 /\ j.amountUsd6 >= k.amountUsd6
  BY <1>5, <1>6, <1>7
<1> HIDE DEF added
<1>14. /\ Exposure' /\ openTaskTotalUsd6' \in Nat
       /\ posterOpenTaskTotalUsd6' \in [Accounts -> Nat]
  BY <1>1, <1>2, <1>12, <1>13, ExposureRaised
<1>15. RegistryInv'
  BY <1>1, <1>7, <1>8, <1>10, <1>11, <1>14, OngoingKept
<1>16. tasks'[t] = j /\ \A s \in Tasks : s # t => tasks'[s] = tasks[s]
  BY <1>1, <1>2, <1>12, TaskBecomes
<1>17. Progress(k, j)
  <2>1. m > k.funded
    BY <1>1, <1>3 DEF m
  <2> QED BY <1>1, <1>7, <2>1 DEF Progress, SameDeal, SameParties
<1> QED BY <1>15, <1>16, <1>17 DEF OnlyTask

-------------------------------------------------------------------------------
(* The two transactions in which an account enters a task: it reserves           *)
(* collateral and may spend a credit.                                          *)

Entered(v, r, t, a, quote) ==
    /\ KeptDeposits(r)
    /\ \A s \in Tasks : s # t => /\ r.taskReservations[s] = v.taskReservations[s]
                                 /\ r.taskQuotes[s] = v.taskQuotes[s]
    /\ r.taskQuotes[t] = quote
    /\ r.taskReservations[t][a].amount > 0
    /\ r.taskReservations[t][a].accessCompensation = quote.accessFee
    /\ \A b \in Accounts : b # a => r.taskReservations[t][b] = v.taskReservations[t][b]

(* Entering a task reserves one account's collateral and no other's.          *)
LEMMA EntryStep ==
    ASSUME NEW v, KeptDeposits(v), NEW t \in Tasks, NEW a \in Accounts, NEW waive \in BOOLEAN,
           NEW createQuote \in BOOLEAN, NEW q, createQuote => q \in PolicyQuotes, NEW refusing,
           Deposits!CanReserve(v, t, a, waive, createQuote, q),
           NEW quote, quote = Deposits!QuoteFor(v, t, createQuote, q)
    PROVE  Entered(v, Deposits!Reserve(v, t, a, waive, createQuote, q, refusing), t, a, quote)
<1> DEFINE r == Deposits!Reserve(v, t, a, waive, createQuote, q, refusing)
           x == [amount |-> quote.liveTaskReserve, exitCompensation |-> quote.exitCompensation,
                 exitProtocolShare |-> quote.exitProtocolShare,
                 accessCompensation |-> quote.accessFee]
<1>1. /\ KeptDeposits(r) /\ quote.liveTaskReserve > 0
      /\ r.taskQuotes = [v.taskQuotes EXCEPT ![t] = quote]
      /\ r.taskReservations = [v.taskReservations EXCEPT ![t][a] = x]
  BY ReserveStep
<1>2. x.amount > 0 /\ x.accessCompensation = quote.accessFee
  BY <1>1
<1> HIDE DEF r, x
<1>3. /\ \A s \in Tasks : s # t => r.taskReservations[s] = v.taskReservations[s]
      /\ \A b \in Accounts : r.taskReservations[t][b] =
            IF b = a THEN x ELSE v.taskReservations[t][b]
  <2>1. r.taskReservations = WithReservation(v.taskReservations, t, a, x)
    BY <1>1 DEF WithReservation
  <2>2. KeptDeposits(r)
    BY <1>1
  <2> QED BY <2>1, <2>2, OneReservation
<1>4. v.taskQuotes \in [Tasks -> Deposits!QuoteType]
  BY KeptVaultType DEF VaultFields
<1>5. r.taskQuotes[t] = quote /\ \A s \in Tasks : s # t => r.taskQuotes[s] = v.taskQuotes[s]
  BY <1>1, <1>4
<1> QED BY <1>1, <1>2, <1>3, <1>5 DEF Entered, r

CreditEntered(c, r, t, isPost, waived, a) ==
    /\ KeptLedger(r)
    /\ \A s \in Tasks : s # t => r.taskCreditPayer[s] = c.taskCreditPayer[s]
    /\ \A b \in BOOLEAN : b # isPost => r.taskCreditPayer[t][b] = c.taskCreditPayer[t][b]
    /\ r.taskCreditPayer[t][isPost] = IF waived THEN a ELSE c.taskCreditPayer[t][isPost]

(* Entering a task spends at most one credit, the account's own.              *)
LEMMA CreditEntryStep ==
    ASSUME NEW c, KeptLedger(c), NEW a \in Accounts, NEW t \in Tasks, NEW isPost \in BOOLEAN,
           NEW earned \in [Accounts -> Nat], NEW waived,
           waived = Credits!Spends(c, a, t, isPost, earned)
    PROVE  CreditEntered(c, Credits!TrySpend(c, a, t, isPost, earned), t, isPost, waived, a)
<1> DEFINE r == Credits!TrySpend(c, a, t, isPost, earned)
<1>1. /\ KeptLedger(r)
      /\ IF waived THEN SlotIs(c, r, t, isPost, a) ELSE r.taskCreditPayer = c.taskCreditPayer
  BY SpendStep
<1> HIDE DEF r
<1>2. CASE waived
  <2>1. SlotIs(c, r, t, isPost, a)
    BY <1>1, <1>2
  <2>2. \A s \in Tasks : s # t => r.taskCreditPayer[s] = c.taskCreditPayer[s]
    BY <1>1, <2>1, SlotsElsewhere
  <2> QED BY <1>1, <1>2, <2>1, <2>2 DEF CreditEntered, SlotIs, r
<1>3. CASE ~waived
  BY <1>1, <1>3 DEF CreditEntered, r
<1> QED BY <1>2, <1>3

ClaimedBy(k, w, until, waived) ==
    [k EXCEPT !.state = "CLAIMED", !.worker = w, !.fundingDeadline = until,
              !.workerCredit = waived]

(* The record of a claimed task.                                              *)
LEMMA ClaimedTask ==
    ASSUME NEW k \in Task, SoundTask(k), k.state = "POSTED", NEW w \in Accounts, w # k.poster,
           NEW until \in Nat, NEW waived \in BOOLEAN
    PROVE  LET j == ClaimedBy(k, w, until, waived)
           IN  /\ j \in Task /\ SoundTask(j) /\ j.state = "CLAIMED"
               /\ j.poster = k.poster /\ j.worker = w /\ j.funded = k.funded
               /\ j.released = k.released /\ j.amountUsd6 = k.amountUsd6
               /\ j.posterCredit = k.posterCredit /\ j.workerCredit = waived
<1> DEFINE j == ClaimedBy(k, w, until, waived)
<1>0. w # Nobody
  BY RegistryAssumption
<1>1. j \in Task
  BY DEF ClaimedBy, Task, State
<1>2. /\ j.state = "CLAIMED" /\ j.poster = k.poster /\ j.worker = w
      /\ j.totalAmount = k.totalAmount /\ j.funded = k.funded /\ j.released = k.released
      /\ j.declaredUsd6 = k.declaredUsd6 /\ j.fundedBasisUsd6 = k.fundedBasisUsd6
      /\ j.amountUsd6 = k.amountUsd6 /\ j.posterCredit = k.posterCredit
      /\ j.workerCredit = waived /\ j.deliveredAt = k.deliveredAt
  BY DEF ClaimedBy, Task
<1> HIDE DEF j
<1>3. SoundTask(j)
  BY <1>0, <1>2 DEF SoundTask, Live
<1> QED BY <1>1, <1>2, <1>3 DEF j

(* claim keeps the invariant.                                                 *)
LEMMA ClaimKept ==
    ASSUME RegistryInv, NEW w \in Accounts, NEW t \in Tasks, NEW earned \in Earnings, NEW refusing,
           Claim(w, t, earned, refusing)
    PROVE  RegistryInv' /\ OnlyTask(t) /\ Progress(tasks[t], tasks'[t])
<1> DEFINE k == tasks[t]
           waived == Credits!Spends(ledger, w, t, FALSE, earned)
           quote == vault.taskQuotes[t]
           j == ClaimedBy(k, w, now + FundingWindow, waived)
<1>1. /\ k.state = "POSTED" /\ w # k.poster
      /\ Deposits!CanReserve(vault, t, w, waived, FALSE, quote)
      /\ tasks' = [tasks EXCEPT ![t] = j]
      /\ ledger' = Credits!TrySpend(ledger, w, t, FALSE, earned)
      /\ vault' = Deposits!Reserve(vault, t, w, waived, FALSE, quote, refusing)
      /\ escrowVault' = Escrow!CreateEscrow(escrowVault, t, k.poster, w)
      /\ UNCHANGED <<openTaskTotalUsd6, posterOpenTaskTotalUsd6, now, tally>>
  BY DEF Claim, ClaimedBy
<1>2. /\ TaskFacts(t) /\ k \in Task /\ KeptDeposits(vault) /\ KeptEscrows(escrowVault)
      /\ KeptLedger(ledger) /\ RegistryType /\ Exposure
  BY InvAt DEF TaskFacts, RegistryInv
<1>3. k.poster \in Accounts /\ k.worker = Nobody /\ k.state \in Live /\ ~k.workerCredit
      /\ w # Nobody /\ k.state # "NONE"
  <2>1. SoundTask(k) /\ k.state = "POSTED"
    BY <1>1, <1>2 DEF TaskFacts
  <2>2. w # Nobody
    BY RegistryAssumption
  <2> HIDE DEF k
  <2> QED BY <2>1, <2>2 DEF SoundTask, Live
<1>4. waived \in BOOLEAN /\ earned \in [Accounts -> Nat]
  BY EarningsType DEF Credits!Spends
<1>5. now + FundingWindow \in Nat
  <2>1. FundingWindow \in Nat
    BY RegistryAssumption
  <2>2. now \in Nat
    BY <1>2 DEF RegistryType
  <2> QED BY <2>1, <2>2
<1>6. CreditEntered(ledger, ledger', t, FALSE, waived, w)
  <2>1. FALSE \in BOOLEAN
    OBVIOUS
  <2> QED BY <1>1, <1>2, <1>4, <2>1, CreditEntryStep
<1> HIDE DEF waived
<1>7. Entered(vault, vault', t, w, quote)
  <2>1. quote = Deposits!QuoteFor(vault, t, FALSE, quote)
    BY DEF Deposits!QuoteFor
  <2>2. FALSE \in BOOLEAN
    OBVIOUS
  <2> HIDE DEF quote
  <2> QED BY <1>1, <1>2, <1>4, <2>1, <2>2, EntryStep
<1>8. /\ j \in Task /\ SoundTask(j) /\ j.state = "CLAIMED"
      /\ j.poster = k.poster /\ j.worker = w /\ j.funded = k.funded
      /\ j.released = k.released /\ j.amountUsd6 = k.amountUsd6
      /\ j.posterCredit = k.posterCredit /\ j.workerCredit = waived
  BY <1>1, <1>2, <1>4, <1>5, ClaimedTask DEF TaskFacts
<1> HIDE DEF j
<1>9. /\ tasks' \in [Tasks -> Task] /\ tasks'[t] = j
      /\ \A s \in Tasks : s # t => tasks'[s] = tasks[s]
  BY <1>1, <1>2, <1>8, TaskBecomes
<1>10. /\ KeptEscrows(escrowVault')
       /\ \A s \in Tasks : s # t => escrowVault'.escrows[s] = escrowVault.escrows[s]
       /\ escrowVault'.escrows[t] = [poster |-> k.poster, worker |-> w, deposited |-> 0,
                                     released |-> 0, state |-> "FUNDED"]
  <2>1. escrowVault.escrows[t].state = "NONE"
    BY <1>2, <1>3 DEF TaskFacts, EscrowLink
  <2>2. /\ KeptEscrows(escrowVault')
        /\ escrowVault'.escrows = [escrowVault.escrows EXCEPT ![t] =
              [poster |-> k.poster, worker |-> w, deposited |-> 0, released |-> 0,
               state |-> "FUNDED"]]
    BY <1>1, <1>2, <1>3, <2>1, OpenEscrowStep
  <2>3. escrowVault.escrows \in [Tasks -> Escrow!Escrow]
    BY <1>2, KeptEscrowType
  <2> QED BY <2>2, <2>3
<1>11. EscrowLink(j, escrowVault'.escrows[t])
  <2>1. k.funded = 0 /\ k.released = 0
    BY <1>1, <1>2, <1>3 DEF TaskFacts, SoundTask
  <2> QED BY <1>3, <1>8, <1>10, <2>1 DEF EscrowLink
<1>12. CollateralLink(j, vault'.taskReservations[t], vault'.taskQuotes[t])
  <2>1. \A a \in Accounts : a \in Parties(j) <=> a \in Parties(k) \/ a = w
    BY <1>3, <1>8, RegistryAssumption DEF Parties
  <2>2. CollateralLink(k, vault.taskReservations[t], quote)
    BY <1>2 DEF TaskFacts
  <2>3. j.state \in Live
    BY <1>8 DEF Live
  <2> HIDE DEF quote
  <2>4. vault'.taskQuotes[t] = quote
    BY <1>7 DEF Entered
  <2> QED BY <1>3, <1>7, <2>1, <2>2, <2>3, <2>4 DEF CollateralLink, Entered
<1>13. CreditLink(j, ledger'.taskCreditPayer[t])
  <2>1. CreditLink(k, ledger.taskCreditPayer[t])
    BY <1>2 DEF TaskFacts
  <2> QED BY <1>3, <1>6, <1>8, <2>1 DEF CreditLink, CreditEntered
<1>14. RecordLink(j, tally'.recorded[t])
  <2>1. k.state \notin Terminal
    BY <1>1 DEF Terminal
  <2> QED BY <1>1, <1>2, <2>1 DEF TaskFacts, RecordLink
<1>15. LinkedAt(t)'
  BY <1>8, <1>9, <1>11, <1>12, <1>13, <1>14 DEF LinkedAt, Linked
<1>16. OthersSame(t)
  BY <1>1, <1>6, <1>7, <1>9, <1>10 DEF OthersSame, Entered, CreditEntered
<1>17. Exposure'
  BY <1>1, <1>2, <1>3, <1>8, ExposureSame
<1>18. RegistryType'
  BY <1>1, <1>2, <1>9 DEF RegistryType
<1>19. RegistryInv'
  BY <1>6, <1>7, <1>10, <1>15, <1>16, <1>17, <1>18, OneTaskStep DEF Entered, CreditEntered
<1>20. Progress(k, j)
  BY <1>1, <1>8 DEF Progress, SameMoney
<1> QED BY <1>9, <1>19, <1>20 DEF OnlyTask

(* Posting a task that has no open amount yet leaves the totals alone, though    *)
(* the task joins its poster's.                                                *)
LEMMA ExposurePosted ==
    ASSUME RegistryType, Exposure, NEW t \in Tasks, tasks[t].poster = Nobody,
           tasks[t].amountUsd6 = 0, NEW k \in Task, k.poster \in Accounts, k.amountUsd6 = 0,
           tasks' = [tasks EXCEPT ![t] = k],
           UNCHANGED <<openTaskTotalUsd6, posterOpenTaskTotalUsd6>>
    PROVE  Exposure'
<1> DEFINE f == OpenAmounts(tasks)
           g == OpenAmounts(tasks')
           p == k.poster
           P(a) == PostedBy(tasks, a)
           Q(a) == PostedBy(tasks', a)
<1>1. /\ tasks \in [Tasks -> Task] /\ tasks' \in [Tasks -> Task] /\ tasks'[t] = k
      /\ \A s \in Tasks : s # t => tasks'[s] = tasks[s]
  BY TaskBecomes DEF RegistryType
<1>2. /\ f \in [Tasks -> Nat] /\ g \in [Tasks -> Nat]
      /\ \A s \in Tasks : f[s] = tasks[s].amountUsd6 /\ g[s] = tasks'[s].amountUsd6
  BY <1>1, OpenAmountsType
<1>3. \A s \in Tasks : g[s] = f[s]
  BY <1>1, <1>2
<1>4. g = f
  <2> HIDE DEF f, g
  <2> QED BY <1>2, <1>3
<1>5. p # Nobody /\ Nobody \notin Accounts
  BY RegistryAssumption
<1>6. \A a \in Accounts : /\ IsFiniteSet(Q(a)) /\ NatsOn(g, Q(a))
                          /\ P(a) = Q(a) \ {t} /\ (t \in Q(a) <=> a = p)
  <2> SUFFICES ASSUME NEW a \in Accounts
               PROVE  /\ IsFiniteSet(Q(a)) /\ NatsOn(g, Q(a))
                      /\ P(a) = Q(a) \ {t} /\ (t \in Q(a) <=> a = p)
    OBVIOUS
  <2>1. IsFiniteSet(Q(a)) /\ NatsOn(g, Q(a))
    BY <1>1, OpenAmountsType
  <2>2. P(a) = Q(a) \ {t}
    BY <1>1, <1>5 DEF PostedBy
  <2>3. t \in Q(a) <=> a = p
    BY <1>1 DEF PostedBy
  <2> QED BY <2>1, <2>2, <2>3
<1>7. g[t] = 0
  BY <1>1, <1>2
<1> HIDE DEF f, g, P, Q
<1>8. \A a \in Accounts : SumFunctionOnSet(g, Q(a)) = SumFunctionOnSet(f, P(a))
  <2> SUFFICES ASSUME NEW a \in Accounts
               PROVE  SumFunctionOnSet(g, Q(a)) = SumFunctionOnSet(f, P(a))
    OBVIOUS
  <2>1. CASE a = p
    <3>1. SumFunctionOnSet(g, Q(a)) = g[t] + SumFunctionOnSet(g, Q(a) \ {t})
      BY <1>6, <2>1, SumRemove
    <3>2. Q(a) \ {t} = P(a) /\ SumFunctionOnSet(g, Q(a)) \in Nat
      BY <1>6, SumType
    <3>3. IsFiniteSet(P(a)) /\ NatsOn(g, P(a))
      BY <1>6, FS_Subset DEF NatsOn
    <3>4. SumFunctionOnSet(g, P(a)) \in Nat
      BY <3>3, SumType
    <3> QED BY <1>4, <1>7, <3>1, <3>2, <3>4
  <2>2. CASE a # p
    <3>1. Q(a) = P(a)
      BY <1>6, <2>2
    <3> QED BY <1>4, <3>1
  <2> QED BY <2>1, <2>2
<1>9. Exposed(tasks, openTaskTotalUsd6, posterOpenTaskTotalUsd6)
      /\ Capped(openTaskTotalUsd6, posterOpenTaskTotalUsd6)
  BY DEF Exposure
<1>10. /\ openTaskTotalUsd6 = SumFunction(f)
       /\ \A a \in Accounts : posterOpenTaskTotalUsd6[a] = SumFunctionOnSet(f, P(a))
  BY <1>9 DEF Exposed, f, P
<1>11. Exposed(tasks', openTaskTotalUsd6, posterOpenTaskTotalUsd6)
  <2>1. openTaskTotalUsd6 = SumFunction(g)
    BY <1>4, <1>10
  <2>2. \A a \in Accounts : posterOpenTaskTotalUsd6[a] = SumFunctionOnSet(g, Q(a))
    BY <1>8, <1>10
  <2> QED BY <2>1, <2>2 DEF Exposed, g, Q
<1> QED BY <1>9, <1>11 DEF Exposure

PostedTask(p, amount, deadline, usd6, waived) ==
    [NoTask EXCEPT !.state = "POSTED", !.poster = p, !.totalAmount = amount,
                   !.deadline = deadline, !.declaredUsd6 = usd6, !.posterCredit = waived]

(* The record of a posted task.                                               *)
LEMMA PostedTaskHas ==
    ASSUME NEW p \in Accounts, NEW amount \in Nat, amount > 0, NEW deadline \in Nat,
           NEW usd6 \in Nat, usd6 > 0, NEW waived \in BOOLEAN
    PROVE  LET j == PostedTask(p, amount, deadline, usd6, waived)
           IN  /\ j \in Task /\ SoundTask(j) /\ j.state = "POSTED"
               /\ j.poster = p /\ j.worker = Nobody /\ j.funded = 0
               /\ j.released = 0 /\ j.amountUsd6 = 0
               /\ j.posterCredit = waived /\ ~j.workerCredit
<1> DEFINE j == PostedTask(p, amount, deadline, usd6, waived)
<1>0. p # Nobody
  BY RegistryAssumption
<1>1. /\ NoTask \in Task /\ NoTask.worker = Nobody /\ NoTask.funded = 0 /\ NoTask.released = 0
      /\ NoTask.deliveredAt = 0 /\ NoTask.fundedBasisUsd6 = 0 /\ NoTask.amountUsd6 = 0
      /\ NoTask.workerCredit = FALSE
  BY DEF NoTask, Task, State
<1>2. j \in Task
  BY <1>1 DEF PostedTask, Task, State
<1>3. /\ j.state = "POSTED" /\ j.poster = p /\ j.worker = Nobody /\ j.totalAmount = amount
      /\ j.funded = 0 /\ j.released = 0 /\ j.deliveredAt = 0 /\ j.declaredUsd6 = usd6
      /\ j.fundedBasisUsd6 = 0 /\ j.amountUsd6 = 0 /\ j.posterCredit = waived
      /\ ~j.workerCredit
  BY <1>1 DEF PostedTask, Task
<1> HIDE DEF j
<1>4. SoundTask(j)
  BY <1>0, <1>3 DEF SoundTask, Live
<1> QED BY <1>2, <1>3, <1>4 DEF j

(* Prices and their quotes are usable by the vault.                           *)
LEMMA PriceTypes ==
    ASSUME NEW price \in Prices
    PROVE  price \in Nat /\ AzlUnit \in Nat /\ AzlUnit > 0
<1>1. Prices \subseteq Nat
  BY SMTT(30), RegistryAssumption
<1>2. AzlUnit \in Nat \ {0}
  BY RegistryAssumption
<1> QED BY <1>1, <1>2

(* post keeps the invariant.                                                  *)
LEMMA PostKept ==
    ASSUME RegistryInv, NEW p \in Accounts, NEW t \in Tasks, NEW amount \in Nat,
           NEW deadline \in Nat, NEW price \in Prices, NEW earned \in Earnings, NEW refusing,
           Post(p, t, amount, deadline, price, earned, refusing)
    PROVE  RegistryInv' /\ OnlyTask(t) /\ Progress(tasks[t], tasks'[t])
<1> DEFINE k == tasks[t]
           waived == Credits!Spends(ledger, p, t, TRUE, earned)
           usd6 == ParUsd6(amount, price)
           quote == PolicyQuote[price]
           j == PostedTask(p, amount, deadline, usd6, waived)
<1>1. /\ k.state = "NONE" /\ amount > 0 /\ usd6 > 0
      /\ Deposits!CanReserve(vault, t, p, waived, TRUE, quote)
      /\ tasks' = [tasks EXCEPT ![t] = j]
      /\ ledger' = Credits!TrySpend(ledger, p, t, TRUE, earned)
      /\ vault' = Deposits!Reserve(vault, t, p, waived, TRUE, quote, refusing)
      /\ UNCHANGED <<openTaskTotalUsd6, posterOpenTaskTotalUsd6, now, escrowVault, tally>>
  BY DEF Post, PostedTask
<1>2. /\ TaskFacts(t) /\ k \in Task /\ KeptDeposits(vault) /\ KeptEscrows(escrowVault)
      /\ KeptLedger(ledger) /\ RegistryType /\ Exposure
  BY InvAt DEF TaskFacts, RegistryInv
<1>3. /\ k.poster = Nobody /\ k.worker = Nobody /\ k.state \notin Live /\ k.amountUsd6 = 0
      /\ ~k.posterCredit /\ ~k.workerCredit
  BY <1>1, <1>2 DEF TaskFacts, SoundTask, Live
<1>4. waived \in BOOLEAN /\ earned \in [Accounts -> Nat]
  BY EarningsType DEF Credits!Spends
<1>5. usd6 \in Nat
  <2>1. price \in Nat /\ AzlUnit \in Nat /\ AzlUnit > 0
    BY PriceTypes
  <2>2. amount * price \in Nat
    BY <2>1, ProductPositive
  <2> QED BY <2>1, <2>2, CeilDivFacts DEF ParUsd6
<1>6. CreditEntered(ledger, ledger', t, TRUE, waived, p)
  <2>1. TRUE \in BOOLEAN
    OBVIOUS
  <2> QED BY <1>1, <1>2, <1>4, <2>1, CreditEntryStep
<1> HIDE DEF waived, usd6
<1>7. Entered(vault, vault', t, p, quote)
  <2>1. quote = Deposits!QuoteFor(vault, t, TRUE, quote) /\ quote \in PolicyQuotes
    BY DEF Deposits!QuoteFor, PolicyQuotes
  <2>2. TRUE \in BOOLEAN
    OBVIOUS
  <2> HIDE DEF quote
  <2> QED BY <1>1, <1>2, <1>4, <2>1, <2>2, EntryStep
<1> HIDE DEF quote
<1>8. /\ j \in Task /\ SoundTask(j) /\ j.state = "POSTED"
      /\ j.poster = p /\ j.worker = Nobody /\ j.funded = 0
      /\ j.released = 0 /\ j.amountUsd6 = 0
      /\ j.posterCredit = waived /\ ~j.workerCredit
  BY <1>1, <1>4, <1>5, PostedTaskHas
<1> HIDE DEF j
<1>9. /\ tasks' \in [Tasks -> Task] /\ tasks'[t] = j
      /\ \A s \in Tasks : s # t => tasks'[s] = tasks[s]
  BY <1>1, <1>2, <1>8, TaskBecomes
<1>10. EscrowLink(j, escrowVault'.escrows[t])
  <2>1. EscrowLink(k, escrowVault.escrows[t]) /\ SoundEscrow(escrowVault.escrows[t])
    BY <1>2 DEF TaskFacts
  <2>2. /\ escrowVault'.escrows[t].state = "NONE"
        /\ escrowVault'.escrows[t].deposited = 0
    BY <1>1, <1>3, <2>1 DEF EscrowLink, SoundEscrow
  <2>3. escrowVault'.escrows[t].released = 0
    <3>1. escrowVault.escrows[t] \in Escrow!Escrow
      BY <1>2, KeptEscrowType
    <3>2. escrowVault.escrows[t].released \in Nat
      BY <3>1 DEF Escrow!Escrow
    <3> QED BY <1>1, <2>1, <2>2, <3>2 DEF SoundEscrow
  <2> QED BY <1>8, <2>2, <2>3 DEF EscrowLink
<1>11. CollateralLink(j, vault'.taskReservations[t], vault'.taskQuotes[t])
  <2>0. Nobody \notin Accounts
    BY RegistryAssumption
  <2>1. \A a \in Accounts : a \in Parties(j) <=> a = p
    BY <1>8, <2>0 DEF Parties
  <2>2. CollateralLink(k, vault.taskReservations[t], vault.taskQuotes[t])
    BY <1>2 DEF TaskFacts
  <2>3. j.state \in Live
    BY <1>8 DEF Live
  <2> QED BY <1>3, <1>7, <2>1, <2>2, <2>3 DEF CollateralLink, Entered
<1>12. CreditLink(j, ledger'.taskCreditPayer[t])
  <2>1. CreditLink(k, ledger.taskCreditPayer[t])
    BY <1>2 DEF TaskFacts
  <2> QED BY <1>3, <1>6, <1>8, <2>1 DEF CreditLink, CreditEntered
<1>13. RecordLink(j, tally'.recorded[t])
  <2>1. k.state \notin Terminal
    BY <1>1 DEF Terminal
  <2> QED BY <1>1, <1>2, <2>1 DEF TaskFacts, RecordLink
<1>14. LinkedAt(t)'
  BY <1>8, <1>9, <1>10, <1>11, <1>12, <1>13 DEF LinkedAt, Linked
<1>15. OthersSame(t)
  BY <1>1, <1>6, <1>7, <1>9 DEF OthersSame, Entered, CreditEntered
<1>16. Exposure'
  BY <1>1, <1>2, <1>3, <1>8, ExposurePosted
<1>17. RegistryType'
  BY <1>1, <1>2, <1>9 DEF RegistryType
<1>18. RegistryInv'
  BY <1>1, <1>2, <1>6, <1>7, <1>14, <1>15, <1>16, <1>17, OneTaskStep DEF Entered, CreditEntered
<1>19. Progress(k, j)
  BY <1>1, <1>8 DEF Progress
<1> QED BY <1>9, <1>18, <1>19 DEF OnlyTask

-------------------------------------------------------------------------------
(* The initial state.                                                         *)
LEMMA InitVaults ==
    ASSUME Init
    PROVE  /\ KeptDeposits(vault) /\ KeptEscrows(escrowVault)
           /\ \A t \in Tasks : /\ \A a \in Accounts : vault.taskReservations[t][a].amount = 0
                               /\ escrowVault.escrows[t].state = "NONE"
                               /\ escrowVault.escrows[t].deposited = 0
                               /\ escrowVault.escrows[t].released = 0
<1>1. StartDeposit \in Nat
  BY RegistryAssumption
<1>2. vault = DP!Started(StartDeposit)
  <2>1. DP!EmptyVault = Deposits!EmptyVault
    BY DEF DP!EmptyVault, Deposits!EmptyVault, DP!NoQuote, Deposits!NoQuote,
           DP!NoReservation, Deposits!NoReservation, DP!Payees, Deposits!Payees
  <2>2. DP!Cardinality(Accounts) = Cardinality(Accounts)
    BY DEF DP!Cardinality, Cardinality, DP!IsFiniteSet, IsFiniteSet
  <2> QED BY <2>1, <2>2 DEF Init, DP!Started
<1>3. DP!Kept(vault) /\ \A t \in Tasks, a \in Accounts : vault.taskReservations[t][a].amount = 0
  BY <1>1, <1>2, VaultConstants, DP!StartKept
<1>4. EP!EmptyEscrowVault = Escrow!EmptyEscrowVault
  BY DEF EP!EmptyEscrowVault, Escrow!EmptyEscrowVault, EP!NoEscrow, Escrow!NoEscrow
<1>5. EP!Sound(escrowVault, 0)
  BY <1>4, EscrowConstants, EP!EmptySound DEF Init
<1>6. ASSUME NEW t \in Tasks
      PROVE  /\ escrowVault.escrows[t].state = "NONE"
             /\ escrowVault.escrows[t].deposited = 0 /\ escrowVault.escrows[t].released = 0
  BY DEF Init, Escrow!EmptyEscrowVault, Escrow!NoEscrow
<1> QED BY <1>3, <1>5, <1>6 DEF KeptDeposits, KeptEscrows

(* The ledger starts with no credit spent.                                    *)
LEMMA InitLedger ==
    ASSUME Init
    PROVE  /\ KeptLedger(ledger)
           /\ \A t \in Tasks, b \in BOOLEAN : ledger.taskCreditPayer[t][b] = Nobody
<1>1. /\ ledger.taskCreditPayer = [t \in Tasks |-> [isPost \in BOOLEAN |-> Nobody]]
      /\ ledger.outstandingTaskCredits = 0
  BY DEF Init, Credits!EmptyLedger
<1>2. ledger \in Credits!LedgerType
  BY DEF Init, Credits!EmptyLedger, Credits!LedgerType
<1>3. Spent(ledger) = {}
  BY <1>1 DEF Spent
<1> QED BY <1>1, <1>2, <1>3, FS_EmptySet DEF KeptLedger

(* The totals start at the sums over no open amount.                          *)
LEMMA InitExposure ==
    ASSUME Init
    PROVE  Exposure
<1>1. /\ tasks = [t \in Tasks |-> NoTask] /\ openTaskTotalUsd6 = 0
      /\ posterOpenTaskTotalUsd6 = [a \in Accounts |-> 0] /\ NoTask.amountUsd6 = 0
      /\ NoTask.poster = Nobody
  BY DEF Init, NoTask
<1> HIDE DEF NoTask
<1>2. OpenAmounts(tasks) = [t \in Tasks |-> 0]
  BY <1>1 DEF OpenAmounts
<1>3. IsFiniteSet(Tasks)
  BY RegistryAssumption
<1>4. SumFunction([t \in Tasks |-> 0]) = 0
  BY <1>3, TotalZero
<1>5. ASSUME NEW a \in Accounts
      PROVE  SumFunctionOnSet(OpenAmounts(tasks), PostedBy(tasks, a)) = 0
  <2>1. IsFiniteSet(PostedBy(tasks, a))
    BY <1>3, FS_Subset DEF PostedBy
  <2>2. \A t \in PostedBy(tasks, a) : OpenAmounts(tasks)[t] = 0
    BY <1>2 DEF PostedBy
  <2> QED BY <2>1, <2>2, SumZero
<1>6. 0 <= OpenTaskCapUsd6 /\ 0 <= PosterCapUsd6
  <2>1. OpenTaskCapUsd6 \in Nat /\ PosterCapBps \in Nat
    BY RegistryAssumption
  <2>2. OpenTaskCapUsd6 * PosterCapBps \in Nat
    BY <2>1, ProductPositive
  <2>3. \A m \in Nat : m \div 10000 >= 0
    OBVIOUS
  <2> QED BY <2>1, <2>2, <2>3 DEF PosterCapUsd6
<1> QED BY <1>1, <1>2, <1>4, <1>5, <1>6 DEF Exposure, Exposed, Capped

(* The initial state satisfies the invariant.                                 *)
LEMMA InitKept == Init => RegistryInv
<1> SUFFICES ASSUME Init PROVE RegistryInv
  OBVIOUS
<1>1. NoTask \in Task /\ SoundTask(NoTask)
  <2>1. NoTask \in Task
    BY DEF NoTask, Task, State
  <2>2. SoundTask(NoTask)
    BY DEF NoTask, SoundTask, Live
  <2> QED BY <2>1, <2>2
<1>2. /\ NoTask.state = "NONE" /\ NoTask.poster = Nobody /\ NoTask.worker = Nobody
      /\ NoTask.funded = 0 /\ NoTask.released = 0 /\ ~NoTask.posterCredit
      /\ ~NoTask.workerCredit
  BY DEF NoTask
<1>3. tasks = [t \in Tasks |-> NoTask] /\ openTaskTotalUsd6 = 0 /\ now = 1
      /\ posterOpenTaskTotalUsd6 = [a \in Accounts |-> 0]
  BY DEF Init
<1> HIDE DEF NoTask
<1>4. tally \in Reputation!TallyType /\ \A t \in Tasks : tally.recorded[t] = FALSE
  BY DEF Init, Reputation!NoTally, Reputation!TallyType
<1>5. RegistryType
  BY <1>1, <1>3, <1>4 DEF RegistryType
<1>6. ASSUME NEW t \in Tasks PROVE LinkedAt(t)
  <2>1. tasks[t] = NoTask
    BY <1>3
  <2>2. EscrowLink(NoTask, escrowVault.escrows[t])
    BY <1>2, InitVaults DEF EscrowLink
  <2>3. CollateralLink(NoTask, vault.taskReservations[t], vault.taskQuotes[t])
    <3>1. NoTask.state \notin Live
      BY <1>2 DEF Live
    <3>2. \A a \in Accounts : vault.taskReservations[t][a].amount = 0
      BY InitVaults
    <3> QED BY <3>1, <3>2 DEF CollateralLink
  <2>4. CreditLink(NoTask, ledger.taskCreditPayer[t])
    BY <1>2, InitLedger DEF CreditLink
  <2>5. RecordLink(NoTask, tally.recorded[t])
    BY <1>4 DEF RecordLink
  <2> QED BY <1>1, <2>1, <2>2, <2>3, <2>4, <2>5 DEF LinkedAt, Linked
<1> QED BY <1>5, <1>6, InitVaults, InitLedger, InitExposure DEF RegistryInv

-------------------------------------------------------------------------------
(* Every step keeps the invariant, and what it does to the tasks.               *)

(* The ways a task ends.                                                      *)
ByCompletion(t) ==
    /\ tasks[t].state = "ACTIVE" /\ tasks'[t].state = "COMPLETED"
    /\ vault'.deposits = vault.deposits

ByCancel(t) ==
    /\ tasks[t].state \in {"POSTED", "CLAIMED"} /\ tasks'[t].state = "CANCELLED"
    /\ CancelRequires(t)
    /\ FeeTaken(t, WorkerPaidFee(t))

ByExpiry(t) ==
    /\ ExpireRequires(t) /\ tasks'[t].state = "CANCELLED"
    /\ FeeTaken(t, ExpiryCompensates(t))
    /\ tally' = IF PosterDefaulted(tasks[t])
                THEN Reputation!RecordPosterExpiry(tally, t, tasks[t].poster) ELSE tally

ByRuling(t, outcome) ==
    /\ tasks[t].state = "DISPUTED" /\ tasks'[t].state = "RESOLVED"
    /\ tasks'[t].resolution = outcome /\ ExitFeeTaken(t, outcome)

Ending(t) ==
    /\ EndedAs(tasks[t], tasks'[t])
    /\ \/ ByCompletion(t) \/ ByCancel(t) \/ ByExpiry(t)
       \/ \E outcome \in Rulings : ByRuling(t, outcome)

TaskMoves(t) == OnlyTask(t) /\ (Progress(tasks[t], tasks'[t]) \/ Ending(t))

(* Nothing happens to a task between its transactions.                         *)
LEMMA QuietKept ==
    ASSUME RegistryInv, UNCHANGED <<registry, ledger, tally>>, now' \in Nat,
           KeptDeposits(vault'), KeptEscrows(escrowVault'),
           escrowVault'.escrows = escrowVault.escrows,
           vault'.taskReservations = vault.taskReservations,
           vault'.taskQuotes = vault.taskQuotes
    PROVE  RegistryInv' /\ tasks' = tasks
<1>1. /\ tasks' = tasks /\ openTaskTotalUsd6' = openTaskTotalUsd6
      /\ posterOpenTaskTotalUsd6' = posterOpenTaskTotalUsd6
      /\ ledger' = ledger /\ tally' = tally
  BY DEF registry
<1>2. RegistryType' /\ Exposure'
  BY <1>1 DEF RegistryInv, RegistryType, Exposure
<1>3. ASSUME NEW t \in Tasks PROVE LinkedAt(t)'
  <2>1. LinkedAt(t)
    BY DEF RegistryInv
  <2> QED BY <1>1, <2>1 DEF LinkedAt
<1> QED BY <1>1, <1>2, <1>3 DEF RegistryInv

(* An account's own calls and the clock keep the invariant, and leave the     *)
(* tasks alone.                                                               *)
LEMMA AccountStepKept ==
    ASSUME RegistryInv, AccountStep \/ Tick
    PROVE  RegistryInv' /\ tasks' = tasks
<1>0. /\ KeptDeposits(vault) /\ KeptEscrows(escrowVault) /\ now \in Nat
      /\ AgentAmounts \subseteq Nat
  BY SMTT(30), RegistryAssumption DEF RegistryInv, RegistryType
<1>1. ASSUME NEW a \in Accounts, NEW n \in AgentAmounts, AgentWithdraw(a, n) \/ GatewayCredit(a, n)
      PROVE  RegistryInv' /\ tasks' = tasks
  <2>1. n \in Nat
    BY <1>0
  <2>2. /\ KeptDeposits(vault') /\ vault'.taskReservations = vault.taskReservations
        /\ vault'.taskQuotes = vault.taskQuotes
    <3>1. CASE AgentWithdraw(a, n)
      BY <1>0, <2>1, <3>1, AccountSteps DEF AgentWithdraw
    <3>2. CASE GatewayCredit(a, n)
      BY <1>0, <2>1, <3>2, AccountSteps DEF GatewayCredit
    <3> QED BY <1>1, <3>1, <3>2
  <2>3. UNCHANGED <<registry, now, escrowVault, ledger, tally>>
    BY <1>1 DEF AgentWithdraw, GatewayCredit
  <2> QED BY <1>0, <2>2, <2>3, QuietKept
<1>2. ASSUME NEW a \in Accounts, ClaimDepositPayout(a)
      PROVE  RegistryInv' /\ tasks' = tasks
  <2>1. /\ KeptDeposits(vault') /\ vault'.taskReservations = vault.taskReservations
        /\ vault'.taskQuotes = vault.taskQuotes
    BY <1>0, <1>2, AccountSteps DEF ClaimDepositPayout
  <2>2. UNCHANGED <<registry, now, escrowVault, ledger, tally>>
    BY <1>2 DEF ClaimDepositPayout
  <2> QED BY <1>0, <2>1, <2>2, QuietKept
<1>3. ASSUME NEW a \in Accounts, ClaimEscrowPayout(a)
      PROVE  RegistryInv' /\ tasks' = tasks
  <2>1. KeptEscrows(escrowVault') /\ escrowVault'.escrows = escrowVault.escrows
    BY <1>0, <1>3, ClaimEscrowStep DEF ClaimEscrowPayout
  <2>2. UNCHANGED <<registry, now, vault, ledger, tally>>
    BY <1>3 DEF ClaimEscrowPayout
  <2> QED BY <1>0, <2>1, <2>2, QuietKept
<1>4. ASSUME Tick PROVE RegistryInv' /\ tasks' = tasks
  BY <1>0, <1>4, QuietKept DEF Tick
<1> QED BY <1>1, <1>2, <1>3, <1>4 DEF AccountStep

(* The amounts of tasks are natural numbers.                                  *)
LEMMA AmountTypes == TaskAmounts \subseteq Nat
BY SMTT(30), RegistryAssumption

(* The shares a ruling may give are shares.                                   *)
LEMMA ShareTypes ==
    ASSUME NEW bps \in WorkerShares
    PROVE  IsShare(bps)
<1>1. WorkerShares \subseteq 0..10000
  BY RegistryAssumption
<1> QED BY <1>1 DEF IsShare, Escrow!FullBps

(* A transaction of the parties moves one task and keeps the invariant.       *)
LEMMA UndisputedKept ==
    ASSUME RegistryInv, NEW t \in Tasks, UndisputedStep(t)
    PROVE  RegistryInv' /\ TaskMoves(t)
<1> DEFINE Good == RegistryInv' /\ TaskMoves(t)
<1> SUFFICES Good
  OBVIOUS
<1>0. tasks[t].totalAmount \in Nat /\ tasks[t].funded \in Nat
  BY InvAt DEF TaskFacts, Task
<1>1. ASSUME NEW p \in Accounts, NEW amount \in TaskAmounts, NEW deadline \in 1..MaxDeadline,
             NEW price \in Prices, NEW earned \in Earnings, NEW refusing \in Refusals,
             Post(p, t, amount, deadline, price, earned, refusing)
      PROVE  Good
  <2>1. TaskAmounts \subseteq Nat
    BY AmountTypes
  <2>2. MaxDeadline \in Nat
    BY RegistryAssumption
  <2>3. amount \in Nat /\ deadline \in Nat
    BY <2>1, <2>2
  <2> QED BY <1>1, <2>3, PostKept DEF TaskMoves
<1>2. ASSUME NEW w \in Accounts, NEW earned \in Earnings, NEW refusing \in Refusals,
             Claim(w, t, earned, refusing)
      PROVE  Good
  BY <1>2, ClaimKept DEF TaskMoves
<1>3. ASSUME NEW amount \in 1..tasks[t].totalAmount, NEW price \in Prices,
             Fund(t, amount, price)
      PROVE  Good
  <2>1. amount \in Nat
    BY <1>0
  <2> QED BY <1>3, <2>1, FundKept DEF TaskMoves
<1>4. ASSUME MarkDelivered(t) PROVE Good
  BY <1>4, MarkDeliveredKept DEF TaskMoves
<1>5. ASSUME NEW n \in 1..tasks[t].funded, NEW refusing \in Refusals, ReleasePart(t, n, refusing)
      PROVE  Good
  <2>1. n \in Nat
    BY <1>0
  <2> QED BY <1>5, <2>1, ReleasePartKept DEF TaskMoves
<1>6. ASSUME NEW refusing \in Refusals, Complete(t, refusing) PROVE Good
  BY <1>6, CompleteKept DEF TaskMoves, OnlyTask, Ending, ByCompletion
<1>7. ASSUME NEW earned \in Earnings, NEW refusing \in Refusals, Cancel(t, earned, refusing)
      PROVE  Good
  BY <1>7, CancelKept DEF TaskMoves, OnlyTask, Ending, ByCancel
<1>8. ASSUME NEW earned \in Earnings, NEW refusing \in Refusals, Expire(t, earned, refusing)
      PROVE  Good
  BY <1>8, ExpireKept DEF TaskMoves, OnlyTask, Ending, ByExpiry
<1> HIDE DEF Good
<1> QED BY <1>1, <1>2, <1>3, <1>4, <1>5, <1>6, <1>7, <1>8 DEF UndisputedStep

(* So does a step of a dispute.                                               *)
LEMMA DisputeKept ==
    ASSUME RegistryInv, NEW t \in Tasks, DisputeStep(t)
    PROVE  RegistryInv' /\ TaskMoves(t)
<1> DEFINE Good == RegistryInv' /\ TaskMoves(t)
<1> SUFFICES Good
  OBVIOUS
<1>1. ASSUME NEW party \in Accounts, OpenDispute(t, party) PROVE Good
  BY <1>1, OpenDisputeKept DEF TaskMoves
<1>2. ASSUME NEW outcome \in Rulings, NEW bps, IsShare(bps), NEW unresolved \in BOOLEAN,
             NEW earned \in Earnings, NEW refusing \in Refusals,
             Settle(t, outcome, bps, unresolved, earned, refusing)
      PROVE  Good
  BY <1>2, SettleKept DEF TaskMoves, OnlyTask, Ending, ByRuling
<1> HIDE DEF Good
<1>3. ASSUME NEW earned \in Earnings, NEW refusing \in Refusals,
             TimeoutDispute(t, earned, refusing)
      PROVE  Good
  <2>1. Settle(t, "MUTUAL", 0, TRUE, earned, refusing)
    BY <1>3 DEF TimeoutDispute
  <2>2. "MUTUAL" \in Rulings /\ IsShare(0) /\ TRUE \in BOOLEAN
    BY DEF Rulings, IsShare, Escrow!FullBps
  <2> QED BY <1>2, <2>1, <2>2
<1>4. ASSUME NEW earned \in Earnings, NEW refusing \in Refusals, NEW outcome \in Rulings,
             NEW bps \in WorkerShares, Rule(t, outcome, bps, earned, refusing)
      PROVE  Good
  <2>1. Settle(t, outcome, bps, FALSE, earned, refusing)
    BY <1>4 DEF Rule
  <2>2. IsShare(bps) /\ FALSE \in BOOLEAN
    BY ShareTypes
  <2> QED BY <1>2, <2>1, <2>2
<1> QED BY <1>1, <1>3, <1>4 DEF DisputeStep

(* Every step keeps the invariant, and leaves the tasks alone or moves one of *)
(* them.                                                                      *)
LEMMA NextKept ==
    ASSUME RegistryInv, [Next]_vars
    PROVE  RegistryInv' /\ (tasks' = tasks \/ \E t \in Tasks : TaskMoves(t))
<1>1. CASE \E t \in Tasks : UndisputedStep(t) \/ DisputeStep(t)
  BY <1>1, UndisputedKept, DisputeKept
<1>2. CASE AccountStep \/ Tick
  BY <1>2, AccountStepKept
<1>3. CASE UNCHANGED vars
  <2>1. UNCHANGED <<registry, ledger, tally, now, vault, escrowVault>>
    BY <1>3 DEF vars
  <2>2. KeptDeposits(vault) /\ KeptEscrows(escrowVault) /\ now \in Nat
    BY DEF RegistryInv, RegistryType
  <2> QED BY <2>1, <2>2, QuietKept
<1> QED BY <1>1, <1>2, <1>3 DEF Next

(* RegistryInv holds in every state the system reaches.                        *)
THEOREM RegistryKept == Spec => []RegistryInv
<1>1. RegistryInv /\ [Next]_vars => RegistryInv'
  BY NextKept
<1> QED BY <1>1, InitKept, PTL DEF Spec

-------------------------------------------------------------------------------
(* What follows from it, whatever the tasks, the accounts, the prices, the       *)
(* ceilings and the windows.                                                  *)

(* Every variable keeps its type: no subtraction of the registry or of a vault   *)
(* it calls goes below zero in any transaction.                               *)
THEOREM RegistryTypeCorrect == Spec => []TypeOK
<1>1. RegistryInv => TypeOK
  BY KeptVaultType, KeptEscrowType
     DEF RegistryInv, RegistryType, VaultFields, KeptLedger, TypeOK
<1> QED BY <1>1, RegistryKept, PTL

(* The registry and the escrow vault never disagree about a task: who its        *)
(* parties are, what is in escrow, whether it is open, frozen or settled.       *)
THEOREM EscrowFollows == Spec => []EscrowFollowsTask
<1>1. RegistryInv => EscrowFollowsTask
  BY DEF RegistryInv, LinkedAt, Linked, EscrowLink, EscrowFollowsTask
<1> QED BY <1>1, RegistryKept, PTL

(* Collateral is locked for exactly the parties of the live tasks.              *)
THEOREM CollateralFollows == Spec => []CollateralFollowsTask
<1>1. RegistryInv => CollateralFollowsTask
  BY DEF RegistryInv, LinkedAt, Linked, CollateralLink, CollateralFollowsTask
<1> QED BY <1>1, RegistryKept, PTL

(* A spent credit is outstanding exactly while its task is live and flagged.     *)
THEOREM CreditsFollow == Spec => []CreditsFollowTask
<1>1. RegistryInv => CreditsFollowTask
  BY DEF RegistryInv, LinkedAt, Linked, CreditLink, SoundTask, CreditsFollowTask
<1> QED BY <1>1, RegistryKept, PTL

(* The running totals are the sums over the tasks, within the global cap and      *)
(* each poster's share of it, and unreleased AZL always has an open amount.      *)
THEOREM ExposureCapped == Spec => []ExposureWithinCaps
<1>1. ASSUME RegistryInv PROVE ExposureWithinCaps
  <2>1. /\ openTaskTotalUsd6 = SumFunction([t \in Tasks |-> tasks[t].amountUsd6])
        /\ \A a \in Accounts :
              posterOpenTaskTotalUsd6[a] =
                 SumFunctionOnSet([t \in Tasks |-> tasks[t].amountUsd6],
                                  {t \in Tasks : tasks[t].poster = a})
    BY <1>1 DEF RegistryInv, Exposure, Exposed, OpenAmounts, PostedBy
  <2>2. /\ openTaskTotalUsd6 <= OpenTaskCapUsd6
        /\ \A a \in Accounts : posterOpenTaskTotalUsd6[a] <= PosterCapUsd6
    BY <1>1 DEF RegistryInv, Exposure, Capped
  <2>3. ASSUME NEW t \in Tasks, tasks[t].state \in Live, RemainingOf(tasks[t]) > 0
        PROVE  tasks[t].amountUsd6 > 0
    <3>1. SoundTask(tasks[t]) /\ tasks[t] \in Task
      BY <1>1, InvAt DEF TaskFacts
    <3>2. tasks[t].released < tasks[t].funded
      BY <2>3, <3>1 DEF RemainingOf, Task
    <3> QED BY <2>3, <3>1, <3>2 DEF SoundTask
  <2> QED BY <2>1, <2>2, <2>3 DEF ExposureWithinCaps
<1> QED BY <1>1, RegistryKept, PTL

(* No ending of a task can revert in a contract it calls: completing, cancelling  *)
(* and expiring are accepted whenever the registry's own conditions hold, and a   *)
(* disputed task can be given any ruling.                                      *)
THEOREM EndingsAccepted == Spec => []EndingsNeverRevert
<1>1. ASSUME RegistryInv PROVE EndingsNeverRevert
  <2> SUFFICES ASSUME NEW t \in Tasks
               PROVE  /\ CompleteRequires(t) => FinalizeAccepted(t, RemainingOf(tasks[t]))
                      /\ CancelRequires(t) => CancelAccepted(t)
                      /\ ExpireRequires(t) => ExpireAccepted(t)
                      /\ tasks[t].state = "DISPUTED" =>
                            \A outcome \in Rulings :
                                /\ SettleRequires(t, outcome)
                                /\ ResolveAccepted(t, outcome)
                                /\ \A bps \in WorkerShares :
                                      Escrow!CanSettleEscrow(escrowVault, t, bps)
    BY DEF EndingsNeverRevert
  <2>1. CompleteRequires(t) => FinalizeAccepted(t, RemainingOf(tasks[t]))
    BY <1>1, CompleteAccepted
  <2>2. CancelRequires(t) => CancelAccepted(t)
    BY <1>1, CancelAlways
  <2>3. ExpireRequires(t) => ExpireAccepted(t)
    BY <1>1, ExpireAlways
  <2>4. ASSUME tasks[t].state = "DISPUTED", NEW outcome \in Rulings
        PROVE  /\ SettleRequires(t, outcome) /\ ResolveAccepted(t, outcome)
               /\ \A bps \in WorkerShares : Escrow!CanSettleEscrow(escrowVault, t, bps)
    <3>1. /\ SettleRequires(t, outcome) /\ ResolveAccepted(t, outcome)
          /\ \A bps : IsShare(bps) => Escrow!CanSettleEscrow(escrowVault, t, bps)
      BY <1>1, <2>4, RulingAlways
    <3> QED BY <3>1, ShareTypes
  <2> QED BY <2>1, <2>2, <2>3, <2>4
<1> QED BY <1>1, RegistryKept, PTL

-------------------------------------------------------------------------------
(* Who pays, and for what.                                                    *)

Pays(a) == vault'.deposits[a] < vault.deposits[a]

(* What leaves the deposit is within the collateral reserved for task t.        *)
Within(t, a) ==
    vault.deposits[a] - vault'.deposits[a] <= vault.taskReservations[t][a].amount

(* Taking n off one account's deposit lowers no other deposit.                 *)
LEMMA OnlyPayer ==
    ASSUME NEW f \in [Accounts -> Nat], NEW a \in Accounts, NEW n \in Nat, NEW b \in Accounts
    PROVE  Deposits!Minus(f, a, n)[b] = IF b = a THEN f[b] - n ELSE f[b]
BY DEF Deposits!Minus

(* One account's deposit was debited.                                          *)
LEMMA DebitedPays ==
    ASSUME RegistryInv, NEW a \in Accounts, NEW n \in Nat,
           vault'.deposits = Deposits!Minus(vault.deposits, a, n), NEW b \in Accounts, Pays(b)
    PROVE  b = a /\ n > 0 /\ vault.deposits[b] - vault'.deposits[b] = n
<1>1. vault.deposits \in [Accounts -> Nat]
  BY KeptVaultType DEF RegistryInv, VaultFields
<1>2. vault'.deposits[b] = IF b = a THEN vault.deposits[b] - n ELSE vault.deposits[b]
  BY <1>1, OnlyPayer
<1>3. vault.deposits[b] \in Nat /\ vault'.deposits[b] < vault.deposits[b]
  BY <1>1 DEF Pays
<1> QED BY <1>2, <1>3

(* Nobody's deposit was touched.                                              *)
LEMMA NobodyPays ==
    ASSUME RegistryInv, vault'.deposits = vault.deposits, NEW a \in Accounts
    PROVE  ~Pays(a)
<1>1. vault.deposits[a] \in Nat
  BY KeptVaultType DEF RegistryInv, VaultFields
<1> QED BY <1>1 DEF Pays

(* Who posted a task, and who claimed it.                                      *)
LEMMA PostedFields ==
    ASSUME NEW p, NEW amount, NEW deadline, NEW usd6, NEW waived \in BOOLEAN
    PROVE  LET j == PostedTask(p, amount, deadline, usd6, waived)
           IN  j.state = "POSTED" /\ j.poster = p /\ j.posterCredit = waived
BY DEF PostedTask, NoTask

LEMMA ClaimedFields ==
    ASSUME NEW k \in Task, NEW w, NEW until, NEW waived \in BOOLEAN
    PROVE  LET j == ClaimedBy(k, w, until, waived)
           IN  j.state = "CLAIMED" /\ j.worker = w /\ j.workerCredit = waived
BY DEF ClaimedBy, Task

(* Whoever pays when a task is posted is its poster, without a credit.          *)
LEMMA PostCharges ==
    ASSUME RegistryInv, NEW p \in Accounts, NEW t \in Tasks, NEW amount, NEW deadline,
           NEW price \in Prices, NEW earned, NEW refusing,
           Post(p, t, amount, deadline, price, earned, refusing), NEW a \in Accounts, Pays(a)
    PROVE  PaysToEnter(t, a)
<1> DEFINE waived == Credits!Spends(ledger, p, t, TRUE, earned)
           quote == PolicyQuote[price]
           fee == Deposits!AccessFee(quote, waived)
           usd6 == ParUsd6(amount, price)
           j == PostedTask(p, amount, deadline, usd6, waived)
<1>1. /\ tasks[t].state = "NONE"
      /\ tasks' = [tasks EXCEPT ![t] = j]
      /\ vault' = Deposits!Reserve(vault, t, p, waived, TRUE, quote, refusing)
  BY DEF Post, PostedTask
<1>2. tasks \in [Tasks -> Task] /\ KeptDeposits(vault)
  BY DEF RegistryInv, RegistryType
<1>3. quote \in Deposits!QuoteType
  <2>1. quote \in PolicyQuotes
    BY DEF PolicyQuotes
  <2>2. PolicyQuotes \subseteq DP!QuoteType
    BY VaultConstants DEF DP!VaultAssumption
  <2> QED BY <2>1, <2>2 DEF DP!QuoteType, Deposits!QuoteType
<1>4. fee \in Nat /\ (waived => fee = 0)
  BY <1>3 DEF Deposits!AccessFee, Deposits!QuoteType
<1>5. waived \in BOOLEAN
  BY DEF Credits!Spends
<1> HIDE DEF waived, usd6, quote
<1>6. j.state = "POSTED" /\ j.poster = p /\ j.posterCredit = waived
  BY <1>5, PostedFields
<1>7. Deposits!QuoteFor(vault, t, TRUE, quote) = quote
  BY DEF Deposits!QuoteFor
<1>8. vault'.deposits = Deposits!Minus(vault.deposits, p, fee)
  <2> HIDE DEF fee, j
  <2>1. vault \in Deposits!VaultType
    BY <1>2, KeptVaultType DEF VaultFields
  <2>2. vault'.deposits = Deposits!Minus(vault.deposits, p,
            Deposits!AccessFee(Deposits!QuoteFor(vault, t, TRUE, quote), waived))
    BY <1>1, <2>1 DEF Deposits!Reserve, Deposits!PayOrDefer, Deposits!Debit, Deposits!VaultType
  <2> QED BY <1>7, <2>2 DEF fee
<1> HIDE DEF fee, j
<1>9. a = p /\ fee > 0
  BY <1>4, <1>8, DebitedPays
<1>10. tasks'[t] = j
  BY <1>1, <1>2
<1> QED BY <1>1, <1>4, <1>6, <1>9, <1>10 DEF PaysToEnter

(* Whoever pays when a task is claimed is its worker, without a credit.         *)
LEMMA ClaimCharges ==
    ASSUME RegistryInv, NEW w \in Accounts, NEW t \in Tasks, NEW earned, NEW refusing,
           Claim(w, t, earned, refusing), NEW a \in Accounts, Pays(a)
    PROVE  PaysToEnter(t, a)
<1> DEFINE waived == Credits!Spends(ledger, w, t, FALSE, earned)
           quote == vault.taskQuotes[t]
           fee == Deposits!AccessFee(quote, waived)
           j == ClaimedBy(tasks[t], w, now + FundingWindow, waived)
<1>1. /\ tasks[t].state = "POSTED"
      /\ tasks' = [tasks EXCEPT ![t] = j]
      /\ vault' = Deposits!Reserve(vault, t, w, waived, FALSE, quote, refusing)
  BY DEF Claim, ClaimedBy
<1>2. tasks \in [Tasks -> Task] /\ KeptDeposits(vault)
  BY DEF RegistryInv, RegistryType
<1>3. quote \in Deposits!QuoteType
  BY KeptVaultType DEF RegistryInv, VaultFields
<1>4. fee \in Nat /\ (waived => fee = 0)
  BY <1>3 DEF Deposits!AccessFee, Deposits!QuoteType
<1>5. waived \in BOOLEAN
  BY DEF Credits!Spends
<1>6. Deposits!QuoteFor(vault, t, FALSE, quote) = quote
  BY DEF Deposits!QuoteFor
<1> HIDE DEF waived, quote
<1>7. j.state = "CLAIMED" /\ j.worker = w /\ j.workerCredit = waived
  BY <1>2, <1>5, ClaimedFields
<1>8. vault'.deposits = Deposits!Minus(vault.deposits, w, fee)
  <2> HIDE DEF fee, j
  <2>1. vault \in Deposits!VaultType
    BY <1>2, KeptVaultType DEF VaultFields
  <2>2. vault'.deposits = Deposits!Minus(vault.deposits, w,
            Deposits!AccessFee(Deposits!QuoteFor(vault, t, FALSE, quote), waived))
    BY <1>1, <2>1 DEF Deposits!Reserve, Deposits!PayOrDefer, Deposits!Debit, Deposits!VaultType
  <2> QED BY <1>6, <2>2 DEF fee
<1> HIDE DEF fee, j
<1>9. a = w /\ fee > 0
  BY <1>4, <1>8, DebitedPays
<1>10. tasks'[t] = j
  BY <1>1, <1>2
<1> QED BY <1>1, <1>4, <1>7, <1>9, <1>10 DEF PaysToEnter

(* A task that was live and has ended is the one that the step was about.        *)
LEMMA EndedBy ==
    ASSUME RegistryInv, [Next]_vars, NEW t \in Tasks,
           tasks[t].state \in Live, tasks'[t].state \in Terminal
    PROVE  Ending(t)
<1>1. tasks[t].state \notin Terminal
  BY DEF Live, Terminal
<1>2. PICK s \in Tasks : TaskMoves(s)
  BY <1>1, NextKept
<1>3. s = t
  BY <1>1, <1>2 DEF TaskMoves, OnlyTask
<1>4. ~ Progress(tasks[t], tasks'[t])
  BY DEF Progress, Terminal
<1> QED BY <1>2, <1>3, <1>4 DEF TaskMoves

(* Whoever pays the compensation of a cancelled or expired task is its poster.   *)
LEMMA FeeCharges ==
    ASSUME RegistryInv, NEW t \in Tasks, tasks[t].state \in Live, NEW due \in BOOLEAN,
           CanCompensate(vault, t, due), FeeTaken(t, due), NEW a \in Accounts, Pays(a)
    PROVE  due /\ a = tasks[t].poster /\ Within(t, a)
<1> DEFINE p == tasks[t].poster
           fee == vault.taskQuotes[t].accessFee
<1>1. TaskFacts(t) /\ tasks[t].state # "NONE" /\ VaultFields(vault)
  BY InvAt, KeptVaultType DEF RegistryInv, Live
<1>2. p \in Accounts /\ p \in Parties(tasks[t])
  BY <1>1, PostedHas
<1>3. due
  BY NobodyPays DEF FeeTaken
<1>4. fee \in Nat
  BY <1>1 DEF VaultFields, Deposits!QuoteType
<1>5. vault'.deposits = Deposits!Minus(vault.deposits, p, fee)
  BY <1>3 DEF FeeTaken
<1>6. fee <= vault.taskReservations[t][p].amount
  <2>1. vault.taskReservations[t][p].accessCompensation = fee
    BY <1>1, <1>2 DEF TaskFacts, CollateralLink
  <2> QED BY <1>3, <2>1 DEF CanCompensate, Deposits!CanDebitAccessFee
<1> HIDE DEF fee
<1>7. a = p /\ vault.deposits[a] - vault'.deposits[a] = fee
  BY <1>2, <1>4, <1>5, DebitedPays
<1> QED BY <1>3, <1>6, <1>7 DEF Within

(* Whoever pays when a task ends is at fault, and pays out of its collateral.    *)
LEMMA EndingCharges ==
    ASSUME RegistryInv, NEW t \in Tasks, tasks[t].state \in Live, Ending(t),
           NEW a \in Accounts, Pays(a)
    PROVE  /\ LosesRuling(t, a) \/ LeavesUnfunded(t, a) \/ LeavesUnpaid(t, a)
           /\ Within(t, a)
<1> DEFINE k == tasks[t]
           Good == /\ LosesRuling(t, a) \/ LeavesUnfunded(t, a) \/ LeavesUnpaid(t, a)
                   /\ Within(t, a)
<1> SUFFICES Good
  OBVIOUS
<1>1. TaskFacts(t) /\ k.state # "NONE" /\ k \in Task /\ VaultFields(vault)
  BY InvAt, KeptVaultType DEF RegistryInv, TaskFacts, Live
<1>2. ~ByCompletion(t)
  BY NobodyPays DEF ByCompletion
<1>3. CASE ByCancel(t)
  <2>1. CanCompensate(vault, t, WorkerPaidFee(t)) /\ WorkerPaidFee(t) \in BOOLEAN
    BY <1>3, CancelAlways DEF ByCancel, CancelAccepted, WorkerPaidFee
  <2>2. WorkerPaidFee(t) /\ a = k.poster /\ Within(t, a)
    BY <1>3, <2>1, FeeCharges DEF ByCancel
  <2>3. k.state = "CLAIMED" /\ ~k.workerCredit /\ k.funded = 0
    BY <1>1, <1>3, <2>2 DEF ByCancel, CancelRequires, WorkerPaidFee, TaskFacts, SoundTask
  <2> QED BY <1>3, <2>2, <2>3 DEF ByCancel, LeavesUnfunded
<1>4. CASE ByExpiry(t)
  <2>1. CanCompensate(vault, t, ExpiryCompensates(t)) /\ ExpiryCompensates(t) \in BOOLEAN
    BY <1>4, ExpireAlways, ExpiryFacts DEF ByExpiry, ExpireAccepted
  <2>2. ExpiryCompensates(t) /\ a = k.poster /\ Within(t, a)
    BY <1>4, <2>1, FeeCharges DEF ByExpiry
  <2>3. CASE PosterDefaulted(k)
    <3>1. k.state = "ACTIVE" /\ k.released \in Nat /\ k.funded \in Nat
      BY <1>1, <1>4, <2>3, ExpiryFacts DEF ByExpiry, Task
    <3>2. k.released < k.funded
      BY <2>3, <3>1 DEF PosterDefaulted, RemainingOf
    <3> QED BY <1>4, <2>2, <2>3, <3>1, <3>2 DEF ByExpiry, PosterDefaulted, LeavesUnpaid
  <2>4. CASE ~PosterDefaulted(k)
    <3>1. k.state = "CLAIMED" /\ ~k.workerCredit
      BY <2>2, <2>4 DEF ExpiryCompensates, Underfunded, WorkerPaidFee
    <3>2. now > k.deadline \/ now > k.fundingDeadline
      BY <1>4 DEF ByExpiry, ExpireRequires
    <3> QED BY <1>4, <2>2, <3>1, <3>2 DEF ByExpiry, LeavesUnfunded
  <2> QED BY <2>3, <2>4
<1>5. ASSUME NEW outcome \in Rulings, ByRuling(t, outcome) PROVE Good
  <2> DEFINE b == Defaulter(k, outcome)
             fee == Deposits!ExitFee(vault, t, b)
  <2>1. k.poster \in Accounts /\ k.worker \in Accounts /\ k.state = "DISPUTED"
    BY <1>1, <1>5, ClaimedHas DEF ByRuling
  <2>2. Decided(outcome)
    BY <1>5, NobodyPays DEF ByRuling, ExitFeeTaken
  <2>3. b \in Accounts
    BY <2>1 DEF Defaulter
  <2>4. fee \in Nat /\ fee <= vault.taskReservations[t][b].amount
    <3>1. Deposits!CanDebitExitFee(vault, t, b)
      BY <2>1, <2>2, RulingAlways DEF ResolveAccepted
    <3>2. vault.taskReservations[t][b] \in Deposits!ReservationType
      BY <1>1, <2>3 DEF VaultFields
    <3> QED BY <3>1, <3>2 DEF Deposits!CanDebitExitFee, Deposits!ExitFee, Deposits!ReservationType
  <2>5. vault'.deposits = Deposits!Minus(vault.deposits, b, fee)
    BY <1>5, <2>2 DEF ByRuling, ExitFeeTaken
  <2>6. \/ outcome = "POSTER_WINS" /\ b = k.worker
        \/ outcome = "WORKER_WINS" /\ b = k.poster
    BY <2>2 DEF Decided, Defaulter
  <2> HIDE DEF b, fee
  <2>7. a = b /\ vault.deposits[a] - vault'.deposits[a] = fee
    BY <2>3, <2>4, <2>5, DebitedPays
  <2> QED BY <1>5, <2>4, <2>6, <2>7 DEF ByRuling, LosesRuling, Within
<1> HIDE DEF Good
<1> QED BY <1>2, <1>3, <1>4, <1>5 DEF Ending

(* Between the transactions of tasks an account pays only what it takes out.     *)
LEMMA AccountCharges ==
    ASSUME RegistryInv, AccountStep \/ Tick, NEW a \in Accounts, Pays(a)
    PROVE  TakesOut(a)
<1>0. VaultFields(vault) /\ vault \in Deposits!VaultType
  BY KeptVaultType DEF RegistryInv, VaultFields
<1>1. ASSUME NEW b \in Accounts, NEW n \in AgentAmounts, AgentWithdraw(b, n)
      PROVE  TakesOut(a)
  <2>1. n \in Nat
    BY SMTT(30), RegistryAssumption
  <2>2. vault'.deposits = Deposits!Minus(vault.deposits, b, n)
    BY <1>0, <1>1 DEF AgentWithdraw, Deposits!Withdraw, Deposits!Debit, Deposits!VaultType
  <2>3. a = b
    BY <2>1, <2>2, DebitedPays
  <2>4. \A c \in Accounts \ {a} : vault'.deposits[c] >= vault.deposits[c]
    BY <1>0, <2>1, <2>2, <2>3, OnlyPayer DEF VaultFields
  <2> QED BY <1>1, <2>4 DEF AgentWithdraw, registry, TakesOut
<1>2. ASSUME NEW b \in Accounts, NEW n \in AgentAmounts, GatewayCredit(b, n)
      PROVE  FALSE
  <2>1. n \in Nat
    BY SMTT(30), RegistryAssumption
  <2>2. vault'.deposits = [vault.deposits EXCEPT ![b] = vault.deposits[b] + n]
    BY <1>0, <1>2 DEF GatewayCredit, Deposits!Credit, Deposits!Receive, Deposits!Plus,
                      Deposits!VaultType
  <2> QED BY <1>0, <2>1, <2>2 DEF VaultFields, Pays
<1>3. ASSUME NEW b \in Accounts, ClaimDepositPayout(b) PROVE FALSE
  <2>1. vault'.deposits = vault.deposits
    BY <1>0, <1>3 DEF ClaimDepositPayout, Deposits!ClaimPayout, Deposits!VaultType
  <2> QED BY <2>1, NobodyPays
<1>4. ASSUME UNCHANGED vault PROVE FALSE
  BY <1>4, NobodyPays
<1> QED BY <1>1, <1>2, <1>3, <1>4 DEF AccountStep, ClaimEscrowPayout, Tick

(* Whoever pays in a transaction of task t enters it or is at fault.            *)
LEMMA TaskCharges ==
    ASSUME RegistryInv, [Next]_vars, NEW t \in Tasks, UndisputedStep(t) \/ DisputeStep(t),
           NEW a \in Accounts, Pays(a)
    PROVE  \/ PaysToEnter(t, a)
           \/ /\ LosesRuling(t, a) \/ LeavesUnfunded(t, a) \/ LeavesUnpaid(t, a)
              /\ Within(t, a)
<1>1. CASE \E p \in Accounts, amount \in TaskAmounts, deadline \in 1..MaxDeadline,
              price \in Prices, earned \in Earnings, refusing \in Refusals :
                 Post(p, t, amount, deadline, price, earned, refusing)
  BY <1>1, PostCharges
<1>2. CASE \E w \in Accounts, earned \in Earnings, refusing \in Refusals :
              Claim(w, t, earned, refusing)
  BY <1>2, ClaimCharges
<1>3. CASE UNCHANGED vault
  BY <1>3, NobodyPays
<1>4. CASE Ending(t) /\ tasks[t].state \in Live
  BY <1>4, EndingCharges
<1>5. CASE UndisputedStep(t)
  <2>1. ASSUME NEW refusing \in Refusals, Complete(t, refusing)
        PROVE  Ending(t) /\ tasks[t].state \in Live
    BY <2>1, CompleteKept DEF Ending, ByCompletion, Live
  <2>2. ASSUME NEW earned \in Earnings, NEW refusing \in Refusals, Cancel(t, earned, refusing)
        PROVE  Ending(t) /\ tasks[t].state \in Live
    BY <2>2, CancelKept DEF Ending, ByCancel, Live
  <2>3. ASSUME NEW earned \in Earnings, NEW refusing \in Refusals, Expire(t, earned, refusing)
        PROVE  Ending(t) /\ tasks[t].state \in Live
    BY <2>3, ExpireKept, ExpiryFacts DEF Ending, ByExpiry
  <2>4. ASSUME NEW n, NEW price, NEW refusing,
               Fund(t, n, price) \/ MarkDelivered(t) \/ ReleasePart(t, n, refusing)
        PROVE  UNCHANGED vault
    BY <2>4 DEF Fund, MarkDelivered, ReleasePart
  <2> QED BY <1>1, <1>2, <1>3, <1>4, <1>5, <2>1, <2>2, <2>3, <2>4 DEF UndisputedStep
<1>6. CASE DisputeStep(t)
  <2>1. ASSUME NEW party \in Accounts, OpenDispute(t, party) PROVE UNCHANGED vault
    BY <2>1 DEF OpenDispute
  <2>2. ASSUME NEW outcome \in Rulings, NEW bps, IsShare(bps), NEW unresolved \in BOOLEAN,
               NEW earned \in Earnings, NEW refusing \in Refusals,
               Settle(t, outcome, bps, unresolved, earned, refusing)
        PROVE  Ending(t) /\ tasks[t].state \in Live
    BY <2>2, SettleKept DEF Ending, ByRuling, Live
  <2>3. ASSUME NEW earned \in Earnings, NEW refusing \in Refusals,
               TimeoutDispute(t, earned, refusing)
        PROVE  Ending(t) /\ tasks[t].state \in Live
    <3>1. Settle(t, "MUTUAL", 0, TRUE, earned, refusing)
      BY <2>3 DEF TimeoutDispute
    <3>2. "MUTUAL" \in Rulings /\ IsShare(0) /\ TRUE \in BOOLEAN
      BY DEF Rulings, IsShare, Escrow!FullBps
    <3> QED BY <2>2, <3>1, <3>2
  <2>4. ASSUME NEW earned \in Earnings, NEW refusing \in Refusals, NEW outcome \in Rulings,
               NEW bps \in WorkerShares, Rule(t, outcome, bps, earned, refusing)
        PROVE  Ending(t) /\ tasks[t].state \in Live
    <3>1. Settle(t, outcome, bps, FALSE, earned, refusing)
      BY <2>4 DEF Rule
    <3>2. IsShare(bps) /\ FALSE \in BOOLEAN
      BY ShareTypes
    <3> QED BY <2>2, <3>1, <3>2
  <2> QED BY <1>3, <1>4, <1>6, <2>1, <2>3, <2>4 DEF DisputeStep
<1> QED BY <1>5, <1>6

(* No step takes from a deposit otherwise than by its owner's withdrawal, its fee  *)
(* on entering a task, or out of its collateral for its own fault: a lost ruling,  *)
(* or a worker left unfunded or unpaid.                                        *)
THEOREM ChargedForFaultOnly == Spec => ChargedOnlyForFault
<1>1. ASSUME RegistryInv, [Next]_vars PROVE \A a \in Accounts : ChargedFairly(a)
  <2> SUFFICES ASSUME NEW a \in Accounts, Pays(a)
               PROVE  \/ TakesOut(a)
                      \/ \E t \in Tasks : PaysToEnter(t, a)
                      \/ \E t \in Tasks :
                            /\ \/ LosesRuling(t, a) \/ LeavesUnfunded(t, a)
                               \/ LeavesUnpaid(t, a)
                            /\ Within(t, a)
    BY DEF ChargedFairly, Pays, Within
  <2>1. CASE \E t \in Tasks : UndisputedStep(t) \/ DisputeStep(t)
    BY <1>1, <2>1, TaskCharges
  <2>2. CASE AccountStep \/ Tick
    BY <1>1, <2>2, AccountCharges
  <2>3. CASE UNCHANGED vars
    BY <1>1, <2>3, NobodyPays DEF vars
  <2> QED BY <1>1, <2>1, <2>2, <2>3 DEF Next
<1> QED BY <1>1, RegistryKept, PTL DEF Spec, ChargedOnlyForFault

(* A timely delivery cannot be expired for free: its task ends by expiry only     *)
(* after the grace, the poster is charged the access fee for the worker and        *)
(* takes a loss.                                                              *)
LEMMA ExpiryIsPaid ==
    ASSUME RegistryInv, [Next]_vars, NEW t \in Tasks, tasks[t].state = "ACTIVE",
           WasTimelyDelivered(tasks[t]), tasks'[t].state = "CANCELLED"
    PROVE  LET poster == tasks[t].poster
           IN  /\ now > tasks[t].deliveredAt + DeliveryGrace
               /\ vault'.deposits[poster] = vault.deposits[poster] - vault.taskQuotes[t].accessFee
               /\ tally'.losses[poster] = tally.losses[poster] + 1
<1> DEFINE k == tasks[t]
           p == k.poster
<1>1. Ending(t)
  BY EndedBy DEF Live, Terminal
<1>2. ByExpiry(t)
  BY <1>1 DEF Ending, ByCompletion, ByCancel, ByRuling
<1>3. /\ TaskFacts(t) /\ vault.deposits \in [Accounts -> Nat] /\ k.state # "NONE"
      /\ TallyFields(tally)
  BY InvAt, KeptVaultType, TallyHas DEF RegistryInv, VaultFields, RegistryType
<1>4. p \in Accounts /\ k.released < k.funded /\ k.released \in Nat /\ k.funded \in Nat
  BY <1>3, PostedHas DEF TaskFacts, SoundTask, Task
<1>5. PosterDefaulted(k)
  <2>1. RemainingOf(k) # 0
    BY <1>4 DEF RemainingOf
  <2> QED BY <1>2, <2>1 DEF ByExpiry, ExpireRequires
<1>6. now > k.deliveredAt + DeliveryGrace
  BY <1>5 DEF PosterDefaulted
<1>7. vault'.deposits[p] = vault.deposits[p] - vault.taskQuotes[t].accessFee
  <2>1. ExpiryCompensates(t)
    BY <1>5 DEF ExpiryCompensates
  <2> QED BY <1>2, <1>3, <1>4, <2>1 DEF ByExpiry, FeeTaken, Deposits!Minus
<1>8. tally'.losses[p] = tally.losses[p] + 1
  <2>1. tally' = Reputation!RecordPosterExpiry(tally, t, p)
    BY <1>2, <1>5 DEF ByExpiry
  <2>2. tally \in Reputation!TallyType
    BY DEF RegistryInv, RegistryType
  <2>3. tally'.losses = [tally.losses EXCEPT ![p] = tally.losses[p] + 1]
    BY <2>1, <2>2 DEF Reputation!RecordPosterExpiry, Reputation!Recorded, Reputation!Plus,
                      Reputation!TallyType
  <2> QED BY <1>3, <1>4, <2>3 DEF TallyFields
<1> QED BY <1>6, <1>7, <1>8

(* A delivery in time is not expired for free, of task t.                        *)
ExpiryPaid(t) ==
    /\ tasks[t].state = "ACTIVE" /\ WasTimelyDelivered(tasks[t])
    /\ tasks'[t].state = "CANCELLED"
    => LET poster == tasks[t].poster
       IN  /\ now > tasks[t].deliveredAt + DeliveryGrace
           /\ vault'.deposits[poster] = vault.deposits[poster] - vault.taskQuotes[t].accessFee
           /\ tally'.losses[poster] = tally.losses[poster] + 1

(* A step that cancels an active task which was delivered in time is the poster's  *)
(* default: only after the grace, for the access fee, and as a loss.             *)
THEOREM NoFreeExpiry == Spec => DeliveryNotExpiredForFree
<1>1. RegistryInv /\ [Next]_vars => \A t \in Tasks : ExpiryPaid(t)
  <2> SUFFICES ASSUME RegistryInv, [Next]_vars, NEW t \in Tasks, tasks[t].state = "ACTIVE",
                      WasTimelyDelivered(tasks[t]), tasks'[t].state = "CANCELLED"
               PROVE  ExpiryPaid(t)
    BY DEF ExpiryPaid
  <2> QED BY ExpiryIsPaid DEF ExpiryPaid
<1>2. (\A t \in Tasks : ExpiryPaid(t)) =>
         \A t \in Tasks :
            /\ tasks[t].state = "ACTIVE" /\ WasTimelyDelivered(tasks[t])
            /\ tasks'[t].state = "CANCELLED"
            => LET poster == tasks[t].poster
               IN  /\ now > tasks[t].deliveredAt + DeliveryGrace
                   /\ vault'.deposits[poster]
                         = vault.deposits[poster] - vault.taskQuotes[t].accessFee
                   /\ tally'.losses[poster] = tally.losses[poster] + 1
  BY DEF ExpiryPaid
<1> QED BY <1>1, <1>2, RegistryKept, PTL DEF Spec, DeliveryNotExpiredForFree

-------------------------------------------------------------------------------
(* The registry implements the life of a task (TaskLifecycle).                   *)

(* What TaskRegistry substitutes for the variables of TaskLifecycle ...          *)
StageNow ==
    [t \in Tasks |->
        CASE tasks[t].state = "NONE" -> "none"
          [] tasks[t].state = "POSTED" -> "offered"
          [] tasks[t].state \in {"CLAIMED", "ACTIVE"} -> "taken"
          [] tasks[t].state = "DISPUTED" -> "frozen"
          [] OTHER -> "over"]

LockedNow == [t \in Tasks |-> {a \in Accounts : vault.taskReservations[t][a].amount > 0}]

HeldNow == [t \in Tasks |-> Escrow!Remaining(escrowVault, t)]

(* ... follows, by the invariant, from the records of the tasks.                 *)
StageOf(k) ==
    CASE k.state = "NONE" -> "none"
      [] k.state = "POSTED" -> "offered"
      [] k.state \in {"CLAIMED", "ACTIVE"} -> "taken"
      [] k.state = "DISPUTED" -> "frozen"
      [] OTHER -> "over"

LockedOf(k) == IF k.state \in Live THEN Parties(k) ELSE {}
HeldOf(k) == IF k.state \in Live THEN RemainingOf(k) ELSE 0

Viewed ==
    /\ StageNow = [t \in Tasks |-> StageOf(tasks[t])]
    /\ LockedNow = [t \in Tasks |-> LockedOf(tasks[t])]
    /\ HeldNow = [t \in Tasks |-> HeldOf(tasks[t])]

(* What the escrow of a task holds.                                              *)
LEMMA HeldAt ==
    ASSUME RegistryInv, NEW t \in Tasks
    PROVE  Escrow!Remaining(escrowVault, t) = HeldOf(tasks[t])
<1> DEFINE k == tasks[t]
           e == escrowVault.escrows[t]
<1>1. TaskFacts(t)
  BY InvAt
<1>2. e \in Escrow!Escrow
  BY KeptEscrowType DEF RegistryInv
<1>3. /\ e.deposited \in Nat /\ e.released \in Nat
      /\ e.state \in {"NONE", "FUNDED", "FROZEN", "SETTLED"}
  BY <1>2 DEF Escrow!Escrow, Escrow!EscrowState
<1>4. /\ e.deposited = k.funded
      /\ k.state \in Live => e.released = k.released
      /\ e.state = "FUNDED" => k.state \in Live
      /\ e.state = "FROZEN" => k.state \in Live
  BY <1>1 DEF TaskFacts, EscrowLink, Live
<1>5. /\ e.released <= e.deposited
      /\ e.state = "SETTLED" => e.released = e.deposited
      /\ e.state = "NONE" => e.deposited = 0
  BY <1>1 DEF TaskFacts, SoundEscrow
<1>6. CASE k.state \in Live
  <2>1. Escrow!Remaining(escrowVault, t) = e.deposited - e.released
    BY DEF Escrow!Remaining
  <2>2. HeldOf(k) = k.funded - k.released
    BY <1>6 DEF HeldOf, RemainingOf
  <2>3. e.deposited = k.funded /\ e.released = k.released
    BY <1>4, <1>6
  <2> QED BY <2>1, <2>2, <2>3
<1>7. CASE k.state \notin Live
  <2>1. e.deposited - e.released = 0
    BY <1>3, <1>4, <1>5, <1>7
  <2> QED BY <1>7, <2>1 DEF Escrow!Remaining, HeldOf
<1> QED BY <1>6, <1>7

(* Whose collateral a task holds.                                                *)
LEMMA LockedAt ==
    ASSUME RegistryInv, NEW t \in Tasks
    PROVE  {a \in Accounts : vault.taskReservations[t][a].amount > 0} = LockedOf(tasks[t])
<1> DEFINE k == tasks[t]
           L == {a \in Accounts : vault.taskReservations[t][a].amount > 0}
<1>1. TaskFacts(t)
  BY InvAt
<1>2. \A a \in Accounts :
         vault.taskReservations[t][a].amount > 0 <=> (k.state \in Live /\ a \in Parties(k))
  BY <1>1 DEF TaskFacts, CollateralLink
<1>3. CASE k.state \in Live
  <2>1. Parties(k) \subseteq Accounts
    BY <1>1, <1>3, PostedHas DEF Parties, Live
  <2>2. \A a : a \in L <=> a \in Parties(k)
    BY <1>2, <1>3, <2>1
  <2>3. L = Parties(k)
    BY <2>2
  <2> QED BY <1>3, <2>3 DEF LockedOf
<1>4. CASE k.state \notin Live
  BY <1>2, <1>4 DEF LockedOf
<1> QED BY <1>3, <1>4

(* The two views of a task agree.                                             *)
LEMMA ViewedNow == RegistryInv => Viewed
<1> SUFFICES ASSUME RegistryInv PROVE Viewed
  OBVIOUS
<1>1. StageNow = [t \in Tasks |-> StageOf(tasks[t])]
  BY DEF StageNow, StageOf
<1>2. LockedNow = [t \in Tasks |-> LockedOf(tasks[t])]
  BY LockedAt DEF LockedNow
<1>3. HeldNow = [t \in Tasks |-> HeldOf(tasks[t])]
  BY HeldAt DEF HeldNow
<1> QED BY <1>1, <1>2, <1>3 DEF Viewed

(* The same of the next state.                                                  *)
LEMMA ViewedNext == RegistryInv' => Viewed'
BY ViewedNow, PTL

(* The view after a step on task t: only its entry changes.                        *)
ViewMoves(t) ==
    /\ StageNow' = [StageNow EXCEPT ![t] = StageOf(tasks'[t])]
    /\ LockedNow' = [LockedNow EXCEPT ![t] = LockedOf(tasks'[t])]
    /\ HeldNow' = [HeldNow EXCEPT ![t] = HeldOf(tasks'[t])]
    /\ StageNow[t] = StageOf(tasks[t])
    /\ LockedNow[t] = LockedOf(tasks[t])
    /\ HeldNow[t] = HeldOf(tasks[t])
    /\ HeldNow'[t] = HeldOf(tasks'[t])

(* A step on one task changes one entry of the view.                          *)
LEMMA ViewStep ==
    ASSUME Viewed, Viewed', NEW t \in Tasks, OnlyTask(t)
    PROVE  ViewMoves(t)
<1>1. /\ StageNow = [u \in Tasks |-> StageOf(tasks[u])]
      /\ StageNow' = [u \in Tasks |-> StageOf(tasks'[u])]
  BY DEF Viewed
<1>2. /\ LockedNow = [u \in Tasks |-> LockedOf(tasks[u])]
      /\ LockedNow' = [u \in Tasks |-> LockedOf(tasks'[u])]
  BY DEF Viewed
<1>3. /\ HeldNow = [u \in Tasks |-> HeldOf(tasks[u])]
      /\ HeldNow' = [u \in Tasks |-> HeldOf(tasks'[u])]
  BY DEF Viewed
<1>4. \A u \in Tasks : u # t => tasks'[u] = tasks[u]
  BY DEF OnlyTask
<1>5. StageNow' = [StageNow EXCEPT ![t] = StageOf(tasks'[t])]
  BY <1>1, <1>4
<1>6. LockedNow' = [LockedNow EXCEPT ![t] = LockedOf(tasks'[t])]
  BY <1>2, <1>4
<1>7. HeldNow' = [HeldNow EXCEPT ![t] = HeldOf(tasks'[t])]
  BY <1>3, <1>4
<1> QED BY <1>1, <1>2, <1>3, <1>5, <1>6, <1>7 DEF ViewMoves

(* What InvAt states, of the next state.                                         *)
LEMMA InvNext == RegistryInv' => (\A t \in Tasks : TaskFacts(t))'
<1>1. RegistryInv => \A t \in Tasks : TaskFacts(t)
  BY InvAt
<1> QED BY <1>1, PTL

(* Each change of a task is a step of the life of a task.                         *)
LEMMA ProgressIsStep ==
    ASSUME RegistryInv, NEW t \in Tasks, Progress(tasks[t], tasks'[t]), ViewMoves(t),
           RegistryInv'
    PROVE  Lifecycle!Next \/ (StageNow' = StageNow /\ LockedNow' = LockedNow /\ HeldNow' = HeldNow)
<1> DEFINE k == tasks[t]
           j == tasks'[t]
           Same == StageNow' = StageNow /\ LockedNow' = LockedNow /\ HeldNow' = HeldNow
<1>1. TaskFacts(t) /\ k \in Task /\ SoundTask(k)
  BY InvAt DEF TaskFacts
<1>2. TaskFacts(t)' /\ j \in Task
  BY InvNext DEF TaskFacts
<1>3. /\ k.funded \in Nat /\ k.released \in Nat /\ j.funded \in Nat /\ j.released \in Nat
  BY <1>1, <1>2 DEF Task
<1>4. /\ StageNow = [StageNow EXCEPT ![t] = StageNow[t]]
      /\ LockedNow = [LockedNow EXCEPT ![t] = LockedNow[t]]
      /\ HeldNow = [HeldNow EXCEPT ![t] = HeldNow[t]]
  BY DEF StageNow, LockedNow, HeldNow
<1>5. CASE k.state = "NONE" /\ j.state = "POSTED" /\ j.poster \in Accounts /\ j.worker = Nobody
           /\ j.funded = 0 /\ j.released = 0
  <2>1. StageOf(k) = "none" /\ StageOf(j) = "offered"
    BY <1>5 DEF StageOf
  <2>2. HeldOf(k) = 0 /\ HeldOf(j) = 0
    BY <1>5 DEF HeldOf, Live, RemainingOf
  <2>3. LockedOf(j) = {j.poster}
    <3>1. Nobody \notin Accounts
      BY RegistryAssumption
    <3> QED BY <1>5, <3>1 DEF LockedOf, Live, Parties
  <2>4. HeldNow' = HeldNow
    BY <1>4, <2>2 DEF ViewMoves
  <2>5. PICK a \in Accounts : a = j.poster
    BY <1>5
  <2>6. Lifecycle!Offer(t, a)
    <3>1. /\ StageNow[t] = "none" /\ StageNow' = [StageNow EXCEPT ![t] = "offered"]
          /\ LockedNow' = [LockedNow EXCEPT ![t] = {a}] /\ HeldNow' = HeldNow
      BY <2>1, <2>3, <2>4, <2>5 DEF ViewMoves
    <3> QED BY <3>1 DEF Lifecycle!Offer, StageNow, LockedNow, HeldNow
  <2> QED BY <2>6 DEF Lifecycle!Next
<1>6. CASE k.state = "POSTED" /\ j.state = "CLAIMED" /\ j.poster = k.poster /\ j.worker \in Accounts
           /\ j.worker # k.poster /\ SameMoney(k, j)
  <2>1. StageOf(k) = "offered" /\ StageOf(j) = "taken"
    BY <1>6 DEF StageOf
  <2>2. HeldOf(j) = HeldOf(k)
    BY <1>6 DEF HeldOf, Live, RemainingOf, SameMoney
  <2>3. LockedOf(j) = LockedOf(k) \cup {j.worker} /\ j.worker \notin LockedOf(k)
    <3>1. Nobody \notin Accounts
      BY RegistryAssumption
    <3>2. k.worker = Nobody
      BY <1>1, <1>6 DEF SoundTask
    <3>3. LockedOf(k) = {k.poster} \ {Nobody} /\ LockedOf(j) = {k.poster, j.worker} \ {Nobody}
      BY <1>6, <3>2 DEF LockedOf, Live, Parties
    <3> QED BY <1>6, <3>1, <3>3
  <2>4. HeldNow' = HeldNow
    BY <1>4, <2>2 DEF ViewMoves
  <2>5. PICK a \in Accounts : a = j.worker
    BY <1>6
  <2>6. Lifecycle!Take(t, a)
    <3>1. /\ StageNow[t] = "offered" /\ StageNow' = [StageNow EXCEPT ![t] = "taken"]
          /\ LockedNow' = [LockedNow EXCEPT ![t] = LockedNow[t] \cup {a}]
          /\ a \notin LockedNow[t] /\ HeldNow' = HeldNow
      BY <2>1, <2>3, <2>4, <2>5 DEF ViewMoves
    <3> QED BY <3>1 DEF Lifecycle!Take, StageNow, LockedNow, HeldNow
  <2> QED BY <2>6 DEF Lifecycle!Next
<1>7. CASE k.state \in {"CLAIMED", "ACTIVE"} /\ j.state \in {"CLAIMED", "ACTIVE"}
           /\ SameParties(k, j)
           /\ (\/ SameMoney(k, j)
               \/ j.funded > k.funded /\ j.released = k.released
               \/ j.funded = k.funded /\ j.released > k.released /\ j.released < j.funded)
  <2>1. StageOf(k) = "taken" /\ StageOf(j) = "taken"
    BY <1>7 DEF StageOf
  <2>2. HeldOf(k) = k.funded - k.released /\ HeldOf(j) = j.funded - j.released
    BY <1>7 DEF HeldOf, Live, RemainingOf
  <2>3. LockedOf(j) = LockedOf(k)
    BY <1>7 DEF LockedOf, Live, Parties, SameParties
  <2>4. StageNow' = StageNow /\ LockedNow' = LockedNow /\ StageNow[t] = "taken"
    BY <1>4, <2>1, <2>3 DEF ViewMoves
  <2>5. /\ HeldNow' = [HeldNow EXCEPT ![t] = HeldOf(j)] /\ HeldNow'[t] = HeldOf(j)
        /\ HeldNow[t] = HeldOf(k)
    BY DEF ViewMoves
  <2>6. CASE SameMoney(k, j)
    <3>1. HeldOf(j) = HeldOf(k)
      BY <2>2, <2>6 DEF SameMoney
    <3> QED BY <1>4, <2>4, <2>5, <3>1
  <2>7. CASE j.funded > k.funded /\ j.released = k.released
    <3>1. HeldOf(j) > HeldOf(k)
      BY <1>3, <2>2, <2>7
    <3>2. Lifecycle!PayIn(t)
      <4>1. /\ StageNow[t] = "taken" /\ HeldNow'[t] > HeldNow[t]
            /\ HeldNow' = [HeldNow EXCEPT ![t] = HeldNow'[t]]
            /\ StageNow' = StageNow /\ LockedNow' = LockedNow
        BY <2>4, <2>5, <3>1
      <4> QED BY <4>1 DEF Lifecycle!PayIn, StageNow, LockedNow, HeldNow
    <3> QED BY <3>2 DEF Lifecycle!Next
  <2>8. CASE j.funded = k.funded /\ j.released > k.released /\ j.released < j.funded
    <3>1. HeldOf(j) \in 1..HeldOf(k) - 1
      BY <1>3, <2>2, <2>8
    <3>2. Lifecycle!PayOut(t)
      <4>1. /\ StageNow[t] = "taken"
            /\ \E n \in 1..HeldNow[t] - 1 : HeldNow' = [HeldNow EXCEPT ![t] = n]
            /\ StageNow' = StageNow /\ LockedNow' = LockedNow
        BY <2>4, <2>5, <3>1
      <4> QED BY <4>1 DEF Lifecycle!PayOut, StageNow, LockedNow, HeldNow
    <3> QED BY <3>2 DEF Lifecycle!Next
  <2> QED BY <1>7, <2>6, <2>7, <2>8
<1>8. CASE k.state = "ACTIVE" /\ j.state = "DISPUTED" /\ SameParties(k, j) /\ SameMoney(k, j)
  <2>1. StageOf(k) = "taken" /\ StageOf(j) = "frozen"
    BY <1>8 DEF StageOf
  <2>2. HeldOf(k) = k.funded - k.released /\ HeldOf(j) = HeldOf(k)
    BY <1>8 DEF HeldOf, Live, RemainingOf, SameMoney
  <2>3. LockedOf(j) = LockedOf(k)
    BY <1>8 DEF LockedOf, Live, Parties, SameParties
  <2>4. LockedNow' = LockedNow /\ HeldNow' = HeldNow
    BY <1>4, <2>2, <2>3 DEF ViewMoves
  <2>5. HeldOf(k) > 0
    <3>1. k.released < k.funded
      BY <1>1, <1>8 DEF SoundTask
    <3> QED BY <1>3, <2>2, <3>1
  <2>6. Lifecycle!Freeze(t)
    <3>1. /\ StageNow[t] = "taken" /\ HeldNow[t] > 0
          /\ StageNow' = [StageNow EXCEPT ![t] = "frozen"]
          /\ LockedNow' = LockedNow /\ HeldNow' = HeldNow
      BY <2>1, <2>4, <2>5 DEF ViewMoves
    <3> QED BY <3>1 DEF Lifecycle!Freeze, StageNow, LockedNow, HeldNow
  <2> QED BY <2>6 DEF Lifecycle!Next
<1> QED BY <1>5, <1>6, <1>7, <1>8 DEF Progress

(* The end of a task is the end of its life.                                  *)
LEMMA EndingIsStep ==
    ASSUME RegistryInv, NEW t \in Tasks, Ending(t), ViewMoves(t)
    PROVE  Lifecycle!Next
<1> DEFINE k == tasks[t]
           j == tasks'[t]
<1>1. k.state \in {"POSTED", "CLAIMED", "ACTIVE", "DISPUTED"} /\ j.state \in Terminal
  BY DEF Ending, ByCompletion, ByCancel, ByExpiry, ByRuling, ExpireRequires, EndedAs
<1>2. StageOf(k) \in {"offered", "taken", "frozen"}
  BY <1>1 DEF StageOf
<1>3. StageOf(j) = "over" /\ LockedOf(j) = {} /\ HeldOf(j) = 0
  BY <1>1 DEF StageOf, LockedOf, HeldOf, Live, Terminal
<1>4. Lifecycle!End(t)
  <2>1. /\ StageNow[t] \in {"offered", "taken", "frozen"}
        /\ StageNow' = [StageNow EXCEPT ![t] = "over"]
        /\ LockedNow' = [LockedNow EXCEPT ![t] = {}]
        /\ HeldNow' = [HeldNow EXCEPT ![t] = 0]
    BY <1>2, <1>3 DEF ViewMoves
  <2> QED BY <2>1 DEF Lifecycle!End, StageNow, LockedNow, HeldNow
<1> QED BY <1>4 DEF Lifecycle!Next

(* Every step of the registry is a step of the life of a task, or none.            *)
LEMMA StepIsStep ==
    ASSUME RegistryInv, RegistryInv', Viewed, Viewed',
           tasks' = tasks \/ \E t \in Tasks : TaskMoves(t)
    PROVE  [Lifecycle!Next]_(Lifecycle!vars)
<1>1. CASE tasks' = tasks
  <2>1. StageNow' = StageNow /\ LockedNow' = LockedNow /\ HeldNow' = HeldNow
    BY <1>1 DEF Viewed
  <2> QED BY <2>1 DEF Lifecycle!vars, StageNow, LockedNow, HeldNow
<1>2. ASSUME NEW t \in Tasks, TaskMoves(t) PROVE [Lifecycle!Next]_(Lifecycle!vars)
  <2>1. ViewMoves(t)
    BY <1>2, ViewStep DEF TaskMoves
  <2>2. CASE Ending(t)
    BY <2>1, <2>2, EndingIsStep
  <2>3. CASE Progress(tasks[t], tasks'[t])
    <3>1. Lifecycle!Next \/ (StageNow' = StageNow /\ LockedNow' = LockedNow /\ HeldNow' = HeldNow)
      BY <2>1, <2>3, ProgressIsStep
    <3> QED BY <3>1 DEF Lifecycle!vars, StageNow, LockedNow, HeldNow
  <2> QED BY <1>2, <2>2, <2>3 DEF TaskMoves
<1> QED BY <1>1, <1>2

(* The initial state is the initial state of every life.                      *)
LEMMA InitIsInit == Init => Lifecycle!Init
<1> SUFFICES ASSUME Init PROVE Lifecycle!Init
  OBVIOUS
<1>1. RegistryInv /\ tasks = [t \in Tasks |-> NoTask]
  BY InitKept DEF Init
<1>2. Viewed
  BY <1>1, ViewedNow
<1>3. StageOf(NoTask) = "none" /\ LockedOf(NoTask) = {} /\ HeldOf(NoTask) = 0
  BY DEF NoTask, StageOf, LockedOf, HeldOf, Live
<1>4. /\ StageNow = [t \in Tasks |-> "none"] /\ LockedNow = [t \in Tasks |-> {}]
      /\ HeldNow = [t \in Tasks |-> 0]
  <2> HIDE DEF NoTask
  <2> QED BY <1>1, <1>2, <1>3 DEF Viewed
<1> QED BY <1>4 DEF Lifecycle!Init, StageNow, LockedNow, HeldNow

(* The registry with its vaults, its ledger and its clock implements TaskLifecycle: *)
(* collateral as the deposit vault has it, AZL as the escrow vault has it.         *)
THEOREM RegistryImplements == Spec => ImplementsLifecycle
<1>1. RegistryInv /\ [Next]_vars =>
         RegistryInv' /\ (tasks' = tasks \/ \E t \in Tasks : TaskMoves(t))
  BY NextKept
<1>2. RegistryInv /\ RegistryInv' /\ Viewed /\ Viewed'
      /\ (tasks' = tasks \/ \E t \in Tasks : TaskMoves(t)) => [Lifecycle!Next]_(Lifecycle!vars)
  BY StepIsStep
<1> QED BY <1>1, <1>2, InitIsInit, ViewedNow, RegistryKept, PTL
        DEF Spec, ImplementsLifecycle, Lifecycle!Spec

-------------------------------------------------------------------------------
(* The quotes of the pricing policy are accepted by the vault.                 *)

(* Scale(n, p) is the least whole number of AZL that n millionths are worth:   *)
(* _scale rounds up, by less than one.                                       *)
LEMMA ScaleFacts ==
    ASSUME Usd \in Nat \ {0}, NEW n \in Nat, NEW p \in Nat
    PROVE  /\ Scale(n, p) \in Nat
           /\ n * p <= Usd * Scale(n, p)
           /\ Usd * Scale(n, p) < n * p + Usd
<1>1. n * p \in Nat
  OBVIOUS
<1>2. \A k \in Nat : LET q == (k + Usd - 1) \div Usd
                     IN  q \in Nat /\ k <= Usd * q /\ Usd * q < k + Usd
  <2> SUFFICES ASSUME NEW k \in Nat
               PROVE  LET q == (k + Usd - 1) \div Usd
                      IN  q \in Nat /\ k <= Usd * q /\ Usd * q < k + Usd
    OBVIOUS
  <2> DEFINE a == k + Usd - 1
             q == a \div Usd
             r == a % Usd
  <2>1. a \in Nat
    OBVIOUS
  <2>2. q \in Nat /\ r \in 0..(Usd - 1) /\ a = Usd * q + r
    BY <2>1, Z3
  <2> QED
    BY <2>2
<1> QED
  BY <1>1, <1>2 DEF Scale

(* A product of naturals that exceeds another by less than the factor.         *)
LEMMA CancelFactor ==
    ASSUME NEW u \in Nat \ {0}, NEW x \in Nat, NEW y \in Nat, u * x < u * (y + 1)
    PROVE  x <= y
<1>1. CASE x >= y + 1
  <2> DEFINE d == x - (y + 1)
  <2>1. d \in Nat /\ u * d \in Nat /\ u * x = u * (y + 1) + u * d
    BY <1>1
  <2> QED
    BY <2>1
<1> QED
  BY <1>1

(* reserveTask accepts every quote of a policy whose live reserve exceeds the  *)
(* two exit shares by enough to be worth one unit of AZL: the three are       *)
(* rounded up separately, and the sum of two roundings could otherwise exceed *)
(* the third.                                                                *)
THEOREM QuoteReservable ==
    ASSUME Usd \in Nat \ {0}, NEW p \in Nat \ {0},
           EntryDepositUsd6 \in Nat \ {0}, LiveTaskReserveUsd6 \in Nat \ {0},
           AccessFeeUsd6 \in Nat \ {0}, ExitCompensationUsd6 \in Nat \ {0},
           ExitProtocolShareUsd6 \in Nat \ {0},
           AccessFeeUsd6 <= LiveTaskReserveUsd6,
           Usd <= (LiveTaskReserveUsd6 - ExitCompensationUsd6 - ExitProtocolShareUsd6) * p
    PROVE  Reservable(QuoteTask(p))
<1> DEFINE E == Scale(EntryDepositUsd6, p)
           R == Scale(LiveTaskReserveUsd6, p)
           A == Scale(AccessFeeUsd6, p)
           C == Scale(ExitCompensationUsd6, p)
           S == Scale(ExitProtocolShareUsd6, p)
<1>1. /\ E \in Nat /\ EntryDepositUsd6 * p <= Usd * E
      /\ R \in Nat /\ LiveTaskReserveUsd6 * p <= Usd * R
      /\ A \in Nat /\ AccessFeeUsd6 * p <= Usd * A /\ Usd * A < AccessFeeUsd6 * p + Usd
      /\ C \in Nat /\ Usd * C < ExitCompensationUsd6 * p + Usd
      /\ S \in Nat /\ Usd * S < ExitProtocolShareUsd6 * p + Usd
  BY ScaleFacts
<1> HIDE DEF E, R, A, C, S
<1>2. E > 0 /\ R > 0 /\ A > 0
  <2>1. EntryDepositUsd6 * p > 0 /\ LiveTaskReserveUsd6 * p > 0 /\ AccessFeeUsd6 * p > 0
    OBVIOUS
  <2>2. Usd * E > 0 /\ Usd * R > 0 /\ Usd * A > 0
    BY <1>1, <2>1
  <2> QED
    BY <1>1, <2>2
<1>3. C + S <= R
  <2>1. ExitCompensationUsd6 * p + ExitProtocolShareUsd6 * p + Usd <= LiveTaskReserveUsd6 * p
    OBVIOUS
  <2>2. Usd * C + Usd * S < Usd * R + Usd
    BY <1>1, <2>1
  <2>3. Usd * (C + S) < Usd * (R + 1)
    BY <1>1, <2>2
  <2> QED
    BY <1>1, <2>3, CancelFactor
<1>4. A <= R
  <2>1. AccessFeeUsd6 * p <= LiveTaskReserveUsd6 * p
    OBVIOUS
  <2>2. Usd * A < Usd * (R + 1)
    BY <1>1, <2>1
  <2> QED
    BY <1>1, <2>2, CancelFactor
<1> QED
  BY <1>2, <1>3, <1>4 DEF Reservable, QuoteTask, E, R, A, C, S

(* The standard market, whose targets are constants of AzlPricingPolicy, can   *)
(* reserve tasks at every price; the micro market, whose factory requires its  *)
(* targets, as soon as a dollar buys two units of AZL.                        *)
THEOREM MarketsReservable ==
    ASSUME Usd = 1000000, NEW p \in Nat \ {0},
           \/ /\ EntryDepositUsd6 = 25000000 /\ LiveTaskReserveUsd6 = 8000000
              /\ AccessFeeUsd6 = 5000000 /\ ExitCompensationUsd6 = 2500000
              /\ ExitProtocolShareUsd6 = 2500000
           \/ /\ EntryDepositUsd6 = 3000000 /\ LiveTaskReserveUsd6 = 1000000
              /\ AccessFeeUsd6 = 500000 /\ ExitCompensationUsd6 = 250000
              /\ ExitProtocolShareUsd6 = 250000
              /\ p > 1
    PROVE  Reservable(QuoteTask(p))
  BY QuoteReservable

-------------------------------------------------------------------------------
(* Arbitration as the market calls it.  Arbitration_proofs is about the same     *)
(* operators in an instance of its own; each of its operators the market's steps  *)
(* use is shown to be the one here.  Its invariants and its action properties      *)
(* hold of any parties, so PosterOf and WorkerOf are never looked at.            *)
AP == INSTANCE Arbitration_proofs WITH
    PosterOf <- [t \in Tasks |-> Nobody],
    WorkerOf <- [t \in Tasks |-> Nobody],
    WorkerBps <- WorkerShares

(* A dispute is open to both.                                                *)
LEMMA SameOpen == \A d : Panel!Open(d) = AP!Open(d)
BY DEF Panel!Open, AP!Open

(* Beginning the ruling of a case.                                           *)
LEMMA SameBegins == \A t : Panel!SomebodyBegins(t) = AP!SomebodyBegins(t)
BY DEF Panel!SomebodyBegins, AP!SomebodyBegins, Panel!CanBeginRuling, AP!CanBeginRuling,
   Panel!BeginRuling, AP!BeginRuling

(* Reserving the bond of whoever was assigned.                               *)
LEMMA SameAssigned ==
    ASSUME NEW b, NEW x
    PROVE  Panel!Assigned(b, x) = AP!Assigned(b, x)
BY DEF Panel!Assigned, AP!Assigned, Panel!Bonds!Assign, AP!Bonds!Assign,
       Panel!Bonds!Plus, AP!Bonds!Plus,
       Panel!Bonds!AssignmentReserve, AP!Bonds!AssignmentReserve

(* A finite set is one to both.                                              *)
LEMMA SameFinite2 ==
    ASSUME NEW S, IsFiniteSet(S)
    PROVE  AP!IsFiniteSet(S)
BY DEF AP!IsFiniteSet, IsFiniteSet

(* What arbitration assumes of its constants holds of the market's.          *)
LEMMA PanelConstants == AP!ArbitrationAssumption
<1>1. AP!IsFiniteSet(Tasks) /\ AP!IsFiniteSet(Verifiers)
  BY ProtocolAssumption, RegistryAssumption, SameFinite2
<1>2. AP!IsInjective(StartPanel)
  BY ProtocolAssumption DEF AP!IsInjective, IsInjective
<1> QED BY ProtocolAssumption, <1>1, <1>2 DEF AP!Assumed

(* The same, as Arbitration_proofs cites it.                                 *)
LEMMA Assum == AP!Assumed
BY PanelConstants

(* What arbitration promises its caller.                                      *)
LEMMA Laws == AP!PanelLaws
BY SMTT(30), PanelConstants, AP!PanelLawsHold

(* What it promises of one case.                                             *)
LEMMA LawsAt ==
    ASSUME AP!Inv, NEW t \in Tasks
    PROVE  AP!CaseLaws(t)
BY Laws DEF AP!PanelLaws

(* The bond vault's operators.                                                *)
LEMMA SameBonds ==
    ASSUME NEW b, NEW x
    PROVE  /\ Panel!Bonds!IsEligible(b, x) = AP!Bonds!IsEligible(b, x)
           /\ Panel!Bonds!CanRelease(b, x) = AP!Bonds!CanRelease(b, x)
           /\ Panel!Bonds!Release(b, x) = AP!Bonds!Release(b, x)
BY DEF Panel!Bonds!IsEligible, AP!Bonds!IsEligible,
       Panel!Bonds!CanRelease, AP!Bonds!CanRelease, Panel!Bonds!Release, AP!Bonds!Release,
       Panel!Bonds!Minus, AP!Bonds!Minus,
       Panel!Bonds!AssignmentReserve, AP!Bonds!AssignmentReserve

(* Slashing a bond and releasing it in one call.                             *)
LEMMA SameSlash ==
    ASSUME NEW b, NEW x, NEW n, NEW refused
    PROVE  /\ Panel!Bonds!CanSlashAndRelease(b, x, n) = AP!Bonds!CanSlashAndRelease(b, x, n)
           /\ Panel!Bonds!SlashAndRelease(b, x, n, refused)
                 = AP!Bonds!SlashAndRelease(b, x, n, refused)
BY SameBonds
   DEF Panel!Bonds!CanSlashAndRelease, AP!Bonds!CanSlashAndRelease,
       Panel!Bonds!SlashAndRelease, AP!Bonds!SlashAndRelease,
       Panel!Bonds!Minus, AP!Bonds!Minus,
       Panel!Bonds!AssignmentReserve, AP!Bonds!AssignmentReserve

(* Who may leave the panel.                                                  *)
LEMMA SameMayLeave ==
    ASSUME NEW c, NEW b, NEW x
    PROVE  /\ Panel!HasOtherEligible(c, b, x) = AP!HasOtherEligible(c, b, x)
           /\ Panel!MayLeave(c, b, x) = AP!MayLeave(c, b, x)
BY SameBonds DEF Panel!HasOtherEligible, AP!HasOtherEligible, Panel!MayLeave, AP!MayLeave,
       Panel!Range, AP!Range

(* Posting, scheduling and withdrawing a bond.                               *)
LEMMA SameBonding ==
    ASSUME NEW x, NEW n
    PROVE  /\ Panel!PostBond(x, n) => AP!PostBond(x, n)
           /\ Panel!VerifierWithdraws(x, n) => AP!VerifierWithdraws(x, n)
           /\ Panel!VerifierSchedules(x) => AP!VerifierSchedules(x)
BY SameMayLeave
   DEF Panel!PostBond, AP!PostBond, Panel!Bonds!Bond, AP!Bonds!Bond,
       Panel!Bonds!Plus, AP!Bonds!Plus, Panel!Bonds!Minus, AP!Bonds!Minus,
       Panel!VerifierWithdraws, AP!VerifierWithdraws,
       Panel!Bonds!CanWithdrawBond, AP!Bonds!CanWithdrawBond,
       Panel!Bonds!WithdrawBond, AP!Bonds!WithdrawBond,
       Panel!VerifierSchedules, AP!VerifierSchedules,
       Panel!Bonds!CanScheduleWithdrawal, AP!Bonds!CanScheduleWithdrawal,
       Panel!Bonds!ScheduleWithdrawal, AP!Bonds!ScheduleWithdrawal

(* The owner adding to the panel and removing from it.                       *)
LEMMA SamePanel ==
    ASSUME NEW x
    PROVE  /\ Panel!OwnerAdds(x) => AP!OwnerAdds(x)
           /\ Panel!OwnerRemoves(x) => AP!OwnerRemoves(x)
BY SameMayLeave, SameBonds
   DEF Panel!OwnerAdds, AP!OwnerAdds, Panel!CanAddPanelMember, AP!CanAddPanelMember,
       Panel!AddPanelMember, AP!AddPanelMember,
       Panel!OwnerRemoves, AP!OwnerRemoves,
       Panel!CanRemovePanelMember, AP!CanRemovePanelMember,
       Panel!RemovePanelMember, AP!RemovePanelMember

(* The treasury pulling what a refused payment left owed.                    *)
LEMMA SameClaim == Panel!TreasuryPulls => AP!TreasuryPulls
BY DEF Panel!TreasuryPulls, AP!TreasuryPulls, Panel!Bonds!CanClaimSlash, AP!Bonds!CanClaimSlash,
       Panel!Bonds!ClaimSlash, AP!Bonds!ClaimSlash

(* Who suits a case.                                                         *)
LEMMA SameSuits ==
    ASSUME NEW c, NEW b, NEW x, NEW p, NEW w
    PROVE  Panel!Suits(c, b, x, p, w) = AP!Suits(c, b, x, p, w)
BY SameBonds DEF Panel!Suits, AP!Suits

(* The positions of the panel a case may be given to.                        *)
LEMMA SameChoices ==
    ASSUME NEW c, NEW b, NEW p, NEW w
    PROVE  /\ Panel!Positions(c) = AP!Positions(c)
           /\ Panel!Choices(c, b, p, w) = AP!Choices(c, b, p, w)
BY SameSuits DEF Panel!Choices, AP!Choices, Panel!Positions, AP!Positions

(* The first of them.                                                        *)
LEMMA SameFirst ==
    ASSUME NEW c, NEW b, NEW p, NEW w
    PROVE  Panel!FirstChoice(c, b, p, w) = AP!FirstChoice(c, b, p, w)
<1> DEFINE S == AP!Choices(c, b, p, w)
           f == AP!Positions(c)
<1>1. AP!FirstChoice(c, b, p, w) = f[CHOOSE i \in S : \A j \in S : i <= j]
  BY DEF AP!FirstChoice
<1>2. Panel!Choices(c, b, p, w) = S /\ Panel!Positions(c) = f
  BY SameChoices
<1> HIDE DEF S, f
<1>3. Panel!FirstChoice(c, b, p, w) = f[CHOOSE i \in S : \A j \in S : i <= j]
  BY <1>2 DEF Panel!FirstChoice
<1> QED BY <1>1, <1>3

(* The arbitrator a case is given, and where the cursor is left.             *)
LEMMA SameNext ==
    ASSUME NEW c, NEW b, NEW p, NEW w
    PROVE  /\ Panel!NextArbitrator(c, b, p, w) = AP!NextArbitrator(c, b, p, w)
           /\ Panel!CursorAfter(c, b, p, w) = AP!CursorAfter(c, b, p, w)
BY SameChoices, SameFirst
   DEF Panel!NextArbitrator, AP!NextArbitrator, Panel!CursorAfter, AP!CursorAfter

(* The registry opening a case.                                              *)
LEMMA SameOpens ==
    ASSUME NEW t, NEW p, NEW w, Panel!RegistryOpens(t, p, w)
    PROVE  AP!RegistryOpens(t, p, w)
<1>1. Panel!OpenDispute(cases, bondVault, t, p, w, now)
         = AP!OpenDispute(cases, bondVault, t, p, w, now)
  BY SameNext DEF Panel!OpenDispute, AP!OpenDispute, Panel!NoDispute, AP!NoDispute
<1>2. Panel!Assigned(bondVault, cases'.disputes[t].arbitrator)
         = AP!Assigned(bondVault, cases'.disputes[t].arbitrator)
  BY SameAssigned
<1>3. AP!CanOpenDispute(cases, bondVault, t)
  BY DEF Panel!RegistryOpens, Panel!CanOpenDispute, AP!CanOpenDispute
<1> QED
  BY <1>1, <1>2, <1>3 DEF Panel!RegistryOpens, AP!RegistryOpens

(* Assigning a case later.                                                   *)
LEMMA SameAssigns ==
    ASSUME NEW t, NEW p, NEW w, Panel!SomebodyAssigns(t, p, w)
    PROVE  AP!SomebodyAssigns(t, p, w)
<1>1. Panel!AssignArbitrator(cases, bondVault, t, p, w, now)
         = AP!AssignArbitrator(cases, bondVault, t, p, w, now)
  BY SameNext DEF Panel!AssignArbitrator, AP!AssignArbitrator
<1>2. Panel!Assigned(bondVault, cases'.disputes[t].arbitrator)
         = AP!Assigned(bondVault, cases'.disputes[t].arbitrator)
  BY SameAssigned
<1>3. AP!CanAssignArbitrator(cases, bondVault, t, p, w, now)
  BY SameNext DEF Panel!SomebodyAssigns, Panel!CanAssignArbitrator, AP!CanAssignArbitrator,
                  Panel!Open, AP!Open
<1> QED
  BY <1>1, <1>2, <1>3 DEF Panel!SomebodyAssigns, AP!SomebodyAssigns

(* A ruling.                                                                 *)
LEMMA SameRules ==
    ASSUME NEW t, NEW outcome, NEW bps
    PROVE  Panel!ArbitratorRules(t, outcome, bps) => AP!ArbitratorRules(t, outcome, bps)
BY SameBonds
   DEF Panel!ArbitratorRules, AP!ArbitratorRules, Panel!CanRule, AP!CanRule,
       Panel!Ruling, AP!Ruling, Panel!BeginRuling, AP!BeginRuling,
       Panel!CanBeginRuling, AP!CanBeginRuling, Panel!Rule, AP!Rule,
       Panel!ValidAllocation, AP!ValidAllocation

(* What a timeout takes.                                                     *)
LEMMA SameSlashAmount ==
    ASSUME NEW c, NEW b, NEW t
    PROVE  Panel!SlashAmount(c, b, t) = AP!SlashAmount(c, b, t)
BY DEF Panel!SlashAmount, AP!SlashAmount, Panel!Monus, AP!Monus

(* When a case may be timed out.                                             *)
LEMMA SameTimeout ==
    ASSUME NEW c, NEW b, NEW t, NEW n
    PROVE  /\ Panel!Cutoff(c.disputes[t]) = AP!Cutoff(c.disputes[t])
           /\ Panel!CanTimeout(c, b, t, n) = AP!CanTimeout(c, b, t, n)
BY SameOpen, SameSlash, SameSlashAmount
   DEF Panel!CanTimeout, AP!CanTimeout, Panel!Cutoff, AP!Cutoff

(* A timeout.                                                                *)
LEMMA SameTimesOut ==
    ASSUME NEW t, NEW refused, Panel!SomebodyTimesOut(t, refused)
    PROVE  AP!SomebodyTimesOut(t, refused)
<1>1. Panel!Timeout(cases, bondVault, t) = AP!Timeout(cases, bondVault, t)
  BY SameSlashAmount DEF Panel!Timeout, AP!Timeout
<1>2. Panel!TimedOut(cases, bondVault, t, refused) = AP!TimedOut(cases, bondVault, t, refused)
  BY SameSlash, SameSlashAmount DEF Panel!TimedOut, AP!TimedOut
<1>3. Panel!CanTimeout(cases, bondVault, t, now) => AP!CanTimeout(cases, bondVault, t, now)
  BY SameTimeout
<1> QED
  BY <1>1, <1>2, <1>3 DEF Panel!SomebodyTimesOut, AP!SomebodyTimesOut

-------------------------------------------------------------------------------
(* Every transaction of the market is one of the registry, or none of its; and *)
(* one of arbitration, or none of its.                                       *)

(* On the registry's side: a step of Next, or a stutter.                     *)
LEMMA RegistrySteps == [ProtocolNext]_protocolVars => [Next]_vars
<1> SUFFICES ASSUME [ProtocolNext]_protocolVars PROVE [Next]_vars
  OBVIOUS
<1>1. CASE UNCHANGED protocolVars
  BY <1>1 DEF protocolVars
<1>2. CASE RegistryOnly
  BY <1>2 DEF RegistryOnly, Next
<1>3. CASE PanelOnly
  BY <1>3 DEF PanelOnly, registryVars
<1>4. ASSUME NEW t \in Tasks, NEW party \in Accounts, PartyDisputes(t, party)
      PROVE  [Next]_vars
  BY <1>4 DEF PartyDisputes, Next, DisputeStep
<1>5. ASSUME NEW t \in Tasks, SomebodyAssigns(t)
      PROVE  [Next]_vars
  BY <1>5 DEF SomebodyAssigns, registryVars
<1>6. ASSUME NEW t \in Tasks, NEW earned \in Earnings, NEW refusing \in Refusals,
             CaseTimesOut(t, earned, refusing)
      PROVE  [Next]_vars
  BY <1>6 DEF CaseTimesOut, Next, DisputeStep
<1>7. ASSUME NEW t \in Tasks, NEW earned \in Earnings, NEW refusing \in Refusals,
             NEW outcome \in Rulings, NEW bps \in WorkerShares,
             ArbitratorRules(t, outcome, bps, earned, refusing)
      PROVE  [Next]_vars
  BY <1>7 DEF ArbitratorRules, Next, DisputeStep
<1> QED BY <1>1, <1>2, <1>3, <1>4, <1>5, <1>6, <1>7 DEF ProtocolNext

(* Time passes in no transaction.                                            *)
LEMMA NoTime ==
    ASSUME (\E t \in Tasks : UndisputedStep(t)) \/ AccountStep
    PROVE  now' = now
<1>1. ASSUME NEW t \in Tasks, UndisputedStep(t)
      PROVE  now' = now
  <2>1. ASSUME NEW p, NEW amount, NEW deadline, NEW price, NEW earned, NEW refusing,
               Post(p, t, amount, deadline, price, earned, refusing)
        PROVE  now' = now
    BY <2>1 DEF Post
  <2>2. ASSUME NEW w, NEW earned, NEW refusing,
               Claim(w, t, earned, refusing) \/ Cancel(t, earned, refusing)
               \/ Expire(t, earned, refusing)
        PROVE  now' = now
    BY <2>2 DEF Claim, Cancel, Expire
  <2>3. ASSUME NEW n, NEW price, NEW refusing,
               Fund(t, n, price) \/ ReleasePart(t, n, refusing)
        PROVE  now' = now
    BY <2>3 DEF Fund, ReleasePart
  <2>4. ASSUME NEW refusing, MarkDelivered(t) \/ Complete(t, refusing)
        PROVE  now' = now
    BY <2>4 DEF MarkDelivered, Complete, Finalize
  <2> QED BY <1>1, <2>1, <2>2, <2>3, <2>4 DEF UndisputedStep
<1>2. CASE AccountStep
  BY <1>2 DEF AccountStep, AgentWithdraw, GatewayCredit, ClaimDepositPayout, ClaimEscrowPayout
<1> QED BY <1>1, <1>2

(* Opening and assigning a case, as the steps of Arbitration_proofs.         *)
LEMMA OpensIsOpens ==
    ASSUME NEW t \in Tasks, NEW p, NEW w, Panel!RegistryOpens(t, p, w)
    PROVE  AP!RegistryOpens(t, p, w) /\ AP!Opens(t)
BY SameOpens DEF AP!Opens, AP!Between

(* The same of an assignment.                                                *)
LEMMA AssignsIsAssigns ==
    ASSUME NEW t \in Tasks, NEW p, NEW w, Panel!SomebodyAssigns(t, p, w)
    PROVE  AP!SomebodyAssigns(t, p, w) /\ AP!Assigns(t)
BY SameAssigns DEF AP!Assigns, AP!Between

(* On arbitration's side: a step of Arbitration with some parties, or a      *)
(* stutter.                                                                  *)
LEMMA PanelSteps == [ProtocolNext]_protocolVars => [AP!Step]_(AP!vars)
<1> DEFINE Good == AP!Step \/ UNCHANGED <<cases, bondVault, now>>
<1> SUFFICES ASSUME [ProtocolNext]_protocolVars PROVE Good
  BY DEF AP!vars
<1>1. CASE UNCHANGED protocolVars
  BY <1>1 DEF protocolVars, vars
<1>2. CASE RegistryOnly
  <2>1. CASE Tick
    BY <1>2, <2>1 DEF RegistryOnly, Tick, AP!Step, AP!Next, AP!Tick
  <2>2. CASE ~Tick
    BY <1>2, <2>2, NoTime DEF RegistryOnly
  <2> QED BY <2>1, <2>2
<1>3. CASE PanelOnly
  <2>1. ASSUME NEW x \in Verifiers, NEW n \in BondAmounts,
               Panel!PostBond(x, n) \/ Panel!VerifierWithdraws(x, n)
        PROVE  Good
    BY <2>1, SameBonding DEF AP!Step, AP!Next
  <2>2. ASSUME NEW x \in Verifiers,
               Panel!VerifierSchedules(x) \/ Panel!OwnerAdds(x) \/ Panel!OwnerRemoves(x)
        PROVE  Good
    BY <2>2, SameBonding, SamePanel DEF AP!Step, AP!Next
  <2>3. ASSUME NEW t \in Tasks, Panel!SomebodyBegins(t)
        PROVE  Good
    BY <2>3, SameBegins DEF AP!Step, AP!Next
  <2>4. CASE Panel!TreasuryPulls
    BY <2>4, SameClaim DEF AP!Step, AP!Next
  <2> QED BY <1>3, <2>1, <2>2, <2>3, <2>4 DEF PanelOnly
<1>4. ASSUME NEW t \in Tasks, NEW party \in Accounts, PartyDisputes(t, party)
      PROVE  Good
  BY <1>4, OpensIsOpens DEF PartyDisputes, AP!Step
<1>5. ASSUME NEW t \in Tasks, SomebodyAssigns(t)
      PROVE  Good
  BY <1>5, AssignsIsAssigns DEF SomebodyAssigns, AP!Step
<1>6. ASSUME NEW t \in Tasks, NEW earned \in Earnings, NEW refusing \in Refusals,
             CaseTimesOut(t, earned, refusing)
      PROVE  Good
  <2>1. (Treasury \in refusing) \in BOOLEAN
    OBVIOUS
  <2>2. AP!SomebodyTimesOut(t, Treasury \in refusing)
    BY <1>6, SameTimesOut DEF CaseTimesOut
  <2> QED BY <2>1, <2>2 DEF AP!Step, AP!Next
<1>7. ASSUME NEW t \in Tasks, NEW earned \in Earnings, NEW refusing \in Refusals,
             NEW outcome \in Rulings, NEW bps \in WorkerShares,
             ArbitratorRules(t, outcome, bps, earned, refusing)
      PROVE  Good
  <2>1. AP!ArbitratorRules(t, outcome, bps)
    BY <1>7, SameRules DEF ArbitratorRules
  <2>2. outcome \in AP!Outcomes
    BY DEF Rulings, AP!Outcomes
  <2> QED BY <2>1, <2>2 DEF AP!Step, AP!Next
<1> HIDE DEF Good
<1> QED BY <1>1, <1>2, <1>3, <1>4, <1>5, <1>6, <1>7 DEF ProtocolNext

-------------------------------------------------------------------------------
(* A task and its dispute agree.                                             *)
Agree(k, d) ==
    /\ AP!Open(d) <=> k.state = "DISPUTED"
    /\ d.status = "SETTLED" <=> k.state = "RESOLVED"
    /\ d.status = "SETTLED" => d.outcome = k.resolution
    /\ d.status = "NONE" => d.arbitrator = Nobody
    /\ d.arbitrator \notin Parties(k)

AllAgree == \A t \in Tasks : Agree(tasks[t], cases.disputes[t])

ProtocolInv == RegistryInv /\ AP!Inv /\ AP!Totalled(bondVault) /\ AllAgree

(* Only task t and its dispute moved.                                        *)
LEMMA AgreeAt ==
    ASSUME AllAgree, NEW t \in Tasks, OnlyTask(t), AP!OthersSame(t),
           Agree(tasks'[t], cases'.disputes[t])
    PROVE  AllAgree'
<1> SUFFICES ASSUME NEW s \in Tasks PROVE Agree(tasks[s], cases.disputes[s])'
  BY DEF AllAgree
<1>1. CASE s = t
  BY <1>1
<1>2. CASE s # t
  <2>1. tasks'[s] = tasks[s] /\ cases'.disputes[s] = cases.disputes[s]
    BY <1>2 DEF OnlyTask, AP!OthersSame
  <2>2. Agree(tasks[s], cases.disputes[s])
    BY DEF AllAgree
  <2> QED BY <2>1, <2>2
<1> QED BY <1>1, <1>2

(* No task and no dispute moved.                                             *)
LEMMA AgreeSame ==
    ASSUME AllAgree, tasks' = tasks, \A t \in Tasks : cases'.disputes[t] = cases.disputes[t]
    PROVE  AllAgree'
BY DEF AllAgree

(* A task that is not, and was not, in dispute.                               *)
Calm(k) == k.state \notin {"DISPUTED", "RESOLVED"}

(* A transaction of the parties neither opens nor ends a dispute.            *)
LEMMA UndisputedCalm ==
    ASSUME RegistryInv, NEW t \in Tasks, UndisputedStep(t)
    PROVE  Calm(tasks[t]) /\ Calm(tasks'[t]) /\ OnlyTask(t)
<1> DEFINE k == tasks[t]
           Good == Calm(tasks[t]) /\ Calm(tasks'[t])
<1>0. OnlyTask(t)
  BY UndisputedKept DEF TaskMoves
<1>00. tasks \in [Tasks -> Task] /\ tasks[t] \in Task
  BY DEF RegistryInv, RegistryType
<1>1. ASSUME NEW p, NEW amount, NEW deadline, NEW price, NEW earned, NEW refusing,
             Post(p, t, amount, deadline, price, earned, refusing)
      PROVE  Good
  BY <1>00, <1>1 DEF Post, NoTask, Calm
<1>2. ASSUME NEW w, NEW earned, NEW refusing, Claim(w, t, earned, refusing)
      PROVE  Good
  BY <1>00, <1>2 DEF Claim, Task, Calm
<1>3. ASSUME NEW amount, NEW price, Fund(t, amount, price)
      PROVE  Good
  BY <1>00, <1>3 DEF Fund, Task, Calm
<1>4. ASSUME MarkDelivered(t) PROVE Good
  BY <1>00, <1>4 DEF MarkDelivered, Task, Calm
<1>5. ASSUME NEW n, NEW refusing, ReleasePart(t, n, refusing)
      PROVE  Good
  BY <1>00, <1>5 DEF ReleasePart, ReleaseRequires, Task, Calm
<1>6. ASSUME NEW refusing, Complete(t, refusing) PROVE Good
  BY <1>00, <1>6 DEF Complete, CompleteRequires, Finalize, Ended, Task, Calm
<1>7. ASSUME NEW earned, NEW refusing, Cancel(t, earned, refusing)
      PROVE  Good
  BY <1>00, <1>7 DEF Cancel, CancelRequires, Ended, Task, Calm
<1>8. ASSUME NEW earned, NEW refusing, Expire(t, earned, refusing)
      PROVE  Good
  BY <1>00, <1>8 DEF Expire, ExpireRequires, Ended, Task, Calm
<1> HIDE DEF Good
<1>9. Good
  BY <1>1, <1>2, <1>3, <1>4, <1>5, <1>6, <1>7, <1>8 DEF UndisputedStep
<1> QED BY <1>0, <1>9 DEF Good

(* A task without a dispute, and its dispute.                                 *)
LEMMA CalmAgrees ==
    ASSUME NEW k, NEW j, NEW d, Agree(k, d), Calm(k), Calm(j), d.status \in AP!Status
    PROVE  Agree(j, d)
BY DEF Agree, Calm, AP!Status, AP!Open, Parties

(* A dispute as the invariant has it.                                        *)
LEMMA DisputeAt ==
    ASSUME AP!Inv, NEW t \in Tasks
    PROVE  AP!DisputeGood(cases.disputes[t])
BY DEF AP!Inv, AP!CasesGood

(* What arbitration does alone leaves every task with the dispute it had.       *)
LEMMA PanelAgrees ==
    ASSUME ProtocolInv, PanelOnly
    PROVE  AllAgree'
<1>0. AP!Assumed /\ AP!Inv /\ AllAgree /\ AP!CasesGood(cases)
  BY Assum DEF ProtocolInv, AP!Inv
<1>1. tasks' = tasks
  BY DEF PanelOnly, registryVars, vars, registry
<1>2. ASSUME cases'.disputes = cases.disputes PROVE AllAgree'
  BY <1>0, <1>1, <1>2, AgreeSame
<1>3. ASSUME NEW x \in Verifiers, NEW n \in BondAmounts,
             Panel!PostBond(x, n) \/ Panel!VerifierWithdraws(x, n)
      PROVE  AllAgree'
  BY <1>2, <1>3 DEF Panel!PostBond, Panel!VerifierWithdraws
<1>4. ASSUME NEW x \in Verifiers, Panel!VerifierSchedules(x)
      PROVE  AllAgree'
  BY <1>2, <1>4 DEF Panel!VerifierSchedules
<1>5. ASSUME NEW x \in Verifiers, Panel!OwnerAdds(x) \/ Panel!OwnerRemoves(x)
      PROVE  AllAgree'
  BY <1>0, <1>2, <1>5
     DEF AP!CasesGood, Panel!OwnerAdds, Panel!AddPanelMember, Panel!OwnerRemoves,
         Panel!RemovePanelMember
<1>6. ASSUME NEW t \in Tasks, Panel!SomebodyBegins(t)
      PROVE  AllAgree'
  <2>1. AP!SomebodyBegins(t)
    BY <1>6, SameBegins
  <2>2. AP!Begun(t)
    BY <1>0, <2>1, LawsAt DEF AP!CaseLaws
  <2> DEFINE d == cases.disputes[t]
             e == cases'.disputes[t]
  <2>3. e.arbitrator = d.arbitrator /\ e.status = "RULING" /\ AP!OthersSame(t)
    BY <2>2 DEF AP!Begun
  <2>4. d.status = "EVIDENCE"
    BY <2>2 DEF AP!Begun
  <2>5. Agree(tasks[t], d)
    BY <1>0 DEF AllAgree
  <2> HIDE DEF d, e
  <2>6. Agree(tasks[t], e)
    BY <2>3, <2>4, <2>5 DEF Agree, AP!Open
  <2>7. OnlyTask(t) /\ tasks'[t] = tasks[t]
    BY <1>1 DEF OnlyTask
  <2> QED BY <1>0, <2>3, <2>6, <2>7, AgreeAt DEF e
<1>7. CASE Panel!TreasuryPulls
  BY <1>2, <1>7 DEF Panel!TreasuryPulls
<1> QED BY <1>3, <1>4, <1>5, <1>6, <1>7 DEF PanelOnly

(* A dispute is opened for an active task, with an arbitrator who is no party.  *)
LEMMA DisputesAgrees ==
    ASSUME ProtocolInv, NEW t \in Tasks, NEW party, PartyDisputes(t, party)
    PROVE  AllAgree'
<1> DEFINE k == tasks[t]
           e == cases'.disputes[t]
<1>0. AP!Assumed /\ AP!Inv /\ AllAgree /\ RegistryInv
  BY Assum DEF ProtocolInv
<1>1. AP!Taken(t, k.poster, k.worker)
  BY <1>0, OpensIsOpens, LawsAt DEF PartyDisputes, AP!CaseLaws
<1>2. OnlyTask(t)
  BY <1>0, OpenDisputeKept DEF PartyDisputes
<1>3. /\ tasks'[t].state = "DISPUTED"
      /\ tasks'[t].poster = k.poster /\ tasks'[t].worker = k.worker
  <2>1. tasks \in [Tasks -> Task]
    BY <1>0 DEF RegistryInv, RegistryType
  <2> QED BY <2>1 DEF PartyDisputes, OpenDispute, Task
<1>4. e.status = "EVIDENCE" /\ e.arbitrator \notin Parties(k)
  BY <1>1 DEF AP!Taken, Parties
<1>5. Agree(tasks'[t], e)
  BY <1>3, <1>4 DEF Agree, AP!Open, Parties
<1> QED BY <1>0, <1>1, <1>2, <1>5, AgreeAt DEF AP!Taken

(* So is it assigned to somebody later.                                      *)
LEMMA AssignsAgrees ==
    ASSUME ProtocolInv, NEW t \in Tasks, SomebodyAssigns(t)
    PROVE  AllAgree'
<1> DEFINE k == tasks[t]
           d == cases.disputes[t]
           e == cases'.disputes[t]
<1>0. AP!Assumed /\ AP!Inv /\ AllAgree
  BY Assum DEF ProtocolInv
<1>1. AP!Taken(t, k.poster, k.worker) /\ d.status = "EVIDENCE"
  BY <1>0, AssignsIsAssigns, LawsAt DEF SomebodyAssigns, AP!CaseLaws
<1>2. OnlyTask(t) /\ tasks'[t] = k
  BY DEF SomebodyAssigns, registryVars, vars, registry, OnlyTask
<1>3. e.status = "EVIDENCE" /\ e.arbitrator \notin Parties(k)
  BY <1>1 DEF AP!Taken, Parties
<1>4. Agree(k, d)
  BY <1>0 DEF AllAgree
<1>5. Agree(k, e)
  BY <1>1, <1>3, <1>4 DEF Agree, AP!Open
<1>6. Agree(tasks'[t], e)
  BY <1>2, <1>5
<1> QED BY <1>0, <1>1, <1>2, <1>6, AgreeAt DEF AP!Taken

(* A settlement ends both with one outcome.                                   *)
LEMMA SettledAgrees ==
    ASSUME ProtocolInv, NEW t \in Tasks, NEW outcome \in Rulings, NEW bps, IsShare(bps),
           NEW unresolved \in BOOLEAN, NEW earned \in Earnings, NEW refusing,
           Settle(t, outcome, bps, unresolved, earned, refusing), AP!OthersSame(t),
           cases'.disputes[t].status = "SETTLED", cases'.disputes[t].outcome = outcome,
           cases'.disputes[t].arbitrator = cases.disputes[t].arbitrator
    PROVE  AllAgree'
<1> DEFINE k == tasks[t]
           d == cases.disputes[t]
           e == cases'.disputes[t]
           j == tasks'[t]
<1>0. RegistryInv /\ AllAgree
  BY DEF ProtocolInv
<1>1. /\ EndedAs(k, j) /\ j.state = "RESOLVED" /\ j.resolution = outcome /\ OnlyTask(t)
  BY <1>0, SettleKept DEF OnlyTask
<1>2. Parties(j) = Parties(k)
  BY <1>1 DEF EndedAs, Parties
<1>3. d.arbitrator \notin Parties(k)
  BY <1>0 DEF AllAgree, Agree
<1>4. Agree(j, e)
  BY <1>1, <1>2, <1>3 DEF Agree, AP!Open
<1> QED BY <1>0, <1>1, <1>4, AgreeAt

(* A ruling settles the dispute as it ends the task.                         *)
LEMMA RulesAgrees ==
    ASSUME ProtocolInv, NEW t \in Tasks, NEW earned \in Earnings, NEW refusing,
           NEW outcome \in Rulings, NEW bps \in WorkerShares,
           ArbitratorRules(t, outcome, bps, earned, refusing)
    PROVE  AllAgree'
<1>0. AP!Assumed /\ AP!Inv /\ AP!CasesGood(cases)
  BY Assum DEF ProtocolInv, AP!Inv
<1>1. AP!ArbitratorRules(t, outcome, bps)
  BY SameRules DEF ArbitratorRules
<1>2. AP!Ruled(t) /\ AP!Records(t, outcome)
  BY <1>0, <1>1, LawsAt DEF AP!CaseLaws
<1>3. Settle(t, outcome, bps, FALSE, earned, refusing)
  BY DEF ArbitratorRules, Rule
<1>4. IsShare(bps) /\ FALSE \in BOOLEAN
  BY ShareTypes
<1> QED BY <1>2, <1>3, <1>4, SettledAgrees DEF AP!Ruled, AP!Closes, AP!Records

(* So does a timeout, for both parties.                                      *)
LEMMA TimeoutAgrees ==
    ASSUME ProtocolInv, NEW t \in Tasks, NEW earned \in Earnings, NEW refusing,
           CaseTimesOut(t, earned, refusing)
    PROVE  AllAgree'
<1>0. AP!Assumed /\ AP!Inv
  BY Assum DEF ProtocolInv
<1>1. AP!SomebodyTimesOut(t, Treasury \in refusing)
  BY SameTimesOut DEF CaseTimesOut
<1>2. AP!Lapsed(t)
  BY <1>0, <1>1, LawsAt DEF AP!CaseLaws
<1>3. Settle(t, "MUTUAL", 0, TRUE, earned, refusing)
  BY DEF CaseTimesOut, TimeoutDispute
<1>4. "MUTUAL" \in Rulings /\ IsShare(0) /\ TRUE \in BOOLEAN
  BY DEF Rulings, IsShare, Escrow!FullBps
<1> QED BY <1>2, <1>3, <1>4, SettledAgrees DEF AP!Lapsed

(* What the registry does alone touches no task in dispute.                  *)
LEMMA RegistryAgrees ==
    ASSUME ProtocolInv, RegistryOnly
    PROVE  AllAgree'
<1>0. RegistryInv /\ AllAgree /\ AP!Inv /\ cases' = cases
  BY DEF ProtocolInv, RegistryOnly
<1>1. ASSUME NEW t \in Tasks, UndisputedStep(t)
      PROVE  AllAgree'
  <2>1. Calm(tasks[t]) /\ Calm(tasks'[t]) /\ OnlyTask(t)
    BY <1>0, <1>1, UndisputedCalm
  <2>2. cases.disputes[t].status \in AP!Status
    BY <1>0, DisputeAt DEF AP!DisputeGood
  <2>3. Agree(tasks[t], cases.disputes[t])
    BY <1>0 DEF AllAgree
  <2>4. Agree(tasks'[t], cases.disputes[t])
    BY <2>1, <2>2, <2>3, CalmAgrees
  <2>5. AP!OthersSame(t) /\ cases'.disputes[t] = cases.disputes[t]
    BY <1>0 DEF AP!OthersSame
  <2> QED BY <1>0, <2>1, <2>4, <2>5, AgreeAt
<1>2. CASE AccountStep \/ Tick
  <2>1. tasks' = tasks
    BY <1>0, <1>2, AccountStepKept
  <2> QED BY <1>0, <2>1, AgreeSame
<1> QED BY <1>1, <1>2 DEF RegistryOnly

(* Every transaction of the market keeps the invariant.                      *)
LEMMA ProtocolKept ==
    ASSUME ProtocolInv, [ProtocolNext]_protocolVars
    PROVE  ProtocolInv'
<1>0. AP!Assumed /\ AP!Inv /\ AP!Totalled(bondVault) /\ RegistryInv /\ AllAgree
  BY Assum DEF ProtocolInv
<1>1. RegistryInv'
  BY <1>0, RegistrySteps, NextKept
<1>2. AP!Inv'
  BY <1>0, PanelSteps, Laws DEF AP!PanelLaws
<1>3. AP!Totalled(bondVault')
  BY <1>0, PanelSteps, Laws DEF AP!PanelLaws
<1>4. AllAgree'
  <2>1. CASE UNCHANGED protocolVars
    BY <1>0, <2>1, AgreeSame DEF protocolVars, vars, registry
  <2>2. CASE RegistryOnly \/ PanelOnly
    BY <2>2, RegistryAgrees, PanelAgrees
  <2>3. ASSUME NEW t \in Tasks, NEW party \in Accounts, PartyDisputes(t, party)
        PROVE  AllAgree'
    BY <2>3, DisputesAgrees
  <2>4. ASSUME NEW t \in Tasks, SomebodyAssigns(t)
        PROVE  AllAgree'
    BY <2>4, AssignsAgrees
  <2>5. ASSUME NEW t \in Tasks, NEW earned \in Earnings, NEW refusing \in Refusals,
               CaseTimesOut(t, earned, refusing)
        PROVE  AllAgree'
    BY <2>5, TimeoutAgrees
  <2>6. ASSUME NEW t \in Tasks, NEW earned \in Earnings, NEW refusing \in Refusals,
               NEW outcome \in Rulings, NEW bps \in WorkerShares,
               ArbitratorRules(t, outcome, bps, earned, refusing)
        PROVE  AllAgree'
    BY <2>6, RulesAgrees
  <2> QED BY <2>1, <2>2, <2>3, <2>4, <2>5, <2>6 DEF ProtocolNext
<1> QED BY <1>1, <1>2, <1>3, <1>4 DEF ProtocolInv

-------------------------------------------------------------------------------
(* The start: the panel has bonded, nothing is posted.                         *)

(* A sum over a function is the same to both.                                *)
LEMMA SameTotals ==
    ASSUME NEW f
    PROVE  AP!SumFunction(f) = SumFunction(f)
BY DEF AP!SumFunction, SumFunction, AP!SumFunctionOnSet, SumFunctionOnSet,
       AP!FoldFunctionOnSet, FoldFunctionOnSet, AP!MapThenFoldSet, MapThenFoldSet

(* The cases at the start are the same to both.                              *)
LEMMA SameStart == Panel!StartCases = AP!StartCases
BY DEF Panel!StartCases, AP!StartCases, Panel!NoDispute, AP!NoDispute, Panel!Range, AP!Range

(* The invariant holds at the start.                                         *)
LEMMA ProtocolStart == ProtocolInit => ProtocolInv
<1> SUFFICES ASSUME ProtocolInit PROVE ProtocolInv
  OBVIOUS
<1> DEFINE staked == [x \in Verifiers |-> IF cases.authorized[x] THEN StartBond ELSE 0]
<1>1. RegistryInv
  BY InitKept DEF ProtocolInit
<1>2. cases = AP!StartCases /\ now = 1
  BY SameStart DEF ProtocolInit, Init
<1>3. staked \in [Verifiers -> Nat]
  BY ProtocolAssumption
<1>4. bondVault = [Panel!Bonds!EmptyBondVault EXCEPT
                      !.bonds = staked, !.totalBonded = SumFunction(staked),
                      !.balance = SumFunction(staked)]
  BY DEF ProtocolInit
<1> HIDE DEF staked
<1>5. SumFunction(staked) \in Nat
  BY <1>3, ProtocolAssumption, TotalType
<1>6. /\ bondVault.bonds = staked /\ bondVault.totalBonded = SumFunction(staked)
      /\ bondVault.balance = SumFunction(staked) /\ bondVault.totalPendingPayouts = 0
      /\ bondVault.activeAssignments = [x \in Verifiers |-> 0]
      /\ bondVault.reservedSlash = [x \in Verifiers |-> 0]
      /\ bondVault.withdrawReadyAt = [x \in Verifiers |-> 0]
      /\ DOMAIN bondVault = {"balance", "bonds", "activeAssignments", "reservedSlash",
                             "withdrawReadyAt", "totalBonded", "totalPendingPayouts"}
  BY <1>4 DEF Panel!Bonds!EmptyBondVault
<1>7. AP!BondsGood(bondVault) /\ AP!Funded(bondVault)
  BY <1>3, <1>5, <1>6 DEF AP!BondsGood, AP!Funded
<1>8. \A x \in Verifiers : bondVault.activeAssignments[x] = 0 /\ bondVault.reservedSlash[x] = 0
  BY <1>6
<1>9. AP!Inv
  BY SMTT(30), <1>2, <1>7, <1>8, Assum, PanelConstants, AP!StartGood
<1>10. AP!Totalled(bondVault)
  BY <1>6, SameTotals DEF AP!Totalled
<1>11. AllAgree
  <2> SUFFICES ASSUME NEW t \in Tasks PROVE Agree(tasks[t], cases.disputes[t])
    BY DEF AllAgree
  <2>1. tasks[t] = NoTask
    BY DEF ProtocolInit, Init
  <2>2. cases.disputes[t] = AP!NoDispute
    BY <1>2 DEF AP!StartCases
  <2> QED BY <2>1, <2>2 DEF Agree, NoTask, AP!NoDispute, AP!Open, Parties
<1> QED BY <1>1, <1>9, <1>10, <1>11 DEF ProtocolInv

(* The joint invariant: the registry, its vaults and arbitration are each    *)
(* sound, and agree about every dispute, whatever anybody does.              *)
THEOREM ProtocolSound == ProtocolSpec => []ProtocolInv
<1>1. ProtocolInv /\ [ProtocolNext]_protocolVars => ProtocolInv'
  BY ProtocolKept
<1> QED BY <1>1, ProtocolStart, PTL DEF ProtocolSpec

-------------------------------------------------------------------------------
(* What follows from it.                                                     *)

(* Registry, escrow and arbitration agree on which tasks are in dispute, who may *)
(* judge them and how they ended (TaskRegistryV2.openDispute, resolveDispute,   *)
(* ArbitrationModuleV2.openDispute, _settle).                                 *)
THEOREM JointDisputes == ProtocolSpec => []DisputeFollowsTask
<1>1. ProtocolInv => DisputeFollowsTask
  <2> SUFFICES ASSUME ProtocolInv, NEW t \in Tasks
               PROVE  /\ Panel!Open(cases.disputes[t]) <=> tasks[t].state = "DISPUTED"
                      /\ cases.disputes[t].status = "SETTLED" <=> tasks[t].state = "RESOLVED"
                      /\ cases.disputes[t].status = "SETTLED"
                            => cases.disputes[t].outcome = tasks[t].resolution
                      /\ cases.disputes[t].arbitrator \notin Parties(tasks[t])
    BY DEF DisputeFollowsTask
  <2>1. Agree(tasks[t], cases.disputes[t])
    BY DEF ProtocolInv, AllAgree
  <2> QED BY <2>1, SameOpen DEF Agree
<1> QED BY <1>1, ProtocolSound, PTL

(* Every open dispute can be ended in every contract it involves: no call of a   *)
(* settlement is refused, whatever the outcome, and after the cutoff the bond    *)
(* vault refuses nobody (ArbitrationModuleV2.rule, timeout, _settle).           *)
THEOREM JointEndings == ProtocolSpec => []DisputesCanEnd
<1>1. ProtocolInv => DisputesCanEnd
  <2> SUFFICES ASSUME ProtocolInv, NEW t \in Tasks, Panel!Open(cases.disputes[t]),
                      NEW outcome \in Rulings
               PROVE  /\ SettleRequires(t, outcome) /\ ResolveAccepted(t, outcome)
                      /\ now > Panel!Cutoff(cases.disputes[t])
                            => Panel!CanTimeout(cases, bondVault, t, now)
                      /\ cases.disputes[t].arbitrator # Nobody
                            => Panel!Bonds!CanRelease(bondVault, cases.disputes[t].arbitrator)
    BY DEF DisputesCanEnd
  <2> DEFINE d == cases.disputes[t]
  <2>0. /\ RegistryInv /\ AP!Inv /\ AP!Totalled(bondVault) /\ AP!Assumed
        /\ AP!Open(d) /\ Agree(tasks[t], d)
    BY Assum, SameOpen DEF ProtocolInv, AllAgree
  <2>1. SettleRequires(t, outcome) /\ ResolveAccepted(t, outcome)
    BY <2>0, RulingAlways DEF Agree
  <2>2. ASSUME now > Panel!Cutoff(d)
        PROVE  Panel!CanTimeout(cases, bondVault, t, now)
    <3>1. AP!CanTimeout(cases, bondVault, t, now)
      BY <2>0, <2>2, SameTimeout, LawsAt DEF AP!CaseLaws
    <3> QED BY <3>1, SameTimeout
  <2>3. ASSUME d.arbitrator # Nobody
        PROVE  Panel!Bonds!CanRelease(bondVault, d.arbitrator)
    <3>1. d.arbitrator \in Verifiers
      BY <2>0, <2>3, DisputeAt DEF AP!DisputeGood
    <3>2. 1 <= bondVault.activeAssignments[d.arbitrator]
      BY <2>0, <3>1, LawsAt DEF AP!CaseLaws
    <3>3. bondVault.activeAssignments[d.arbitrator] \in Nat
      BY <2>0, <3>1 DEF AP!Inv, AP!BondsGood
    <3> QED BY <3>2, <3>3 DEF Panel!Bonds!CanRelease
  <2> QED BY <2>1, <2>2, <2>3
<1> QED BY <1>1, ProtocolSound, PTL

(* The market implements the registry's own specification: arbitration joined to *)
(* it makes it do nothing it would not do with the outcomes left open.  So what is *)
(* proved of the registry holds of the market.                                *)
THEOREM JointImplements == ProtocolSpec => Spec
<1>1. ProtocolInit => Init
  BY DEF ProtocolInit
<1> QED BY <1>1, RegistrySteps, PTL DEF ProtocolSpec, Spec

(* What is proved of the registry alone, of the market: escrow and           *)
(* collateral follow every task, no ending reverts, and every task lives the *)
(* abstract life cycle (TaskRegistryV2 with EscrowVaultV2 and DepositVault). *)
THEOREM JointRegistry ==
    ProtocolSpec => /\ []EscrowFollowsTask /\ []CollateralFollowsTask
                    /\ []EndingsNeverRevert /\ ImplementsLifecycle
BY JointImplements, EscrowFollows, CollateralFollows, EndingsAccepted, RegistryImplements, PTL

(* Arbitration keeps in the market what it promises alone: every open case has its *)
(* bond, the vault is solvent, and the windows, the bonds and the panel are as     *)
(* safe whoever the parties are and however their tasks end.                    *)
THEOREM JointArbitration ==
    ProtocolSpec => /\ []AP!BondsCoverCases /\ []AP!BondsSolvent /\ AP!WindowsHonoured
                    /\ AP!BondsTakenOnlyForCause /\ AP!PanelNotEmptiedByExit
<1>1. ProtocolInv => AP!Inv /\ AP!BondsCoverCases /\ AP!BondsSolvent
  BY DEF ProtocolInv, AP!Inv, AP!Funded, AP!Totalled, AP!BondsSolvent
<1>2. []AP!Inv /\ [][AP!Step]_(AP!vars) => AP!WindowsHonoured
  BY SMTT(30), PanelConstants, AP!WindowsKept
<1>3. []AP!Inv /\ [][AP!Step]_(AP!vars) => AP!BondsTakenOnlyForCause
  BY SMTT(30), PanelConstants, AP!BondsKeptForCause
<1>4. []AP!Inv /\ [][AP!Step]_(AP!vars) => AP!PanelNotEmptiedByExit
  BY SMTT(30), PanelConstants, AP!PanelNeverEmptied
<1> QED BY <1>1, <1>2, <1>3, <1>4, PanelSteps, ProtocolSound, PTL DEF ProtocolSpec
===============================================================================
