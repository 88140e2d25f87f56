------------------------- MODULE DepositVault_proofs --------------------------
(***************************************************************************)
(* Proofs about AgentDepositVaultV2, for every number of tasks and agents,    *)
(* every set of quotes and every order of calls.                              *)
(*                                                                          *)
(* Each operation is a composition of three steps: a reservation released, a  *)
(* deposit debited, a payment made or deferred.  A lemma says what each does  *)
(* to the fields the invariants read; the operations are then put together    *)
(* from them, and the invariant from the operations.                          *)
(***************************************************************************)
EXTENDS DepositVault, SumTheorems, TLAPS

(* Adding to one entry.                                                      *)
LEMMA PlusType ==
    ASSUME NEW S, NEW f \in [S -> Nat], NEW x \in S, NEW n \in Nat
    PROVE  /\ Plus(f, x, n) \in [S -> Nat]
           /\ \A y \in S : Plus(f, x, n)[y] = IF y = x THEN f[y] + n ELSE f[y]
BY DEF Plus

(* Taking from one entry what it holds.                                      *)
LEMMA MinusType ==
    ASSUME NEW S, NEW f \in [S -> Nat], NEW x \in S, NEW n \in Nat, n <= f[x]
    PROVE  /\ Minus(f, x, n) \in [S -> Nat]
           /\ \A y \in S : Minus(f, x, n)[y] = IF y = x THEN f[y] - n ELSE f[y]
BY DEF Minus

(* What a payment does: it is made, or owed, in full.                         *)
LEMMA PayFacts ==
    ASSUME NEW v \in VaultType, NEW to \in Payees, NEW n \in Nat, NEW refusing
    PROVE  LET r == PayOrDefer(v, to, n, refusing)
           IN  /\ r \in VaultType
               /\ r.deposits = v.deposits /\ r.reserved = v.reserved
               /\ r.latchedEntryFloor = v.latchedEntryFloor
               /\ r.activeTaskReservations = v.activeTaskReservations
               /\ r.taskReservations = v.taskReservations
               /\ r.totalDeposits = v.totalDeposits
               /\ r.balance + v.totalPendingPayouts + n = v.balance + r.totalPendingPayouts
<1> DEFINE owed == Plus(v.pendingPayouts, to, n)
<1>1. owed \in [Payees -> Nat]
  BY PlusType DEF VaultType
<1>2. CASE n = 0
  BY <1>2 DEF PayOrDefer, VaultType
<1>3. CASE n # 0 /\ Paid(v, to, n, refusing)
  BY SMTT(30), <1>3 DEF PayOrDefer, Paid, VaultType
<1>4. CASE n # 0 /\ ~Paid(v, to, n, refusing)
  <2>1. PayOrDefer(v, to, n, refusing) =
            [v EXCEPT !.pendingPayouts = owed, !.totalPendingPayouts = @ + n]
    BY <1>4 DEF PayOrDefer
  <2> HIDE DEF owed
  <2>2. PayOrDefer(v, to, n, refusing) \in VaultType
    <3>1. v.totalPendingPayouts + n \in Nat
      BY DEF VaultType
    <3> QED BY <1>1, <2>1, <3>1 DEF VaultType
  <2>3. /\ PayOrDefer(v, to, n, refusing).balance = v.balance
        /\ PayOrDefer(v, to, n, refusing).totalPendingPayouts = v.totalPendingPayouts + n
        /\ v.balance \in Nat /\ v.totalPendingPayouts \in Nat
    BY <2>1 DEF VaultType
  <2>4. v.balance + v.totalPendingPayouts + n = v.balance + (v.totalPendingPayouts + n)
    BY <2>3
  <2>5. LET r == PayOrDefer(v, to, n, refusing)
        IN  /\ r.deposits = v.deposits /\ r.reserved = v.reserved
            /\ r.latchedEntryFloor = v.latchedEntryFloor
            /\ r.activeTaskReservations = v.activeTaskReservations
            /\ r.taskReservations = v.taskReservations
            /\ r.totalDeposits = v.totalDeposits
    BY <2>1 DEF VaultType
  <2> QED BY <2>2, <2>3, <2>4, <2>5
<1> QED BY <1>2, <1>3, <1>4

(* What debiting a deposit does.                                             *)
LEMMA DebitFacts ==
    ASSUME NEW v \in VaultType, NEW a \in Accounts, NEW n \in Nat, CanDebit(v, a, n)
    PROVE  LET r == Debit(v, a, n)
           IN  /\ r \in VaultType
               /\ \A b \in Accounts :
                     r.deposits[b] = IF b = a THEN v.deposits[b] - n ELSE v.deposits[b]
               /\ r.reserved = v.reserved
               /\ r.latchedEntryFloor = v.latchedEntryFloor
               /\ r.activeTaskReservations = v.activeTaskReservations
               /\ r.totalDeposits = v.totalDeposits - n
               /\ r.balance = v.balance /\ r.totalPendingPayouts = v.totalPendingPayouts
<1> DEFINE left == Minus(v.deposits, a, n)
<1>1. n <= v.deposits[a] /\ n <= v.totalDeposits
  BY DEF CanDebit
<1>2. /\ left \in [Accounts -> Nat]
      /\ \A b \in Accounts : left[b] = IF b = a THEN v.deposits[b] - n ELSE v.deposits[b]
  BY <1>1, MinusType DEF VaultType
<1>3. v.totalDeposits - n \in Nat
  BY <1>1 DEF VaultType
<1>4. Debit(v, a, n) = [v EXCEPT !.deposits = left, !.totalDeposits = @ - n]
  BY DEF Debit
<1> HIDE DEF left
<1> QED BY <1>2, <1>3, <1>4 DEF VaultType

(* What releasing a reservation does: the collateral is free again, and the   *)
(* entry floor with the account's last reservation.                           *)
LEMMA ReleaseFacts ==
    ASSUME NEW v \in VaultType, NEW t \in Tasks, NEW a \in Accounts, CanRelease(v, t, a)
    PROVE  LET r == Release(v, t, a)
               n == v.taskReservations[t][a].amount
           IN  /\ r \in VaultType
               /\ r.deposits = v.deposits
               /\ \A b \in Accounts \ {a} :
                     /\ r.reserved[b] = v.reserved[b]
                     /\ r.latchedEntryFloor[b] = v.latchedEntryFloor[b]
                     /\ r.activeTaskReservations[b] = v.activeTaskReservations[b]
               /\ n <= v.reserved[a] /\ r.reserved[a] = v.reserved[a] - n
               /\ n > 0 => /\ v.activeTaskReservations[a] > 0
                           /\ r.activeTaskReservations[a] = v.activeTaskReservations[a] - 1
                           /\ r.latchedEntryFloor[a] =
                                 IF v.activeTaskReservations[a] = 1 THEN 0
                                 ELSE v.latchedEntryFloor[a]
               /\ n = 0 => r = v
               /\ r.totalDeposits = v.totalDeposits
               /\ r.balance = v.balance /\ r.totalPendingPayouts = v.totalPendingPayouts
<1> DEFINE n == v.taskReservations[t][a].amount
           res == [v.taskReservations EXCEPT ![t][a] = NoReservation]
           held == Minus(v.reserved, a, n)
           live == Minus(v.activeTaskReservations, a, 1)
           floor == IF v.activeTaskReservations[a] = 1
                    THEN [v.latchedEntryFloor EXCEPT ![a] = 0] ELSE v.latchedEntryFloor
<1>n. n \in Nat
  BY DEF VaultType, ReservationType
<1>0. CASE n = 0
  <2>1. Release(v, t, a) = v
    BY <1>0 DEF Release
  <2>2. v.reserved[a] \in Nat
    BY DEF VaultType
  <2> QED BY <1>0, <2>1, <2>2
<1>1. CASE n # 0
  <2>1. /\ n <= v.reserved[a] /\ n <= v.totalReserved
        /\ v.activeTaskReservations[a] > 0 /\ n > 0
    BY <1>1, <1>n DEF CanRelease
  <2>2. res \in [Tasks -> [Accounts -> ReservationType]]
    <3>1. NoReservation \in ReservationType
      BY DEF NoReservation, ReservationType
    <3>2. v.taskReservations \in [Tasks -> [Accounts -> ReservationType]]
      BY DEF VaultType
    <3> QED BY <3>1, <3>2
  <2>3. /\ held \in [Accounts -> Nat]
        /\ \A b \in Accounts : held[b] = IF b = a THEN v.reserved[b] - n ELSE v.reserved[b]
    <3>1. v.reserved \in [Accounts -> Nat]
      BY DEF VaultType
    <3> HIDE DEF n
    <3> QED BY <3>1, <2>1, <1>n, MinusType
  <2>4. /\ live \in [Accounts -> Nat]
        /\ \A b \in Accounts : live[b] = IF b = a THEN v.activeTaskReservations[b] - 1
                                         ELSE v.activeTaskReservations[b]
    BY <2>1, MinusType DEF VaultType
  <2>5. v.totalReserved - n \in Nat
    BY <2>1, <1>n DEF VaultType
  <2>6. /\ floor \in [Accounts -> Nat]
        /\ \A b \in Accounts : floor[b] = IF b = a /\ v.activeTaskReservations[a] = 1 THEN 0
                                          ELSE v.latchedEntryFloor[b]
    BY DEF VaultType
  <2>7. Release(v, t, a) = [v EXCEPT !.taskReservations = res, !.reserved = held,
                                     !.totalReserved = @ - n,
                                     !.activeTaskReservations = live,
                                     !.latchedEntryFloor = floor]
    BY <1>1 DEF Release
  <2> HIDE DEF n, res, held, live, floor
  <2>8. Release(v, t, a) \in VaultType
    BY ZenonT(30), <2>2, <2>3, <2>4, <2>5, <2>6, <2>7 DEF VaultType
  <2>9. /\ Release(v, t, a).reserved = held
        /\ Release(v, t, a).activeTaskReservations = live
        /\ Release(v, t, a).latchedEntryFloor = floor
        /\ Release(v, t, a).deposits = v.deposits
        /\ Release(v, t, a).totalDeposits = v.totalDeposits
        /\ Release(v, t, a).balance = v.balance
        /\ Release(v, t, a).totalPendingPayouts = v.totalPendingPayouts
    BY <2>7 DEF VaultType
  <2>10. \A b \in Accounts \ {a} :
            /\ held[b] = v.reserved[b]
            /\ floor[b] = v.latchedEntryFloor[b]
            /\ live[b] = v.activeTaskReservations[b]
    BY <2>3, <2>4, <2>6
  <2>11. /\ held[a] = v.reserved[a] - n
         /\ live[a] = v.activeTaskReservations[a] - 1
         /\ floor[a] = IF v.activeTaskReservations[a] = 1 THEN 0 ELSE v.latchedEntryFloor[a]
    BY <2>3, <2>4, <2>6
  <2> QED BY <1>1, <2>1, <2>8, <2>9, <2>10, <2>11 DEF n
<1> QED BY <1>0, <1>1

-------------------------------------------------------------------------------
(* The invariant, as a predicate of a vault state, so that it can be followed *)
(* through the intermediate states of an operation.  m is AZL that has left   *)
(* the deposits but has not been paid yet.                                    *)
Backed(v) == \A a \in Accounts : v.deposits[a] >= v.reserved[a] + v.latchedEntryFloor[a]

Floors(v) ==
    \A a \in Accounts : v.latchedEntryFloor[a] > 0 <=> v.activeTaskReservations[a] > 0

Covered(v, m) == v.balance >= Liabilities(v) + m

Sound(v, m) == v \in VaultType /\ Backed(v) /\ Floors(v) /\ Covered(v, m)

(* A payment uses up the AZL set aside for it, and no more.                   *)
LEMMA PaySound ==
    ASSUME NEW v, NEW to \in Payees, NEW n \in Nat, NEW m \in Nat, NEW refusing,
           Sound(v, n + m)
    PROVE  Sound(PayOrDefer(v, to, n, refusing), m)
<1> DEFINE r == PayOrDefer(v, to, n, refusing)
<1>1. v \in VaultType
  BY DEF Sound
<1>2. /\ r \in VaultType
      /\ r.deposits = v.deposits /\ r.reserved = v.reserved
      /\ r.latchedEntryFloor = v.latchedEntryFloor
      /\ r.activeTaskReservations = v.activeTaskReservations
      /\ r.totalDeposits = v.totalDeposits
      /\ r.balance + v.totalPendingPayouts + n = v.balance + r.totalPendingPayouts
  BY <1>1, PayFacts
<1> HIDE DEF r
<1>3. Backed(r) /\ Floors(r)
  BY <1>2 DEF Sound, Backed, Floors
<1>4. Covered(r, m)
  <2>1. /\ v.balance \in Nat /\ v.totalPendingPayouts \in Nat /\ v.totalDeposits \in Nat
        /\ r.balance \in Nat /\ r.totalPendingPayouts \in Nat
    BY <1>1, <1>2 DEF VaultType
  <2>2. v.balance >= v.totalDeposits + v.totalPendingPayouts + (n + m)
    BY DEF Sound, Covered, Liabilities
  <2>3. r.balance >= r.totalDeposits + r.totalPendingPayouts + m
    BY <1>2, <2>1, <2>2
  <2> QED BY <2>3 DEF Covered, Liabilities
<1> QED BY <1>2, <1>3, <1>4 DEF Sound, r

(* Releasing a reservation keeps the account backed: collateral and, with the *)
(* last reservation, the floor are given up together.                         *)
LEMMA ReleaseSound ==
    ASSUME NEW v, NEW t \in Tasks, NEW a \in Accounts, Sound(v, 0), CanRelease(v, t, a)
    PROVE  Sound(Release(v, t, a), 0)
<1> DEFINE r == Release(v, t, a)
           n == v.taskReservations[t][a].amount
<1>1. v \in VaultType
  BY DEF Sound
<1>2. /\ r \in VaultType
      /\ r.deposits = v.deposits
      /\ \A b \in Accounts \ {a} :
            /\ r.reserved[b] = v.reserved[b]
            /\ r.latchedEntryFloor[b] = v.latchedEntryFloor[b]
            /\ r.activeTaskReservations[b] = v.activeTaskReservations[b]
      /\ n <= v.reserved[a] /\ r.reserved[a] = v.reserved[a] - n
      /\ n > 0 => /\ v.activeTaskReservations[a] > 0
                  /\ r.activeTaskReservations[a] = v.activeTaskReservations[a] - 1
                  /\ r.latchedEntryFloor[a] =
                        IF v.activeTaskReservations[a] = 1 THEN 0 ELSE v.latchedEntryFloor[a]
      /\ n = 0 => r = v
      /\ r.totalDeposits = v.totalDeposits
      /\ r.balance = v.balance /\ r.totalPendingPayouts = v.totalPendingPayouts
  BY <1>1, ReleaseFacts
<1>3. /\ n \in Nat
      /\ \A b \in Accounts :
            /\ v.deposits[b] \in Nat /\ v.reserved[b] \in Nat
            /\ v.latchedEntryFloor[b] \in Nat /\ v.activeTaskReservations[b] \in Nat
  BY <1>1 DEF VaultType, ReservationType
<1> HIDE DEF r, n
<1>4. CASE n = 0
  BY <1>2, <1>4 DEF r
<1>5. CASE n > 0
  <2>1. ASSUME NEW b \in Accounts, b # a
        PROVE  /\ r.deposits[b] >= r.reserved[b] + r.latchedEntryFloor[b]
               /\ r.latchedEntryFloor[b] > 0 <=> r.activeTaskReservations[b] > 0
    BY <1>2, <2>1 DEF Sound, Backed, Floors
  <2>2. /\ v.deposits[a] >= v.reserved[a] + v.latchedEntryFloor[a]
        /\ v.latchedEntryFloor[a] > 0 <=> v.activeTaskReservations[a] > 0
    BY DEF Sound, Backed, Floors
  <2>3. r.deposits[a] >= r.reserved[a] + r.latchedEntryFloor[a]
    BY <1>2, <1>3, <1>5, <2>2
  <2>4. r.latchedEntryFloor[a] > 0 <=> r.activeTaskReservations[a] > 0
    BY <1>2, <1>3, <1>5, <2>2
  <2>5. Backed(r) /\ Floors(r)
    BY <2>1, <2>3, <2>4 DEF Backed, Floors
  <2>6. Covered(r, 0)
    BY <1>2 DEF Sound, Covered, Liabilities
  <2> QED BY <1>2, <2>5, <2>6 DEF Sound, r
<1> QED BY <1>3, <1>4, <1>5

(* A fee no larger than the collateral it was reserved from can be charged    *)
(* once that collateral is released: the order of debitExitFee and            *)
(* debitAccessFeeTo.                                                          *)
LEMMA ChargeSound ==
    ASSUME NEW v, NEW t \in Tasks, NEW a \in Accounts, NEW n \in Nat,
           Sound(v, 0), CanRelease(v, t, a), CanDebit(v, a, n),
           n <= v.taskReservations[t][a].amount
    PROVE  Sound(Debit(Release(v, t, a), a, n), n)
<1> DEFINE r == Release(v, t, a)
           d == Debit(r, a, n)
           k == v.taskReservations[t][a].amount
<1>1. v \in VaultType
  BY DEF Sound
<1>2. /\ r \in VaultType
      /\ r.deposits = v.deposits
      /\ k <= v.reserved[a] /\ r.reserved[a] = v.reserved[a] - k
      /\ k > 0 => r.latchedEntryFloor[a] =
                     IF v.activeTaskReservations[a] = 1 THEN 0 ELSE v.latchedEntryFloor[a]
      /\ k = 0 => r = v
      /\ r.totalDeposits = v.totalDeposits
  BY <1>1, ReleaseFacts
<1>3. Sound(r, 0)
  BY ReleaseSound
<1>4. CanDebit(r, a, n)
  BY <1>2 DEF CanDebit
<1>5. /\ k \in Nat
      /\ v.deposits[a] \in Nat /\ v.reserved[a] \in Nat /\ v.latchedEntryFloor[a] \in Nat
  BY <1>1 DEF VaultType, ReservationType
<1>6. /\ d \in VaultType
      /\ \A b \in Accounts :
            d.deposits[b] = IF b = a THEN r.deposits[b] - n ELSE r.deposits[b]
      /\ d.reserved = r.reserved
      /\ d.latchedEntryFloor = r.latchedEntryFloor
      /\ d.activeTaskReservations = r.activeTaskReservations
      /\ d.totalDeposits = r.totalDeposits - n
      /\ d.balance = r.balance /\ d.totalPendingPayouts = r.totalPendingPayouts
  BY <1>2, <1>4, DebitFacts
<1>7. n <= k
  OBVIOUS
<1>9. v.deposits[a] >= v.reserved[a] + v.latchedEntryFloor[a]
  BY DEF Sound, Backed
<1> HIDE DEF r, d, k
<1>8. Floors(d)
  BY <1>3, <1>6 DEF Sound, Floors
<1>10. Backed(d)
  <2>1. ASSUME NEW b \in Accounts, b # a
        PROVE  d.deposits[b] >= d.reserved[b] + d.latchedEntryFloor[b]
    BY <1>3, <1>6, <2>1 DEF Sound, Backed
  <2>2. d.deposits[a] >= d.reserved[a] + d.latchedEntryFloor[a]
    <3>1. /\ d.deposits[a] = v.deposits[a] - n /\ d.reserved[a] = r.reserved[a]
          /\ d.latchedEntryFloor[a] = r.latchedEntryFloor[a]
      BY <1>2, <1>6
    <3>2. CASE k = 0
      BY <3>1, <3>2, <1>2, <1>5, <1>7, <1>9
    <3>3. CASE k > 0
      <4>1. r.latchedEntryFloor[a] \in Nat /\ r.latchedEntryFloor[a] <= v.latchedEntryFloor[a]
        BY <3>3, <1>2, <1>5
      <4> QED BY <3>1, <4>1, <1>2, <1>5, <1>7, <1>9
    <3> QED BY <3>2, <3>3, <1>5
  <2> QED BY <2>1, <2>2 DEF Backed
<1>11. Covered(d, n)
  <2>1. /\ r.balance \in Nat /\ r.totalDeposits \in Nat /\ r.totalPendingPayouts \in Nat
    BY <1>2 DEF VaultType
  <2>2. r.balance >= r.totalDeposits + r.totalPendingPayouts + 0
    BY <1>3 DEF Sound, Covered, Liabilities
  <2>3. d.balance >= d.totalDeposits + d.totalPendingPayouts + n
    BY <1>6, <2>1, <2>2
  <2> QED BY <2>3 DEF Covered, Liabilities
<1>12. Sound(d, n)
  BY <1>6, <1>8, <1>10, <1>11 DEF Sound
<1> QED BY <1>12 DEF d, r

(* debitExitFee leaves the vault sound: both halves of the fee are covered.   *)
LEMMA DebitExitFeeSound ==
    ASSUME NEW v, NEW t \in Tasks, NEW a \in Accounts, NEW harmed \in Accounts,
           NEW refusing, Sound(v, 0), CanDebitExitFee(v, t, a)
    PROVE  Sound(DebitExitFee(v, t, a, harmed, refusing), 0)
<1> DEFINE x == v.taskReservations[t][a].exitCompensation
           y == v.taskReservations[t][a].exitProtocolShare
           charged == Debit(Release(v, t, a), a, ExitFee(v, t, a))
           compensated == PayOrDefer(charged, harmed, x, refusing)
<1>1. x \in Nat /\ y \in Nat
  BY DEF Sound, VaultType, ReservationType
<1>2. ExitFee(v, t, a) = x + y /\ ExitFee(v, t, a) \in Nat
  BY <1>1 DEF ExitFee
<1>3. Sound(charged, x + y)
  <2>1. Sound(charged, ExitFee(v, t, a))
    BY <1>2, ChargeSound DEF CanDebitExitFee
  <2> QED BY <2>1, <1>2
<1>4. harmed \in Payees /\ Treasury \in Payees
  BY DEF Payees
<1>5. Sound(compensated, y)
  <2> HIDE DEF charged, x, y
  <2> QED BY <1>1, <1>3, <1>4, PaySound
<1>6. Sound(compensated, y + 0)
  <2> HIDE DEF compensated, y
  <2> QED BY <1>1, <1>5
<1>7. Sound(PayOrDefer(compensated, Treasury, y, refusing), 0)
  <2> HIDE DEF compensated, y
  <2> QED BY <1>1, <1>4, <1>6, PaySound
<1> QED BY <1>7 DEF DebitExitFee

(* debitAccessFeeTo: a reservation is released and its access part paid.     *)
LEMMA DebitAccessFeeSound ==
    ASSUME NEW v, NEW t \in Tasks, NEW a \in Accounts, NEW recipient \in Accounts,
           NEW refusing, Sound(v, 0), CanDebitAccessFee(v, t, a, recipient)
    PROVE  Sound(DebitAccessFee(v, t, a, recipient, refusing), 0)
<1> DEFINE fee == v.taskReservations[t][a].accessCompensation
           charged == Debit(Release(v, t, a), a, fee)
<1>1. fee \in Nat
  BY DEF Sound, VaultType, ReservationType
<1>2. Sound(charged, fee)
  BY <1>1, ChargeSound DEF CanDebitAccessFee
<1>3. recipient \in Payees
  BY DEF Payees
<1>4. Sound(PayOrDefer(charged, recipient, fee, refusing), 0)
  <2> HIDE DEF charged, fee
  <2>1. Sound(charged, fee + 0)
    BY <1>1, <1>2
  <2> QED BY <1>1, <1>3, <2>1, PaySound
<1> QED BY <1>4 DEF DebitAccessFee

(* reserveTask latches the quote, raises the floor and takes the collateral;  *)
(* the deposit was checked to cover all of it and the access fee.             *)
LEMMA ReserveSound ==
    ASSUME NEW v, NEW t \in Tasks, NEW a \in Accounts, NEW waive \in BOOLEAN,
           NEW createQuote \in BOOLEAN, NEW q, createQuote => q \in Quotes, NEW refusing,
           Sound(v, 0), CanReserve(v, t, a, waive, createQuote, q)
    PROVE  Sound(Reserve(v, t, a, waive, createQuote, q, refusing), 0)
<1> DEFINE quote == QuoteFor(v, t, createQuote, q)
           fee == AccessFee(quote, waive)
           k == quote.liveTaskReserve
           floor == EntryFloor(v, a, quote)
           res == [v.taskReservations EXCEPT ![t][a] =
                     [amount |-> quote.liveTaskReserve,
                      exitCompensation |-> quote.exitCompensation,
                      exitProtocolShare |-> quote.exitProtocolShare,
                      accessCompensation |-> quote.accessFee]]
           quotes == [v.taskQuotes EXCEPT ![t] = quote]
           floors == [v.latchedEntryFloor EXCEPT ![a] = floor]
           live == Plus(v.activeTaskReservations, a, 1)
           held == Plus(v.reserved, a, k)
           l == [v EXCEPT !.taskQuotes = quotes, !.latchedEntryFloor = floors,
                          !.taskReservations = res, !.activeTaskReservations = live,
                          !.reserved = held, !.totalReserved = @ + k]
           d == Debit(l, a, fee)
<1>1. v \in VaultType /\ Backed(v) /\ Floors(v) /\ Covered(v, 0)
  BY DEF Sound
<1>2. quote \in QuoteType
  <2>1. createQuote => q \in QuoteType
    BY VaultAssumption
  <2>2. v.taskQuotes[t] \in QuoteType
    BY <1>1 DEF VaultType
  <2> QED BY <2>1, <2>2 DEF QuoteFor
<1>3. k \in Nat /\ fee \in Nat /\ quote.entryDeposit \in Nat
  BY <1>2 DEF QuoteType, AccessFee
<1>4. /\ v.deposits \in [Accounts -> Nat] /\ v.reserved \in [Accounts -> Nat]
      /\ v.latchedEntryFloor \in [Accounts -> Nat]
      /\ v.activeTaskReservations \in [Accounts -> Nat]
      /\ v.totalReserved \in Nat
  BY <1>1 DEF VaultType
<1>5. /\ quote.entryDeposit > 0
      /\ Available(v, a) >= floor + k + fee
      /\ CanDebit(v, a, fee)
  BY DEF CanReserve
<1>6. floor \in Nat /\ floor > 0
  BY <1>3, <1>4, <1>5 DEF EntryFloor, AtLeast
<1>7. Reserve(v, t, a, waive, createQuote, q, refusing) = PayOrDefer(d, Treasury, fee, refusing)
  BY DEF Reserve
<1>8. res \in [Tasks -> [Accounts -> ReservationType]]
  <2>1. v.taskReservations \in [Tasks -> [Accounts -> ReservationType]]
    BY <1>1 DEF VaultType
  <2>2. [amount |-> quote.liveTaskReserve, exitCompensation |-> quote.exitCompensation,
         exitProtocolShare |-> quote.exitProtocolShare,
         accessCompensation |-> quote.accessFee] \in ReservationType
    <3> HIDE DEF quote
    <3> QED BY <1>2 DEF QuoteType, ReservationType
  <2> HIDE DEF quote
  <2> QED BY <2>1, <2>2
<1>9. quotes \in [Tasks -> QuoteType]
  <2>1. v.taskQuotes \in [Tasks -> QuoteType]
    BY <1>1 DEF VaultType
  <2> HIDE DEF quote
  <2> QED BY <1>2, <2>1
<1> HIDE DEF quote, fee, k, floor, quotes, res
<1>10. /\ floors \in [Accounts -> Nat]
       /\ \A b \in Accounts : floors[b] = IF b = a THEN floor ELSE v.latchedEntryFloor[b]
  BY <1>4, <1>6
<1>11. /\ live \in [Accounts -> Nat]
       /\ \A b \in Accounts : live[b] = IF b = a THEN v.activeTaskReservations[b] + 1
                                         ELSE v.activeTaskReservations[b]
  <2>1. v.activeTaskReservations \in [Accounts -> Nat]
    BY <1>4
  <2> QED BY <2>1 DEF Plus
<1>12. /\ held \in [Accounts -> Nat]
       /\ \A b \in Accounts : held[b] = IF b = a THEN v.reserved[b] + k ELSE v.reserved[b]
  <2>1. v.reserved \in [Accounts -> Nat] /\ k \in Nat
    BY <1>3, <1>4
  <2> QED BY <2>1 DEF Plus
<1>13. v.totalReserved + k \in Nat
  BY <1>3, <1>4
<1> HIDE DEF floors, live, held
<1>14. l \in VaultType
  BY <1>1, <1>8, <1>9, <1>10, <1>11, <1>12, <1>13 DEF VaultType
<1>15. /\ l.deposits = v.deposits /\ l.totalDeposits = v.totalDeposits
       /\ l.balance = v.balance /\ l.totalPendingPayouts = v.totalPendingPayouts
       /\ l.latchedEntryFloor = floors /\ l.reserved = held
       /\ l.activeTaskReservations = live
  BY <1>1 DEF VaultType
<1> HIDE DEF l
<1>16. CanDebit(l, a, fee)
  BY <1>5, <1>15 DEF CanDebit
<1>17. /\ d \in VaultType
       /\ \A b \in Accounts :
             d.deposits[b] = IF b = a THEN v.deposits[b] - fee ELSE v.deposits[b]
       /\ d.reserved = held /\ d.latchedEntryFloor = floors
       /\ d.activeTaskReservations = live
       /\ d.totalDeposits = v.totalDeposits - fee
       /\ d.balance = v.balance /\ d.totalPendingPayouts = v.totalPendingPayouts
  BY <1>3, <1>14, <1>15, <1>16, DebitFacts
<1> HIDE DEF d
<1>18. Backed(d)
  <2>1. ASSUME NEW b \in Accounts, b # a
        PROVE  d.deposits[b] >= d.reserved[b] + d.latchedEntryFloor[b]
    BY <1>1, <1>10, <1>12, <1>17, <2>1 DEF Backed
  <2>2. v.deposits[a] >= v.reserved[a] + (floor + k + fee)
    <3>1. /\ v.deposits[a] \in Nat /\ v.reserved[a] \in Nat
          /\ floor + k + fee > 0 /\ floor + k + fee \in Nat
      BY <1>3, <1>4, <1>6
    <3> QED BY <1>5, <3>1 DEF Available, Monus
  <2>3. d.deposits[a] >= d.reserved[a] + d.latchedEntryFloor[a]
    <3>1. /\ d.deposits[a] = v.deposits[a] - fee /\ d.reserved[a] = v.reserved[a] + k
          /\ d.latchedEntryFloor[a] = floor
          /\ v.deposits[a] \in Nat /\ v.reserved[a] \in Nat
      BY <1>4, <1>10, <1>12, <1>17
    <3> QED BY <3>1, <2>2, <1>3, <1>6
  <2> QED BY <2>1, <2>3 DEF Backed
<1>19. Floors(d)
  <2>1. ASSUME NEW b \in Accounts
        PROVE  d.latchedEntryFloor[b] > 0 <=> d.activeTaskReservations[b] > 0
    <3>1. CASE b = a
      BY <1>4, <1>6, <1>10, <1>11, <1>17, <3>1
    <3>2. CASE b # a
      BY <1>1, <1>10, <1>11, <1>17, <3>2 DEF Floors
    <3> QED BY <3>1, <3>2
  <2> QED BY <2>1 DEF Floors
<1>20. Covered(d, fee)
  <2>1. v.balance \in Nat /\ v.totalDeposits \in Nat /\ v.totalPendingPayouts \in Nat
    BY <1>1 DEF VaultType
  <2>2. v.balance >= v.totalDeposits + v.totalPendingPayouts + 0
    BY <1>1 DEF Covered, Liabilities
  <2>3. d.balance >= d.totalDeposits + d.totalPendingPayouts + fee
    BY <1>3, <1>17, <2>1, <2>2
  <2> QED BY <2>3 DEF Covered, Liabilities
<1>21. Sound(d, fee + 0)
  <2>1. fee + 0 = fee
    BY <1>3
  <2> QED BY <1>17, <1>18, <1>19, <1>20, <2>1 DEF Sound
<1>22. Treasury \in Payees
  BY DEF Payees
<1> QED BY <1>3, <1>7, <1>21, <1>22, PaySound

(* AZL reaching the vault only adds to what covers its liabilities.            *)
LEMMA ReceiveSound ==
    ASSUME NEW v, NEW n \in Nat, NEW m \in Nat, Sound(v, m)
    PROVE  Sound(Receive(v, n), m)
<1> DEFINE r == Receive(v, n)
<1>1. v \in VaultType /\ Backed(v) /\ Floors(v) /\ Covered(v, m)
  BY DEF Sound
<1>2. /\ v.balance \in Nat /\ v.totalDeposits \in Nat /\ v.totalPendingPayouts \in Nat
      /\ v.balance + n \in Nat
  BY <1>1 DEF VaultType
<1>3. r = [v EXCEPT !.balance = @ + n]
  BY DEF Receive
<1> HIDE DEF r
<1>4. r \in VaultType
  BY <1>1, <1>2, <1>3 DEF VaultType
<1>5. /\ r.deposits = v.deposits /\ r.reserved = v.reserved
      /\ r.latchedEntryFloor = v.latchedEntryFloor
      /\ r.activeTaskReservations = v.activeTaskReservations
      /\ r.totalDeposits = v.totalDeposits
      /\ r.totalPendingPayouts = v.totalPendingPayouts
      /\ r.balance = v.balance + n
  BY <1>1, <1>3 DEF VaultType
<1>6. Backed(r) /\ Floors(r)
  BY <1>1, <1>5 DEF Backed, Floors
<1>7. Covered(r, m)
  BY <1>1, <1>2, <1>5 DEF Covered, Liabilities
<1> QED BY <1>4, <1>6, <1>7 DEF Sound, r

(* credit only recognises AZL the vault already holds unowed.                  *)
LEMMA CreditSound ==
    ASSUME NEW v, NEW a \in Accounts, NEW n \in Nat, Sound(v, 0), CanCredit(v, a, n)
    PROVE  Sound(Credit(v, a, n), 0)
<1> DEFINE more == Plus(v.deposits, a, n)
           r == Credit(v, a, n)
<1>1. v \in VaultType /\ Backed(v) /\ Floors(v)
  BY DEF Sound
<1>2. /\ v.balance \in Nat /\ v.totalDeposits \in Nat /\ v.totalPendingPayouts \in Nat
      /\ v.totalDeposits + n \in Nat
  BY <1>1 DEF VaultType
<1>3. /\ more \in [Accounts -> Nat]
      /\ \A b \in Accounts : more[b] = IF b = a THEN v.deposits[b] + n ELSE v.deposits[b]
  <2>1. v.deposits \in [Accounts -> Nat]
    BY <1>1 DEF VaultType
  <2> QED BY <2>1 DEF Plus
<1>4. r = [v EXCEPT !.deposits = more, !.totalDeposits = @ + n]
  BY DEF Credit
<1> HIDE DEF more, r
<1>5. r \in VaultType
  BY <1>1, <1>2, <1>3, <1>4 DEF VaultType
<1>6. /\ r.deposits = more /\ r.reserved = v.reserved
      /\ r.latchedEntryFloor = v.latchedEntryFloor
      /\ r.activeTaskReservations = v.activeTaskReservations
      /\ r.totalDeposits = v.totalDeposits + n
      /\ r.totalPendingPayouts = v.totalPendingPayouts
      /\ r.balance = v.balance
  BY <1>1, <1>4 DEF VaultType
<1>7. Backed(r)
  <2>1. \A b \in Accounts : /\ v.deposits[b] \in Nat /\ v.reserved[b] \in Nat
                            /\ v.latchedEntryFloor[b] \in Nat
    BY <1>1 DEF VaultType
  <2> QED BY <1>1, <1>3, <1>6, <2>1 DEF Backed
<1>8. Floors(r)
  BY <1>1, <1>6 DEF Floors
<1>9. Covered(r, 0)
  BY <1>2, <1>6 DEF CanCredit, Covered, Liabilities
<1> QED BY <1>5, <1>7, <1>8, <1>9 DEF Sound, r

(* withdraw leaves the collateral and, while a task is live, the entry floor.   *)
LEMMA WithdrawSound ==
    ASSUME NEW v, NEW a \in Accounts, NEW n \in Nat, Sound(v, 0), CanWithdraw(v, a, n)
    PROVE  Sound(Withdraw(v, a, n), 0)
<1> DEFINE d == Debit(v, a, n)
           r == Withdraw(v, a, n)
<1>1. v \in VaultType /\ Backed(v) /\ Floors(v) /\ Covered(v, 0)
  BY DEF Sound
<1>2. n > 0 /\ n <= Withdrawable(v, a) /\ CanDebit(v, a, n) /\ n <= v.balance
  BY DEF CanWithdraw
<1>3. \A b \in Accounts : /\ v.deposits[b] \in Nat /\ v.reserved[b] \in Nat
                          /\ v.latchedEntryFloor[b] \in Nat
                          /\ v.activeTaskReservations[b] \in Nat
  BY <1>1 DEF VaultType
<1>4. v.balance \in Nat /\ v.totalDeposits \in Nat /\ v.totalPendingPayouts \in Nat
  BY <1>1 DEF VaultType
<1>5. v.deposits[a] >= v.reserved[a] + v.latchedEntryFloor[a] + n
  <2>1. v.activeTaskReservations[a] = 0 => v.latchedEntryFloor[a] = 0
    BY <1>1, <1>3 DEF Floors
  <2> QED BY <1>2, <1>3, <2>1 DEF Withdrawable, Available, Monus
<1>6. /\ d \in VaultType
      /\ \A b \in Accounts :
            d.deposits[b] = IF b = a THEN v.deposits[b] - n ELSE v.deposits[b]
      /\ d.reserved = v.reserved
      /\ d.latchedEntryFloor = v.latchedEntryFloor
      /\ d.activeTaskReservations = v.activeTaskReservations
      /\ d.totalDeposits = v.totalDeposits - n
      /\ d.balance = v.balance /\ d.totalPendingPayouts = v.totalPendingPayouts
  BY <1>1, <1>2, DebitFacts
<1>7. r = [d EXCEPT !.balance = @ - n]
  BY DEF Withdraw
<1> HIDE DEF d, r
<1>8. r \in VaultType
  <2>1. d.balance - n \in Nat
    BY <1>2, <1>4, <1>6
  <2> QED BY <1>6, <1>7, <2>1 DEF VaultType
<1>9. /\ r.deposits = d.deposits /\ r.reserved = v.reserved
      /\ r.latchedEntryFloor = v.latchedEntryFloor
      /\ r.activeTaskReservations = v.activeTaskReservations
      /\ r.totalDeposits = v.totalDeposits - n
      /\ r.totalPendingPayouts = v.totalPendingPayouts
      /\ r.balance = v.balance - n
  BY <1>6, <1>7 DEF VaultType
<1>10. Backed(r)
  BY <1>1, <1>3, <1>5, <1>6, <1>9 DEF Backed
<1>11. Floors(r)
  BY <1>1, <1>9 DEF Floors
<1>12. Covered(r, 0)
  BY <1>1, <1>4, <1>9 DEF Covered, Liabilities
<1> QED BY <1>8, <1>10, <1>11, <1>12 DEF Sound, r

(* claimPayout.                                                              *)
LEMMA ClaimPayoutSound ==
    ASSUME NEW v, NEW p \in Payees, Sound(v, 0), CanClaimPayout(v, p)
    PROVE  Sound(ClaimPayout(v, p), 0)
<1> DEFINE n == v.pendingPayouts[p]
           owed == [v.pendingPayouts EXCEPT ![p] = 0]
           r == ClaimPayout(v, p)
<1>1. v \in VaultType /\ Backed(v) /\ Floors(v) /\ Covered(v, 0)
  BY DEF Sound
<1>2. /\ v.balance \in Nat /\ v.totalDeposits \in Nat /\ v.totalPendingPayouts \in Nat
      /\ n \in Nat /\ owed \in [Payees -> Nat]
  BY <1>1 DEF VaultType
<1>3. n <= v.totalPendingPayouts /\ n <= v.balance
  BY DEF CanClaimPayout
<1>4. r = [v EXCEPT !.pendingPayouts = owed, !.totalPendingPayouts = @ - n, !.balance = @ - n]
  BY DEF ClaimPayout
<1> HIDE DEF n, owed, r
<1>5. r \in VaultType
  <2>1. v.totalPendingPayouts - n \in Nat /\ v.balance - n \in Nat
    BY <1>2, <1>3
  <2> QED BY <1>1, <1>2, <1>4, <2>1 DEF VaultType
<1>6. /\ r.deposits = v.deposits /\ r.reserved = v.reserved
      /\ r.latchedEntryFloor = v.latchedEntryFloor
      /\ r.activeTaskReservations = v.activeTaskReservations
      /\ r.totalDeposits = v.totalDeposits
      /\ r.totalPendingPayouts = v.totalPendingPayouts - n
      /\ r.balance = v.balance - n
  BY <1>1, <1>4 DEF VaultType
<1>7. Backed(r) /\ Floors(r)
  BY <1>1, <1>6 DEF Backed, Floors
<1>8. Covered(r, 0)
  BY <1>1, <1>2, <1>6 DEF Covered, Liabilities
<1> QED BY <1>5, <1>7, <1>8 DEF Sound, r

(* rescueSurplus takes only what exceeds the liabilities.                    *)
LEMMA SendSound ==
    ASSUME NEW v, NEW n \in Nat, Sound(v, 0), CanRescueSurplus(v, n)
    PROVE  Sound(Send(v, n), 0)
<1> DEFINE r == Send(v, n)
<1>1. v \in VaultType /\ Backed(v) /\ Floors(v) /\ Covered(v, 0)
  BY DEF Sound
<1>2. v.balance \in Nat /\ v.totalDeposits \in Nat /\ v.totalPendingPayouts \in Nat
  BY <1>1 DEF VaultType
<1>3. v.balance >= v.totalDeposits + v.totalPendingPayouts + n
  BY DEF CanRescueSurplus, Liabilities
<1>4. r = [v EXCEPT !.balance = @ - n]
  BY DEF Send
<1> HIDE DEF r
<1>5. v.balance - n \in Nat
  BY <1>2, <1>3
<1>6. r \in VaultType
  BY <1>1, <1>4, <1>5 DEF VaultType
<1>7. /\ r.deposits = v.deposits /\ r.reserved = v.reserved
      /\ r.latchedEntryFloor = v.latchedEntryFloor
      /\ r.activeTaskReservations = v.activeTaskReservations
      /\ r.totalDeposits = v.totalDeposits
      /\ r.totalPendingPayouts = v.totalPendingPayouts
      /\ r.balance = v.balance - n
  BY <1>1, <1>4 DEF VaultType
<1>8. Backed(r) /\ Floors(r)
  BY <1>1, <1>7 DEF Backed, Floors
<1>9. Covered(r, 0)
  BY <1>2, <1>3, <1>7 DEF Covered, Liabilities
<1> QED BY <1>6, <1>8, <1>9 DEF Sound, r

-------------------------------------------------------------------------------
(* The inductive invariant: the vault is sound between transactions.           *)
IInv == Sound(vault, 0)

(* An empty vault is sound.                                                  *)
LEMMA InitSound == Init => IInv
<1> SUFFICES ASSUME Init PROVE IInv
  OBVIOUS
<1>1. NoQuote \in QuoteType /\ NoReservation \in ReservationType
  BY DEF NoQuote, QuoteType, NoReservation, ReservationType
<1>2. vault \in VaultType
  <2> HIDE DEF NoQuote, NoReservation
  <2> QED BY <1>1 DEF Init, EmptyVault, VaultType
<1>3. Backed(vault) /\ Floors(vault) /\ Covered(vault, 0)
  BY DEF Init, EmptyVault, Backed, Floors, Covered, Liabilities
<1> QED BY <1>2, <1>3 DEF IInv, Sound

(* Every call keeps the vault sound.                                         *)
LEMMA NextSound == IInv /\ [Next]_vault => IInv'
<1> SUFFICES ASSUME IInv, [Next]_vault PROVE IInv'
  OBVIOUS
<1>0. Sound(vault, 0)
  BY DEF IInv
<1>1. ASSUME NEW a \in Accounts, NEW n \in 1..MaxBalance, GatewayCredit(a, n)
      PROVE  IInv'
  <2>1. n \in Nat
    BY VaultAssumption
  <2>2. Sound(Receive(vault, n), 0)
    BY <1>0, <2>1, ReceiveSound
  <2> QED BY <1>1, <2>1, <2>2, CreditSound DEF GatewayCredit, IInv
<1>2. ASSUME NEW a \in Accounts, NEW n \in 1..MaxBalance, AgentWithdraw(a, n)
      PROVE  IInv'
  <2>1. n \in Nat
    BY VaultAssumption
  <2> QED BY <1>0, <1>2, <2>1, WithdrawSound DEF AgentWithdraw, IInv
<1>3. ASSUME NEW n \in 1..MaxBalance, Donate(n)
      PROVE  IInv'
  <2>1. n \in Nat
    BY VaultAssumption
  <2> QED BY <1>0, <1>3, <2>1, ReceiveSound DEF Donate, IInv
<1>4. ASSUME NEW n \in 1..MaxBalance, OwnerRescue(n)
      PROVE  IInv'
  <2>1. n \in Nat
    BY VaultAssumption
  <2> QED BY <1>0, <1>4, <2>1, SendSound DEF OwnerRescue, IInv
<1>5. ASSUME NEW t \in Tasks, NEW a \in Accounts, NEW waive \in BOOLEAN,
             NEW createQuote \in BOOLEAN, NEW q \in Quotes,
             NEW refusing \in SUBSET {Treasury},
             RegistryReserve(t, a, waive, createQuote, q, refusing)
      PROVE  IInv'
  BY <1>0, <1>5, ReserveSound DEF RegistryReserve, IInv
<1>6. ASSUME NEW t \in Tasks, NEW a \in Accounts, RegistryRelease(t, a)
      PROVE  IInv'
  BY <1>0, <1>6, ReleaseSound DEF RegistryRelease, IInv
<1>7. ASSUME NEW t \in Tasks, NEW a \in Accounts, NEW b \in Accounts,
             NEW refusing \in SUBSET Payees, RegistryDebitExitFee(t, a, b, refusing)
      PROVE  IInv'
  BY <1>0, <1>7, DebitExitFeeSound DEF RegistryDebitExitFee, IInv
<1>8. ASSUME NEW t \in Tasks, NEW a \in Accounts, NEW b \in Accounts,
             NEW refusing \in SUBSET Payees, RegistryDebitAccessFee(t, a, b, refusing)
      PROVE  IInv'
  BY <1>0, <1>8, DebitAccessFeeSound DEF RegistryDebitAccessFee, IInv
<1>9. ASSUME NEW p \in Payees, PayeeClaim(p)
      PROVE  IInv'
  BY <1>0, <1>9, ClaimPayoutSound DEF PayeeClaim, IInv
<1>10. CASE UNCHANGED vault
  BY <1>0, <1>10 DEF IInv
<1> QED BY <1>1, <1>2, <1>3, <1>4, <1>5, <1>6, <1>7, <1>8, <1>9, <1>10 DEF Next

(* Every reachable vault is sound.                                             *)
THEOREM VaultSound == Spec => []IInv
BY InitSound, NextSound, PTL DEF Spec

(* Every field of the vault keeps its type: in particular no subtraction in    *)
(* any path of AgentDepositVaultV2 goes below zero.                            *)
THEOREM VaultTypeCorrect == Spec => []TypeOK
<1>1. IInv => TypeOK
  BY DEF IInv, Sound, TypeOK
<1> QED BY <1>1, VaultSound, PTL

(* An agent's deposit covers its reserved collateral and its latched entry     *)
(* floor, whatever mix of tasks, prices, fees and withdrawals came before.      *)
THEOREM VaultBacked == Spec => []ReservationsBacked
<1>1. IInv => ReservationsBacked
  BY DEF IInv, Sound, Backed, ReservationsBacked
<1> QED BY <1>1, VaultSound, PTL

(* The entry floor is latched exactly while the agent has a live task.         *)
THEOREM VaultFloors == Spec => []FloorOnlyWhileActive
<1>1. IInv => FloorOnlyWhileActive
  BY DEF IInv, Sound, Floors, FloorOnlyWhileActive
<1> QED BY <1>1, VaultSound, PTL

(* The vault holds the AZL of every deposit and every deferred payout, also    *)
(* after failed transfers and rescues of surplus.                              *)
THEOREM VaultSolvent == Spec => []Solvent
<1>1. IInv => Solvent
  BY DEF IInv, Sound, Covered, Solvent, Liabilities, VaultType
<1> QED BY <1>1, VaultSound, PTL

-------------------------------------------------------------------------------
(* The books: the running totals and counters are the sums of what they        *)
(* summarise.  Each step changes at most one summand of each sum.              *)
DepositBooks(v) == v.totalDeposits = SumFunction(v.deposits)

PayoutBooks(v) == v.totalPendingPayouts = SumFunction(v.pendingPayouts)

AmountsOf(v, a) == [t \in Tasks |-> v.taskReservations[t][a].amount]

LiveOf(v, a) == {t \in Tasks : v.taskReservations[t][a].amount > 0}

CollateralBooks(v) ==
    /\ v.totalReserved = SumFunction(v.reserved)
    /\ \A a \in Accounts :
        /\ v.reserved[a] = SumFunction(AmountsOf(v, a))
        /\ v.activeTaskReservations[a] = Cardinality(LiveOf(v, a))

(* The fees latched with a reservation can be taken out of it.                 *)
FeesFit(v) ==
    \A t \in Tasks, a \in Accounts :
        LET r == v.taskReservations[t][a]
        IN  r.amount > 0 =>
                /\ r.exitCompensation + r.exitProtocolShare > 0
                /\ r.exitCompensation + r.exitProtocolShare <= r.amount
                /\ r.accessCompensation > 0 /\ r.accessCompensation <= r.amount

(* A quote in use charges for leaving.                                        *)
QuotesCharge(v) ==
    \A t \in Tasks :
        LET q == v.taskQuotes[t]
        IN  q.liveTaskReserve > 0 => q.exitCompensation + q.exitProtocolShare > 0

Books(v) ==
    DepositBooks(v) /\ PayoutBooks(v) /\ CollateralBooks(v) /\ FeesFit(v) /\ QuotesCharge(v)

(* What the books and the fees say depends on these fields alone.              *)
SameReservations(v, r) ==
    /\ r.taskReservations = v.taskReservations /\ r.reserved = v.reserved
    /\ r.activeTaskReservations = v.activeTaskReservations
    /\ r.totalReserved = v.totalReserved /\ r.taskQuotes = v.taskQuotes

(* What does not touch the reservations keeps what is said of them.          *)
LEMMA ReservationsFrame ==
    ASSUME NEW v, NEW r, SameReservations(v, r),
           CollateralBooks(v), FeesFit(v), QuotesCharge(v)
    PROVE  CollateralBooks(r) /\ FeesFit(r) /\ QuotesCharge(r)
<1>1. \A a : AmountsOf(r, a) = AmountsOf(v, a) /\ LiveOf(r, a) = LiveOf(v, a)
  BY DEF SameReservations, AmountsOf, LiveOf
<1> QED BY <1>1 DEF SameReservations, CollateralBooks, FeesFit, QuotesCharge

(* The reservations of an account are natural.                               *)
LEMMA AmountsType ==
    ASSUME NEW v \in VaultType, NEW a \in Accounts
    PROVE  AmountsOf(v, a) \in [Tasks -> Nat]
BY DEF VaultType, ReservationType, AmountsOf

(* A payment, made or deferred, keeps the books.                             *)
LEMMA PayBooks ==
    ASSUME NEW v \in VaultType, Books(v), NEW to \in Payees, NEW n \in Nat, NEW refusing
    PROVE  LET r == PayOrDefer(v, to, n, refusing)
           IN  Books(r) /\ SameReservations(v, r)
<1> DEFINE owed == Plus(v.pendingPayouts, to, n)
           r == PayOrDefer(v, to, n, refusing)
<1>1. v.pendingPayouts \in [Payees -> Nat]
  BY DEF VaultType
<1>2. /\ owed \in [Payees -> Nat]
      /\ \A p \in Payees : owed[p] = IF p = to THEN v.pendingPayouts[p] + n
                                     ELSE v.pendingPayouts[p]
  BY <1>1 DEF Plus
<1>3. IsFiniteSet(Payees)
  BY VaultAssumption, FS_AddElement DEF Payees
<1> HIDE DEF owed
<1>4. SumFunction(owed) = SumFunction(v.pendingPayouts) + n
  <2>1. \A p \in Payees : p # to => owed[p] = v.pendingPayouts[p]
    BY <1>2
  <2>2. /\ SumFunction(owed) = SumFunction(v.pendingPayouts) - v.pendingPayouts[to] + owed[to]
        /\ SumFunction(v.pendingPayouts) \in Nat
    BY <1>1, <1>2, <1>3, <2>1, TotalChange
  <2>3. owed[to] = v.pendingPayouts[to] + n /\ v.pendingPayouts[to] \in Nat
    BY <1>1, <1>2
  <2> QED BY <2>2, <2>3
<1>5. /\ r.deposits = v.deposits /\ r.totalDeposits = v.totalDeposits
      /\ SameReservations(v, r)
      /\ \/ /\ r.pendingPayouts = v.pendingPayouts
            /\ r.totalPendingPayouts = v.totalPendingPayouts
         \/ /\ r.pendingPayouts = owed
            /\ r.totalPendingPayouts = v.totalPendingPayouts + n
  BY DEF PayOrDefer, VaultType, SameReservations, owed
<1> HIDE DEF r
<1>6. PayoutBooks(r)
  BY <1>4, <1>5 DEF Books, PayoutBooks
<1>7. DepositBooks(r)
  BY <1>5 DEF Books, DepositBooks
<1> QED BY <1>5, <1>6, <1>7, ReservationsFrame DEF Books, r

(* A deposit that grows or shrinks by as much as the total does.                *)
LEMMA DepositChange ==
    ASSUME NEW v \in VaultType, Books(v), NEW r \in VaultType, NEW a \in Accounts,
           \A b \in Accounts : b # a => r.deposits[b] = v.deposits[b],
           r.totalDeposits = v.totalDeposits - v.deposits[a] + r.deposits[a],
           r.pendingPayouts = v.pendingPayouts,
           r.totalPendingPayouts = v.totalPendingPayouts,
           SameReservations(v, r)
    PROVE  Books(r)
<1>1. v.deposits \in [Accounts -> Nat] /\ r.deposits \in [Accounts -> Nat]
  BY DEF VaultType
<1>2. IsFiniteSet(Accounts)
  BY VaultAssumption
<1>3. SumFunction(r.deposits) = SumFunction(v.deposits) - v.deposits[a] + r.deposits[a]
  BY <1>1, <1>2, TotalChange
<1>4. DepositBooks(r)
  BY <1>3 DEF Books, DepositBooks
<1>5. PayoutBooks(r)
  BY DEF Books, PayoutBooks
<1> QED BY <1>4, <1>5, ReservationsFrame DEF Books

(* A reservation that is made or released, with the counters that follow it.    *)
LEMMA ReservationChange ==
    ASSUME NEW v \in VaultType, Books(v), NEW r \in VaultType,
           NEW t \in Tasks, NEW a \in Accounts, NEW e \in ReservationType,
           r.taskReservations = [v.taskReservations EXCEPT ![t][a] = e],
           \A b \in Accounts : b # a => /\ r.reserved[b] = v.reserved[b]
                                        /\ r.activeTaskReservations[b] =
                                              v.activeTaskReservations[b],
           r.reserved[a] = v.reserved[a] - v.taskReservations[t][a].amount + e.amount,
           r.totalReserved = v.totalReserved - v.taskReservations[t][a].amount + e.amount,
           r.activeTaskReservations[a] =
              v.activeTaskReservations[a]
              - (IF v.taskReservations[t][a].amount > 0 THEN 1 ELSE 0)
              + (IF e.amount > 0 THEN 1 ELSE 0),
           e.amount > 0 =>
              /\ e.exitCompensation + e.exitProtocolShare > 0
              /\ e.exitCompensation + e.exitProtocolShare <= e.amount
              /\ e.accessCompensation > 0 /\ e.accessCompensation <= e.amount,
           r.deposits = v.deposits, r.totalDeposits = v.totalDeposits,
           r.pendingPayouts = v.pendingPayouts,
           r.totalPendingPayouts = v.totalPendingPayouts,
           QuotesCharge(r)
    PROVE  Books(r)
<1> DEFINE old == v.taskReservations[t][a].amount
<1>0. IsFiniteSet(Accounts) /\ IsFiniteSet(Tasks)
  BY VaultAssumption
<1>1. /\ v.taskReservations \in [Tasks -> [Accounts -> ReservationType]]
      /\ v.reserved \in [Accounts -> Nat] /\ r.reserved \in [Accounts -> Nat]
      /\ v.activeTaskReservations \in [Accounts -> Nat]
  BY DEF VaultType
<1>2. e.amount \in Nat /\ old \in Nat
  BY <1>1 DEF ReservationType
<1>3. \A s \in Tasks, b \in Accounts :
        r.taskReservations[s][b] = IF s = t /\ b = a THEN e ELSE v.taskReservations[s][b]
  BY <1>1
<1>4. CollateralBooks(r)
  <2>1. r.totalReserved = SumFunction(r.reserved)
    <3>1. /\ SumFunction(r.reserved) = SumFunction(v.reserved) - v.reserved[a] + r.reserved[a]
          /\ SumFunction(v.reserved) \in Nat
      <4> DEFINE f == v.reserved
                 g == r.reserved
      <4>1. \A b \in Accounts : b # a => g[b] = f[b]
        OBVIOUS
      <4>2. f \in [Accounts -> Nat] /\ g \in [Accounts -> Nat] /\ IsFiniteSet(Accounts)
        BY <1>0, <1>1
      <4> HIDE DEF f, g, old
      <4>3. SumFunction(g) = SumFunction(f) - f[a] + g[a] /\ SumFunction(f) \in Nat
        BY <4>1, <4>2, TotalChange
      <4> QED BY <4>3 DEF f, g
    <3>2. v.totalReserved = SumFunction(v.reserved)
      BY DEF Books, CollateralBooks
    <3>3. v.reserved[a] \in Nat
      BY <1>1
    <3> HIDE DEF old
    <3>4. r.totalReserved = v.totalReserved - old + e.amount
          /\ r.reserved[a] = v.reserved[a] - old + e.amount
      BY DEF old
    <3> QED BY <1>2, <3>1, <3>2, <3>3, <3>4
  <2>2. ASSUME NEW b \in Accounts, b # a
        PROVE  /\ r.reserved[b] = SumFunction(AmountsOf(r, b))
               /\ r.activeTaskReservations[b] = Cardinality(LiveOf(r, b))
    <3>1. AmountsOf(r, b) = AmountsOf(v, b)
      BY <1>3, <2>2 DEF AmountsOf
    <3>2. LiveOf(r, b) = LiveOf(v, b)
      BY <1>3, <2>2 DEF LiveOf
    <3> QED BY <2>2, <3>1, <3>2 DEF Books, CollateralBooks
  <2>3. r.reserved[a] = SumFunction(AmountsOf(r, a))
    <3>1. AmountsOf(v, a) \in [Tasks -> Nat] /\ AmountsOf(r, a) \in [Tasks -> Nat]
      BY AmountsType
    <3>2. /\ \A s \in Tasks : s # t => AmountsOf(r, a)[s] = AmountsOf(v, a)[s]
          /\ AmountsOf(r, a)[t] = e.amount /\ AmountsOf(v, a)[t] = old
      BY <1>3 DEF AmountsOf
    <3>3. SumFunction(AmountsOf(r, a)) =
             SumFunction(AmountsOf(v, a)) - AmountsOf(v, a)[t] + AmountsOf(r, a)[t]
      BY <1>0, <3>1, <3>2, TotalChange
    <3>4. v.reserved[a] = SumFunction(AmountsOf(v, a))
      BY DEF Books, CollateralBooks
    <3> QED BY <3>2, <3>3, <3>4
  <2>4. r.activeTaskReservations[a] = Cardinality(LiveOf(r, a))
    <3> DEFINE L == LiveOf(v, a)
    <3>1. IsFiniteSet(L) /\ v.activeTaskReservations[a] = Cardinality(L)
          /\ Cardinality(L) \in Nat
      <4>1. L \in SUBSET Tasks
        BY DEF LiveOf
      <4> QED BY <1>0, <4>1, FS_Subset, FS_CardinalityType DEF Books, CollateralBooks
    <3>2. t \in L <=> old > 0
      BY DEF LiveOf
    <3>3. CASE e.amount > 0
      <4>1. LiveOf(r, a) = L \cup {t}
        BY <1>3, <3>3 DEF LiveOf
      <4>2. Cardinality(L \cup {t}) = IF t \in L THEN Cardinality(L) ELSE Cardinality(L) + 1
        BY <3>1, FS_AddElement
      <4> HIDE DEF L, old
      <4>3. r.activeTaskReservations[a] = Cardinality(L) - (IF old > 0 THEN 1 ELSE 0) + 1
        BY <3>1, <3>3 DEF old
      <4> QED BY <3>1, <3>2, <4>1, <4>2, <4>3
    <3>4. CASE ~ (e.amount > 0)
      <4>1. LiveOf(r, a) = L \ {t}
        BY <1>3, <3>4 DEF LiveOf
      <4>2. Cardinality(L \ {t}) = IF t \in L THEN Cardinality(L) - 1 ELSE Cardinality(L)
        BY <3>1, FS_RemoveElement
      <4> HIDE DEF L, old
      <4>3. r.activeTaskReservations[a] = Cardinality(L) - (IF old > 0 THEN 1 ELSE 0) + 0
        BY <3>1, <3>4 DEF old
      <4> QED BY <3>1, <3>2, <4>1, <4>2, <4>3
    <3> QED BY <3>3, <3>4
  <2>5. ASSUME NEW b \in Accounts
        PROVE  /\ r.reserved[b] = SumFunction(AmountsOf(r, b))
               /\ r.activeTaskReservations[b] = Cardinality(LiveOf(r, b))
    BY <2>2, <2>3, <2>4
  <2> QED BY <2>1, <2>5 DEF CollateralBooks
<1>5. FeesFit(r)
  BY <1>3 DEF Books, FeesFit
<1>6. DepositBooks(r) /\ PayoutBooks(r)
  BY DEF Books, DepositBooks, PayoutBooks
<1> QED BY <1>4, <1>5, <1>6 DEF Books
-------------------------------------------------------------------------------
(* The operations, again.                                                      *)

(* Debiting a deposit.                                                       *)
LEMMA DebitBooks ==
    ASSUME NEW v \in VaultType, Books(v), NEW a \in Accounts, NEW n \in Nat, CanDebit(v, a, n)
    PROVE  Books(Debit(v, a, n)) /\ SameReservations(v, Debit(v, a, n))
<1> DEFINE r == Debit(v, a, n)
<1>1. /\ r \in VaultType
      /\ \A b \in Accounts : r.deposits[b] = IF b = a THEN v.deposits[b] - n ELSE v.deposits[b]
      /\ r.totalDeposits = v.totalDeposits - n
  BY DebitFacts
<1>2. /\ r.pendingPayouts = v.pendingPayouts
      /\ r.totalPendingPayouts = v.totalPendingPayouts
      /\ SameReservations(v, r)
  BY DEF Debit, VaultType, SameReservations
<1>3. v.deposits[a] \in Nat /\ v.totalDeposits \in Nat
  BY DEF VaultType
<1> HIDE DEF r
<1>4. r.totalDeposits = v.totalDeposits - v.deposits[a] + r.deposits[a]
  BY <1>1, <1>3
<1> QED BY <1>1, <1>2, <1>4, DepositChange DEF r

(* Releasing a reservation.                                                  *)
LEMMA ReleaseBooks ==
    ASSUME NEW v \in VaultType, Books(v), NEW t \in Tasks, NEW a \in Accounts,
           CanRelease(v, t, a)
    PROVE  /\ Books(Release(v, t, a))
           /\ Release(v, t, a).taskReservations =
                 [v.taskReservations EXCEPT ![t][a] =
                     IF v.taskReservations[t][a].amount = 0 THEN @ ELSE NoReservation]
<1> DEFINE r == Release(v, t, a)
           n == v.taskReservations[t][a].amount
<1>1. n \in Nat /\ v.taskReservations \in [Tasks -> [Accounts -> ReservationType]]
  BY DEF VaultType, ReservationType
<1>2. CASE n = 0
  <2>1. r = v
    BY <1>2 DEF Release
  <2>2. [v.taskReservations EXCEPT ![t][a] = v.taskReservations[t][a]] = v.taskReservations
    BY <1>1
  <2> QED BY <1>2, <2>1, <2>2
<1>3. CASE n > 0
  <2>1. /\ r \in VaultType
        /\ \A b \in Accounts \ {a} :
              /\ r.reserved[b] = v.reserved[b]
              /\ r.activeTaskReservations[b] = v.activeTaskReservations[b]
        /\ r.reserved[a] = v.reserved[a] - n
        /\ r.activeTaskReservations[a] = v.activeTaskReservations[a] - 1
    BY <1>3, ReleaseFacts
  <2>2. /\ r.taskReservations = [v.taskReservations EXCEPT ![t][a] = NoReservation]
        /\ r.totalReserved = v.totalReserved - n
        /\ r.deposits = v.deposits /\ r.totalDeposits = v.totalDeposits
        /\ r.pendingPayouts = v.pendingPayouts
        /\ r.totalPendingPayouts = v.totalPendingPayouts
        /\ r.taskQuotes = v.taskQuotes
    <3>1. r = [v EXCEPT
                  !.taskReservations[t][a] = NoReservation,
                  !.reserved = Minus(@, a, n),
                  !.totalReserved = @ - n,
                  !.activeTaskReservations = Minus(@, a, 1),
                  !.latchedEntryFloor =
                     IF v.activeTaskReservations[a] = 1 THEN [@ EXCEPT ![a] = 0] ELSE @]
      BY <1>1, <1>3 DEF Release
    <3> HIDE DEF r, n
    <3> QED BY <3>1 DEF VaultType
  <2>3. NoReservation \in ReservationType /\ NoReservation.amount = 0
    BY DEF NoReservation, ReservationType
  <2>4. /\ v.reserved[a] \in Nat /\ v.totalReserved \in Nat
        /\ v.activeTaskReservations[a] \in Nat
    BY DEF VaultType
  <2>5. r.reserved[a] = v.reserved[a] - n + NoReservation.amount
        /\ r.totalReserved = v.totalReserved - n + NoReservation.amount
    <3> HIDE DEF r, n
    <3> QED BY <1>1, <2>1, <2>2, <2>3, <2>4
  <2>6. r.activeTaskReservations[a] =
           v.activeTaskReservations[a] - (IF n > 0 THEN 1 ELSE 0)
           + (IF NoReservation.amount > 0 THEN 1 ELSE 0)
    <3> HIDE DEF r, n
    <3> QED BY <1>3, <2>1, <2>3, <2>4
  <2>7. \A b \in Accounts : b # a => /\ r.reserved[b] = v.reserved[b]
                                     /\ r.activeTaskReservations[b] =
                                           v.activeTaskReservations[b]
    BY <2>1
  <2>8. NoReservation.amount > 0 =>
           /\ NoReservation.exitCompensation + NoReservation.exitProtocolShare > 0
           /\ NoReservation.exitCompensation + NoReservation.exitProtocolShare
                 <= NoReservation.amount
           /\ NoReservation.accessCompensation > 0
           /\ NoReservation.accessCompensation <= NoReservation.amount
    BY <2>3
  <2>9. Books(r)
    <3>1. QuotesCharge(r)
      BY <2>2 DEF Books, QuotesCharge
    <3> HIDE DEF r
    <3> QED BY <2>1, <2>2, <2>3, <2>5, <2>6, <2>7, <2>8, <3>1, ReservationChange
  <2>10. r.taskReservations =
            [v.taskReservations EXCEPT ![t][a] = IF n = 0 THEN @ ELSE NoReservation]
    BY <1>3, <2>2
  <2> QED BY <2>9, <2>10
<1> QED BY <1>1, <1>2, <1>3

(* A fee charged once the collateral is released.                             *)
LEMMA ChargeBooks ==
    ASSUME NEW v \in VaultType, Books(v), NEW t \in Tasks, NEW a \in Accounts, NEW n \in Nat,
           CanRelease(v, t, a), CanDebit(v, a, n)
    PROVE  LET d == Debit(Release(v, t, a), a, n)
           IN  d \in VaultType /\ Books(d)
<1> DEFINE r == Release(v, t, a)
<1>1. r \in VaultType /\ Books(r) /\ r.deposits = v.deposits
      /\ r.totalDeposits = v.totalDeposits
  <2>1. r \in VaultType /\ r.deposits = v.deposits /\ r.totalDeposits = v.totalDeposits
    BY ReleaseFacts
  <2>2. Books(r)
    BY ReleaseBooks
  <2> QED BY <2>1, <2>2
<1>2. CanDebit(r, a, n)
  BY <1>1 DEF CanDebit
<1> HIDE DEF r
<1>3. Debit(r, a, n) \in VaultType /\ Books(Debit(r, a, n))
  BY <1>1, <1>2, DebitFacts, DebitBooks
<1> QED BY <1>3 DEF r

(* debitExitFee.                                                             *)
LEMMA DebitExitFeeBooks ==
    ASSUME NEW v \in VaultType, Books(v), NEW t \in Tasks, NEW a \in Accounts,
           NEW harmed \in Accounts, NEW refusing, CanDebitExitFee(v, t, a)
    PROVE  Books(DebitExitFee(v, t, a, harmed, refusing))
<1> DEFINE x == v.taskReservations[t][a].exitCompensation
           y == v.taskReservations[t][a].exitProtocolShare
           charged == Debit(Release(v, t, a), a, ExitFee(v, t, a))
           compensated == PayOrDefer(charged, harmed, x, refusing)
<1>1. x \in Nat /\ y \in Nat /\ ExitFee(v, t, a) \in Nat
  BY DEF VaultType, ReservationType, ExitFee
<1>2. charged \in VaultType /\ Books(charged)
  BY <1>1, ChargeBooks DEF CanDebitExitFee
<1>3. harmed \in Payees /\ Treasury \in Payees
  BY DEF Payees
<1>4. compensated \in VaultType /\ Books(compensated)
  <2> HIDE DEF charged, x
  <2> QED BY <1>1, <1>2, <1>3, PayFacts, PayBooks
<1>5. Books(PayOrDefer(compensated, Treasury, y, refusing))
  <2> HIDE DEF compensated, y
  <2> QED BY <1>1, <1>3, <1>4, PayBooks
<1> QED BY <1>5 DEF DebitExitFee

(* debitAccessFeeTo.                                                         *)
LEMMA DebitAccessFeeBooks ==
    ASSUME NEW v \in VaultType, Books(v), NEW t \in Tasks, NEW a \in Accounts,
           NEW recipient \in Accounts, NEW refusing, CanDebitAccessFee(v, t, a, recipient)
    PROVE  Books(DebitAccessFee(v, t, a, recipient, refusing))
<1> DEFINE fee == v.taskReservations[t][a].accessCompensation
           charged == Debit(Release(v, t, a), a, fee)
<1>1. fee \in Nat
  BY DEF VaultType, ReservationType
<1>2. charged \in VaultType /\ Books(charged)
  BY <1>1, ChargeBooks DEF CanDebitAccessFee
<1>3. recipient \in Payees
  BY DEF Payees
<1>4. Books(PayOrDefer(charged, recipient, fee, refusing))
  <2> HIDE DEF charged, fee
  <2> QED BY <1>1, <1>2, <1>3, PayBooks
<1> QED BY <1>4 DEF DebitAccessFee

(* reserveTask: the fees latched are those of a quote that was checked to fit.  *)
LEMMA ReserveBooks ==
    ASSUME NEW v \in VaultType, Books(v), NEW t \in Tasks, NEW a \in Accounts,
           NEW waive \in BOOLEAN, NEW createQuote \in BOOLEAN,
           NEW q, createQuote => q \in Quotes, NEW refusing, CanReserve(v, t, a, waive, createQuote, q)
    PROVE  Books(Reserve(v, t, a, waive, createQuote, q, refusing))
<1> DEFINE quote == QuoteFor(v, t, createQuote, q)
           fee == AccessFee(quote, waive)
           k == quote.liveTaskReserve
           floor == EntryFloor(v, a, quote)
           e == [amount |-> quote.liveTaskReserve,
                 exitCompensation |-> quote.exitCompensation,
                 exitProtocolShare |-> quote.exitProtocolShare,
                 accessCompensation |-> quote.accessFee]
           res == [v.taskReservations EXCEPT ![t][a] = e]
           quotes == [v.taskQuotes EXCEPT ![t] = quote]
           floors == [v.latchedEntryFloor EXCEPT ![a] = floor]
           live == Plus(v.activeTaskReservations, a, 1)
           held == Plus(v.reserved, a, k)
           l == [v EXCEPT !.taskQuotes = quotes, !.latchedEntryFloor = floors,
                          !.taskReservations = res, !.activeTaskReservations = live,
                          !.reserved = held, !.totalReserved = @ + k]
<1>1. quote \in QuoteType
  <2>1. (createQuote => q \in QuoteType) /\ v.taskQuotes[t] \in QuoteType
    BY VaultAssumption DEF VaultType
  <2> QED BY <2>1 DEF QuoteFor
<1>2. /\ quote.entryDeposit > 0 /\ quote.liveTaskReserve > 0 /\ quote.accessFee > 0
      /\ quote.exitCompensation + quote.exitProtocolShare <= quote.liveTaskReserve
      /\ quote.accessFee <= quote.liveTaskReserve
      /\ v.taskReservations[t][a].amount = 0
      /\ CanDebit(v, a, fee)
  BY DEF CanReserve
<1>3. quote.exitCompensation + quote.exitProtocolShare > 0
  <2>1. createQuote => q.exitCompensation + q.exitProtocolShare > 0
    BY VaultAssumption
  <2>2. v.taskQuotes[t].liveTaskReserve > 0 =>
           v.taskQuotes[t].exitCompensation + v.taskQuotes[t].exitProtocolShare > 0
    BY DEF Books, QuotesCharge
  <2> QED BY <1>2, <2>1, <2>2 DEF QuoteFor
<1>4. /\ v.taskQuotes \in [Tasks -> QuoteType]
      /\ v.taskReservations \in [Tasks -> [Accounts -> ReservationType]]
      /\ v.latchedEntryFloor \in [Accounts -> Nat]
      /\ v.reserved \in [Accounts -> Nat] /\ v.totalReserved \in Nat
      /\ v.activeTaskReservations \in [Accounts -> Nat]
  BY DEF VaultType
<1>5. Reserve(v, t, a, waive, createQuote, q, refusing) =
         PayOrDefer(Debit(l, a, fee), Treasury, fee, refusing)
  BY DEF Reserve
<1> HIDE DEF quote
<1>6. k \in Nat /\ fee \in Nat /\ floor \in Nat /\ e \in ReservationType
  BY <1>1, <1>4 DEF QuoteType, AccessFee, EntryFloor, AtLeast, ReservationType
<1>7. /\ e.amount = k /\ e.exitCompensation = quote.exitCompensation
      /\ e.exitProtocolShare = quote.exitProtocolShare
      /\ e.accessCompensation = quote.accessFee
  OBVIOUS
<1> HIDE DEF fee, floor, e
<1>8. /\ res \in [Tasks -> [Accounts -> ReservationType]]
      /\ quotes \in [Tasks -> QuoteType]
      /\ floors \in [Accounts -> Nat]
  BY <1>1, <1>4, <1>6
<1>9. /\ live \in [Accounts -> Nat] /\ held \in [Accounts -> Nat]
      /\ \A b \in Accounts :
            /\ live[b] = IF b = a THEN v.activeTaskReservations[b] + 1
                         ELSE v.activeTaskReservations[b]
            /\ held[b] = IF b = a THEN v.reserved[b] + k ELSE v.reserved[b]
  <2>1. v.activeTaskReservations \in [Accounts -> Nat] /\ v.reserved \in [Accounts -> Nat]
        /\ k \in Nat
    BY <1>4, <1>6
  <2>2. /\ live \in [Accounts -> Nat]
        /\ \A b \in Accounts : live[b] = IF b = a THEN v.activeTaskReservations[b] + 1
                                          ELSE v.activeTaskReservations[b]
    BY <2>1 DEF Plus
  <2>3. /\ held \in [Accounts -> Nat]
        /\ \A b \in Accounts : held[b] = IF b = a THEN v.reserved[b] + k ELSE v.reserved[b]
    BY <2>1 DEF Plus
  <2> QED BY <2>2, <2>3
<1>10. \A s \in Tasks : quotes[s] = IF s = t THEN quote ELSE v.taskQuotes[s]
  BY <1>4
<1> HIDE DEF res, quotes, floors, live, held, k
<1>11. l \in VaultType
  <2>1. v.totalReserved + k \in Nat
    BY <1>4, <1>6
  <2> QED BY <1>8, <1>9, <2>1 DEF VaultType
<1>12. /\ l.taskReservations = res /\ l.taskQuotes = quotes
       /\ l.reserved = held /\ l.totalReserved = v.totalReserved + k
       /\ l.activeTaskReservations = live
       /\ l.deposits = v.deposits /\ l.totalDeposits = v.totalDeposits
       /\ l.pendingPayouts = v.pendingPayouts
       /\ l.totalPendingPayouts = v.totalPendingPayouts
  BY DEF VaultType
<1> HIDE DEF l
<1>13. QuotesCharge(l)
  <2>1. \A s \in Tasks : v.taskQuotes[s].liveTaskReserve > 0 =>
           v.taskQuotes[s].exitCompensation + v.taskQuotes[s].exitProtocolShare > 0
    BY DEF Books, QuotesCharge
  <2> QED BY <1>3, <1>10, <1>12, <2>1 DEF QuotesCharge
<1>14. Books(l)
  <2>1. \A b \in Accounts : b # a => /\ l.reserved[b] = v.reserved[b]
                                     /\ l.activeTaskReservations[b] =
                                           v.activeTaskReservations[b]
    BY <1>9, <1>12
  <2>2. /\ l.reserved[a] = v.reserved[a] - v.taskReservations[t][a].amount + e.amount
        /\ l.totalReserved = v.totalReserved - v.taskReservations[t][a].amount + e.amount
        /\ l.activeTaskReservations[a] =
              v.activeTaskReservations[a]
              - (IF v.taskReservations[t][a].amount > 0 THEN 1 ELSE 0)
              + (IF e.amount > 0 THEN 1 ELSE 0)
    <3>1. v.reserved[a] \in Nat /\ v.activeTaskReservations[a] \in Nat
      BY <1>4
    <3>2. k > 0
      BY <1>2 DEF k
    <3> QED BY <1>2, <1>4, <1>6, <1>7, <1>9, <1>12, <3>1, <3>2
  <2>3. /\ e.exitCompensation + e.exitProtocolShare > 0
        /\ e.exitCompensation + e.exitProtocolShare <= e.amount
        /\ e.accessCompensation > 0 /\ e.accessCompensation <= e.amount
    BY <1>2, <1>3, <1>7 DEF k
  <2>4. l.taskReservations = [v.taskReservations EXCEPT ![t][a] = e]
    BY <1>12 DEF res
  <2> QED BY <1>6, <1>11, <1>12, <1>13, <2>1, <2>2, <2>3, <2>4, ReservationChange
<1>15. CanDebit(l, a, fee)
  BY <1>2, <1>12 DEF CanDebit
<1> DEFINE d == Debit(l, a, fee)
<1>16. d \in VaultType /\ Books(d)
  BY <1>6, <1>11, <1>14, <1>15, DebitFacts, DebitBooks
<1> HIDE DEF d
<1>17. Treasury \in Payees
  BY DEF Payees
<1>18. Books(PayOrDefer(d, Treasury, fee, refusing))
  BY <1>6, <1>16, <1>17, PayBooks
<1> QED BY <1>5, <1>18 DEF d

(* claimPayout.                                                              *)
LEMMA ClaimPayoutBooks ==
    ASSUME NEW v \in VaultType, Books(v), NEW p \in Payees, CanClaimPayout(v, p)
    PROVE  Books(ClaimPayout(v, p))
<1> DEFINE n == v.pendingPayouts[p]
           owed == [v.pendingPayouts EXCEPT ![p] = 0]
           r == ClaimPayout(v, p)
<1>1. v.pendingPayouts \in [Payees -> Nat] /\ owed \in [Payees -> Nat] /\ owed[p] = 0
      /\ \A x \in Payees : x # p => owed[x] = v.pendingPayouts[x]
  BY DEF VaultType
<1>2. IsFiniteSet(Payees)
  BY VaultAssumption, FS_AddElement DEF Payees
<1>3. /\ r.pendingPayouts = owed /\ r.totalPendingPayouts = v.totalPendingPayouts - n
      /\ r.deposits = v.deposits /\ r.totalDeposits = v.totalDeposits
      /\ SameReservations(v, r)
  BY DEF ClaimPayout, VaultType, SameReservations
<1> HIDE DEF owed, r
<1>4. /\ SumFunction(owed) = SumFunction(v.pendingPayouts) - n + owed[p]
      /\ SumFunction(v.pendingPayouts) \in Nat
  BY <1>1, <1>2, TotalChange
<1>5. PayoutBooks(r)
  BY <1>1, <1>3, <1>4 DEF Books, PayoutBooks
<1>6. DepositBooks(r)
  BY <1>3 DEF Books, DepositBooks
<1> QED BY <1>3, <1>5, <1>6, ReservationsFrame DEF Books, r

(* A balance that changes alone.                                             *)
LEMMA BalanceBooks ==
    ASSUME NEW v \in VaultType, Books(v), NEW b
    PROVE  Books([v EXCEPT !.balance = b])
<1> DEFINE r == [v EXCEPT !.balance = b]
<1>1. /\ r.pendingPayouts = v.pendingPayouts
      /\ r.totalPendingPayouts = v.totalPendingPayouts
      /\ r.deposits = v.deposits /\ r.totalDeposits = v.totalDeposits
      /\ SameReservations(v, r)
  BY DEF VaultType, SameReservations
<1> HIDE DEF r
<1>2. Books(r)
  BY <1>1, ReservationsFrame DEF Books, DepositBooks, PayoutBooks
<1> QED BY <1>2 DEF r

(* credit.                                                                   *)
LEMMA CreditBooks ==
    ASSUME NEW v \in VaultType, Books(v), NEW a \in Accounts, NEW n \in Nat
    PROVE  Books(Credit(v, a, n))
<1> DEFINE more == Plus(v.deposits, a, n)
           r == Credit(v, a, n)
<1>1. v.deposits \in [Accounts -> Nat] /\ v.totalDeposits \in Nat
  BY DEF VaultType
<1>2. /\ more \in [Accounts -> Nat]
      /\ \A b \in Accounts : more[b] = IF b = a THEN v.deposits[b] + n ELSE v.deposits[b]
  BY <1>1, PlusType
<1>3. r = [v EXCEPT !.deposits = more, !.totalDeposits = @ + n]
  BY DEF Credit
<1> HIDE DEF more, r
<1>4. r \in VaultType
  <2>1. v.totalDeposits + n \in Nat
    BY <1>1
  <2> QED BY <1>2, <1>3, <2>1 DEF VaultType
<1>5. /\ r.pendingPayouts = v.pendingPayouts
      /\ r.totalPendingPayouts = v.totalPendingPayouts
      /\ r.deposits = more /\ r.totalDeposits = v.totalDeposits + n
      /\ SameReservations(v, r)
  BY <1>3 DEF VaultType, SameReservations
<1>6. r.totalDeposits = v.totalDeposits - v.deposits[a] + r.deposits[a]
  BY <1>1, <1>2, <1>5
<1>7. \A b \in Accounts : b # a => r.deposits[b] = v.deposits[b]
  BY <1>2, <1>5
<1> QED BY <1>4, <1>5, <1>6, <1>7, DepositChange DEF r

(* withdraw.                                                                 *)
LEMMA WithdrawBooks ==
    ASSUME NEW v \in VaultType, Books(v), NEW a \in Accounts, NEW n \in Nat,
           CanWithdraw(v, a, n)
    PROVE  Books(Withdraw(v, a, n))
<1> DEFINE d == Debit(v, a, n)
<1>1. d \in VaultType /\ Books(d)
  BY DebitFacts, DebitBooks DEF CanWithdraw
<1>2. Withdraw(v, a, n) = [d EXCEPT !.balance = d.balance - n]
  BY DEF Withdraw
<1> HIDE DEF d
<1> QED BY <1>1, <1>2, BalanceBooks

-------------------------------------------------------------------------------
(* With the books in balance, a reservation can always be settled.             *)
LEMMA Settles ==
    ASSUME NEW v, Sound(v, 0), Books(v), NEW t \in Tasks, NEW a \in Accounts,
           v.taskReservations[t][a].amount > 0
    PROVE  /\ CanRelease(v, t, a)
           /\ CanDebitExitFee(v, t, a)
           /\ \A b \in Accounts \ {a} : CanDebitAccessFee(v, t, a, b)
<1> DEFINE n == v.taskReservations[t][a].amount
           x == ExitFee(v, t, a)
           y == v.taskReservations[t][a].accessCompensation
<1>0. IsFiniteSet(Accounts) /\ IsFiniteSet(Tasks)
  BY VaultAssumption
<1>1. v \in VaultType /\ v.deposits[a] >= v.reserved[a] + v.latchedEntryFloor[a]
  BY DEF Sound, Backed
<1>2. /\ v.deposits \in [Accounts -> Nat] /\ v.reserved \in [Accounts -> Nat]
      /\ v.latchedEntryFloor[a] \in Nat /\ n \in Nat
      /\ v.deposits[a] \in Nat /\ v.reserved[a] \in Nat
  BY <1>1 DEF VaultType, ReservationType
<1>3. n <= v.reserved[a]
  <2>1. AmountsOf(v, a) \in [Tasks -> Nat] /\ AmountsOf(v, a)[t] = n
    BY <1>1, AmountsType DEF AmountsOf
  <2>2. AmountsOf(v, a)[t] <= SumFunction(AmountsOf(v, a))
    BY <1>0, <2>1, TotalMember
  <2> QED BY <2>1, <2>2 DEF Books, CollateralBooks
<1>4. v.reserved[a] <= v.totalReserved /\ v.totalReserved \in Nat
  BY <1>0, <1>2, TotalMember DEF Books, CollateralBooks
<1>5. v.deposits[a] <= v.totalDeposits /\ v.totalDeposits \in Nat
  BY <1>0, <1>2, TotalMember DEF Books, DepositBooks
<1>6. v.activeTaskReservations[a] > 0
  <2> DEFINE L == LiveOf(v, a)
  <2>1. L \in SUBSET Tasks /\ t \in L
    BY DEF LiveOf
  <2>2. IsFiniteSet(L) /\ L # {}
    BY <1>0, <2>1, FS_Subset
  <2>3. Cardinality(L) \in Nat /\ Cardinality(L) # 0
    BY <2>2, FS_CardinalityType, FS_EmptySet
  <2>4. v.activeTaskReservations[a] = Cardinality(L)
    BY DEF Books, CollateralBooks
  <2> QED BY <2>3, <2>4
<1>7. x > 0 /\ x <= n /\ y > 0 /\ y <= n /\ x \in Nat /\ y \in Nat
  <2>1. x \in Nat /\ y \in Nat
    BY <1>1 DEF VaultType, ReservationType, ExitFee
  <2> QED BY <2>1 DEF Books, FeesFit, ExitFee
<1> HIDE DEF n, x, y
<1>8. CanRelease(v, t, a)
  BY <1>2, <1>3, <1>4, <1>6 DEF CanRelease, n
<1>9. CanDebit(v, a, x) /\ CanDebit(v, a, y)
  BY <1>1, <1>2, <1>3, <1>5, <1>7 DEF CanDebit
<1> QED BY <1>7, <1>8, <1>9 DEF CanDebitExitFee, CanDebitAccessFee, n, x, y

-------------------------------------------------------------------------------
(* The operations as their callers see them: a vault that is kept in order      *)
(* stays so, and the reservations, quotes and deposits change as stated.        *)
Kept(v) == Sound(v, 0) /\ Books(v)

ReservationAt(quote) ==
    [amount |-> quote.liveTaskReserve, exitCompensation |-> quote.exitCompensation,
     exitProtocolShare |-> quote.exitProtocolShare, accessCompensation |-> quote.accessFee]

(* What a kept vault's fields are.                                             *)
LEMMA KeptType ==
    ASSUME NEW v, Kept(v)
    PROVE  /\ v \in VaultType
           /\ v.taskReservations \in [Tasks -> [Accounts -> ReservationType]]
           /\ v.taskQuotes \in [Tasks -> QuoteType]
           /\ v.deposits \in [Accounts -> Nat]
<1>1. v \in VaultType
  BY DEF Kept, Sound
<1> QED BY <1>1 DEF VaultType

(* A payment leaves deposits, reservations and quotes alone.                   *)
LEMMA PayEffects ==
    ASSUME NEW v \in VaultType, NEW to, NEW n, NEW refusing
    PROVE  LET r == PayOrDefer(v, to, n, refusing)
           IN  /\ r.deposits = v.deposits /\ r.taskReservations = v.taskReservations
               /\ r.taskQuotes = v.taskQuotes
BY DEF PayOrDefer, VaultType

(* A debit moves the payer's deposit and leaves reservations and quotes alone.  *)
LEMMA DebitEffects ==
    ASSUME NEW v \in VaultType, NEW a, NEW n
    PROVE  LET r == Debit(v, a, n)
           IN  /\ r.deposits = Minus(v.deposits, a, n)
               /\ r.taskReservations = v.taskReservations
               /\ r.taskQuotes = v.taskQuotes
BY DEF Debit, VaultType

(* What reserveTask accepts it latches and reserves: r is v after it.           *)
Reserved(v, r, t, a, quote) ==
    /\ Kept(r)
    /\ quote.liveTaskReserve > 0
    /\ r.taskQuotes = [v.taskQuotes EXCEPT ![t] = quote]
    /\ r.taskReservations = [v.taskReservations EXCEPT ![t][a] = ReservationAt(quote)]

(* reserveTask reserves for one account and one task and keeps soundness     *)
(* and books.                                                                *)
LEMMA ReserveKept ==
    ASSUME NEW v, Kept(v), NEW t \in Tasks, NEW a \in Accounts, NEW waive \in BOOLEAN,
           NEW createQuote \in BOOLEAN, NEW q, createQuote => q \in Quotes, NEW refusing,
           CanReserve(v, t, a, waive, createQuote, q)
    PROVE  Reserved(v, Reserve(v, t, a, waive, createQuote, q, refusing), t, a,
                    QuoteFor(v, t, createQuote, q))
<1> DEFINE quote == QuoteFor(v, t, createQuote, q)
           fee == AccessFee(quote, waive)
           l == [v EXCEPT
                    !.taskQuotes[t] = quote,
                    !.latchedEntryFloor[a] = EntryFloor(v, a, quote),
                    !.taskReservations[t][a] = ReservationAt(quote),
                    !.activeTaskReservations = Plus(@, a, 1),
                    !.reserved = Plus(@, a, quote.liveTaskReserve),
                    !.totalReserved = @ + quote.liveTaskReserve]
           d == Debit(l, a, fee)
           r == Reserve(v, t, a, waive, createQuote, q, refusing)
<1>1. v \in VaultType /\ Sound(v, 0) /\ Books(v)
  BY DEF Kept, Sound
<1>2. Kept(r)
  BY <1>1, ReserveSound, ReserveBooks DEF Kept
<1>3. r = PayOrDefer(d, Treasury, fee, refusing)
  BY DEF Reserve, ReservationAt
<1>4. quote.liveTaskReserve > 0
  BY DEF CanReserve
<1> HIDE DEF quote, fee
<1>5. /\ l.taskQuotes = [v.taskQuotes EXCEPT ![t] = quote]
      /\ l.taskReservations = [v.taskReservations EXCEPT ![t][a] = ReservationAt(quote)]
  BY <1>1 DEF VaultType
<1>6. /\ d.taskQuotes = l.taskQuotes /\ d.taskReservations = l.taskReservations
  BY <1>1 DEF Debit, VaultType
<1>7. r.taskQuotes = d.taskQuotes /\ r.taskReservations = d.taskReservations
  BY <1>1, <1>3 DEF PayOrDefer, Debit, VaultType
<1> HIDE DEF r, d, l
<1>8. /\ r.taskQuotes = [v.taskQuotes EXCEPT ![t] = quote]
      /\ r.taskReservations = [v.taskReservations EXCEPT ![t][a] = ReservationAt(quote)]
  BY <1>5, <1>6, <1>7
<1> QED BY <1>2, <1>4, <1>8 DEF Reserved, r, quote

(* A kept vault can always release, and does nothing if nothing is reserved.    *)
LEMMA ReleaseKept ==
    ASSUME NEW v, Kept(v), NEW t \in Tasks, NEW a \in Accounts
    PROVE  LET r == Release(v, t, a)
           IN  /\ CanRelease(v, t, a)
               /\ Kept(r)
               /\ r.deposits = v.deposits /\ r.taskQuotes = v.taskQuotes
               /\ r.taskReservations =
                     [v.taskReservations EXCEPT ![t][a] =
                         IF v.taskReservations[t][a].amount = 0 THEN @ ELSE NoReservation]
<1> DEFINE r == Release(v, t, a)
<1>1. v \in VaultType /\ Sound(v, 0) /\ Books(v)
  BY DEF Kept, Sound
<1>2. CanRelease(v, t, a)
  <2>1. v.taskReservations[t][a].amount \in Nat
    BY <1>1 DEF VaultType, ReservationType
  <2>2. CASE v.taskReservations[t][a].amount > 0
    BY <1>1, <2>2, Settles
  <2>3. CASE ~ (v.taskReservations[t][a].amount > 0)
    BY <2>3 DEF CanRelease
  <2> QED BY <2>2, <2>3
<1>3. Sound(r, 0)
  BY <1>1, <1>2, ReleaseSound
<1>4. /\ Books(r)
      /\ r.taskReservations =
            [v.taskReservations EXCEPT ![t][a] =
                IF v.taskReservations[t][a].amount = 0 THEN @ ELSE NoReservation]
  BY <1>1, <1>2, ReleaseBooks
<1>5. r.deposits = v.deposits /\ r.taskQuotes = v.taskQuotes
  BY <1>1 DEF Release, VaultType
<1> QED BY <1>2, <1>3, <1>4, <1>5 DEF Kept

(* A reservation can always be charged its exit fee, and is gone then.         *)
LEMMA ExitFeeKept ==
    ASSUME NEW v, Kept(v), NEW t \in Tasks, NEW a \in Accounts, NEW harmed \in Accounts,
           NEW refusing, v.taskReservations[t][a].amount > 0
    PROVE  LET r == DebitExitFee(v, t, a, harmed, refusing)
           IN  /\ CanDebitExitFee(v, t, a)
               /\ Kept(r)
               /\ r.deposits = Minus(v.deposits, a, ExitFee(v, t, a))
               /\ r.taskQuotes = v.taskQuotes
               /\ r.taskReservations = [v.taskReservations EXCEPT ![t][a] = NoReservation]
<1> DEFINE r == DebitExitFee(v, t, a, harmed, refusing)
           x == v.taskReservations[t][a].exitCompensation
           y == v.taskReservations[t][a].exitProtocolShare
           fee == ExitFee(v, t, a)
           free == Release(v, t, a)
           charged == Debit(free, a, fee)
           compensated == PayOrDefer(charged, harmed, x, refusing)
<1>1. v \in VaultType /\ Sound(v, 0) /\ Books(v)
  BY DEF Kept, Sound
<1>2. CanDebitExitFee(v, t, a)
  BY <1>1, Settles
<1>3. Kept(r)
  BY <1>1, <1>2, DebitExitFeeSound, DebitExitFeeBooks DEF Kept
<1>4. /\ free \in VaultType /\ free.deposits = v.deposits /\ free.taskQuotes = v.taskQuotes
      /\ free.taskReservations = [v.taskReservations EXCEPT ![t][a] = NoReservation]
  <2>1. v.taskReservations[t][a].amount # 0
    OBVIOUS
  <2> QED BY <2>1, ReleaseKept, KeptType
<1>5. fee \in Nat /\ x \in Nat /\ CanDebit(free, a, fee)
  <2>1. fee \in Nat /\ x \in Nat
    BY <1>1 DEF VaultType, ReservationType, ExitFee
  <2>2. free.totalDeposits = v.totalDeposits
    BY <1>1 DEF Release, VaultType
  <2> QED BY <1>2, <1>4, <2>1, <2>2 DEF CanDebitExitFee, CanDebit
<1> HIDE DEF fee, free, x, y
<1>6. /\ charged \in VaultType /\ charged.deposits = Minus(v.deposits, a, fee)
      /\ charged.taskQuotes = v.taskQuotes
      /\ charged.taskReservations = [v.taskReservations EXCEPT ![t][a] = NoReservation]
  BY <1>4, <1>5, DebitFacts, DebitEffects
<1> HIDE DEF charged
<1>7. /\ compensated.deposits = charged.deposits
      /\ compensated.taskReservations = charged.taskReservations
      /\ compensated.taskQuotes = charged.taskQuotes
      /\ compensated \in VaultType
  <2>1. harmed \in Payees
    BY DEF Payees
  <2> QED BY <1>5, <1>6, <2>1, PayEffects, PayFacts
<1> HIDE DEF compensated
<1>8. r = PayOrDefer(compensated, Treasury, y, refusing)
  BY DEF DebitExitFee, compensated, charged, free, fee, x, y
<1> HIDE DEF r
<1>9. /\ r.deposits = compensated.deposits
      /\ r.taskReservations = compensated.taskReservations
      /\ r.taskQuotes = compensated.taskQuotes
  BY <1>7, <1>8, PayEffects
<1>10. /\ r.deposits = Minus(v.deposits, a, fee)
       /\ r.taskReservations = [v.taskReservations EXCEPT ![t][a] = NoReservation]
       /\ r.taskQuotes = v.taskQuotes
  BY <1>6, <1>7, <1>9
<1> QED BY <1>2, <1>3, <1>10 DEF r, fee

(* A reservation can always be charged the access fee again.                   *)
LEMMA AccessFeeKept ==
    ASSUME NEW v, Kept(v), NEW t \in Tasks, NEW a \in Accounts, NEW b \in Accounts, b # a,
           NEW refusing, v.taskReservations[t][a].amount > 0
    PROVE  LET r == DebitAccessFee(v, t, a, b, refusing)
           IN  /\ CanDebitAccessFee(v, t, a, b)
               /\ Kept(r)
               /\ r.deposits =
                     Minus(v.deposits, a, v.taskReservations[t][a].accessCompensation)
               /\ r.taskQuotes = v.taskQuotes
               /\ r.taskReservations = [v.taskReservations EXCEPT ![t][a] = NoReservation]
<1> DEFINE r == DebitAccessFee(v, t, a, b, refusing)
           fee == v.taskReservations[t][a].accessCompensation
           free == Release(v, t, a)
           charged == Debit(free, a, fee)
<1>1. v \in VaultType /\ Sound(v, 0) /\ Books(v)
  BY DEF Kept, Sound
<1>2. CanDebitAccessFee(v, t, a, b)
  BY <1>1, Settles
<1>3. Kept(r)
  BY <1>1, <1>2, DebitAccessFeeSound, DebitAccessFeeBooks DEF Kept
<1>4. /\ free \in VaultType /\ free.deposits = v.deposits /\ free.taskQuotes = v.taskQuotes
      /\ free.taskReservations = [v.taskReservations EXCEPT ![t][a] = NoReservation]
  <2>1. v.taskReservations[t][a].amount # 0
    OBVIOUS
  <2> QED BY <2>1, ReleaseKept, KeptType
<1>5. fee \in Nat /\ CanDebit(free, a, fee)
  <2>1. fee \in Nat
    BY <1>1 DEF VaultType, ReservationType
  <2>2. free.totalDeposits = v.totalDeposits
    BY <1>1 DEF Release, VaultType
  <2> QED BY <1>2, <1>4, <2>1, <2>2 DEF CanDebitAccessFee, CanDebit
<1> HIDE DEF fee, free
<1>6. /\ charged \in VaultType /\ charged.deposits = Minus(v.deposits, a, fee)
      /\ charged.taskQuotes = v.taskQuotes
      /\ charged.taskReservations = [v.taskReservations EXCEPT ![t][a] = NoReservation]
  BY <1>4, <1>5, DebitFacts, DebitEffects
<1>7. r = PayOrDefer(charged, b, fee, refusing)
  BY DEF DebitAccessFee, free, fee
<1> HIDE DEF r, charged
<1>8. /\ r.deposits = charged.deposits
      /\ r.taskReservations = charged.taskReservations
      /\ r.taskQuotes = charged.taskQuotes
  BY <1>6, <1>7, PayEffects
<1>9. /\ r.deposits = Minus(v.deposits, a, fee)
      /\ r.taskReservations = [v.taskReservations EXCEPT ![t][a] = NoReservation]
      /\ r.taskQuotes = v.taskQuotes
  BY <1>6, <1>8
<1> QED BY <1>2, <1>3, <1>9 DEF r, fee

(* What agents do with their deposits and payouts touches no reservation.       *)
LEMMA AccountKept ==
    ASSUME NEW v, Kept(v), NEW a \in Accounts, NEW n \in Nat
    PROVE  /\ LET r == Withdraw(v, a, n)
              IN  CanWithdraw(v, a, n) =>
                     /\ Kept(r) /\ r.taskReservations = v.taskReservations
                     /\ r.taskQuotes = v.taskQuotes
           /\ LET r == Credit(Receive(v, n), a, n)
              IN  CanCredit(Receive(v, n), a, n) =>
                     /\ Kept(r) /\ r.taskReservations = v.taskReservations
                     /\ r.taskQuotes = v.taskQuotes
           /\ LET r == ClaimPayout(v, a)
              IN  CanClaimPayout(v, a) =>
                     /\ Kept(r) /\ r.taskReservations = v.taskReservations
                     /\ r.taskQuotes = v.taskQuotes
<1>1. v \in VaultType /\ Sound(v, 0) /\ Books(v)
  BY DEF Kept, Sound
<1>2. ASSUME CanWithdraw(v, a, n)
      PROVE  /\ Kept(Withdraw(v, a, n))
             /\ Withdraw(v, a, n).taskReservations = v.taskReservations
             /\ Withdraw(v, a, n).taskQuotes = v.taskQuotes
  <2>1. Kept(Withdraw(v, a, n))
    BY <1>1, <1>2, WithdrawSound, WithdrawBooks DEF Kept
  <2>2. /\ Withdraw(v, a, n).taskReservations = v.taskReservations
        /\ Withdraw(v, a, n).taskQuotes = v.taskQuotes
    BY <1>1 DEF Withdraw, Debit, VaultType
  <2> QED BY <2>1, <2>2
<1>3. ASSUME CanCredit(Receive(v, n), a, n)
      PROVE  /\ Kept(Credit(Receive(v, n), a, n))
             /\ Credit(Receive(v, n), a, n).taskReservations = v.taskReservations
             /\ Credit(Receive(v, n), a, n).taskQuotes = v.taskQuotes
  <2> DEFINE m == Receive(v, n)
  <2>1. Sound(m, 0) /\ Books(m) /\ m \in VaultType
    <3>1. Sound(m, 0)
      BY <1>1, ReceiveSound
    <3>2. Books(m)
      BY <1>1, BalanceBooks DEF Receive
    <3> QED BY <3>1, <3>2 DEF Sound
  <2>2. /\ Credit(m, a, n).taskReservations = v.taskReservations
        /\ Credit(m, a, n).taskQuotes = v.taskQuotes
    BY <1>1 DEF Credit, Receive, VaultType
  <2> HIDE DEF m
  <2>3. Kept(Credit(m, a, n))
    BY <1>3, <2>1, CreditSound, CreditBooks DEF Kept, m
  <2> QED BY <2>2, <2>3 DEF m
<1>4. ASSUME CanClaimPayout(v, a)
      PROVE  /\ Kept(ClaimPayout(v, a))
             /\ ClaimPayout(v, a).taskReservations = v.taskReservations
             /\ ClaimPayout(v, a).taskQuotes = v.taskQuotes
  <2>1. a \in Payees
    BY DEF Payees
  <2>2. Kept(ClaimPayout(v, a))
    BY <1>1, <1>4, <2>1, ClaimPayoutSound, ClaimPayoutBooks DEF Kept
  <2>3. /\ ClaimPayout(v, a).taskReservations = v.taskReservations
        /\ ClaimPayout(v, a).taskQuotes = v.taskQuotes
    BY <1>1 DEF ClaimPayout, VaultType
  <2> QED BY <2>2, <2>3
<1> QED BY <1>2, <1>3, <1>4

(* A vault that holds the same deposit of each agent and nothing else.          *)
Started(d) ==
    [EmptyVault EXCEPT !.balance = d * Cardinality(Accounts),
                       !.deposits = [a \in Accounts |-> d],
                       !.totalDeposits = d * Cardinality(Accounts)]

(* A vault with deposits only is sound, with books in balance.               *)
LEMMA StartKept ==
    ASSUME NEW d \in Nat
    PROVE  /\ Kept(Started(d))
           /\ \A t \in Tasks, a \in Accounts : Started(d).taskReservations[t][a].amount = 0
<1> DEFINE v == Started(d)
           n == d * Cardinality(Accounts)
<1>0. IsFiniteSet(Accounts) /\ IsFiniteSet(Tasks) /\ IsFiniteSet(Payees)
  BY VaultAssumption, FS_AddElement DEF Payees
<1>1. /\ NoReservation.amount = 0 /\ NoQuote.liveTaskReserve = 0
      /\ NoQuote \in QuoteType /\ NoReservation \in ReservationType
  BY DEF NoReservation, NoQuote, QuoteType, ReservationType
<1> HIDE DEF NoReservation, NoQuote
<1>2. n \in Nat /\ SumFunction([a \in Accounts |-> d]) = n
  BY <1>0, TotalConstant
<1> HIDE DEF n
<1>3. /\ v.balance = n /\ v.totalDeposits = n /\ v.totalReserved = 0
      /\ v.totalPendingPayouts = 0
      /\ v.deposits = [a \in Accounts |-> d] /\ v.reserved = [a \in Accounts |-> 0]
      /\ v.activeTaskReservations = [a \in Accounts |-> 0]
      /\ v.latchedEntryFloor = [a \in Accounts |-> 0]
      /\ v.pendingPayouts = [p \in Payees |-> 0]
      /\ v.taskQuotes = [t \in Tasks |-> NoQuote]
      /\ v.taskReservations = [t \in Tasks |-> [a \in Accounts |-> NoReservation]]
  BY DEF Started, EmptyVault, n
<1>4. v \in VaultType
  <2>1. [p \in Payees |-> 0] \in [Payees -> Nat] /\ [a \in Accounts |-> 0] \in [Accounts -> Nat]
    OBVIOUS
  <2>2. EmptyVault \in VaultType
    BY <1>1, <2>1 DEF EmptyVault, VaultType
  <2>3. v = [EmptyVault EXCEPT !.balance = n, !.deposits = [a \in Accounts |-> d],
                               !.totalDeposits = n]
    BY DEF Started, n
  <2> HIDE DEF v
  <2> QED BY <1>2, <2>2, <2>3 DEF VaultType
<1> HIDE DEF v
<1>5. Sound(v, 0)
  <2>1. \A a \in Accounts : /\ v.deposits[a] = d /\ v.reserved[a] = 0
                            /\ v.latchedEntryFloor[a] = 0
                            /\ v.activeTaskReservations[a] = 0
    BY <1>3
  <2> QED BY <1>2, <1>3, <1>4, <2>1 DEF Sound, Backed, Floors, Covered, Liabilities
<1>6. \A t \in Tasks : /\ v.taskQuotes[t] = NoQuote
                       /\ \A a \in Accounts : v.taskReservations[t][a] = NoReservation
  BY <1>3
<1>7. /\ SumFunction([a \in Accounts |-> 0]) = 0
      /\ SumFunction([p \in Payees |-> 0]) = 0
      /\ SumFunction([t \in Tasks |-> 0]) = 0
  BY <1>0, TotalZero
<1>8. ASSUME NEW a \in Accounts
      PROVE  AmountsOf(v, a) = [t \in Tasks |-> 0] /\ LiveOf(v, a) = {}
  BY <1>1, <1>6 DEF AmountsOf, LiveOf
<1>9. CollateralBooks(v)
  BY <1>3, <1>7, <1>8, FS_EmptySet DEF CollateralBooks
<1>10. FeesFit(v) /\ QuotesCharge(v)
  BY <1>1, <1>6 DEF FeesFit, QuotesCharge
<1>11. DepositBooks(v) /\ PayoutBooks(v)
  BY <1>2, <1>3, <1>7 DEF DepositBooks, PayoutBooks
<1> QED BY <1>1, <1>5, <1>6, <1>9, <1>10, <1>11 DEF Kept, Books, v

-------------------------------------------------------------------------------
(* The vault on its own.                                                       *)
BooksInv == Books(vault)

(* The books balance at the start.                                           *)
LEMMA InitBooks == Init => BooksInv
<1> SUFFICES ASSUME Init PROVE BooksInv
  OBVIOUS
<1>0. IsFiniteSet(Accounts) /\ IsFiniteSet(Tasks) /\ IsFiniteSet(Payees)
  BY VaultAssumption, FS_AddElement DEF Payees
<1>1. NoReservation.amount = 0 /\ NoQuote.liveTaskReserve = 0
  BY DEF NoReservation, NoQuote
<1>2. /\ vault.totalDeposits = 0 /\ vault.totalReserved = 0
      /\ vault.totalPendingPayouts = 0
      /\ vault.deposits = [a \in Accounts |-> 0] /\ vault.reserved = [a \in Accounts |-> 0]
      /\ vault.activeTaskReservations = [a \in Accounts |-> 0]
      /\ vault.pendingPayouts = [p \in Payees |-> 0]
      /\ \A t \in Tasks : vault.taskQuotes[t] = NoQuote
      /\ \A t \in Tasks, a \in Accounts : vault.taskReservations[t][a] = NoReservation
  BY DEF Init, EmptyVault
<1> HIDE DEF NoReservation, NoQuote
<1>3. /\ SumFunction([a \in Accounts |-> 0]) = 0
      /\ SumFunction([p \in Payees |-> 0]) = 0
      /\ SumFunction([t \in Tasks |-> 0]) = 0
  BY <1>0, TotalZero
<1>4. ASSUME NEW a \in Accounts
      PROVE  AmountsOf(vault, a) = [t \in Tasks |-> 0] /\ LiveOf(vault, a) = {}
  BY <1>1, <1>2 DEF AmountsOf, LiveOf
<1>5. CollateralBooks(vault)
  BY <1>2, <1>3, <1>4, FS_EmptySet DEF CollateralBooks
<1>6. FeesFit(vault) /\ QuotesCharge(vault)
  BY <1>1, <1>2 DEF FeesFit, QuotesCharge
<1>7. DepositBooks(vault) /\ PayoutBooks(vault)
  BY <1>2, <1>3 DEF DepositBooks, PayoutBooks
<1> QED BY <1>5, <1>6, <1>7 DEF BooksInv, Books

(* Every call keeps the books.                                               *)
LEMMA NextBooks == IInv /\ BooksInv /\ [Next]_vault => BooksInv'
<1> SUFFICES ASSUME IInv, BooksInv, [Next]_vault PROVE BooksInv'
  OBVIOUS
<1>0. vault \in VaultType /\ Books(vault)
  BY DEF IInv, Sound, BooksInv
<1>1. ASSUME NEW a \in Accounts, NEW n \in 1..MaxBalance, GatewayCredit(a, n)
      PROVE  BooksInv'
  <2> DEFINE r == Receive(vault, n)
  <2>1. n \in Nat
    BY VaultAssumption
  <2>2. Sound(r, 0) /\ Books(r)
    BY <1>0, <2>1, ReceiveSound, BalanceBooks DEF IInv, Receive
  <2>3. r \in VaultType
    BY <2>2 DEF Sound
  <2> HIDE DEF r
  <2>4. Books(Credit(r, a, n))
    BY <2>1, <2>2, <2>3, CreditBooks
  <2> QED BY <1>1, <2>4 DEF GatewayCredit, BooksInv, r
<1>2. ASSUME NEW a \in Accounts, NEW n \in 1..MaxBalance, AgentWithdraw(a, n)
      PROVE  BooksInv'
  <2>1. n \in Nat
    BY VaultAssumption
  <2> QED BY <1>0, <1>2, <2>1, WithdrawBooks DEF AgentWithdraw, BooksInv
<1>3. ASSUME NEW n \in 1..MaxBalance, Donate(n)
      PROVE  BooksInv'
  BY <1>0, <1>3, BalanceBooks DEF Donate, Receive, BooksInv
<1>4. ASSUME NEW n \in 1..MaxBalance, OwnerRescue(n)
      PROVE  BooksInv'
  BY <1>0, <1>4, BalanceBooks DEF OwnerRescue, Send, BooksInv
<1>5. ASSUME NEW t \in Tasks, NEW a \in Accounts, NEW waive \in BOOLEAN,
             NEW createQuote \in BOOLEAN, NEW q \in Quotes,
             NEW refusing \in SUBSET {Treasury},
             RegistryReserve(t, a, waive, createQuote, q, refusing)
      PROVE  BooksInv'
  BY <1>0, <1>5, ReserveBooks DEF RegistryReserve, BooksInv
<1>6. ASSUME NEW t \in Tasks, NEW a \in Accounts, RegistryRelease(t, a)
      PROVE  BooksInv'
  BY <1>0, <1>6, ReleaseBooks DEF RegistryRelease, BooksInv
<1>7. ASSUME NEW t \in Tasks, NEW a \in Accounts, NEW b \in Accounts,
             NEW refusing \in SUBSET Payees, RegistryDebitExitFee(t, a, b, refusing)
      PROVE  BooksInv'
  BY <1>0, <1>7, DebitExitFeeBooks DEF RegistryDebitExitFee, BooksInv
<1>8. ASSUME NEW t \in Tasks, NEW a \in Accounts, NEW b \in Accounts,
             NEW refusing \in SUBSET Payees, RegistryDebitAccessFee(t, a, b, refusing)
      PROVE  BooksInv'
  BY <1>0, <1>8, DebitAccessFeeBooks DEF RegistryDebitAccessFee, BooksInv
<1>9. ASSUME NEW p \in Payees, PayeeClaim(p)
      PROVE  BooksInv'
  BY <1>0, <1>9, ClaimPayoutBooks DEF PayeeClaim, BooksInv
<1>10. CASE UNCHANGED vault
  BY <1>0, <1>10 DEF BooksInv
<1> QED BY <1>1, <1>2, <1>3, <1>4, <1>5, <1>6, <1>7, <1>8, <1>9, <1>10 DEF Next

(* Every reachable vault is sound and its books are in balance.                *)
THEOREM VaultBooksKept == Spec => [](IInv /\ BooksInv)
<1>1. Init => IInv /\ BooksInv
  BY InitSound, InitBooks
<1>2. (IInv /\ BooksInv) /\ [Next]_vault => (IInv /\ BooksInv)'
  BY NextSound, NextBooks
<1> QED BY <1>1, <1>2, PTL DEF Spec

(* The totals of deposits, collateral and deferred payouts, and each agent's    *)
(* collateral and count of live tasks, are the sums of what they summarise,     *)
(* however many agents and tasks there are.                                    *)
THEOREM VaultBooks == Spec => []BooksBalance
<1>1. BooksInv => BooksBalance
  BY DEF BooksInv, Books, DepositBooks, PayoutBooks, CollateralBooks, AmountsOf, LiveOf,
         BooksBalance
<1> QED BY <1>1, VaultBooksKept, PTL

(* A live reservation can always be released, and charged the exit fee or the   *)
(* access fee: no require and no checked subtraction of _releaseTask,          *)
(* debitExitFee or debitAccessFeeTo can revert the settlement of a task.        *)
THEOREM VaultSettles == Spec => []SettlementNeverReverts
<1>1. IInv /\ BooksInv => SettlementNeverReverts
  <2> SUFFICES ASSUME IInv, BooksInv, NEW t \in Tasks, NEW a \in Accounts,
                      vault.taskReservations[t][a].amount > 0
               PROVE  /\ CanRelease(vault, t, a)
                      /\ CanDebitExitFee(vault, t, a)
                      /\ \A b \in Accounts \ {a} : CanDebitAccessFee(vault, t, a, b)
    BY DEF SettlementNeverReverts
  <2> QED BY Settles DEF IInv, BooksInv
<1> QED BY <1>1, VaultBooksKept, PTL
===============================================================================
