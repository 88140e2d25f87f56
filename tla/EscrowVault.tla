----------------------------- MODULE EscrowVault ------------------------------
(***************************************************************************)
(* EscrowVaultV2: one escrow per claimed task, funded by the poster in       *)
(* parts, released to the worker, refunded, or split by a ruling.  A payment *)
(* that fails is owed to its payee and claimed later.                        *)
(*                                                                          *)
(* Can<Function> is the conjunction of the function's requires, <Function>   *)
(* the state it leaves; below them the contract on its own, called by the    *)
(* registry and by arbitration in any order.                                 *)
(***************************************************************************)
EXTENDS Naturals, FiniteSets, Functions, Amounts

CONSTANTS
    Tasks,           \* task ids
    Accounts,        \* posters and workers
    Nobody,          \* the zero address
    WorkerShares,    \* the workerBps arbitrators award
    MaxEscrowBalance,\* bound on the AZL the vault holds, and
    MaxDeposit       \* on what one escrow is ever funded with (model checking only)

FullBps == 10000

(* Task ids and addresses are finitely many.                                   *)
ASSUME EscrowAssumption ==
    /\ IsFiniteSet(Tasks) /\ IsFiniteSet(Accounts)
    /\ Nobody \notin Accounts
    /\ WorkerShares \subseteq 0..FullBps
    /\ MaxEscrowBalance \in Nat /\ MaxDeposit \in Nat

EscrowState == {"NONE", "FUNDED", "FROZEN", "SETTLED"}

Escrow == [poster : Accounts \cup {Nobody}, worker : Accounts \cup {Nobody},
           deposited : Nat, released : Nat, state : EscrowState]

NoEscrow == [poster |-> Nobody, worker |-> Nobody, deposited |-> 0,
             released |-> 0, state |-> "NONE"]

EscrowVaultType ==
    [balance : Nat,                        \* azl.balanceOf(vault)
     escrows : [Tasks -> Escrow],
     pendingPayouts : [Accounts -> Nat],
     totalLiabilities : Nat]

EmptyEscrowVault ==
    [balance |-> 0,
     escrows |-> [t \in Tasks |-> NoEscrow],
     pendingPayouts |-> [a \in Accounts |-> 0],
     totalLiabilities |-> 0]

-------------------------------------------------------------------------------
Remaining(v, t) == v.escrows[t].deposited - v.escrows[t].released

IsParties(e) == e.poster \in Accounts /\ e.worker \in Accounts

(* Mutant: a deferred payment is owed but not counted as a liability.         *)
OweUncounted(v, to, n, refusing) ==
    IF n = 0 THEN v
    ELSE IF to \notin refusing /\ n <= v.balance
    THEN [v EXCEPT !.balance = @ - n]
    ELSE [v EXCEPT !.pendingPayouts = Plus(@, to, n)]

PayOrOwe(v, to, n, refusing) ==
    IF n = 0 THEN v
    ELSE IF to \notin refusing /\ n <= v.balance
    THEN [v EXCEPT !.balance = @ - n]
    ELSE [v EXCEPT !.pendingPayouts = Plus(@, to, n), !.totalLiabilities = @ + n]

CanCreateEscrow(v, t, poster, worker) == v.escrows[t].state = "NONE"

CreateEscrow(v, t, poster, worker) ==
    [v EXCEPT !.escrows[t] = [poster |-> poster, worker |-> worker, deposited |-> 0,
                              released |-> 0, state |-> "FUNDED"]]

CanFundEscrow(v, t, n) == v.escrows[t].state = "FUNDED" /\ n > 0

FundEscrow(v, t, n) ==
    [v EXCEPT !.balance = @ + n, !.escrows[t].deposited = @ + n,
              !.totalLiabilities = @ + n]

CanFreeze(v, t) == v.escrows[t].state = "FUNDED"

Freeze(v, t) == [v EXCEPT !.escrows[t].state = "FROZEN"]

(* Mutant: a frozen escrow may still be released.                            *)
ReleaseFrozen(v, t, n) ==
    /\ v.escrows[t].state \in {"FUNDED", "FROZEN"} /\ n > 0
    /\ v.escrows[t].released + n <= v.escrows[t].deposited
    /\ n <= v.totalLiabilities

CanReleaseEscrow(v, t, n) ==
    /\ v.escrows[t].state = "FUNDED" /\ n > 0
    /\ v.escrows[t].released + n <= v.escrows[t].deposited
    /\ n <= v.totalLiabilities

ReleaseEscrow(v, t, n, refusing) ==
    PayOrOwe([v EXCEPT !.escrows[t].released = @ + n, !.totalLiabilities = @ - n],
             v.escrows[t].worker, n, refusing)

(* Mutant: an escrow may be closed with AZL left in it.                      *)
CloseWithRest(v, t) == v.escrows[t].state = "FUNDED"

CanCloseEscrow(v, t) ==
    /\ v.escrows[t].state = "FUNDED"
    /\ v.escrows[t].released = v.escrows[t].deposited

CloseEscrow(v, t) == [v EXCEPT !.escrows[t].state = "SETTLED"]

(* Mutant: the escrow is settled without being marked as paid out.            *)
SettledNotEmptied(v, t) ==
    [v EXCEPT !.escrows[t].state = "SETTLED", !.totalLiabilities = @ - Remaining(v, t)]

(* What settle and refund do before they pay: nothing of the escrow is left. *)
Emptied(v, t) ==
    [v EXCEPT !.escrows[t].released = v.escrows[t].deposited,
              !.escrows[t].state = "SETTLED",
              !.totalLiabilities = @ - Remaining(v, t)]

CanSettle(v, t) ==
    /\ v.escrows[t].state = "FROZEN" /\ IsParties(v.escrows[t])
    /\ v.escrows[t].released <= v.escrows[t].deposited

CanSettleEscrow(v, t, bps) ==
    /\ bps <= FullBps
    /\ v.escrows[t].state = "FROZEN"
    /\ v.escrows[t].released <= v.escrows[t].deposited
    /\ Remaining(v, t) <= v.totalLiabilities

WorkerAmount(v, t, bps) == (Remaining(v, t) * bps) \div FullBps

(* The worker's part is rounded down, the poster gets the rest.              *)
SettleEscrow(v, t, bps, refusing) ==
    LET e == v.escrows[t]
        workerAmount == WorkerAmount(v, t, bps)
        posterAmount == Remaining(v, t) - workerAmount
    IN  PayOrOwe(PayOrOwe(Emptied(v, t), e.worker, workerAmount, refusing),
                 e.poster, posterAmount, refusing)

CanRefundEscrow(v, t) ==
    /\ v.escrows[t].state = "FUNDED"
    /\ v.escrows[t].released <= v.escrows[t].deposited
    /\ Remaining(v, t) <= v.totalLiabilities

RefundEscrow(v, t, refusing) ==
    PayOrOwe(Emptied(v, t), v.escrows[t].poster, Remaining(v, t), refusing)

CanClaimEscrowPayout(v, a) ==
    LET n == v.pendingPayouts[a]
    IN  n > 0 /\ n <= v.totalLiabilities /\ n <= v.balance

(* Mutant: a deferred payment is claimed and stays a liability.              *)
ClaimKeepingLiability(v, a) ==
    [v EXCEPT !.pendingPayouts = [@ EXCEPT ![a] = 0], !.balance = @ - v.pendingPayouts[a]]

ClaimEscrowPayout(v, a) ==
    LET n == v.pendingPayouts[a]
    IN  [v EXCEPT !.pendingPayouts = [@ EXCEPT ![a] = 0], !.totalLiabilities = @ - n,
                  !.balance = @ - n]

CanRescueEscrowSurplus(v, n) == n > 0 /\ v.balance >= v.totalLiabilities + n

-------------------------------------------------------------------------------
VARIABLE escrowVault

Init == escrowVault = EmptyEscrowVault

Create(t, poster, worker) ==
    /\ CanCreateEscrow(escrowVault, t, poster, worker)
    /\ escrowVault' = CreateEscrow(escrowVault, t, poster, worker)

Fund(t, n) ==
    /\ escrowVault.balance + n <= MaxEscrowBalance
    /\ escrowVault.escrows[t].deposited + n <= MaxDeposit
    /\ CanFundEscrow(escrowVault, t, n)
    /\ escrowVault' = FundEscrow(escrowVault, t, n)

FreezeForDispute(t) ==
    /\ CanFreeze(escrowVault, t)
    /\ escrowVault' = Freeze(escrowVault, t)

Release(t, n, refusing) ==
    /\ CanReleaseEscrow(escrowVault, t, n)
    /\ escrowVault' = ReleaseEscrow(escrowVault, t, n, refusing)

Close(t) ==
    /\ CanCloseEscrow(escrowVault, t)
    /\ escrowVault' = CloseEscrow(escrowVault, t)

Settle(t, bps, refusing) ==
    /\ CanSettleEscrow(escrowVault, t, bps)
    /\ escrowVault' = SettleEscrow(escrowVault, t, bps, refusing)

Refund(t, refusing) ==
    /\ CanRefundEscrow(escrowVault, t)
    /\ escrowVault' = RefundEscrow(escrowVault, t, refusing)

Claim(a) ==
    /\ CanClaimEscrowPayout(escrowVault, a)
    /\ escrowVault' = ClaimEscrowPayout(escrowVault, a)

(* AZL sent to the vault by mistake, and the owner's way to get it out.       *)
Donate(n) ==
    /\ n > 0 /\ escrowVault.balance + n <= MaxEscrowBalance
    /\ escrowVault' = [escrowVault EXCEPT !.balance = @ + n]

Rescue(n) ==
    /\ CanRescueEscrowSurplus(escrowVault, n)
    /\ escrowVault' = [escrowVault EXCEPT !.balance = @ - n]

Next ==
    \/ \E t \in Tasks, p \in Accounts, w \in Accounts : p # w /\ Create(t, p, w)
    \/ \E t \in Tasks, n \in 1..MaxEscrowBalance : Fund(t, n)
    \/ \E t \in Tasks : FreezeForDispute(t) \/ Close(t)
    \/ \E t \in Tasks, refusing \in SUBSET Accounts :
          \/ \E n \in 1..MaxEscrowBalance : Release(t, n, refusing)
          \/ \E bps \in WorkerShares : Settle(t, bps, refusing)
          \/ Refund(t, refusing)
    \/ \E a \in Accounts : Claim(a)
    \/ \E n \in 1..MaxEscrowBalance : Donate(n) \/ Rescue(n)

Spec == Init /\ [][Next]_escrowVault

-------------------------------------------------------------------------------
TypeOK == escrowVault \in EscrowVaultType

(* The vault can pay out every open escrow and every deferred payment at once. *)
EscrowSolvent == escrowVault.balance >= escrowVault.totalLiabilities

(* No escrow has paid out more than was deposited, and a settled one has paid *)
(* out everything: no AZL of a task stays behind in the vault.                *)
SettledIsEmpty ==
    \A t \in Tasks :
        LET e == escrowVault.escrows[t]
        IN  /\ e.released <= e.deposited
            /\ e.state = "SETTLED" => e.released = e.deposited
            /\ e.state = "NONE" => e.deposited = 0

(* totalLiabilities is the sum of what the open escrows hold and what payees  *)
(* are owed, on every path that releases, defers, settles and claims.         *)
LiabilitiesExact ==
    escrowVault.totalLiabilities =
        SumFunction([t \in Tasks |-> Remaining(escrowVault, t)])
        + SumFunction(escrowVault.pendingPayouts)

(* A frozen escrow moves only by its ruling, and a settled one never again:   *)
(* no task's AZL is paid twice, and none leaves while a dispute is open.      *)
DisputedFundsStay ==
    [][\A t \in Tasks :
          LET e == escrowVault.escrows[t]
              f == escrowVault'.escrows[t]
          IN  /\ e.state = "SETTLED" => f = e
              /\ e.state = "FROZEN" => f = e \/ f.state = "SETTLED"
              /\ e.state # "NONE" => f.poster = e.poster /\ f.worker = e.worker
      ]_escrowVault
===============================================================================
