--------------------------- MODULE VerifierBondVault ---------------------------
(***************************************************************************)
(* VerifierBondVaultV2: the AZL arbitrators bond, the part of it each        *)
(* assignment reserves for a slash, the cooldown before a withdrawal, and    *)
(* the slashes owed to the treasury.  Operators over the contract's state;   *)
(* module Arbitration drives them.                                           *)
(***************************************************************************)
EXTENDS Naturals, Functions, Amounts

CONSTANTS
    Verifiers,           \* accounts that may bond
    MinimumBond,         \* also what one assignment reserves
    WithdrawalCooldown

AssignmentReserve == MinimumBond

(* Only slashes are ever deferred, so pendingPayouts has one payee, the       *)
(* treasury, and is its total.                                               *)
BondVaultType ==
    [balance : Nat,                           \* azl.balanceOf(vault)
     bonds : [Verifiers -> Nat],
     activeAssignments : [Verifiers -> Nat],
     reservedSlash : [Verifiers -> Nat],
     withdrawReadyAt : [Verifiers -> Nat],    \* 0: no withdrawal scheduled
     totalBonded : Nat,
     totalPendingPayouts : Nat]

EmptyBondVault ==
    [balance |-> 0,
     bonds |-> [x \in Verifiers |-> 0],
     activeAssignments |-> [x \in Verifiers |-> 0],
     reservedSlash |-> [x \in Verifiers |-> 0],
     withdrawReadyAt |-> [x \in Verifiers |-> 0],
     totalBonded |-> 0,
     totalPendingPayouts |-> 0]

-------------------------------------------------------------------------------
IsEligible(b, x) ==
    /\ b.bonds[x] >= MinimumBond
    /\ b.bonds[x] - b.reservedSlash[x] >= AssignmentReserve
    /\ b.withdrawReadyAt[x] = 0

(* Bonding more cancels a scheduled withdrawal.                              *)
Bond(b, x, n) ==
    [b EXCEPT !.balance = @ + n, !.bonds = Plus(@, x, n), !.totalBonded = @ + n,
              !.withdrawReadyAt[x] = 0]

(* Mutant: a withdrawal may be scheduled while a case is open.               *)
ScheduleWhileServing(b, x, mayLeave) == b.bonds[x] > 0 /\ mayLeave

(* mayLeave: the verifier is not on the panel, or somebody else there could   *)
(* still take a case.                                                        *)
CanScheduleWithdrawal(b, x, mayLeave) ==
    /\ b.activeAssignments[x] = 0 /\ b.bonds[x] > 0
    /\ mayLeave

ScheduleWithdrawal(b, x, now) ==
    [b EXCEPT !.withdrawReadyAt[x] = now + WithdrawalCooldown]

CanWithdrawBond(b, x, n, now, mayLeave) ==
    /\ b.activeAssignments[x] = 0
    /\ b.withdrawReadyAt[x] # 0 /\ now >= b.withdrawReadyAt[x]
    /\ n > 0 /\ n <= b.bonds[x] /\ n <= b.totalBonded /\ n <= b.balance
    /\ b.bonds[x] - n < MinimumBond => mayLeave

WithdrawBond(b, x, n) ==
    [b EXCEPT !.bonds = Minus(@, x, n), !.withdrawReadyAt[x] = 0,
              !.totalBonded = @ - n, !.balance = @ - n]

CanAssign(b, x) == IsEligible(b, x)

Assign(b, x) ==
    [b EXCEPT !.activeAssignments = Plus(@, x, 1),
              !.reservedSlash = Plus(@, x, AssignmentReserve)]

CanRelease(b, x) == b.activeAssignments[x] > 0

Release(b, x) ==
    [b EXCEPT !.activeAssignments = Minus(@, x, 1),
              !.reservedSlash = Minus(@, x, AssignmentReserve)]

CanSlashAndRelease(b, x, n) ==
    /\ CanRelease(b, x) /\ AssignmentReserve <= b.reservedSlash[x]
    /\ n <= AssignmentReserve /\ n <= b.bonds[x] /\ n <= b.totalBonded

(* The slash goes to the treasury, or is owed to it when the transfer fails.  *)
SlashAndRelease(b, x, n, refused) ==
    LET slashed == [Release(b, x) EXCEPT !.bonds = Minus(@, x, n), !.totalBonded = @ - n]
    IN  IF refused \/ n > b.balance
        THEN [slashed EXCEPT !.totalPendingPayouts = @ + n]
        ELSE [slashed EXCEPT !.balance = @ - n]

(* TreasuryRouterV2.claimBondSlashPayout: the treasury pulls what it is owed. *)
CanClaimSlash(b) == b.totalPendingPayouts > 0 /\ b.totalPendingPayouts <= b.balance

(* Mutant: the debt to the treasury is paid and not struck off.               *)
ClaimKeepingDebt(b) == [b EXCEPT !.balance = @ - b.totalPendingPayouts]

ClaimSlash(b) == [b EXCEPT !.totalPendingPayouts = 0, !.balance = @ - b.totalPendingPayouts]
===============================================================================
