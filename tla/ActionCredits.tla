---------------------------- MODULE ActionCredits -----------------------------
(***************************************************************************)
(* What UnionStakingVaultV2 promises of Action Credits, without the staking  *)
(* arithmetic: every _update(account) first banks what the account's stake   *)
(* has earned since its last update, and that is here any amount, earned,    *)
(* that the lifetime cap leaves.  The registry's model uses these operators  *)
(* as its credit source, and Staking, with the arithmetic, implements Spec.  *)
(* The registry spends a credit for a post or a claim and settles it when    *)
(* the task ends.                                                            *)
(***************************************************************************)
EXTENDS Naturals, FiniteSets, Functions, Amounts

CONSTANTS
    Tasks,       \* task ids
    Accounts,    \* agents
    Nobody,      \* the zero address
    CreditUnit,  \* one Action Credit (CREDIT_UNIT)
    CreditCap    \* creditCap

(* A task has two credit slots: isPost = TRUE for its poster, FALSE for its  *)
(* worker.  totalCreditsSpent, a statistic nothing reads, is left out.       *)
LedgerType ==
    [stakingActive : BOOLEAN,
     bankedCredits : [Accounts -> Nat],
     taskCreditPayer : [Tasks -> [BOOLEAN -> Accounts \cup {Nobody}]],
     totalCreditsIssued : Nat,
     outstandingTaskCredits : Nat]

EmptyLedger ==
    [stakingActive |-> FALSE,
     bankedCredits |-> [a \in Accounts |-> 0],
     taskCreditPayer |-> [t \in Tasks |-> [isPost \in BOOLEAN |-> Nobody]],
     totalCreditsIssued |-> 0,
     outstandingTaskCredits |-> 0]

-------------------------------------------------------------------------------
(* earned[a] is what _update(a) finds accrued.  The second update of an       *)
(* account in one transaction finds nothing.                                 *)
NoEarnings == [a \in Accounts |-> 0]

Rest(earned, updated) == [a \in Accounts |-> IF a \in updated THEN 0 ELSE earned[a]]

CanEarn(c, earned) ==
    /\ c.totalCreditsIssued + SumFunction(earned) <= CreditCap
    /\ ~c.stakingActive => earned = NoEarnings

(* _update of every account in updated                                       *)
Update(c, updated, earned) ==
    [c EXCEPT
        !.bankedCredits =
            [a \in Accounts |-> @[a] + (IF a \in updated THEN earned[a] ELSE 0)],
        !.totalCreditsIssued = @ + SumFunctionOnSet(earned, updated)]

(* trySpendCredit returns Spends; an inactive vault spends nothing, and       *)
(* leaves the deposit vault to charge the access fee.                        *)
Spends(c, a, t, isPost, earned) ==
    /\ c.stakingActive
    /\ c.bankedCredits[a] + earned[a] >= CreditUnit
    /\ c.taskCreditPayer[t][isPost] = Nobody

TrySpend(c, a, t, isPost, earned) ==
    IF ~c.stakingActive THEN c
    ELSE IF ~Spends(c, a, t, isPost, earned) THEN Update(c, {a}, earned)
    ELSE [Update(c, {a}, earned) EXCEPT
            !.bankedCredits = Minus(@, a, CreditUnit),
            !.taskCreditPayer[t][isPost] = a,
            !.outstandingTaskCredits = @ + CreditUnit]

CanSettleSpentCredit(c, t, from, isPost) ==
    /\ from # Nobody
    /\ c.taskCreditPayer[t][isPost] = from
    /\ c.outstandingTaskCredits >= CreditUnit

(* settleSpentCredit: the credit goes to another account or, when to is the   *)
(* zero address, to nobody.                                                  *)
SettleSpentCredit(c, t, from, to, isPost, earned) ==
    LET settled == [c EXCEPT !.taskCreditPayer[t][isPost] = Nobody,
                             !.outstandingTaskCredits = @ - CreditUnit]
    IN  IF to = Nobody THEN settled
        ELSE [Update(settled, {from, to}, earned) EXCEPT !.bankedCredits = Plus(@, to, CreditUnit)]

-------------------------------------------------------------------------------
VARIABLE ledger

Init == ledger = EmptyLedger

Activate ==
    /\ ~ledger.stakingActive
    /\ ledger' = [ledger EXCEPT !.stakingActive = TRUE]

BankCredits(a, earned) ==
    /\ ledger.stakingActive /\ CanEarn(ledger, earned)
    /\ ledger' = Update(ledger, {a}, earned)

RegistrySpend(a, t, isPost, earned) ==
    /\ CanEarn(ledger, earned)
    /\ ledger' = TrySpend(ledger, a, t, isPost, earned)

RegistrySettle(t, from, to, isPost, earned) ==
    /\ CanEarn(ledger, earned)
    /\ CanSettleSpentCredit(ledger, t, from, isPost)
    /\ ledger' = SettleSpentCredit(ledger, t, from, to, isPost, earned)

Next ==
    \/ Activate
    \/ \E a \in Accounts, earned \in [Accounts -> 0..CreditCap] :
          \/ BankCredits(a, earned)
          \/ \E t \in Tasks, isPost \in BOOLEAN :
                \/ RegistrySpend(a, t, isPost, earned)
                \/ \E to \in Accounts \cup {Nobody} : RegistrySettle(t, a, to, isPost, earned)

Spec == Init /\ [][Next]_ledger

===============================================================================
