-------------------------------- MODULE Staking -------------------------------
(***************************************************************************)
(* UnionStakingVaultV2: AZL staked by agents earns a share of the rewards the *)
(* treasury schedules, and Action Credits issued in proportion to the whole  *)
(* stake up to a lifetime cap.  Shares are kept per staked token in          *)
(* fixed-point accumulators, and every division rounds down; the scales Acc  *)
(* and CreditAcc are constants, so that small ones make each rounding matter. *)
(*                                                                           *)
(* The operators take and return v, the contract's storage.  setTreasury and *)
(* setRegistry have happened.  Reverted transactions change nothing and are  *)
(* no steps.  The last four fields of v are history the contract does not    *)
(* keep: how often rewards were divided among the stakers and stakes changed,*)
(* the credits ever banked from stake, and those settled to the zero address.*)
(***************************************************************************)
EXTENDS Naturals, FiniteSets, Functions, Amounts

CONSTANTS
    Tasks, Accounts, Nobody,
    Acc,              \* ACC, the scale of accRewardPerShare
    CreditAcc,        \* CREDIT_ACC, the scale of accCreditPerToken
    CreditUnit,       \* CREDIT_UNIT
    CreditCap,        \* creditCap
    CreditTokenTime,  \* creditBaseStake * CREDIT_PERIOD: stake x time that earns a credit
    RewardDuration,   \* rewardDuration
    StakeAmounts, RewardAmounts,                \* the amounts agents and treasury move
    MaxStaked, MaxRestakes, MaxLiability, MaxSurplus, MaxTime \* model-checking bounds

ASSUME StakingAssumption ==
    /\ Nobody \notin Accounts /\ IsFiniteSet(Accounts)
    /\ {Acc, CreditAcc, CreditUnit, CreditTokenTime, RewardDuration} \subseteq Nat \ {0}
    /\ StakeAmounts \subseteq Nat /\ RewardAmounts \subseteq Nat
    /\ CreditCap \in Nat /\ CreditCap >= CreditUnit /\ CreditCap % CreditUnit = 0

VARIABLES v, now

vars == <<v, now>>

Vault ==
    [balance : Nat, stakingActive : BOOLEAN,
     totalStaked : Nat, totalRewardLiability : Nat, undistributedRewards : Nat,
     accRewardPerShare : Nat, rewardRate : Nat, rewardFinish : Nat, lastUpdate : Nat,
     totalCreditsIssued : Nat, outstandingTaskCredits : Nat, creditIssuanceClosed : BOOLEAN,
     accCreditPerToken : Nat, lastCreditAccrual : Nat, creditEmissionRemainder : Nat,
     creditAccumulatorRemainderScaled : Nat,
     stakeOf : [Accounts -> Nat], rewardDebt : [Accounts -> Nat], accrued : [Accounts -> Nat],
     pendingPayouts : [Accounts -> Nat], bankedCredits : [Accounts -> Nat],
     creditDebt : [Accounts -> Nat], creditRemainderScaled : [Accounts -> Nat],
     taskCreditPayer : [Tasks -> [BOOLEAN -> Accounts \cup {Nobody}]],
     emissions : Nat, restakes : Nat, everBanked : Nat, burned : Nat]

Zero == [a \in Accounts |-> 0]

Init ==
    /\ now = 0
    /\ v = [balance |-> 0, stakingActive |-> FALSE,
            totalStaked |-> 0, totalRewardLiability |-> 0, undistributedRewards |-> 0,
            accRewardPerShare |-> 0, rewardRate |-> 0, rewardFinish |-> 0, lastUpdate |-> 0,
            totalCreditsIssued |-> 0, outstandingTaskCredits |-> 0,
            creditIssuanceClosed |-> FALSE, accCreditPerToken |-> 0, lastCreditAccrual |-> 0,
            creditEmissionRemainder |-> 0, creditAccumulatorRemainderScaled |-> 0,
            stakeOf |-> Zero, rewardDebt |-> Zero, accrued |-> Zero, pendingPayouts |-> Zero,
            bankedCredits |-> Zero, creditDebt |-> Zero, creditRemainderScaled |-> Zero,
            taskCreditPayer |-> [t \in Tasks |-> [isPost \in BOOLEAN |-> Nobody]],
            emissions |-> 0, restakes |-> 0, everBanked |-> 0, burned |-> 0]

-------------------------------------------------------------------------------
(* _update: first the accumulators, for everybody, then one account's share.  *)

(* Mutant: the credits of a period are issued whatever is left under the cap.  *)
IssueAboveCap(emitted, remaining) == emitted

(* The credits emitted since the last accrual that the cap still admits.       *)
Issue(emitted, remaining) == IF emitted > remaining THEN remaining ELSE emitted

AccrueCredits(s) ==
    LET scaled == (now - s.lastCreditAccrual) * CreditUnit * s.totalStaked
                     + s.creditEmissionRemainder
        remaining == CreditCap - s.totalCreditsIssued
        period == Issue(scaled \div CreditTokenTime, remaining)
        closes == period = remaining
        accumulator == period * CreditAcc + s.creditAccumulatorRemainderScaled
        emitted == [s EXCEPT !.lastCreditAccrual = now,
                             !.creditEmissionRemainder =
                                 IF closes THEN 0 ELSE scaled % CreditTokenTime]
    IN  IF now = s.lastCreditAccrual THEN s
        ELSE IF ~s.stakingActive \/ s.creditIssuanceClosed \/ s.totalStaked = 0 \/ remaining = 0
        THEN [s EXCEPT !.lastCreditAccrual = now]
        ELSE IF period = 0 THEN emitted
        ELSE [emitted EXCEPT
                !.totalCreditsIssued = @ + period,
                !.accCreditPerToken = @ + accumulator \div s.totalStaked,
                !.creditAccumulatorRemainderScaled = accumulator % s.totalStaked,
                !.creditIssuanceClosed = closes]

Until(s) == IF now < s.rewardFinish THEN now ELSE s.rewardFinish

(* Mutant: the fraction an increment rounds away is not put back.              *)
DistributeLosingDust(s) ==
    LET emission == (Until(s) - s.lastUpdate) * s.rewardRate
        increment == (emission * Acc) \div s.totalStaked
    IN  IF Until(s) <= s.lastUpdate THEN s
        ELSE IF s.totalStaked = 0
        THEN [s EXCEPT !.undistributedRewards = @ + emission, !.lastUpdate = Until(s)]
        ELSE [s EXCEPT !.accRewardPerShare = @ + increment, !.lastUpdate = Until(s),
                       !.emissions = @ + 1]

(* Rewards emitted while nobody stakes are undistributed; otherwise they go    *)
(* to the accumulator and what does not divide stays undistributed.           *)
Distribute(s) ==
    LET emission == (Until(s) - s.lastUpdate) * s.rewardRate
        increment == (emission * Acc) \div s.totalStaked
        distributed == (increment * s.totalStaked) \div Acc
    IN  IF Until(s) <= s.lastUpdate THEN s
        ELSE IF s.totalStaked = 0
        THEN [s EXCEPT !.undistributedRewards = @ + emission, !.lastUpdate = Until(s)]
        ELSE [s EXCEPT !.accRewardPerShare = @ + increment,
                       !.undistributedRewards = @ + emission - distributed,
                       !.lastUpdate = Until(s),
                       !.emissions = @ + 1]

RewardShare(s, a) == (s.stakeOf[a] * s.accRewardPerShare) \div Acc

SettleRewards(s, a) ==
    [s EXCEPT !.accrued = Plus(@, a, RewardShare(s, a) - s.rewardDebt[a]),
              !.rewardDebt[a] = RewardShare(s, a)]

(* Mutant: whole credits are banked and the fraction is forgotten.             *)
SettleCreditsDroppingFraction(s, a) ==
    LET credits == (s.stakeOf[a] * (s.accCreditPerToken - s.creditDebt[a])) \div CreditAcc
    IN  [s EXCEPT !.creditDebt[a] = s.accCreditPerToken,
                  !.bankedCredits = Plus(@, a, credits),
                  !.everBanked = @ + credits]

SettleCredits(s, a) ==
    LET scaled == s.stakeOf[a] * (s.accCreditPerToken - s.creditDebt[a])
                     + s.creditRemainderScaled[a]
        settled == [s EXCEPT !.creditDebt[a] = s.accCreditPerToken]
    IN  IF s.stakeOf[a] = 0 THEN settled
        ELSE [settled EXCEPT !.creditRemainderScaled[a] = scaled % CreditAcc,
                             !.bankedCredits = Plus(@, a, scaled \div CreditAcc),
                             !.everBanked = @ + scaled \div CreditAcc]

UpdateAll(s) == Distribute(AccrueCredits(s))

Update(s, a) == SettleCredits(SettleRewards(UpdateAll(s), a), a)

-------------------------------------------------------------------------------
(* The transactions.                                                         *)

ActivateStaking ==
    /\ ~v.stakingActive
    /\ v' = [v EXCEPT !.stakingActive = TRUE, !.lastUpdate = now, !.lastCreditAccrual = now]

(* A stake that has changed owes what the accumulators show at the change.     *)
Restake(s, a, stake) ==
    [s EXCEPT !.stakeOf[a] = stake,
              !.rewardDebt[a] = (stake * s.accRewardPerShare) \div Acc,
              !.creditDebt[a] = s.accCreditPerToken,
              !.restakes = @ + 1]

Stake(a, amount) ==
    /\ v.stakingActive
    /\ v.totalStaked + amount <= MaxStaked /\ v.restakes < MaxRestakes
    /\ LET s == Update(v, a)
       IN  v' = [Restake(s, a, s.stakeOf[a] + amount) EXCEPT
                    !.totalStaked = @ + amount, !.balance = @ + amount]

Unstake(a, amount) ==
    /\ v.stakingActive
    /\ amount <= v.stakeOf[a] /\ amount <= v.totalStaked
    /\ v.restakes < MaxRestakes
    /\ LET s == Update(v, a)
       IN  v' = [Restake(s, a, s.stakeOf[a] - amount) EXCEPT
                    !.totalStaked = @ - amount, !.balance = @ - amount]

(* notifyReward by the treasury: what is still to be emitted is rescheduled    *)
(* with the new amount, and what does not divide by the duration is           *)
(* undistributed.                                                            *)
Remaining(s) == IF now < s.rewardFinish THEN (s.rewardFinish - now) * s.rewardRate ELSE 0

Scheduled(s, amount) == amount + Remaining(s)

NotifyReward(amount) ==
    LET s == UpdateAll(v)
        scheduled == Scheduled(s, amount)
    IN  /\ v.stakingActive
        /\ v.totalRewardLiability + amount <= MaxLiability
        /\ scheduled \div RewardDuration > 0
        /\ v' = [s EXCEPT !.balance = @ + amount,
                          !.rewardRate = scheduled \div RewardDuration,
                          !.undistributedRewards = @ + (scheduled % RewardDuration),
                          !.rewardFinish = now + RewardDuration,
                          !.lastUpdate = now,
                          !.totalRewardLiability = @ + amount]

Checkpoint == v' = UpdateAll(v)

BankCredits(a) == v.stakingActive /\ v' = Update(v, a)

(* claim: paid when the transfer succeeds, which needs the balance and no      *)
(* underflow of the liability; deferred when the token refuses it.            *)
Claim(a, refused) ==
    LET s == Update(v, a)
        amount == s.accrued[a]
        claimed == [s EXCEPT !.accrued[a] = 0]
    IN  /\ amount > 0
        /\ IF refused \/ v.balance < amount
           THEN v' = [claimed EXCEPT !.pendingPayouts = Plus(@, a, amount)]
           ELSE /\ amount <= s.totalRewardLiability
                /\ v' = [claimed EXCEPT !.totalRewardLiability = @ - amount,
                                        !.balance = @ - amount]

(* Mutant: a deferred payout is paid and stays in the liability.               *)
PayKeepingLiability(a) ==
    /\ v.pendingPayouts[a] > 0
    /\ v.pendingPayouts[a] <= v.balance
    /\ v' = [v EXCEPT !.pendingPayouts[a] = 0, !.balance = @ - v.pendingPayouts[a]]

ClaimPayout(a) ==
    /\ v.pendingPayouts[a] > 0
    /\ v.pendingPayouts[a] <= v.totalRewardLiability
    /\ v.pendingPayouts[a] <= v.balance
    /\ v' = [v EXCEPT !.pendingPayouts[a] = 0,
                      !.totalRewardLiability = @ - v.pendingPayouts[a],
                      !.balance = @ - v.pendingPayouts[a]]

RescueUndistributed(amount) ==
    LET s == UpdateAll(v)
    IN  /\ amount <= s.undistributedRewards
        /\ amount <= s.totalRewardLiability
        /\ v' = [s EXCEPT !.undistributedRewards = @ - amount,
                          !.totalRewardLiability = @ - amount,
                          !.balance = @ - amount]

RescueSurplus(amount) ==
    /\ v.balance >= v.totalStaked + v.totalRewardLiability + amount
    /\ v' = [v EXCEPT !.balance = @ - amount]

(* AZL sent to the contract by anybody, outside of its functions.              *)
Donate ==
    /\ v.balance < v.totalStaked + v.totalRewardLiability + MaxSurplus
    /\ v' = [v EXCEPT !.balance = @ + 1]

(* trySpendCredit and settleSpentCredit, called by the registry with task ids  *)
(* that are not zero.                                                        *)
TrySpendCredit(a, t, isPost) ==
    LET s == Update(v, a)
    IN  /\ v.stakingActive
        /\ v' = IF s.bankedCredits[a] < CreditUnit \/ s.taskCreditPayer[t][isPost] # Nobody
                THEN s
                ELSE [s EXCEPT !.bankedCredits = Minus(@, a, CreditUnit),
                               !.taskCreditPayer[t][isPost] = a,
                               !.outstandingTaskCredits = @ + CreditUnit]

SettleSpentCredit(t, from, to, isPost) ==
    LET settled == [v EXCEPT !.taskCreditPayer[t][isPost] = Nobody,
                             !.outstandingTaskCredits = @ - CreditUnit]
    IN  /\ v.taskCreditPayer[t][isPost] = from
        /\ v.outstandingTaskCredits >= CreditUnit
        /\ v' = IF to = Nobody
                THEN [settled EXCEPT !.burned = @ + CreditUnit]
                ELSE [Update(Update(settled, from), to) EXCEPT
                        !.bankedCredits = Plus(@, to, CreditUnit)]

Tick == now < MaxTime /\ now' = now + 1 /\ UNCHANGED v

Transaction ==
    \/ ActivateStaking
    \/ Checkpoint
    \/ Donate
    \/ \E amount \in RewardAmounts : NotifyReward(amount)
    \/ \E amount \in StakeAmounts : RescueUndistributed(amount) \/ RescueSurplus(amount)
    \/ \E a \in Accounts :
          \/ BankCredits(a)
          \/ ClaimPayout(a)
          \/ \E refused \in BOOLEAN : Claim(a, refused)
          \/ \E amount \in StakeAmounts : Stake(a, amount) \/ Unstake(a, amount)
          \/ \E t \in Tasks, isPost \in BOOLEAN :
                \/ TrySpendCredit(a, t, isPost)
                \/ \E to \in Accounts \cup {Nobody} : SettleSpentCredit(t, a, to, isPost)

Next == (Transaction /\ UNCHANGED now) \/ Tick

Spec == Init /\ [][Next]_vars

-------------------------------------------------------------------------------
TypeOK == v \in Vault /\ now \in Nat

(* No sequence of stakes, rewards, claims and rescues leaves less AZL in the   *)
(* contract than the stakes and the recorded reward liability: rescueSurplus   *)
(* never reaches a staker's principal.                                        *)
StakesBacked == v.balance >= v.totalStaked + v.totalRewardLiability

(* Rewards in units of 1/Acc: owed to the stakers, owed already to named       *)
(* payees, undistributed, and still to be emitted.                            *)
Unsettled(a) == v.stakeOf[a] * v.accRewardPerShare - v.rewardDebt[a] * Acc

NotYetEmitted ==
    (IF v.lastUpdate < v.rewardFinish THEN v.rewardFinish - v.lastUpdate ELSE 0) * v.rewardRate

Owed == SumFunction(v.accrued) + SumFunction(v.pendingPayouts) + v.undistributedRewards
           + NotYetEmitted

OwedScaled == Owed * Acc + SumFunction([a \in Accounts |-> Unsettled(a)])

(* Rewards and credits are divided by the whole stake, which is the sum of the *)
(* stakes; and every reward the treasury has notified and nobody has been paid *)
(* is still owed to somebody, whatever is rescheduled or orphaned: a change of *)
(* stake loses less than one unit to rounding, and what is owed exceeds what   *)
(* was notified by less than one unit per emission and change of stake.       *)
RewardsConserved ==
    /\ v.totalStaked = SumFunction(v.stakeOf)
    /\ OwedScaled + v.restakes * (Acc - 1) >= v.totalRewardLiability * Acc
    /\ OwedScaled <= v.totalRewardLiability * Acc + (v.emissions + v.restakes) * (Acc - 1)

(* Credits in units of 1/CreditAcc: every credit issued under the cap is       *)
(* banked, a fraction on some account or on the accumulator, locked in a task  *)
(* or burned.  Staking more, leaving, spending and settling create and lose   *)
(* none.                                                                      *)
CreditsConserved ==
    /\ v.totalCreditsIssued <= CreditCap
    /\ v.totalCreditsIssued * CreditAcc =
          (SumFunction(v.bankedCredits) + v.outstandingTaskCredits + v.burned) * CreditAcc
             + SumFunction(v.creditRemainderScaled) + v.creditAccumulatorRemainderScaled
             + SumFunction([a \in Accounts |->
                  v.stakeOf[a] * (v.accCreditPerToken - v.creditDebt[a])])

(* The staking arithmetic implements the ledger the registry relies on, whose  *)
(* issued credits are those an account has banked.                            *)
AbstractLedger ==
    [stakingActive |-> v.stakingActive,
     bankedCredits |-> v.bankedCredits,
     taskCreditPayer |-> v.taskCreditPayer,
     totalCreditsIssued |-> v.everBanked,
     outstandingTaskCredits |-> v.outstandingTaskCredits]

Credits == INSTANCE ActionCredits WITH ledger <- AbstractLedger

ImplementsLedger == Credits!Spec
===============================================================================
