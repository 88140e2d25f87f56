---------------------------- MODULE Staking_proofs ----------------------------
(***************************************************************************)
(* The staking vault, for any accounts, amounts, scales and schedule: no       *)
(* checked subtraction it relies on fails, principal and reward liability are  *)
(* covered, and the rewards owed and the credits issued are conserved whatever *)
(* the divisions round away.                                                  *)
(***************************************************************************)
EXTENDS Staking, SumTheorems, TLAPS

AmountFields ==
    {"balance", "totalStaked", "totalRewardLiability", "undistributedRewards",
     "accRewardPerShare", "rewardRate", "rewardFinish", "lastUpdate", "totalCreditsIssued",
     "outstandingTaskCredits", "accCreditPerToken", "lastCreditAccrual",
     "creditEmissionRemainder", "creditAccumulatorRemainderScaled"}

BookFields ==
    {"stakeOf", "rewardDebt", "accrued", "pendingPayouts", "bankedCredits", "creditDebt",
     "creditRemainderScaled"}

OtherFields ==
    {"stakingActive", "creditIssuanceClosed", "taskCreditPayer", "emissions", "restakes",
     "everBanked", "burned"}

(* Every amount is a natural number: what the contract subtracts was there.    *)
Natural(s) ==
    /\ AmountFields \union BookFields \union OtherFields \subseteq DOMAIN s
    /\ \A f \in AmountFields : s[f] \in Nat
    /\ \A f \in BookFields : s[f] \in [Accounts -> Nat]

(* A settled share never exceeds the share of today, for accumulators only     *)
(* grow; the cap and the clock are respected.                                 *)
Ahead(s) ==
    /\ \A a \in Accounts : /\ s.rewardDebt[a] <= RewardShare(s, a)
                           /\ s.creditDebt[a] <= s.accCreditPerToken
    /\ s.totalCreditsIssued <= CreditCap
    /\ s.lastCreditAccrual <= now

Good(s) == Natural(s) /\ Ahead(s)

Inv == now \in Nat /\ Good(v) /\ StakesBacked

(* The three amounts StakesBacked is about, and the stakes.                    *)
SameFunds(s, r) ==
    /\ r.balance = s.balance
    /\ r.totalStaked = s.totalStaked
    /\ r.totalRewardLiability = s.totalRewardLiability
    /\ r.stakeOf = s.stakeOf

-------------------------------------------------------------------------------
(* Division rounds down, and loses less than one.                            *)
LEMMA DivFacts ==
    ASSUME NEW x \in Nat, NEW c \in Nat \ {0}
    PROVE  /\ x \div c \in Nat
           /\ x % c \in Nat
           /\ c * (x \div c) <= x
           /\ x < c * (x \div c) + c
<1> DEFINE q == x \div c
           r == x % c
<1>1. q \in Nat /\ r \in 0..(c - 1) /\ x = c * q + r
  BY Z3
<1> QED
  BY <1>1

(* Division is monotone, and undoes a product it divides.                      *)
LEMMA DivMonotone ==
    ASSUME NEW x \in Nat, NEW y \in Nat, NEW c \in Nat \ {0}, x <= y
    PROVE  x \div c <= y \div c
<1> DEFINE p == x \div c
           q == y \div c
<1>1. p \in Nat /\ q \in Nat /\ c * p <= x /\ y < c * q + c
  BY DivFacts
<1> HIDE DEF p, q
<1>2. CASE p >= q + 1
  <2>1. PICK d \in Nat : p = q + 1 + d
    BY <1>1, <1>2
  <2>2. c * p = c * q + c + c * d /\ c * d \in Nat /\ c * q \in Nat
    BY <1>1, <2>1
  <2> QED
    BY <1>1, <2>2
<1>3. p <= q
  BY <1>1, <1>2
<1> QED
  BY <1>3 DEF p, q

(* A quotient is at most y when the dividend is at most y times the          *)
(* divisor.                                                                  *)
LEMMA DivBound ==
    ASSUME NEW x \in Nat, NEW y \in Nat, NEW c \in Nat \ {0}, x <= y * c
    PROVE  x \div c <= y
<1> DEFINE p == x \div c
<1>1. p \in Nat /\ c * p <= x
  BY DivFacts
<1> HIDE DEF p
<1>2. CASE p >= y + 1
  <2>1. PICK d \in Nat : p = y + 1 + d
    BY <1>1, <1>2
  <2>2. c * p = y * c + c + c * d /\ c * d \in Nat /\ y * c \in Nat
    BY <1>1, <2>1
  <2> QED
    BY <1>1, <2>2
<1>3. p <= y
  BY <1>1, <1>2
<1> QED
  BY <1>3 DEF p

(* A stake's share grows with the accumulator.                                *)
LEMMA ShareMonotone ==
    ASSUME NEW k \in Nat, NEW x \in Nat, NEW y \in Nat, NEW c \in Nat \ {0}, x <= y
    PROVE  (k * x) \div c <= (k * y) \div c
<1>1. k * x \in Nat /\ k * y \in Nat
  OBVIOUS
<1>2. k * x <= k * y
  <2>1. PICK d \in Nat : y = x + d
    OBVIOUS
  <2>2. k * y = k * x + k * d /\ k * d \in Nat
    BY <2>1
  <2> QED
    BY <1>1, <2>2
<1> QED
  BY <1>1, <1>2, DivMonotone

-------------------------------------------------------------------------------
(* _update: each part keeps the books good and leaves the funds alone.         *)

(* Accruing credits.                                                         *)
LEMMA AccrueGood ==
    ASSUME StakingAssumption, now \in Nat, NEW s, Good(s)
    PROVE  Good(AccrueCredits(s)) /\ SameFunds(s, AccrueCredits(s))
<1> DEFINE scaled == (now - s.lastCreditAccrual) * CreditUnit * s.totalStaked
                        + s.creditEmissionRemainder
           remaining == CreditCap - s.totalCreditsIssued
           emittedNow == scaled \div CreditTokenTime
           period == Issue(emittedNow, remaining)
           closes == period = remaining
           accumulator == period * CreditAcc + s.creditAccumulatorRemainderScaled
           rest == IF closes THEN 0 ELSE scaled % CreditTokenTime
           grown == accumulator \div s.totalStaked
           left == accumulator % s.totalStaked
           emitted == [s EXCEPT !.lastCreditAccrual = now, !.creditEmissionRemainder = rest]
           issued == [emitted EXCEPT
                        !.totalCreditsIssued = @ + period,
                        !.accCreditPerToken = @ + grown,
                        !.creditAccumulatorRemainderScaled = left,
                        !.creditIssuanceClosed = closes]
<1>1. /\ Natural(s) /\ Ahead(s)
      /\ s.totalStaked \in Nat /\ s.creditEmissionRemainder \in Nat
      /\ s.lastCreditAccrual \in Nat /\ s.lastCreditAccrual <= now
      /\ s.totalCreditsIssued \in Nat /\ s.totalCreditsIssued <= CreditCap
      /\ s.creditAccumulatorRemainderScaled \in Nat /\ s.accCreditPerToken \in Nat
      /\ CreditUnit \in Nat \ {0} /\ CreditTokenTime \in Nat \ {0} /\ CreditAcc \in Nat \ {0}
      /\ CreditCap \in Nat
  BY DEF Good, Natural, Ahead, AmountFields, StakingAssumption
<1>2. scaled \in Nat /\ remaining \in Nat
  <2>1. PICK e \in Nat : e = now - s.lastCreditAccrual
    BY <1>1
  <2>2. e * CreditUnit * s.totalStaked \in Nat
    BY <1>1
  <2> QED
    BY <1>1, <2>1, <2>2
<1>3. emittedNow \in Nat /\ rest \in Nat
  BY <1>1, <1>2, DivFacts
<1>4. period \in Nat /\ period <= remaining
  BY <1>2, <1>3 DEF Issue
<1>5. accumulator \in Nat
  BY <1>1, <1>4
<1>6. s.totalStaked # 0 => grown \in Nat /\ left \in Nat
  BY <1>1, <1>5, DivFacts
<1>7. \/ AccrueCredits(s) = s
      \/ AccrueCredits(s) = [s EXCEPT !.lastCreditAccrual = now]
      \/ AccrueCredits(s) = emitted
      \/ AccrueCredits(s) = issued /\ s.totalStaked # 0
  BY DEF AccrueCredits
<1> HIDE DEF scaled, remaining, period, closes, accumulator, rest, grown, left
<1>8. ASSUME NEW r, DOMAIN r = DOMAIN s,
             \A f \in AmountFields \ {"lastCreditAccrual", "creditEmissionRemainder",
                  "totalCreditsIssued", "accCreditPerToken",
                  "creditAccumulatorRemainderScaled"} : r[f] = s[f],
             \A f \in BookFields : r[f] = s[f],
             r.lastCreditAccrual = now, r.creditEmissionRemainder \in Nat,
             r.creditAccumulatorRemainderScaled \in Nat,
             r.totalCreditsIssued \in Nat, r.totalCreditsIssued <= CreditCap,
             r.accCreditPerToken \in Nat, s.accCreditPerToken <= r.accCreditPerToken
      PROVE  Good(r) /\ SameFunds(s, r)
  <2>1. Natural(r)
    BY <1>1, <1>8 DEF Natural, AmountFields
  <2>2. Ahead(r)
    BY <1>1, <1>8 DEF Natural, Ahead, RewardShare, AmountFields, BookFields
  <2> QED
    BY <1>8, <2>1, <2>2 DEF Good, SameFunds, AmountFields, BookFields
<1> AmountFields \union BookFields \union OtherFields \subseteq DOMAIN s
  BY <1>1 DEF Natural
<1>9. CASE AccrueCredits(s) = [s EXCEPT !.lastCreditAccrual = now]
  BY <1>1, <1>8, <1>9 DEF AmountFields, BookFields
<1>10. CASE AccrueCredits(s) = emitted
  <2>1. /\ DOMAIN emitted = DOMAIN s
        /\ emitted.lastCreditAccrual = now /\ emitted.creditEmissionRemainder = rest
        /\ \A f \in (AmountFields \ {"lastCreditAccrual", "creditEmissionRemainder"})
                      \union BookFields : emitted[f] = s[f]
    BY DEF AmountFields, BookFields
  <2> HIDE DEF emitted
  <2> QED
    BY <1>1, <1>3, <1>8, <1>10, <2>1 DEF AmountFields, BookFields
<1>11. CASE AccrueCredits(s) = issued /\ s.totalStaked # 0
  <2>1. s.totalCreditsIssued + period <= CreditCap
    BY <1>1, <1>4 DEF remaining
  <2>2. /\ DOMAIN issued = DOMAIN s
        /\ issued.lastCreditAccrual = now /\ issued.creditEmissionRemainder = rest
        /\ issued.totalCreditsIssued = s.totalCreditsIssued + period
        /\ issued.accCreditPerToken = s.accCreditPerToken + grown
        /\ issued.creditAccumulatorRemainderScaled = left
    BY DEF AmountFields, OtherFields
  <2>3. \A f \in (AmountFields \ {"lastCreditAccrual", "creditEmissionRemainder",
                     "totalCreditsIssued", "accCreditPerToken",
                     "creditAccumulatorRemainderScaled"}) \union BookFields : issued[f] = s[f]
    BY DEF AmountFields, BookFields
  <2> HIDE DEF issued
  <2>4. /\ issued.totalCreditsIssued \in Nat /\ issued.totalCreditsIssued <= CreditCap
        /\ issued.accCreditPerToken \in Nat /\ s.accCreditPerToken <= issued.accCreditPerToken
        /\ issued.creditEmissionRemainder \in Nat
        /\ issued.creditAccumulatorRemainderScaled \in Nat
    BY <1>1, <1>3, <1>4, <1>6, <1>11, <2>1, <2>2
  <2>5. Good(issued) /\ SameFunds(s, issued)
    BY <1>8, <2>2, <2>3, <2>4
  <2> QED
    BY <1>11, <2>5
<1>12. CASE AccrueCredits(s) = s
  BY <1>12 DEF SameFunds
<1> QED
  BY <1>7, <1>9, <1>10, <1>11, <1>12

(* Distribution: what is not divided among the stakers stays undistributed,    *)
(* and is not negative.                                                      *)
LEMMA DistributeGood ==
    ASSUME StakingAssumption, now \in Nat, NEW s, Good(s)
    PROVE  Good(Distribute(s)) /\ SameFunds(s, Distribute(s))
<1> DEFINE until == Until(s)
           emission == (until - s.lastUpdate) * s.rewardRate
           increment == (emission * Acc) \div s.totalStaked
           distributed == (increment * s.totalStaked) \div Acc
           orphaned == [s EXCEPT !.undistributedRewards = @ + emission, !.lastUpdate = until]
           shared == [s EXCEPT !.accRewardPerShare = @ + increment,
                               !.undistributedRewards = @ + emission - distributed,
                               !.lastUpdate = until,
                               !.emissions = @ + 1]
<1>1. /\ AmountFields \union BookFields \union OtherFields \subseteq DOMAIN s
      /\ \A f \in AmountFields : s[f] \in Nat
      /\ \A f \in BookFields : s[f] \in [Accounts -> Nat]
      /\ Ahead(s)
  BY DEF Good, Natural
<1>2. /\ s.lastUpdate \in Nat /\ s.rewardRate \in Nat /\ s.rewardFinish \in Nat
      /\ s.totalStaked \in Nat /\ s.undistributedRewards \in Nat /\ s.accRewardPerShare \in Nat
      /\ Acc \in Nat \ {0}
  BY <1>1 DEF AmountFields, StakingAssumption
<1>3. until \in Nat
  BY <1>2 DEF Until
<1>4. \/ Distribute(s) = s
      \/ s.lastUpdate < until /\ s.totalStaked = 0 /\ Distribute(s) = orphaned
      \/ s.lastUpdate < until /\ s.totalStaked # 0 /\ Distribute(s) = shared
  <2>1. CASE Until(s) <= s.lastUpdate
    BY <2>1 DEF Distribute
  <2>2. CASE s.lastUpdate < until
    <3>1. ~(Until(s) <= s.lastUpdate)
      BY <1>2, <1>3, <2>2
    <3> QED
      BY <2>2, <3>1 DEF Distribute
  <2> QED
    BY <1>2, <1>3, <2>1, <2>2
<1>5. s.lastUpdate < until => emission \in Nat
  <2> SUFFICES ASSUME s.lastUpdate < until
               PROVE  emission \in Nat
    OBVIOUS
  <2> HIDE DEF until
  <2>1. PICK d \in Nat : d = until - s.lastUpdate
    BY <1>2, <1>3
  <2> QED
    BY <1>2, <2>1
<1>6. s.lastUpdate < until /\ s.totalStaked # 0 =>
         increment \in Nat /\ distributed \in Nat /\ distributed <= emission
  <2> SUFFICES ASSUME s.lastUpdate < until, s.totalStaked # 0
               PROVE  increment \in Nat /\ distributed \in Nat /\ distributed <= emission
    OBVIOUS
  <2> HIDE DEF emission
  <2>1. emission * Acc \in Nat
    BY <1>2, <1>5
  <2>2. increment \in Nat /\ s.totalStaked * increment <= emission * Acc
    BY <1>2, <2>1, DivFacts
  <2> HIDE DEF increment
  <2>3. increment * s.totalStaked \in Nat /\ increment * s.totalStaked <= emission * Acc
    BY <1>2, <2>2
  <2>4. distributed \in Nat
    BY <1>2, <2>3, DivFacts
  <2>5. distributed <= emission
    BY <1>2, <1>5, <2>3, DivBound
  <2> QED
    BY <2>2, <2>4, <2>5
<1> HIDE DEF until, emission, increment, distributed
<1>7. CASE Distribute(s) = s
  BY <1>7 DEF SameFunds
<1>8. CASE s.lastUpdate < until /\ Distribute(s) = orphaned
  <2>1. /\ DOMAIN orphaned = DOMAIN s
        /\ orphaned.undistributedRewards = s.undistributedRewards + emission
        /\ orphaned.lastUpdate = until
        /\ \A f \in (AmountFields \ {"undistributedRewards", "lastUpdate"}) \union BookFields :
              orphaned[f] = s[f]
    BY <1>1 DEF AmountFields, BookFields
  <2> HIDE DEF orphaned
  <2>2. Natural(orphaned)
    <3>1. orphaned.undistributedRewards \in Nat /\ orphaned.lastUpdate \in Nat
      BY <1>2, <1>3, <1>5, <1>8, <2>1
    <3> QED
      BY <1>1, <2>1, <3>1 DEF Natural, AmountFields
  <2>3. Ahead(orphaned) /\ SameFunds(s, orphaned)
    BY <1>1, <2>1 DEF Ahead, RewardShare, SameFunds, AmountFields, BookFields
  <2> QED
    BY <1>8, <2>2, <2>3 DEF Good
<1>9. CASE s.lastUpdate < until /\ s.totalStaked # 0 /\ Distribute(s) = shared
  <2>1. /\ DOMAIN shared = DOMAIN s
        /\ shared.accRewardPerShare = s.accRewardPerShare + increment
        /\ shared.undistributedRewards = s.undistributedRewards + emission - distributed
        /\ shared.lastUpdate = until
        /\ \A f \in (AmountFields \ {"accRewardPerShare", "undistributedRewards", "lastUpdate"})
                      \union BookFields : shared[f] = s[f]
    BY <1>1 DEF AmountFields, BookFields
  <2> HIDE DEF shared
  <2>2. /\ shared.accRewardPerShare \in Nat /\ s.accRewardPerShare <= shared.accRewardPerShare
        /\ shared.undistributedRewards \in Nat
    BY <1>2, <1>5, <1>6, <1>9, <2>1
  <2>3. Natural(shared)
    BY <1>1, <1>3, <2>1, <2>2 DEF Natural, AmountFields
  <2>4. \A a \in Accounts : shared.rewardDebt[a] <= RewardShare(shared, a)
    <3> SUFFICES ASSUME NEW a \in Accounts
                 PROVE  shared.rewardDebt[a] <= RewardShare(shared, a)
      OBVIOUS
    <3>1. s.stakeOf[a] \in Nat /\ s.rewardDebt[a] \in Nat
      BY <1>1 DEF BookFields
    <3>2. s.rewardDebt[a] <= (s.stakeOf[a] * s.accRewardPerShare) \div Acc
      BY <1>1 DEF Ahead, RewardShare
    <3>3. (s.stakeOf[a] * s.accRewardPerShare) \div Acc
             <= (s.stakeOf[a] * shared.accRewardPerShare) \div Acc
      BY <1>2, <2>2, <3>1, ShareMonotone
    <3>4. /\ (s.stakeOf[a] * s.accRewardPerShare) \div Acc \in Nat
          /\ (s.stakeOf[a] * shared.accRewardPerShare) \div Acc \in Nat
      <4>1. s.stakeOf[a] * s.accRewardPerShare \in Nat /\ s.stakeOf[a] * shared.accRewardPerShare \in Nat
        BY <1>2, <2>2, <3>1
      <4> QED
        BY <1>2, <4>1, DivFacts
    <3>5. shared.rewardDebt = s.rewardDebt /\ shared.stakeOf = s.stakeOf
      BY <2>1 DEF BookFields
    <3> QED
      BY <3>1, <3>2, <3>3, <3>4, <3>5 DEF RewardShare
  <2>5. Ahead(shared) /\ SameFunds(s, shared)
    BY <1>1, <2>1, <2>4 DEF Ahead, SameFunds, AmountFields, BookFields
  <2> QED
    BY <1>9, <2>3, <2>5 DEF Good
<1> QED
  BY <1>4, <1>7, <1>8, <1>9

(* One more amount in an account's book.                                      *)
LEMMA PlusBook ==
    ASSUME NEW f \in [Accounts -> Nat], NEW a \in Accounts, NEW n \in Nat
    PROVE  Plus(f, a, n) \in [Accounts -> Nat]
  BY DEF Plus

(* What a stake has earned in rewards is natural.                            *)
LEMMA ShareNatural ==
    ASSUME StakingAssumption, NEW s, Good(s), NEW a \in Accounts
    PROVE  RewardShare(s, a) \in Nat
<1>1. s.stakeOf[a] \in Nat /\ s.accRewardPerShare \in Nat /\ Acc \in Nat \ {0}
  BY DEF Good, Natural, AmountFields, BookFields, StakingAssumption
<1>2. s.stakeOf[a] * s.accRewardPerShare \in Nat
  BY <1>1
<1> QED
  BY <1>1, <1>2, DivFacts DEF RewardShare

(* Settling the rewards of one account.                                      *)
LEMMA SettleRewardsGood ==
    ASSUME StakingAssumption, now \in Nat, NEW s, Good(s), NEW a \in Accounts
    PROVE  Good(SettleRewards(s, a)) /\ SameFunds(s, SettleRewards(s, a))
<1> DEFINE share == RewardShare(s, a)
           r == SettleRewards(s, a)
<1>1. Natural(s) /\ Ahead(s)
  BY DEF Good
<1>2. /\ s.accrued \in [Accounts -> Nat] /\ s.rewardDebt \in [Accounts -> Nat]
      /\ share \in Nat /\ share - s.rewardDebt[a] \in Nat
  <2>1. s.rewardDebt \in [Accounts -> Nat] /\ s.accrued \in [Accounts -> Nat]
    BY <1>1 DEF Natural, BookFields
  <2>2. share \in Nat /\ s.rewardDebt[a] <= share
    BY <1>1, ShareNatural DEF Ahead
  <2> HIDE DEF share
  <2> QED
    BY <2>1, <2>2
<1>3. AmountFields \union BookFields \union OtherFields \subseteq DOMAIN s
  BY <1>1 DEF Natural
<1>4. /\ DOMAIN r = DOMAIN s
      /\ r.accrued = Plus(s.accrued, a, share - s.rewardDebt[a])
      /\ r.rewardDebt = [s.rewardDebt EXCEPT ![a] = share]
      /\ \A f \in AmountFields \union (BookFields \ {"accrued", "rewardDebt"}) : r[f] = s[f]
  BY <1>3 DEF SettleRewards, AmountFields, BookFields
<1> HIDE DEF r
<1>5. \A b \in Accounts : RewardShare(r, b) = RewardShare(s, b)
  BY <1>4 DEF RewardShare, AmountFields, BookFields
<1>6. r.accrued \in [Accounts -> Nat] /\ r.rewardDebt \in [Accounts -> Nat]
  <2> HIDE DEF share
  <2> QED
    BY <1>2, <1>4, PlusBook
<1>7. Natural(r)
  BY <1>1, <1>4, <1>6 DEF Natural, BookFields
<1>8. Ahead(r)
  <2>1. /\ r.creditDebt = s.creditDebt /\ r.accCreditPerToken = s.accCreditPerToken
        /\ r.totalCreditsIssued = s.totalCreditsIssued
        /\ r.lastCreditAccrual = s.lastCreditAccrual
    BY <1>4 DEF AmountFields, BookFields
  <2>2. \A b \in Accounts : r.rewardDebt[b] <= RewardShare(r, b)
    <3> SUFFICES ASSUME NEW b \in Accounts
                 PROVE  r.rewardDebt[b] <= RewardShare(s, b)
      BY <1>5
    <3>1. CASE b = a
      BY <1>2, <1>4, <3>1
    <3>2. CASE b # a
      BY <1>1, <1>2, <1>4, <3>2 DEF Ahead
    <3> QED
      BY <3>1, <3>2
  <2> QED
    BY <1>1, <2>1, <2>2 DEF Ahead
<1>9. SameFunds(s, r)
  BY <1>4 DEF SameFunds, AmountFields, BookFields
<1> QED
  BY <1>7, <1>8, <1>9 DEF Good, r

(* Settling its credits.                                                     *)
LEMMA SettleCreditsGood ==
    ASSUME StakingAssumption, now \in Nat, NEW s, Good(s), NEW a \in Accounts
    PROVE  Good(SettleCredits(s, a)) /\ SameFunds(s, SettleCredits(s, a))
<1> DEFINE r == SettleCredits(s, a)
           scaled == s.stakeOf[a] * (s.accCreditPerToken - s.creditDebt[a])
                        + s.creditRemainderScaled[a]
<1>1. Natural(s) /\ Ahead(s)
  BY DEF Good
<1>2. AmountFields \union BookFields \union OtherFields \subseteq DOMAIN s
  BY <1>1 DEF Natural
<1>3. /\ s.creditDebt \in [Accounts -> Nat] /\ s.creditRemainderScaled \in [Accounts -> Nat]
      /\ s.bankedCredits \in [Accounts -> Nat] /\ s.stakeOf[a] \in Nat
      /\ s.accCreditPerToken \in Nat /\ CreditAcc \in Nat \ {0}
  BY <1>1 DEF Natural, AmountFields, BookFields, StakingAssumption
<1>4. scaled \in Nat
  <2>1. PICK d \in Nat : d = s.accCreditPerToken - s.creditDebt[a]
    <3>1. s.creditDebt[a] <= s.accCreditPerToken
      BY <1>1 DEF Ahead
    <3> QED
      BY <1>3, <3>1
  <2> QED
    BY <1>3, <2>1
<1>5. scaled \div CreditAcc \in Nat /\ scaled % CreditAcc \in Nat
  BY <1>3, <1>4, DivFacts
<1>6. /\ DOMAIN r = DOMAIN s
      /\ r.creditDebt = [s.creditDebt EXCEPT ![a] = s.accCreditPerToken]
      /\ \/ r.creditRemainderScaled = s.creditRemainderScaled
         \/ r.creditRemainderScaled = [s.creditRemainderScaled EXCEPT ![a] = scaled % CreditAcc]
      /\ \/ r.bankedCredits = s.bankedCredits
         \/ r.bankedCredits = Plus(s.bankedCredits, a, scaled \div CreditAcc)
      /\ \A f \in AmountFields \union
                     (BookFields \ {"creditDebt", "creditRemainderScaled", "bankedCredits"}) :
            r[f] = s[f]
  <2> HIDE DEF scaled
  <2>1. CASE s.stakeOf[a] = 0
    BY <1>2, <2>1 DEF SettleCredits, AmountFields, BookFields, scaled
  <2>2. CASE s.stakeOf[a] # 0
    BY <1>2, <2>2 DEF SettleCredits, AmountFields, BookFields, scaled
  <2> QED
    BY <2>1, <2>2
<1> HIDE DEF r, scaled
<1>7. /\ r.creditDebt \in [Accounts -> Nat] /\ r.creditRemainderScaled \in [Accounts -> Nat]
      /\ r.bankedCredits \in [Accounts -> Nat]
  <2> DEFINE credits == scaled \div CreditAcc
             fraction == scaled % CreditAcc
  <2>1. credits \in Nat /\ fraction \in Nat
    BY <1>5
  <2>2. Plus(s.bankedCredits, a, credits) \in [Accounts -> Nat]
    <3> HIDE DEF credits
    <3> QED
      BY <1>3, <2>1, PlusBook
  <2>3. [s.creditRemainderScaled EXCEPT ![a] = fraction] \in [Accounts -> Nat]
    <3> HIDE DEF fraction
    <3> QED
      BY <1>3, <2>1
  <2>4. [s.creditDebt EXCEPT ![a] = s.accCreditPerToken] \in [Accounts -> Nat]
    BY <1>3
  <2> QED
    BY <1>3, <1>6, <2>2, <2>3, <2>4
<1>8. Natural(r)
  BY <1>1, <1>6, <1>7 DEF Natural, BookFields
<1>9. Ahead(r)
  <2>1. /\ r.rewardDebt = s.rewardDebt /\ r.accCreditPerToken = s.accCreditPerToken
        /\ r.totalCreditsIssued = s.totalCreditsIssued
        /\ r.lastCreditAccrual = s.lastCreditAccrual
    BY <1>6 DEF AmountFields, BookFields
  <2>2. \A b \in Accounts : RewardShare(r, b) = RewardShare(s, b)
    BY <1>6 DEF RewardShare, AmountFields, BookFields
  <2>3. \A b \in Accounts : r.creditDebt[b] <= r.accCreditPerToken
    <3> SUFFICES ASSUME NEW b \in Accounts
                 PROVE  r.creditDebt[b] <= s.accCreditPerToken
      BY <2>1
    <3>1. s.creditDebt[b] <= s.accCreditPerToken
      BY <1>1 DEF Ahead
    <3> QED
      BY <1>3, <1>6, <3>1
  <2> QED
    BY <1>1, <2>1, <2>2, <2>3 DEF Ahead
<1>10. SameFunds(s, r)
  BY <1>6 DEF SameFunds, AmountFields, BookFields
<1> QED
  BY <1>8, <1>9, <1>10 DEF Good, r

(* The whole of _update.                                                      *)
LEMMA UpdateAllGood ==
    ASSUME StakingAssumption, now \in Nat, NEW s, Good(s)
    PROVE  Good(UpdateAll(s)) /\ SameFunds(s, UpdateAll(s))
<1>1. Good(AccrueCredits(s)) /\ SameFunds(s, AccrueCredits(s))
  BY AccrueGood
<1>2. /\ Good(Distribute(AccrueCredits(s)))
      /\ SameFunds(AccrueCredits(s), Distribute(AccrueCredits(s)))
  BY <1>1, DistributeGood
<1> QED
  BY <1>1, <1>2 DEF UpdateAll, SameFunds

(* Both, after the accumulators.                                             *)
LEMMA UpdateGood ==
    ASSUME StakingAssumption, now \in Nat, NEW s, Good(s), NEW a \in Accounts
    PROVE  Good(Update(s, a)) /\ SameFunds(s, Update(s, a))
<1> DEFINE u == UpdateAll(s)
           w == SettleRewards(u, a)
<1>1. Good(u) /\ SameFunds(s, u)
  BY UpdateAllGood
<1> HIDE DEF u
<1>2. Good(w) /\ SameFunds(u, w)
  BY <1>1, SettleRewardsGood
<1> HIDE DEF w
<1>3. Good(SettleCredits(w, a)) /\ SameFunds(w, SettleCredits(w, a))
  BY <1>2, SettleCreditsGood
<1> QED
  BY <1>1, <1>2, <1>3 DEF Update, SameFunds, u, w
-------------------------------------------------------------------------------
(* Each transaction keeps the invariant.                                      *)

(* A vault of which only funds, schedule and other fields changed.             *)
LEMMA FundsMoved ==
    ASSUME NEW s, NEW r, Good(s), DOMAIN r = DOMAIN s,
           \A f \in BookFields \union {"accRewardPerShare", "accCreditPerToken",
                "totalCreditsIssued", "creditEmissionRemainder",
                "creditAccumulatorRemainderScaled"} : r[f] = s[f],
           \A f \in {"balance", "totalStaked", "totalRewardLiability", "undistributedRewards",
                "rewardRate", "rewardFinish", "lastUpdate", "outstandingTaskCredits",
                "lastCreditAccrual"} : r[f] \in Nat,
           r.lastCreditAccrual <= now
    PROVE  Good(r)
<1>1. Natural(r)
  BY DEF Good, Natural, AmountFields
<1>2. Ahead(r)
  BY DEF Good, Ahead, RewardShare, BookFields
<1> QED
  BY <1>1, <1>2 DEF Good

(* What Inv says of the fields the transactions test.                          *)
LEMMA GoodFields ==
    ASSUME NEW s, Good(s)
    PROVE  /\ AmountFields \union BookFields \union OtherFields \subseteq DOMAIN s
           /\ s.balance \in Nat /\ s.totalStaked \in Nat /\ s.totalRewardLiability \in Nat
           /\ s.undistributedRewards \in Nat /\ s.rewardRate \in Nat /\ s.rewardFinish \in Nat
           /\ s.lastUpdate \in Nat /\ s.outstandingTaskCredits \in Nat
           /\ s.lastCreditAccrual \in Nat /\ s.accRewardPerShare \in Nat
           /\ s.accCreditPerToken \in Nat
           /\ s.stakeOf \in [Accounts -> Nat] /\ s.accrued \in [Accounts -> Nat]
           /\ s.pendingPayouts \in [Accounts -> Nat] /\ s.bankedCredits \in [Accounts -> Nat]
           /\ s.rewardDebt \in [Accounts -> Nat] /\ s.creditDebt \in [Accounts -> Nat]
           /\ s.lastCreditAccrual <= now
  BY DEF Good, Natural, Ahead, AmountFields, BookFields

(* A book an account's entry of which is replaced.                            *)
LEMMA BookChanged ==
    ASSUME NEW s, NEW r, Good(s), DOMAIN r = DOMAIN s,
           NEW g \in {"accrued", "pendingPayouts", "bankedCredits"},
           r[g] \in [Accounts -> Nat],
           \A f \in AmountFields \union (BookFields \ {g}) : r[f] = s[f]
    PROVE  Good(r)
<1>1. Natural(r)
  BY DEF Good, Natural, BookFields
<1>2. Ahead(r)
  BY DEF Good, Ahead, RewardShare, AmountFields, BookFields
<1> QED
  BY <1>1, <1>2 DEF Good

(* Changing a stake resets its debts to what the new stake has earned.       *)
LEMMA RestakeGood ==
    ASSUME StakingAssumption, now \in Nat, NEW s, Good(s), NEW a \in Accounts, NEW stake \in Nat
    PROVE  /\ Good(Restake(s, a, stake))
           /\ Restake(s, a, stake).balance = s.balance
           /\ Restake(s, a, stake).totalStaked = s.totalStaked
           /\ Restake(s, a, stake).totalRewardLiability = s.totalRewardLiability
<1> DEFINE debt == (stake * s.accRewardPerShare) \div Acc
           r == Restake(s, a, stake)
<1>1. Natural(s) /\ Ahead(s)
  BY DEF Good
<1>2. /\ AmountFields \union BookFields \union OtherFields \subseteq DOMAIN s
      /\ s.stakeOf \in [Accounts -> Nat] /\ s.rewardDebt \in [Accounts -> Nat]
      /\ s.creditDebt \in [Accounts -> Nat]
      /\ s.accRewardPerShare \in Nat /\ s.accCreditPerToken \in Nat /\ Acc \in Nat \ {0}
  BY GoodFields DEF StakingAssumption
<1>3. debt \in Nat
  <2>1. stake * s.accRewardPerShare \in Nat
    BY <1>2
  <2> QED
    BY <1>2, <2>1, DivFacts
<1>4. /\ DOMAIN r = DOMAIN s
      /\ r.stakeOf = [s.stakeOf EXCEPT ![a] = stake]
      /\ r.rewardDebt = [s.rewardDebt EXCEPT ![a] = debt]
      /\ r.creditDebt = [s.creditDebt EXCEPT ![a] = s.accCreditPerToken]
      /\ \A f \in AmountFields \union (BookFields \ {"stakeOf", "rewardDebt", "creditDebt"}) :
            r[f] = s[f]
  BY <1>2 DEF Restake, AmountFields, BookFields, OtherFields
<1> HIDE DEF r
<1>5. /\ r.stakeOf \in [Accounts -> Nat] /\ r.rewardDebt \in [Accounts -> Nat]
      /\ r.creditDebt \in [Accounts -> Nat]
  <2> HIDE DEF debt
  <2> QED
    BY <1>2, <1>3, <1>4
<1>6. Natural(r)
  BY <1>1, <1>4, <1>5 DEF Natural, BookFields
<1>7. /\ r.accRewardPerShare = s.accRewardPerShare /\ r.accCreditPerToken = s.accCreditPerToken
      /\ r.totalCreditsIssued = s.totalCreditsIssued
      /\ r.lastCreditAccrual = s.lastCreditAccrual
      /\ r.balance = s.balance /\ r.totalStaked = s.totalStaked
      /\ r.totalRewardLiability = s.totalRewardLiability
  BY <1>4 DEF AmountFields
<1>8. ASSUME NEW b \in Accounts
      PROVE  r.rewardDebt[b] <= RewardShare(r, b) /\ r.creditDebt[b] <= r.accCreditPerToken
  <2>1. CASE b = a
    <3>1. r.rewardDebt[b] = debt /\ RewardShare(r, b) = debt
      BY <1>2, <1>4, <1>7, <2>1 DEF RewardShare
    <3>2. r.creditDebt[b] = r.accCreditPerToken
      BY <1>2, <1>4, <1>7, <2>1
    <3> HIDE DEF debt
    <3> QED
      BY <1>2, <1>3, <1>7, <3>1, <3>2
  <2>2. CASE b # a
    <3>1. r.rewardDebt[b] = s.rewardDebt[b] /\ r.creditDebt[b] = s.creditDebt[b]
      BY <1>2, <1>4, <2>2
    <3>2. RewardShare(r, b) = RewardShare(s, b)
      BY <1>2, <1>4, <1>7, <2>2 DEF RewardShare
    <3> QED
      BY <1>1, <1>7, <3>1, <3>2 DEF Ahead
  <2> QED
    BY <2>1, <2>2
<1>9. Ahead(r)
  BY <1>1, <1>7, <1>8 DEF Ahead
<1> QED
  BY <1>6, <1>7, <1>9 DEF Good, r

(* The contract holds the stakes and the reward liability.                    *)
Backed(s) == s.balance >= s.totalStaked + s.totalRewardLiability

(* Activation keeps the books good and the contract backed.                  *)
LEMMA ActivateKeeps ==
    ASSUME StakingAssumption, Inv, ActivateStaking
    PROVE  Good(v') /\ Backed(v')
<1>1. Good(v) /\ now \in Nat /\ StakesBacked
  BY DEF Inv
<1>2. /\ DOMAIN v' = DOMAIN v /\ v'.lastUpdate = now /\ v'.lastCreditAccrual = now
      /\ \A f \in (AmountFields \ {"lastUpdate", "lastCreditAccrual"}) \union BookFields :
            v'[f] = v[f]
  BY <1>1, GoodFields DEF ActivateStaking, AmountFields, BookFields, OtherFields
<1>3. Good(v')
  BY <1>1, <1>2, GoodFields, FundsMoved DEF AmountFields, BookFields
<1> QED
  BY <1>1, <1>2, <1>3 DEF StakesBacked, Backed, AmountFields

(* stake.                                                                    *)
LEMMA StakeKeeps ==
    ASSUME StakingAssumption, Inv, NEW a \in Accounts, NEW amount \in StakeAmounts,
           Stake(a, amount)
    PROVE  Good(v') /\ Backed(v')
<1> DEFINE s == Update(v, a)
           n == s.stakeOf[a] + amount
           r == Restake(s, a, n)
<1>1. Good(v) /\ now \in Nat /\ StakesBacked /\ amount \in Nat
  BY DEF Inv, StakingAssumption
<1>2. Good(s) /\ SameFunds(v, s)
  BY <1>1, UpdateGood
<1>3. v' = [r EXCEPT !.totalStaked = @ + amount, !.balance = @ + amount]
  BY DEF Stake
<1> HIDE DEF s
<1>4. n \in Nat
  BY <1>1, <1>2, GoodFields
<1> HIDE DEF n
<1>5. /\ Good(r) /\ r.balance = s.balance /\ r.totalStaked = s.totalStaked
      /\ r.totalRewardLiability = s.totalRewardLiability
  <2>1. \A stake \in Nat : /\ Good(Restake(s, a, stake))
                           /\ Restake(s, a, stake).balance = s.balance
                           /\ Restake(s, a, stake).totalStaked = s.totalStaked
                           /\ Restake(s, a, stake).totalRewardLiability = s.totalRewardLiability
    BY <1>1, <1>2, RestakeGood
  <2> QED BY <1>4, <2>1
<1> HIDE DEF r
<1>6. /\ DOMAIN v' = DOMAIN r
      /\ v'.totalStaked = r.totalStaked + amount /\ v'.balance = r.balance + amount
      /\ \A f \in (AmountFields \ {"totalStaked", "balance"}) \union BookFields : v'[f] = r[f]
  BY <1>3, <1>5, GoodFields DEF AmountFields, BookFields
<1>7. Good(v')
  BY <1>1, <1>5, <1>6, GoodFields, FundsMoved DEF AmountFields, BookFields
<1>8. Backed(v')
  <2>1. /\ v'.totalRewardLiability = v.totalRewardLiability
        /\ v'.totalStaked = v.totalStaked + amount /\ v'.balance = v.balance + amount
    BY <1>2, <1>5, <1>6 DEF SameFunds, AmountFields
  <2> QED
    BY <1>1, <2>1, GoodFields DEF StakesBacked, Backed
<1> QED
  BY <1>7, <1>8

(* unstake.                                                                  *)
LEMMA UnstakeKeeps ==
    ASSUME StakingAssumption, Inv, NEW a \in Accounts, NEW amount \in StakeAmounts,
           Unstake(a, amount)
    PROVE  Good(v') /\ Backed(v')
<1> DEFINE s == Update(v, a)
           r == Restake(s, a, s.stakeOf[a] - amount)
<1>1. Good(v) /\ now \in Nat /\ StakesBacked /\ amount \in Nat
  BY DEF Inv, StakingAssumption
<1>2. Good(s) /\ SameFunds(v, s)
  BY <1>1, UpdateGood
<1>3. /\ v' = [r EXCEPT !.totalStaked = @ - amount, !.balance = @ - amount]
      /\ amount <= v.stakeOf[a] /\ amount <= v.totalStaked
  BY DEF Unstake
<1> HIDE DEF s
<1>4. s.stakeOf[a] - amount \in Nat
  BY <1>1, <1>2, <1>3, GoodFields DEF SameFunds
<1>5. /\ Good(r) /\ r.balance = s.balance /\ r.totalStaked = s.totalStaked
      /\ r.totalRewardLiability = s.totalRewardLiability
  <2>1. \A stake \in Nat : /\ Good(Restake(s, a, stake))
                           /\ Restake(s, a, stake).balance = s.balance
                           /\ Restake(s, a, stake).totalStaked = s.totalStaked
                           /\ Restake(s, a, stake).totalRewardLiability = s.totalRewardLiability
    BY <1>1, <1>2, RestakeGood
  <2> QED BY <1>4, <2>1
<1> HIDE DEF r
<1>6. /\ DOMAIN v' = DOMAIN r
      /\ v'.totalStaked = r.totalStaked - amount /\ v'.balance = r.balance - amount
      /\ \A f \in (AmountFields \ {"totalStaked", "balance"}) \union BookFields : v'[f] = r[f]
  BY <1>3, <1>5, GoodFields DEF AmountFields, BookFields
<1>7. /\ v'.totalRewardLiability = v.totalRewardLiability
      /\ v'.totalStaked = v.totalStaked - amount /\ v'.balance = v.balance - amount
  BY <1>2, <1>5, <1>6 DEF SameFunds, AmountFields
<1>8. v'.totalStaked \in Nat /\ v'.balance \in Nat /\ Backed(v')
  BY <1>1, <1>3, <1>7, GoodFields DEF StakesBacked, Backed
<1>9. Good(v')
  BY SMTT(30), <1>1, <1>5, <1>6, <1>8, GoodFields, FundsMoved DEF AmountFields, BookFields
<1> QED
  BY <1>8, <1>9

(* notifyReward.                                                             *)
LEMMA NotifyKeeps ==
    ASSUME StakingAssumption, Inv, NEW amount \in RewardAmounts, NotifyReward(amount)
    PROVE  Good(v') /\ Backed(v')
<1> DEFINE s == UpdateAll(v)
           scheduled == Scheduled(s, amount)
           rate == scheduled \div RewardDuration
           rest == scheduled % RewardDuration
<1>1. /\ Good(v) /\ now \in Nat /\ StakesBacked /\ amount \in Nat
      /\ RewardDuration \in Nat \ {0}
  BY DEF Inv, StakingAssumption
<1>2. Good(s) /\ SameFunds(v, s)
  BY <1>1, UpdateAllGood
<1>3. v' = [s EXCEPT !.balance = @ + amount, !.rewardRate = rate,
                     !.undistributedRewards = @ + rest, !.rewardFinish = now + RewardDuration,
                     !.lastUpdate = now, !.totalRewardLiability = @ + amount]
  BY DEF NotifyReward
<1> HIDE DEF s
<1>4. scheduled \in Nat
  <2>1. Remaining(s) \in Nat
    <3>1. CASE now < s.rewardFinish
      <4>1. PICK d \in Nat : d = s.rewardFinish - now
        BY <1>1, <1>2, <3>1, GoodFields
      <4>2. Remaining(s) = d * s.rewardRate
        BY <3>1, <4>1 DEF Remaining
      <4> QED
        BY <1>2, <4>1, <4>2, GoodFields
    <3>2. CASE ~(now < s.rewardFinish)
      BY <3>2 DEF Remaining
    <3> QED
      BY <3>1, <3>2
  <2> QED
    BY <1>1, <2>1 DEF Scheduled
<1> HIDE DEF scheduled
<1>5. rate \in Nat /\ rest \in Nat
  BY <1>1, <1>4, DivFacts
<1> HIDE DEF rate, rest
<1>6. /\ DOMAIN v' = DOMAIN s
      /\ v'.balance = s.balance + amount /\ v'.rewardRate = rate
      /\ v'.undistributedRewards = s.undistributedRewards + rest
      /\ v'.rewardFinish = now + RewardDuration /\ v'.lastUpdate = now
      /\ v'.totalRewardLiability = s.totalRewardLiability + amount
      /\ \A f \in (AmountFields \ {"balance", "rewardRate", "undistributedRewards",
                                   "rewardFinish", "lastUpdate", "totalRewardLiability"})
                    \union BookFields : v'[f] = s[f]
  BY <1>2, <1>3, GoodFields DEF AmountFields, BookFields
<1>7. /\ v'.balance \in Nat /\ v'.undistributedRewards \in Nat /\ v'.rewardFinish \in Nat
      /\ v'.totalRewardLiability \in Nat /\ v'.totalStaked = s.totalStaked
  BY <1>1, <1>2, <1>5, <1>6, GoodFields DEF AmountFields
<1>8. Good(v')
  BY <1>1, <1>2, <1>5, <1>6, <1>7, GoodFields, FundsMoved DEF AmountFields, BookFields
<1>9. Backed(v')
  BY <1>1, <1>2, <1>6, <1>7, GoodFields DEF SameFunds, StakesBacked, Backed
<1> QED
  BY <1>8, <1>9

(* An update, of the accumulators alone or of one account too.               *)
LEMMA UpdateKeeps ==
    ASSUME StakingAssumption, Inv, Checkpoint \/ \E a \in Accounts : BankCredits(a)
    PROVE  Good(v') /\ Backed(v')
<1>1. Good(v) /\ now \in Nat /\ StakesBacked
  BY DEF Inv
<1>2. Good(v') /\ SameFunds(v, v')
  <2>1. CASE Checkpoint
    BY <1>1, <2>1, UpdateAllGood DEF Checkpoint
  <2>2. CASE \E a \in Accounts : BankCredits(a)
    BY <1>1, <2>2, UpdateGood DEF BankCredits
  <2> QED
    BY <2>1, <2>2
<1> QED
  BY <1>1, <1>2 DEF SameFunds, StakesBacked, Backed

(* claim, paid or owed.                                                      *)
LEMMA ClaimKeeps ==
    ASSUME StakingAssumption, Inv, NEW a \in Accounts, NEW refused \in BOOLEAN,
           Claim(a, refused)
    PROVE  Good(v') /\ Backed(v')
<1> DEFINE s == Update(v, a)
           amount == s.accrued[a]
           claimed == [s EXCEPT !.accrued[a] = 0]
<1>1. Good(v) /\ now \in Nat /\ StakesBacked
  BY DEF Inv
<1>2. Good(s) /\ SameFunds(v, s)
  BY <1>1, UpdateGood
<1>3. \/ v' = [claimed EXCEPT !.pendingPayouts = Plus(@, a, amount)]
      \/ /\ amount <= s.totalRewardLiability /\ amount <= v.balance
         /\ v' = [claimed EXCEPT !.totalRewardLiability = @ - amount, !.balance = @ - amount]
  <2> HIDE DEF s
  <2>1. amount \in Nat
    BY <1>2, GoodFields
  <2>2. CASE refused \/ v.balance < amount
    BY <2>2 DEF Claim, s
  <2>3. CASE ~(refused \/ v.balance < amount)
    <3>1. amount <= v.balance
      BY <1>1, <2>1, <2>3, GoodFields
    <3> HIDE DEF claimed
    <3> QED
      BY <2>3, <3>1 DEF Claim, s, claimed
  <2> QED
    BY <2>2, <2>3
<1> HIDE DEF s
<1>4. amount \in Nat
  BY <1>2, GoodFields
<1>5. /\ Good(claimed) /\ claimed.balance = s.balance /\ claimed.totalStaked = s.totalStaked
      /\ claimed.totalRewardLiability = s.totalRewardLiability
  <2>1. /\ DOMAIN claimed = DOMAIN s
        /\ claimed.accrued = [s.accrued EXCEPT ![a] = 0]
        /\ \A f \in AmountFields \union (BookFields \ {"accrued"}) : claimed[f] = s[f]
    BY <1>2, GoodFields DEF AmountFields, BookFields
  <2> HIDE DEF claimed
  <2>2. claimed.accrued \in [Accounts -> Nat]
    BY <1>2, <2>1, GoodFields
  <2> QED
    BY <1>2, <2>1, <2>2, BookChanged DEF AmountFields
<1> HIDE DEF claimed, amount
<1>6. CASE v' = [claimed EXCEPT !.pendingPayouts = Plus(@, a, amount)]
  <2>1. /\ DOMAIN v' = DOMAIN claimed
        /\ v'.pendingPayouts = Plus(claimed.pendingPayouts, a, amount)
        /\ \A f \in AmountFields \union (BookFields \ {"pendingPayouts"}) : v'[f] = claimed[f]
    BY <1>5, <1>6, GoodFields DEF AmountFields, BookFields
  <2>2. v'.pendingPayouts \in [Accounts -> Nat]
    <3>1. claimed.pendingPayouts \in [Accounts -> Nat]
      BY <1>5, GoodFields
    <3>2. Plus(claimed.pendingPayouts, a, amount) \in [Accounts -> Nat]
      BY <1>4, <3>1, PlusBook
    <3> QED
      BY <2>1, <3>2
  <2>3. Good(v')
    BY <1>5, <2>1, <2>2, BookChanged
  <2>4. Backed(v')
    BY <1>1, <1>2, <1>5, <2>1 DEF SameFunds, StakesBacked, Backed, AmountFields
  <2> QED
    BY <2>3, <2>4
<1>7. CASE /\ amount <= s.totalRewardLiability /\ amount <= v.balance
           /\ v' = [claimed EXCEPT !.totalRewardLiability = @ - amount, !.balance = @ - amount]
  <2>1. /\ DOMAIN v' = DOMAIN claimed
        /\ v'.totalRewardLiability = claimed.totalRewardLiability - amount
        /\ v'.balance = claimed.balance - amount
        /\ \A f \in (AmountFields \ {"totalRewardLiability", "balance"}) \union BookFields :
              v'[f] = claimed[f]
    BY <1>5, <1>7, GoodFields DEF AmountFields, BookFields
  <2>2. /\ v'.totalRewardLiability = v.totalRewardLiability - amount
        /\ v'.balance = v.balance - amount /\ v'.totalStaked = v.totalStaked
        /\ amount <= v.totalRewardLiability
    BY <1>2, <1>5, <1>7, <2>1 DEF SameFunds, AmountFields
  <2>3. v'.totalRewardLiability \in Nat /\ v'.balance \in Nat /\ Backed(v')
    BY <1>1, <1>4, <1>7, <2>2, GoodFields DEF StakesBacked, Backed
  <2>4. Good(v')
    BY <1>5, <2>1, <2>3, GoodFields, FundsMoved DEF AmountFields, BookFields
  <2> QED
    BY <2>3, <2>4
<1> QED
  BY <1>3, <1>6, <1>7

(* claimPayout.                                                              *)
LEMMA PayoutKeeps ==
    ASSUME StakingAssumption, Inv, NEW a \in Accounts, ClaimPayout(a)
    PROVE  Good(v') /\ Backed(v')
<1> DEFINE amount == v.pendingPayouts[a]
           cleared == [v EXCEPT !.pendingPayouts[a] = 0]
<1>1. Good(v) /\ now \in Nat /\ StakesBacked
  BY DEF Inv
<1>2. amount \in Nat
  BY <1>1, GoodFields
<1>3. /\ amount <= v.totalRewardLiability /\ amount <= v.balance
      /\ v' = [cleared EXCEPT !.totalRewardLiability = @ - amount, !.balance = @ - amount]
  BY DEF ClaimPayout
<1>4. /\ Good(cleared) /\ cleared.balance = v.balance /\ cleared.totalStaked = v.totalStaked
      /\ cleared.totalRewardLiability = v.totalRewardLiability
  <2>1. /\ DOMAIN cleared = DOMAIN v
        /\ cleared.pendingPayouts = [v.pendingPayouts EXCEPT ![a] = 0]
        /\ \A f \in AmountFields \union (BookFields \ {"pendingPayouts"}) : cleared[f] = v[f]
    BY <1>1, GoodFields DEF AmountFields, BookFields
  <2> HIDE DEF cleared
  <2>2. cleared.pendingPayouts \in [Accounts -> Nat]
    BY <1>1, <2>1, GoodFields
  <2> QED
    BY <1>1, <2>1, <2>2, BookChanged DEF AmountFields
<1> HIDE DEF cleared, amount
<1>5. /\ DOMAIN v' = DOMAIN cleared
      /\ v'.totalRewardLiability = cleared.totalRewardLiability - amount
      /\ v'.balance = cleared.balance - amount
      /\ \A f \in (AmountFields \ {"totalRewardLiability", "balance"}) \union BookFields :
            v'[f] = cleared[f]
  BY <1>3, <1>4, GoodFields DEF AmountFields, BookFields
<1>6. v'.totalRewardLiability \in Nat /\ v'.balance \in Nat /\ Backed(v')
  <2>1. v'.totalStaked = v.totalStaked
    BY <1>4, <1>5 DEF AmountFields
  <2> QED
    BY <1>1, <1>2, <1>3, <1>4, <1>5, <2>1, GoodFields DEF StakesBacked, Backed
<1>7. Good(v')
  BY <1>4, <1>5, <1>6, GoodFields, FundsMoved DEF AmountFields, BookFields
<1> QED
  BY <1>6, <1>7

(* The owner's two rescues take only what nobody is owed.                    *)
LEMMA RescueKeeps ==
    ASSUME StakingAssumption, Inv, NEW amount \in StakeAmounts,
           RescueUndistributed(amount) \/ RescueSurplus(amount)
    PROVE  Good(v') /\ Backed(v')
<1>1. Good(v) /\ now \in Nat /\ StakesBacked /\ amount \in Nat
  BY DEF Inv, StakingAssumption
<1>2. CASE RescueUndistributed(amount)
  <2> DEFINE s == UpdateAll(v)
  <2>1. Good(s) /\ SameFunds(v, s)
    BY <1>1, UpdateAllGood
  <2>2. /\ amount <= s.undistributedRewards /\ amount <= s.totalRewardLiability
        /\ v' = [s EXCEPT !.undistributedRewards = @ - amount,
                          !.totalRewardLiability = @ - amount, !.balance = @ - amount]
    BY <1>2 DEF RescueUndistributed
  <2> HIDE DEF s
  <2>3. /\ DOMAIN v' = DOMAIN s
        /\ v'.undistributedRewards = s.undistributedRewards - amount
        /\ v'.totalRewardLiability = s.totalRewardLiability - amount
        /\ v'.balance = s.balance - amount
        /\ \A f \in (AmountFields \ {"undistributedRewards", "totalRewardLiability", "balance"})
                      \union BookFields : v'[f] = s[f]
    BY <2>1, <2>2, GoodFields DEF AmountFields, BookFields
  <2>4. v'.totalStaked = s.totalStaked
    BY <2>3 DEF AmountFields
  <2>5. /\ v'.undistributedRewards \in Nat /\ v'.totalRewardLiability \in Nat
        /\ v'.balance \in Nat /\ Backed(v')
    BY <1>1, <2>1, <2>2, <2>3, <2>4, GoodFields DEF SameFunds, StakesBacked, Backed
  <2>6. Good(v')
    BY <1>1, <2>1, <2>3, <2>5, GoodFields, FundsMoved DEF AmountFields, BookFields
  <2> QED
    BY <2>5, <2>6
<1>3. CASE RescueSurplus(amount)
  <2>1. /\ DOMAIN v' = DOMAIN v /\ v'.balance = v.balance - amount
        /\ v.balance >= v.totalStaked + v.totalRewardLiability + amount
        /\ \A f \in (AmountFields \ {"balance"}) \union BookFields : v'[f] = v[f]
    BY <1>1, <1>3, GoodFields DEF RescueSurplus, AmountFields, BookFields
  <2>2. v'.totalStaked = v.totalStaked /\ v'.totalRewardLiability = v.totalRewardLiability
    BY <2>1 DEF AmountFields
  <2>3. v'.balance \in Nat /\ Backed(v')
    BY <1>1, <2>1, <2>2, GoodFields DEF Backed
  <2>4. Good(v')
    BY <1>1, <2>1, <2>3, GoodFields, FundsMoved DEF AmountFields, BookFields
  <2> QED
    BY <2>3, <2>4
<1> QED
  BY <1>2, <1>3

(* A donation.                                                               *)
LEMMA DonateKeeps ==
    ASSUME StakingAssumption, Inv, Donate
    PROVE  Good(v') /\ Backed(v')
<1>1. Good(v) /\ now \in Nat /\ StakesBacked
  BY DEF Inv
<1>2. /\ DOMAIN v' = DOMAIN v /\ v'.balance = v.balance + 1
      /\ \A f \in (AmountFields \ {"balance"}) \union BookFields : v'[f] = v[f]
  BY <1>1, GoodFields DEF Donate, AmountFields, BookFields
<1>3. Good(v')
  BY <1>1, <1>2, GoodFields, FundsMoved DEF AmountFields, BookFields
<1>4. v'.totalStaked = v.totalStaked /\ v'.totalRewardLiability = v.totalRewardLiability
  BY <1>2 DEF AmountFields
<1> QED
  BY <1>1, <1>2, <1>3, <1>4, GoodFields DEF StakesBacked, Backed

(* Credits move between accounts, tasks and nobody: no funds do.               *)
LEMMA CreditMoved ==
    ASSUME StakingAssumption, NEW s, NEW r, Good(s), now \in Nat, DOMAIN r = DOMAIN s,
           r.bankedCredits \in [Accounts -> Nat], r.outstandingTaskCredits \in Nat,
           \A f \in (AmountFields \ {"outstandingTaskCredits"})
                      \union (BookFields \ {"bankedCredits"}) : r[f] = s[f]
    PROVE  Good(r) /\ SameFunds(s, r)
<1>1. Natural(r)
  BY DEF Good, Natural, AmountFields, BookFields
<1>2. Ahead(r)
  BY DEF Good, Ahead, RewardShare, AmountFields, BookFields
<1> QED
  BY <1>1, <1>2 DEF Good, SameFunds, AmountFields, BookFields

(* trySpendCredit.                                                           *)
LEMMA SpendKeeps ==
    ASSUME StakingAssumption, Inv, NEW a \in Accounts, NEW t \in Tasks, NEW isPost \in BOOLEAN,
           TrySpendCredit(a, t, isPost)
    PROVE  Good(v') /\ Backed(v')
<1> DEFINE s == Update(v, a)
           locked == [s.taskCreditPayer EXCEPT ![t][isPost] = a]
<1>1. Good(v) /\ now \in Nat /\ StakesBacked /\ CreditUnit \in Nat
  BY DEF Inv, StakingAssumption
<1>2. Good(s) /\ SameFunds(v, s)
  BY <1>1, UpdateGood
<1>3. \/ v' = s
      \/ /\ ~(s.bankedCredits[a] < CreditUnit)
         /\ v' = [s EXCEPT !.bankedCredits = Minus(@, a, CreditUnit),
                           !.taskCreditPayer[t][isPost] = a,
                           !.outstandingTaskCredits = @ + CreditUnit]
  BY DEF TrySpendCredit
<1> HIDE DEF s
<1>4. CASE v' = s
  BY <1>1, <1>2, <1>4 DEF SameFunds, StakesBacked, Backed
<1>5. CASE /\ ~(s.bankedCredits[a] < CreditUnit)
           /\ v' = [s EXCEPT !.bankedCredits = Minus(@, a, CreditUnit),
                             !.taskCreditPayer[t][isPost] = a,
                             !.outstandingTaskCredits = @ + CreditUnit]
  <2>1. /\ DOMAIN v' = DOMAIN s
        /\ v'.bankedCredits = Minus(s.bankedCredits, a, CreditUnit)
        /\ v'.outstandingTaskCredits = s.outstandingTaskCredits + CreditUnit
        /\ \A f \in (AmountFields \ {"outstandingTaskCredits"})
                      \union (BookFields \ {"bankedCredits"}) : v'[f] = s[f]
    BY <1>2, <1>5, GoodFields DEF AmountFields, BookFields, OtherFields
  <2>2. v'.bankedCredits \in [Accounts -> Nat]
    <3>1. s.bankedCredits \in [Accounts -> Nat] /\ s.bankedCredits[a] - CreditUnit \in Nat
      BY <1>1, <1>2, <1>5, GoodFields
    <3> QED
      BY <2>1, <3>1 DEF Minus
  <2>3. v'.outstandingTaskCredits \in Nat
    BY <1>1, <1>2, <2>1, GoodFields
  <2>4. Good(v') /\ SameFunds(s, v')
    BY <1>1, <1>2, <2>1, <2>2, <2>3, CreditMoved
  <2> QED
    BY <1>1, <1>2, <2>4 DEF SameFunds, StakesBacked, Backed
<1> QED
  BY <1>3, <1>4, <1>5

(* settleSpentCredit.                                                        *)
LEMMA SettleKeeps ==
    ASSUME StakingAssumption, Inv, NEW from \in Accounts, NEW to \in Accounts \union {Nobody},
           NEW t \in Tasks, NEW isPost \in BOOLEAN, SettleSpentCredit(t, from, to, isPost)
    PROVE  Good(v') /\ Backed(v')
<1> DEFINE settled == [v EXCEPT !.taskCreditPayer[t][isPost] = Nobody,
                                !.outstandingTaskCredits = @ - CreditUnit]
           paid == Update(settled, from)
           s == Update(paid, to)
<1>1. /\ Good(v) /\ now \in Nat /\ StakesBacked /\ CreditUnit \in Nat
      /\ v.outstandingTaskCredits >= CreditUnit
  BY DEF Inv, StakingAssumption, SettleSpentCredit
<1>2. \/ v' = [settled EXCEPT !.burned = @ + CreditUnit]
      \/ to \in Accounts /\ v' = [s EXCEPT !.bankedCredits = Plus(@, to, CreditUnit)]
  BY DEF SettleSpentCredit
<1>3. Good(settled) /\ SameFunds(v, settled)
  <2>1. /\ DOMAIN settled = DOMAIN v
        /\ settled.bankedCredits = v.bankedCredits
        /\ settled.outstandingTaskCredits = v.outstandingTaskCredits - CreditUnit
        /\ \A f \in (AmountFields \ {"outstandingTaskCredits"})
                      \union (BookFields \ {"bankedCredits"}) : settled[f] = v[f]
    BY <1>1, GoodFields DEF AmountFields, BookFields, OtherFields
  <2> HIDE DEF settled
  <2>2. settled.bankedCredits \in [Accounts -> Nat] /\ settled.outstandingTaskCredits \in Nat
    BY <1>1, <2>1, GoodFields
  <2> QED
    BY <1>1, <2>1, <2>2, CreditMoved
<1> HIDE DEF settled
<1>4. CASE v' = [settled EXCEPT !.burned = @ + CreditUnit]
  <2>1. /\ DOMAIN v' = DOMAIN settled
        /\ v'.bankedCredits = settled.bankedCredits
        /\ v'.outstandingTaskCredits = settled.outstandingTaskCredits
        /\ \A f \in (AmountFields \ {"outstandingTaskCredits"})
                      \union (BookFields \ {"bankedCredits"}) : v'[f] = settled[f]
    BY <1>3, <1>4, GoodFields DEF AmountFields, BookFields, OtherFields
  <2>2. v'.bankedCredits \in [Accounts -> Nat] /\ v'.outstandingTaskCredits \in Nat
    BY <1>3, <2>1, GoodFields
  <2>3. Good(v') /\ SameFunds(settled, v')
    BY <1>1, <1>3, <2>1, <2>2, CreditMoved
  <2> QED
    BY <1>1, <1>3, <2>3 DEF SameFunds, StakesBacked, Backed
<1>5. CASE to \in Accounts /\ v' = [s EXCEPT !.bankedCredits = Plus(@, to, CreditUnit)]
  <2>1. Good(paid) /\ SameFunds(settled, paid)
    BY <1>1, <1>3, UpdateGood
  <2> HIDE DEF paid
  <2>2. Good(s) /\ SameFunds(paid, s)
    BY <1>1, <1>5, <2>1, UpdateGood
  <2> HIDE DEF s
  <2>3. /\ DOMAIN v' = DOMAIN s
        /\ v'.bankedCredits = Plus(s.bankedCredits, to, CreditUnit)
        /\ v'.outstandingTaskCredits = s.outstandingTaskCredits
        /\ \A f \in (AmountFields \ {"outstandingTaskCredits"})
                      \union (BookFields \ {"bankedCredits"}) : v'[f] = s[f]
    BY <1>5, <2>2, GoodFields DEF AmountFields, BookFields
  <2>4. v'.bankedCredits \in [Accounts -> Nat] /\ v'.outstandingTaskCredits \in Nat
    <3>1. s.bankedCredits \in [Accounts -> Nat] /\ s.outstandingTaskCredits \in Nat
      BY <2>2, GoodFields
    <3>2. Plus(s.bankedCredits, to, CreditUnit) \in [Accounts -> Nat]
      BY <1>1, <1>5, <3>1, PlusBook
    <3> QED
      BY <2>3, <3>1, <3>2
  <2>5. Good(v') /\ SameFunds(s, v')
    BY <1>1, <2>2, <2>3, <2>4, CreditMoved
  <2> QED
    BY <1>1, <1>3, <2>1, <2>2, <2>5 DEF SameFunds, StakesBacked, Backed
<1> QED
  BY <1>2, <1>4, <1>5

-------------------------------------------------------------------------------
(* The invariant holds at the start.                                         *)
LEMMA InitGood ==
    ASSUME StakingAssumption, Init
    PROVE  Inv
<1>1. /\ AmountFields \union BookFields \union OtherFields \subseteq DOMAIN v
      /\ \A f \in AmountFields : v[f] = 0
      /\ \A f \in BookFields : v[f] = Zero
      /\ now = 0
  BY DEF Init, AmountFields, BookFields, OtherFields
<1>2. Zero \in [Accounts -> Nat] /\ \A a \in Accounts : Zero[a] = 0
  BY DEF Zero
<1>3. Natural(v)
  BY <1>1, <1>2 DEF Natural
<1>4. Ahead(v)
  <2>1. /\ v.rewardDebt = Zero /\ v.creditDebt = Zero /\ v.accCreditPerToken = 0
        /\ v.totalCreditsIssued = 0 /\ v.lastCreditAccrual = 0 /\ CreditCap \in Nat
    BY <1>1 DEF AmountFields, BookFields, StakingAssumption
  <2>2. \A a \in Accounts : RewardShare(v, a) \in Nat
    <3> SUFFICES ASSUME NEW a \in Accounts
                 PROVE  RewardShare(v, a) \in Nat
      OBVIOUS
    <3>1. v.stakeOf[a] * v.accRewardPerShare \in Nat
      BY <1>1, <1>2 DEF AmountFields, BookFields
    <3> QED
      BY <3>1, DivFacts DEF RewardShare, StakingAssumption
  <2> QED
    BY <1>1, <1>2, <2>1, <2>2 DEF Ahead
<1>5. StakesBacked
  BY <1>1 DEF StakesBacked, AmountFields
<1> QED
  BY <1>1, <1>3, <1>4, <1>5 DEF Inv, Good

(* The clock only runs forward.                                               *)
LEMMA TickKeeps ==
    ASSUME StakingAssumption, Inv, Tick
    PROVE  Inv'
<1>1. now \in Nat /\ now' = now + 1 /\ v' = v /\ Good(v) /\ StakesBacked
  BY DEF Inv, Tick
<1>2. v.lastCreditAccrual \in Nat /\ v.lastCreditAccrual <= now
  BY <1>1, GoodFields
<1>3. Good(v)'
  BY <1>1, <1>2 DEF Good, Natural, Ahead, RewardShare
<1> QED
  BY <1>1, <1>3 DEF Inv, StakesBacked

(* Nothing the vault subtracts was missing, the cap on issued credits holds    *)
(* and every settled share is at most today's (RewardShare only grows), after  *)
(* any sequence of its transactions (UnionStakingVaultV2).                     *)
THEOREM StakingSound == Spec => []Inv
<1>0. StakingAssumption
  BY StakingAssumption
<1>1. Init => Inv
  BY <1>0, InitGood
<1>2. Inv /\ [Next]_vars => Inv'
  <2> SUFFICES ASSUME Inv, [Next]_vars
               PROVE  Inv'
    OBVIOUS
  <2>1. CASE Transaction /\ UNCHANGED now
    <3>1. Good(v') /\ Backed(v')
      <4>1. CASE ActivateStaking
        BY <1>0, <4>1, ActivateKeeps
      <4>2. CASE Checkpoint \/ \E a \in Accounts : BankCredits(a)
        BY <1>0, <4>2, UpdateKeeps
      <4>3. CASE Donate
        BY <1>0, <4>3, DonateKeeps
      <4>4. CASE \E amount \in RewardAmounts : NotifyReward(amount)
        BY <1>0, <4>4, NotifyKeeps
      <4>5. CASE \E amount \in StakeAmounts :
                    RescueUndistributed(amount) \/ RescueSurplus(amount)
        BY <1>0, <4>5, RescueKeeps
      <4>6. CASE \E a \in Accounts : ClaimPayout(a)
        BY <1>0, <4>6, PayoutKeeps
      <4>7. CASE \E a \in Accounts, refused \in BOOLEAN : Claim(a, refused)
        BY <1>0, <4>7, ClaimKeeps
      <4>8. CASE \E a \in Accounts, amount \in StakeAmounts :
                    Stake(a, amount) \/ Unstake(a, amount)
        BY <1>0, <4>8, StakeKeeps, UnstakeKeeps
      <4>9. CASE \E a \in Accounts, t \in Tasks, isPost \in BOOLEAN :
                    \/ TrySpendCredit(a, t, isPost)
                    \/ \E to \in Accounts \cup {Nobody} : SettleSpentCredit(t, a, to, isPost)
        BY <1>0, <4>9, SpendKeeps, SettleKeeps
      <4> QED
        BY <2>1, <4>1, <4>2, <4>3, <4>4, <4>5, <4>6, <4>7, <4>8, <4>9 DEF Transaction
    <3> QED
      BY <2>1, <3>1 DEF Inv, Good, Natural, Ahead, RewardShare, Backed, StakesBacked
  <2>2. CASE Tick
    BY <1>0, <2>2, TickKeeps
  <2>3. CASE UNCHANGED vars
    BY <2>3 DEF Inv, Good, Natural, Ahead, RewardShare, StakesBacked, vars
  <2> QED
    BY <2>1, <2>2, <2>3 DEF Next
<1> QED
  BY <1>1, <1>2, PTL DEF Spec

(* The AZL in the contract covers every stake and the whole reward liability,  *)
(* so rescueSurplus never reaches a staker's principal.                       *)
THEOREM StakingBacked == Spec => []StakesBacked
<1>1. Inv => StakesBacked
  BY DEF Inv
<1> QED
  BY <1>1, StakingSound, PTL

-------------------------------------------------------------------------------
(* The rewards and the credits of a vault, as conserved quantities.            *)

NotYet(s) ==
    (IF s.lastUpdate < s.rewardFinish THEN s.rewardFinish - s.lastUpdate ELSE 0) * s.rewardRate

UnsettledOf(s, a) == s.stakeOf[a] * s.accRewardPerShare - s.rewardDebt[a] * Acc

Unsettleds(s) == [a \in Accounts |-> UnsettledOf(s, a)]

OwedOf(s) == SumFunction(s.accrued) + SumFunction(s.pendingPayouts) + s.undistributedRewards
                + NotYet(s)

OwedScaledOf(s) == OwedOf(s) * Acc + SumFunction(Unsettleds(s))

(* What is owed differs from the recorded liability by the roundings only.     *)
RewardBalance(s) ==
    /\ OwedScaledOf(s) + s.restakes * (Acc - 1) >= s.totalRewardLiability * Acc
    /\ OwedScaledOf(s) <= s.totalRewardLiability * Acc + (s.emissions + s.restakes) * (Acc - 1)

Fraction(s, a) == s.stakeOf[a] * (s.accCreditPerToken - s.creditDebt[a])

Fractions(s) == [a \in Accounts |-> Fraction(s, a)]

Whole(s) == SumFunction(s.bankedCredits) + s.outstandingTaskCredits + s.burned

Parts(s) == SumFunction(s.creditRemainderScaled) + s.creditAccumulatorRemainderScaled
               + SumFunction(Fractions(s))

(* Every issued credit is somewhere; n of them are in transit.                 *)
CreditBalance(s, n) == s.totalCreditsIssued * CreditAcc = (Whole(s) + n) * CreditAcc + Parts(s)

(* The stake the accumulators divide by is the sum of the stakes; the counters *)
(* are natural, rewards are accounted for up to now at most, and none are      *)
(* scheduled before staking starts.                                           *)
Kept(s) ==
    /\ s.emissions \in Nat /\ s.restakes \in Nat /\ s.burned \in Nat
    /\ s.totalStaked = SumFunction(s.stakeOf)
    /\ s.lastUpdate <= now
    /\ ~s.stakingActive => s.rewardFinish = 0

Books(s, n) == Good(s) /\ Kept(s) /\ RewardBalance(s) /\ CreditBalance(s, n)

(* The fields each quantity is made of.                                       *)
RewardFields ==
    {"accrued", "pendingPayouts", "undistributedRewards", "lastUpdate", "rewardFinish",
     "rewardRate", "stakeOf", "accRewardPerShare", "rewardDebt", "restakes", "emissions",
     "totalRewardLiability"}

CreditFields ==
    {"bankedCredits", "outstandingTaskCredits", "burned", "creditRemainderScaled",
     "creditAccumulatorRemainderScaled", "stakeOf", "accCreditPerToken", "creditDebt",
     "totalCreditsIssued"}

KeptFields ==
    {"emissions", "restakes", "burned", "totalStaked", "stakeOf", "lastUpdate",
     "stakingActive", "rewardFinish"}

Same(F, s, r) == \A f \in F : r[f] = s[f]

(* The scales are positive and the accounts finitely many.                     *)
LEMMA Scales ==
    /\ Acc \in Nat \ {0} /\ CreditAcc \in Nat \ {0} /\ CreditUnit \in Nat \ {0}
    /\ CreditTokenTime \in Nat \ {0} /\ RewardDuration \in Nat \ {0} /\ CreditCap \in Nat
    /\ IsFiniteSet(Accounts) /\ Nobody \notin Accounts
    /\ StakeAmounts \subseteq Nat /\ RewardAmounts \subseteq Nat
  BY StakingAssumption DEF StakingAssumption

(* Quotient and remainder.                                                    *)
LEMMA QuotientRemainder ==
    ASSUME NEW x \in Nat, NEW c \in Nat \ {0}
    PROVE  /\ x \div c \in Nat /\ x % c \in Nat
           /\ x = (x \div c) * c + (x % c) /\ (x % c) <= c - 1
<1> DEFINE q == x \div c
           r == x % c
<1>1. q \in Nat /\ r \in 0..(c - 1) /\ x = c * q + r
  BY Z3
<1> HIDE DEF q, r
<1>2. c * q = q * c /\ r <= c - 1 /\ r \in Nat
  BY <1>1
<1>3. q \in Nat /\ r \in Nat /\ x = q * c + r /\ r <= c - 1
  BY <1>1, <1>2
<1> QED
  BY <1>3 DEF q, r

(* Rewards depend on their fields only.                                       *)
LEMMA RewardsUntouched ==
    ASSUME NEW s, NEW r, RewardBalance(s), Same(RewardFields, s, r)
    PROVE  RewardBalance(r)
<1>1. OwedScaledOf(r) = OwedScaledOf(s)
  BY DEF OwedScaledOf, OwedOf, NotYet, Unsettleds, UnsettledOf, Same, RewardFields
<1> QED
  BY <1>1 DEF RewardBalance, Same, RewardFields

(* Credits depend on their fields only.                                       *)
LEMMA CreditsUntouched ==
    ASSUME NEW s, NEW r, NEW n, CreditBalance(s, n), Same(CreditFields, s, r)
    PROVE  CreditBalance(r, n)
<1>1. Whole(r) = Whole(s) /\ Parts(r) = Parts(s)
  BY DEF Whole, Parts, Fractions, Fraction, Same, CreditFields
<1> QED
  BY <1>1 DEF CreditBalance, Same, CreditFields

(* The counters and the clock depend on their fields only.                    *)
LEMMA KeptUntouched ==
    ASSUME NEW s, NEW r, Kept(s), Same(KeptFields, s, r)
    PROVE  Kept(r)
  BY DEF Kept, Same, KeptFields

(* An account's unsettled rewards are what its stake earned and rounding or    *)
(* time has not yet given it: never negative.                                 *)
LEMMA UnsettledNatural ==
    ASSUME NEW s, Good(s)
    PROVE  /\ \A a \in Accounts : UnsettledOf(s, a) \in Nat
           /\ Unsettleds(s) \in [Accounts -> Nat]
<1> SUFFICES ASSUME NEW a \in Accounts
             PROVE  UnsettledOf(s, a) \in Nat
  BY DEF Unsettleds
<1>1. s.stakeOf[a] \in Nat /\ s.accRewardPerShare \in Nat /\ s.rewardDebt[a] \in Nat
  BY GoodFields
<1> DEFINE earned == s.stakeOf[a] * s.accRewardPerShare
           share == earned \div Acc
           debt == s.rewardDebt[a]
<1>2. earned \in Nat
  BY <1>1
<1>3. share \in Nat /\ Acc * share <= earned /\ debt <= share
  <2>1. debt <= share
    BY DEF Good, Ahead, RewardShare
  <2> HIDE DEF earned, debt
  <2> QED
    BY <1>2, <2>1, Scales, DivFacts
<1>4. debt * Acc <= earned /\ debt * Acc \in Nat
  <2> HIDE DEF share, earned, debt
  <2>1. debt \in Nat /\ Acc \in Nat
    BY <1>1, Scales DEF debt
  <2>2. PICK d \in Nat : share = debt + d
    BY <1>3, <2>1
  <2>3. Acc * share = debt * Acc + d * Acc /\ d * Acc \in Nat /\ debt * Acc \in Nat
    BY <2>1, <2>2
  <2> QED
    BY <1>2, <1>3, <2>3
<1>5. UnsettledOf(s, a) = earned - debt * Acc
  BY DEF UnsettledOf
<1> HIDE DEF earned, debt, share
<1> QED
  BY <1>2, <1>4, <1>5

(* So are the credits of a stake that are not settled yet.                     *)
LEMMA FractionNatural ==
    ASSUME NEW s, Good(s)
    PROVE  /\ \A a \in Accounts : Fraction(s, a) \in Nat
           /\ Fractions(s) \in [Accounts -> Nat]
<1> SUFFICES ASSUME NEW a \in Accounts
             PROVE  Fraction(s, a) \in Nat
  BY DEF Fractions
<1>1. s.stakeOf[a] \in Nat /\ s.accCreditPerToken \in Nat /\ s.creditDebt[a] \in Nat
      /\ s.creditDebt[a] <= s.accCreditPerToken
  BY GoodFields DEF Good, Ahead
<1>2. PICK d \in Nat : d = s.accCreditPerToken - s.creditDebt[a]
  BY <1>1
<1> QED
  BY <1>1, <1>2 DEF Fraction

(* The totals behind the balances are naturals.                               *)
LEMMA TotalsNatural ==
    ASSUME NEW s, Good(s)
    PROVE  /\ SumFunction(s.accrued) \in Nat /\ SumFunction(s.pendingPayouts) \in Nat
           /\ SumFunction(s.bankedCredits) \in Nat /\ SumFunction(s.creditRemainderScaled) \in Nat
           /\ SumFunction(s.stakeOf) \in Nat
           /\ SumFunction(Unsettleds(s)) \in Nat /\ SumFunction(Fractions(s)) \in Nat
           /\ s.creditAccumulatorRemainderScaled \in Nat /\ s.undistributedRewards \in Nat
           /\ NotYet(s) \in Nat
           /\ s.creditRemainderScaled \in [Accounts -> Nat]
           /\ s.totalCreditsIssued \in Nat
<1>1. /\ s.creditRemainderScaled \in [Accounts -> Nat] /\ s.totalCreditsIssued \in Nat
      /\ s.creditAccumulatorRemainderScaled \in Nat
  BY DEF Good, Natural, AmountFields, BookFields
<1>2. IsFiniteSet(Accounts)
  BY Scales
<1>3. /\ SumFunction(s.accrued) \in Nat /\ SumFunction(s.pendingPayouts) \in Nat
      /\ SumFunction(s.bankedCredits) \in Nat /\ SumFunction(s.creditRemainderScaled) \in Nat
      /\ SumFunction(s.stakeOf) \in Nat
  BY <1>1, <1>2, GoodFields, TotalType
<1>4. SumFunction(Unsettleds(s)) \in Nat /\ SumFunction(Fractions(s)) \in Nat
  BY <1>2, UnsettledNatural, FractionNatural, TotalType
<1>5. NotYet(s) \in Nat
  <2>1. s.lastUpdate \in Nat /\ s.rewardFinish \in Nat /\ s.rewardRate \in Nat
    BY GoodFields
  <2>2. PICK d \in Nat :
           d = IF s.lastUpdate < s.rewardFinish THEN s.rewardFinish - s.lastUpdate ELSE 0
    BY <2>1
  <2> QED
    BY <2>1, <2>2 DEF NotYet
<1> QED
  BY <1>1, <1>3, <1>4, <1>5, GoodFields

-------------------------------------------------------------------------------
(* _update keeps every credit and loses less than one unit of reward.          *)

(* Accrual moves a period of credits to the accumulator and its remainder.    *)
LEMMA AccrueBooks ==
    ASSUME now \in Nat, NEW s, NEW n \in Nat, Books(s, n)
    PROVE  Books(AccrueCredits(s), n)
<1> DEFINE scaled == (now - s.lastCreditAccrual) * CreditUnit * s.totalStaked
                        + s.creditEmissionRemainder
           remaining == CreditCap - s.totalCreditsIssued
           period == Issue(scaled \div CreditTokenTime, remaining)
           closes == period = remaining
           accumulator == period * CreditAcc + s.creditAccumulatorRemainderScaled
           rest == IF closes THEN 0 ELSE scaled % CreditTokenTime
           grown == accumulator \div s.totalStaked
           left == accumulator % s.totalStaked
           emitted == [s EXCEPT !.lastCreditAccrual = now, !.creditEmissionRemainder = rest]
           issued == [emitted EXCEPT
                        !.totalCreditsIssued = @ + period,
                        !.accCreditPerToken = @ + grown,
                        !.creditAccumulatorRemainderScaled = left,
                        !.creditIssuanceClosed = closes]
           r == AccrueCredits(s)
<1>1. Good(s) /\ Kept(s) /\ RewardBalance(s) /\ CreditBalance(s, n)
  BY DEF Books
<1>2. Good(r)
  BY <1>1, StakingAssumption, AccrueGood
<1>3. \/ r = s
      \/ r = [s EXCEPT !.lastCreditAccrual = now]
      \/ r = emitted
      \/ r = issued /\ s.totalStaked # 0 /\ period # 0
  BY DEF AccrueCredits
<1>4. s.totalStaked \in Nat /\ AmountFields \union BookFields \union OtherFields \subseteq DOMAIN s
  BY <1>1, GoodFields
<1>5. /\ scaled \in Nat /\ remaining \in Nat
  <2>1. /\ s.lastCreditAccrual \in Nat /\ s.lastCreditAccrual <= now
        /\ s.creditEmissionRemainder \in Nat /\ s.totalCreditsIssued \in Nat
        /\ s.totalCreditsIssued <= CreditCap
    BY <1>1 DEF Good, Natural, Ahead, AmountFields
  <2>2. PICK e \in Nat : e = now - s.lastCreditAccrual
    BY <2>1
  <2>3. e * CreditUnit * s.totalStaked \in Nat
    BY <1>4, Scales
  <2>4. remaining \in Nat
    BY <2>1, Scales
  <2> QED
    BY <2>1, <2>2, <2>3, <2>4
<1>6. period \in Nat
  <2> HIDE DEF scaled, remaining
  <2>1. scaled \div CreditTokenTime \in Nat
    BY <1>5, Scales, DivFacts
  <2> QED
    BY <1>5, <2>1 DEF Issue
<1> HIDE DEF scaled, remaining, period, closes, rest
<1>7. accumulator \in Nat /\ s.creditAccumulatorRemainderScaled \in Nat
  <2>1. s.creditAccumulatorRemainderScaled \in Nat /\ CreditAcc \in Nat
    BY <1>1, Scales, TotalsNatural
  <2>2. period * CreditAcc \in Nat
    BY <1>6, <2>1
  <2> QED
    BY <2>1, <2>2
<1> HIDE DEF accumulator
<1>8. ASSUME s.totalStaked # 0
      PROVE  grown \in Nat /\ left \in Nat /\ accumulator = grown * s.totalStaked + left
  BY <1>4, <1>7, <1>8, QuotientRemainder
<1> HIDE DEF grown, left
<1>9. CASE Same(RewardFields \union CreditFields \union KeptFields, s, r)
  <2>1. /\ Same(RewardFields, s, r) /\ Same(CreditFields, s, r) /\ Same(KeptFields, s, r)
    BY <1>9 DEF Same
  <2> QED
    BY <1>1, <1>2, <2>1, RewardsUntouched, CreditsUntouched, KeptUntouched DEF Books
<1>10. CASE r = issued /\ s.totalStaked # 0
  <2>1. /\ Same(RewardFields, s, r) /\ Same(KeptFields, s, r)
        /\ Same(CreditFields \ {"totalCreditsIssued", "accCreditPerToken",
                                "creditAccumulatorRemainderScaled"}, s, r)
    <3>1. Same(RewardFields, s, r)
      BY <1>4, <1>10 DEF Same, RewardFields, AmountFields, BookFields, OtherFields
    <3>2. Same(KeptFields, s, r)
      BY <1>4, <1>10 DEF Same, KeptFields, AmountFields, BookFields, OtherFields
    <3>3. Same(CreditFields \ {"totalCreditsIssued", "accCreditPerToken",
                               "creditAccumulatorRemainderScaled"}, s, r)
      BY <1>4, <1>10 DEF Same, CreditFields, AmountFields, BookFields, OtherFields
    <3> QED BY <3>1, <3>2, <3>3
  <2>2. /\ r.totalCreditsIssued = s.totalCreditsIssued + period
        /\ r.accCreditPerToken = s.accCreditPerToken + grown
        /\ r.creditAccumulatorRemainderScaled = left
    BY <1>4, <1>10 DEF AmountFields, OtherFields
  <2>3. /\ r.stakeOf = s.stakeOf /\ r.creditDebt = s.creditDebt
        /\ r.creditRemainderScaled = s.creditRemainderScaled /\ Whole(r) = Whole(s)
    BY <2>1 DEF Same, CreditFields, Whole
  <2> HIDE DEF r
  <2>4. /\ SumFunction(Fractions(r)) =
              SumFunction(Fractions(s)) + grown * SumFunction(s.stakeOf)
        /\ SumFunction(Fractions(s)) \in Nat
    <3> DEFINE f == Fractions(s)
               g == s.stakeOf
               h == Fractions(r)
    <3>1. f \in [Accounts -> Nat] /\ g \in [Accounts -> Nat] /\ h \in [Accounts -> Nat]
      BY <1>1, <1>2, FractionNatural, GoodFields
    <3>2. ASSUME NEW a \in Accounts PROVE h[a] = f[a] + grown * g[a]
      <4>1. h[a] = Fraction(r, a) /\ f[a] = Fraction(s, a)
        BY DEF Fractions
      <4>2. /\ g[a] \in Nat /\ s.accCreditPerToken \in Nat /\ s.creditDebt[a] \in Nat
            /\ s.creditDebt[a] <= s.accCreditPerToken
        BY <1>1, GoodFields DEF Good, Ahead
      <4>3. PICK d \in Nat : d = s.accCreditPerToken - s.creditDebt[a]
        BY <4>2
      <4>4. r.accCreditPerToken - r.creditDebt[a] = d + grown
        BY <1>8, <1>10, <2>2, <2>3, <4>2, <4>3
      <4>5. h[a] = g[a] * (d + grown) /\ f[a] = g[a] * d
        BY <2>3, <4>1, <4>3, <4>4 DEF Fraction
      <4> HIDE DEF f, g, h
      <4> QED
        BY <1>8, <1>10, <4>2, <4>3, <4>5
    <3>3. grown \in Nat /\ IsFiniteSet(Accounts)
      BY <1>8, <1>10, Scales
    <3>4. SumFunction(h) = SumFunction(f) + grown * SumFunction(g) /\ SumFunction(f) \in Nat
      <4> HIDE DEF f, g, h
      <4>1. Scaled(h, f, grown, g, Accounts)
        BY <3>2 DEF Scaled
      <4>2. /\ IsFiniteSet(Accounts) /\ grown \in Nat
            /\ f \in [Accounts -> Nat] /\ g \in [Accounts -> Nat] /\ h \in [Accounts -> Nat]
        BY <3>1, <3>3
      <4> QED
        BY <4>1, <4>2, TotalScaled
    <3> QED
      BY <3>4
  <2>5. CreditBalance(r, n)
    <3> DEFINE F == SumFunction(Fractions(s))
               R == SumFunction(s.creditRemainderScaled)
               c == s.creditAccumulatorRemainderScaled
               W == Whole(s)
               I == s.totalCreditsIssued
               T == s.totalStaked
    <3>1. /\ R \in Nat /\ F \in Nat /\ c \in Nat /\ W \in Nat /\ I \in Nat /\ T \in Nat
          /\ CreditAcc \in Nat
      BY <1>1, <1>4, Scales, TotalsNatural, GoodFields DEF Whole, Kept
    <3>2. I * CreditAcc = (W + n) * CreditAcc + (R + c + F)
      BY <1>1 DEF CreditBalance, Parts
    <3>3. Parts(r) = R + left + (F + grown * T)
      BY <1>1, <2>2, <2>3, <2>4 DEF Parts, Kept
    <3>4. period * CreditAcc + c = grown * T + left
      BY <1>8, <1>10 DEF accumulator
    <3>5. (I + period) * CreditAcc = I * CreditAcc + period * CreditAcc
      BY <1>6, <3>1
    <3>6. /\ period * CreditAcc \in Nat /\ grown * T \in Nat /\ left \in Nat
          /\ I * CreditAcc \in Nat /\ (W + n) * CreditAcc \in Nat
      BY <1>6, <1>8, <1>10, <3>1
    <3>7. (I + period) * CreditAcc = (W + n) * CreditAcc + Parts(r)
      <4> DEFINE IC == I * CreditAcc
                 PC == period * CreditAcc
                 GT == grown * T
                 WC == (W + n) * CreditAcc
      <4>1. /\ IC \in Nat /\ PC \in Nat /\ GT \in Nat /\ WC \in Nat /\ left \in Nat
            /\ R \in Nat /\ F \in Nat /\ c \in Nat
            /\ IC = WC + (R + c + F) /\ Parts(r) = R + left + (F + GT) /\ PC + c = GT + left
            /\ (I + period) * CreditAcc = IC + PC
        BY <3>1, <3>2, <3>3, <3>4, <3>5, <3>6
      <4> HIDE DEF IC, PC, GT, WC, F, R, c, W, I, T
      <4>2. IC + PC = WC + Parts(r)
        BY <4>1
      <4> QED
        BY <4>1, <4>2 DEF WC
    <3> QED
      BY <2>2, <2>3, <3>7 DEF CreditBalance
  <2> QED
    BY <1>1, <1>2, <2>1, <2>5, RewardsUntouched, KeptUntouched DEF Books, r
<1>11. CASE r = s \/ r = [s EXCEPT !.lastCreditAccrual = now] \/ r = emitted
  <2>1. Same(RewardFields \union CreditFields \union KeptFields, s, r)
    BY <1>4, <1>11 DEF Same, RewardFields, CreditFields, KeptFields, AmountFields, BookFields,
         OtherFields
  <2> QED
    BY <1>9, <2>1
<1> QED
  BY <1>3, <1>10, <1>11 DEF r

(* What is owed is a natural number.                                          *)
LEMMA OwedNatural ==
    ASSUME NEW s, Good(s)
    PROVE  OwedOf(s) \in Nat /\ OwedScaledOf(s) \in Nat
<1>1. OwedOf(s) \in Nat
  BY TotalsNatural DEF OwedOf
<1>2. OwedOf(s) * Acc \in Nat /\ SumFunction(Unsettleds(s)) \in Nat
  BY <1>1, Scales, TotalsNatural
<1> QED
  BY <1>1, <1>2 DEF OwedScaledOf

(* An emission adds less than one unit to what is owed.                        *)
LEMMA EmissionRounds ==
    ASSUME NEW s, NEW r, Good(s), Kept(s), RewardBalance(s), NEW m \in 0..(Acc - 1),
           OwedScaledOf(r) = OwedScaledOf(s) + m, r.restakes = s.restakes,
           r.emissions = s.emissions + 1, r.totalRewardLiability = s.totalRewardLiability
    PROVE  RewardBalance(r)
<1> DEFINE x == OwedScaledOf(s)
           L == s.totalRewardLiability * Acc
           K == s.restakes * (Acc - 1)
           E == (s.emissions + s.restakes) * (Acc - 1)
<1>1. /\ x \in Nat /\ L \in Nat /\ K \in Nat /\ E \in Nat /\ m \in Nat /\ m <= Acc - 1
      /\ (s.emissions + 1 + s.restakes) * (Acc - 1) = E + (Acc - 1) /\ Acc \in Nat
  <2>1. /\ s.emissions \in Nat /\ s.restakes \in Nat /\ s.totalRewardLiability \in Nat
        /\ Acc \in Nat \ {0}
    BY Scales, GoodFields DEF Kept
  <2>2. PICK c \in Nat : c = Acc - 1
    BY <2>1
  <2>3. x \in Nat
    BY OwedNatural
  <2>4. L \in Nat /\ s.restakes * c \in Nat /\ (s.emissions + s.restakes) * c \in Nat
    BY <2>1
  <2>5. (s.emissions + 1 + s.restakes) * c = (s.emissions + s.restakes) * c + c
    BY <2>1
  <2> QED
    BY <2>1, <2>2, <2>3, <2>4, <2>5
<1>2. x + K >= L /\ x <= L + E
  BY DEF RewardBalance
<1>3. /\ OwedScaledOf(r) = x + m /\ r.restakes * (Acc - 1) = K
      /\ r.totalRewardLiability * Acc = L
      /\ (r.emissions + r.restakes) * (Acc - 1) = E + (Acc - 1)
  BY <1>1
<1> HIDE DEF x, L, K, E
<1> QED
  BY <1>1, <1>2, <1>3 DEF RewardBalance

(* A change of stake moves it by less than one unit.                           *)
LEMMA RestakeRounds ==
    ASSUME NEW s, NEW r, Good(s), Good(r), Kept(s), RewardBalance(s),
           OwedScaledOf(r) <= OwedScaledOf(s) + (Acc - 1),
           OwedScaledOf(s) <= OwedScaledOf(r) + (Acc - 1),
           r.restakes = s.restakes + 1, r.emissions = s.emissions,
           r.totalRewardLiability = s.totalRewardLiability
    PROVE  RewardBalance(r)
<1> DEFINE x == OwedScaledOf(s)
           y == OwedScaledOf(r)
           L == s.totalRewardLiability * Acc
           K == s.restakes * (Acc - 1)
           E == (s.emissions + s.restakes) * (Acc - 1)
<1>1. /\ x \in Nat /\ y \in Nat /\ L \in Nat /\ K \in Nat /\ E \in Nat /\ Acc \in Nat
      /\ (s.restakes + 1) * (Acc - 1) = K + (Acc - 1)
      /\ (s.emissions + (s.restakes + 1)) * (Acc - 1) = E + (Acc - 1)
  <2>1. /\ s.emissions \in Nat /\ s.restakes \in Nat /\ s.totalRewardLiability \in Nat
        /\ Acc \in Nat \ {0}
    BY Scales, GoodFields DEF Kept
  <2>2. PICK c \in Nat : c = Acc - 1
    BY <2>1
  <2>3. x \in Nat /\ y \in Nat
    BY OwedNatural
  <2>4. L \in Nat /\ s.restakes * c \in Nat /\ (s.emissions + s.restakes) * c \in Nat
    BY <2>1
  <2>5. /\ (s.restakes + 1) * c = s.restakes * c + c
        /\ (s.emissions + (s.restakes + 1)) * c = (s.emissions + s.restakes) * c + c
    BY <2>1
  <2> QED
    BY <2>1, <2>2, <2>3, <2>4, <2>5
<1>2. x + K >= L /\ x <= L + E /\ y <= x + (Acc - 1) /\ x <= y + (Acc - 1)
  BY DEF RewardBalance
<1>3. /\ r.restakes * (Acc - 1) = K + (Acc - 1) /\ r.totalRewardLiability * Acc = L
      /\ (r.emissions + r.restakes) * (Acc - 1) = E + (Acc - 1)
  BY <1>1
<1>4. y + r.restakes * (Acc - 1) >= L /\ y <= L + (r.emissions + r.restakes) * (Acc - 1)
  <2> HIDE DEF x, y, L, K, E
  <2> QED
    BY <1>1, <1>2, <1>3
<1> QED
  BY <1>3, <1>4 DEF RewardBalance

(* Distribution up to a moment takes from what was not yet emitted what it     *)
(* emits.                                                                     *)
LEMMA Emitted ==
    ASSUME now \in Nat, NEW s, NEW r, Good(s), Good(r), s.lastUpdate < Until(s),
           r.lastUpdate = Until(s), r.rewardFinish = s.rewardFinish,
           r.rewardRate = s.rewardRate
    PROVE  /\ NotYet(s) = NotYet(r) + (Until(s) - s.lastUpdate) * s.rewardRate
           /\ (Until(s) - s.lastUpdate) * s.rewardRate \in Nat
<1>1. s.lastUpdate \in Nat /\ s.rewardFinish \in Nat /\ s.rewardRate \in Nat
  BY GoodFields
<1>2. Until(s) \in Nat /\ Until(s) <= s.rewardFinish
  BY <1>1 DEF Until
<1>3. PICK d \in Nat : d = Until(s) - s.lastUpdate
  BY <1>1, <1>2
<1>4. PICK e \in Nat : e = s.rewardFinish - Until(s)
  BY <1>1, <1>2
<1>5. NotYet(s) = (d + e) * s.rewardRate
  <2>1. s.lastUpdate < s.rewardFinish /\ s.rewardFinish - s.lastUpdate = d + e
    BY <1>1, <1>2, <1>3, <1>4
  <2> QED
    BY <2>1 DEF NotYet
<1>6. NotYet(r) = e * s.rewardRate
  <2>1. (IF r.lastUpdate < r.rewardFinish THEN r.rewardFinish - r.lastUpdate ELSE 0) = e
    BY <1>1, <1>2, <1>4
  <2> QED
    BY <2>1 DEF NotYet
<1>7. (d + e) * s.rewardRate = e * s.rewardRate + d * s.rewardRate /\ d * s.rewardRate \in Nat
  BY <1>1
<1> QED
  BY <1>3, <1>5, <1>6, <1>7

(* Distribution keeps what is owed up to the dust of one division.             *)
LEMMA DistributeBooks ==
    ASSUME now \in Nat, NEW s, NEW n \in Nat, Books(s, n)
    PROVE  Books(Distribute(s), n)
<1> DEFINE until == Until(s)
           emission == (until - s.lastUpdate) * s.rewardRate
           increment == (emission * Acc) \div s.totalStaked
           distributed == (increment * s.totalStaked) \div Acc
           orphaned == [s EXCEPT !.undistributedRewards = @ + emission, !.lastUpdate = until]
           shared == [s EXCEPT !.accRewardPerShare = @ + increment,
                               !.undistributedRewards = @ + emission - distributed,
                               !.lastUpdate = until,
                               !.emissions = @ + 1]
           r == Distribute(s)
<1>1. Good(s) /\ Kept(s) /\ RewardBalance(s) /\ CreditBalance(s, n)
  BY DEF Books
<1>2. Good(r)
  BY <1>1, StakingAssumption, DistributeGood
<1>3. AmountFields \union BookFields \union OtherFields \subseteq DOMAIN s
  BY <1>1, GoodFields
<1>4. /\ s.lastUpdate \in Nat /\ s.totalStaked \in Nat /\ until \in Nat /\ until <= now
      /\ s.undistributedRewards \in Nat /\ s.accRewardPerShare \in Nat
  BY <1>1, GoodFields DEF Until
<1>5. \/ r = s
      \/ s.lastUpdate < until /\ s.totalStaked = 0 /\ r = orphaned
      \/ s.lastUpdate < until /\ s.totalStaked # 0 /\ r = shared
  <2>1. Until(s) <= s.lastUpdate \/ s.lastUpdate < until
    BY <1>4
  <2>2. s.lastUpdate < until => ~(Until(s) <= s.lastUpdate)
    BY <1>4
  <2> HIDE DEF orphaned, shared, until
  <2> QED
    BY <2>1, <2>2 DEF Distribute, orphaned, shared, until
<1> HIDE DEF until, emission, increment, distributed
<1>6. CASE r = s
  BY <1>6
<1>7. CASE s.lastUpdate < until /\ s.totalStaked = 0 /\ r = orphaned
  <2>1. /\ Same(CreditFields, s, r) /\ Same(KeptFields \ {"lastUpdate"}, s, r)
        /\ Same(RewardFields \ {"undistributedRewards", "lastUpdate"}, s, r)
    BY <1>3, <1>7 DEF Same, RewardFields, CreditFields, KeptFields, AmountFields, BookFields,
         OtherFields
  <2>2. r.undistributedRewards = s.undistributedRewards + emission /\ r.lastUpdate = until
    BY <1>3, <1>7 DEF AmountFields
  <2> HIDE DEF r
  <2>3. /\ r.rewardFinish = s.rewardFinish /\ r.rewardRate = s.rewardRate
        /\ r.accrued = s.accrued /\ r.pendingPayouts = s.pendingPayouts
        /\ Unsettleds(r) = Unsettleds(s)
    BY <2>1 DEF Same, RewardFields, Unsettleds, UnsettledOf
  <2>4. NotYet(s) = NotYet(r) + emission /\ emission \in Nat
    BY <1>1, <1>2, <1>7, <2>2, <2>3, Emitted DEF emission, until
  <2>5. OwedOf(r) = OwedOf(s)
    <3>1. /\ SumFunction(s.accrued) \in Nat /\ SumFunction(s.pendingPayouts) \in Nat
          /\ NotYet(r) \in Nat
      BY <1>1, <1>2, TotalsNatural
    <3> QED
      BY <1>4, <2>2, <2>3, <2>4, <3>1 DEF OwedOf
  <2>6. RewardBalance(r)
    BY <1>1, <2>1, <2>3, <2>5 DEF RewardBalance, OwedScaledOf, Same, RewardFields
  <2>7. Kept(r)
    BY <1>1, <1>4, <2>1, <2>2 DEF Kept, Same, KeptFields
  <2> QED
    BY <1>1, <1>2, <2>1, <2>6, <2>7, CreditsUntouched DEF Books, r
<1>8. CASE s.lastUpdate < until /\ s.totalStaked # 0 /\ r = shared
  <2>1. /\ Same(CreditFields, s, r) /\ Same(KeptFields \ {"lastUpdate", "emissions"}, s, r)
        /\ Same(RewardFields \ {"undistributedRewards", "lastUpdate", "accRewardPerShare",
                                "emissions"}, s, r)
    BY <1>3, <1>8 DEF Same, RewardFields, CreditFields, KeptFields, AmountFields, BookFields,
         OtherFields
  <2>2. /\ r.undistributedRewards = s.undistributedRewards + emission - distributed
        /\ r.accRewardPerShare = s.accRewardPerShare + increment
        /\ r.lastUpdate = until /\ r.emissions = s.emissions + 1
    BY <1>3, <1>8 DEF AmountFields, OtherFields
  <2> HIDE DEF r
  <2>3. /\ r.rewardFinish = s.rewardFinish /\ r.rewardRate = s.rewardRate
        /\ r.accrued = s.accrued /\ r.pendingPayouts = s.pendingPayouts
        /\ r.stakeOf = s.stakeOf /\ r.rewardDebt = s.rewardDebt
        /\ r.restakes = s.restakes /\ r.totalRewardLiability = s.totalRewardLiability
    BY <2>1 DEF Same, RewardFields
  <2>4. NotYet(s) = NotYet(r) + emission /\ emission \in Nat
    BY <1>1, <1>2, <1>8, <2>2, <2>3, Emitted DEF emission, until
  <2>5. increment \in Nat
    <3>1. emission * Acc \in Nat
      BY <2>4, Scales
    <3> QED
      BY <1>4, <1>8, <3>1, QuotientRemainder DEF increment
  <2>6. PICK m \in 0..(Acc - 1) :
           distributed \in Nat /\ increment * s.totalStaked = distributed * Acc + m
    <3> DEFINE p == increment * s.totalStaked
    <3>1. p \in Nat
      BY <1>4, <2>5
    <3>2. distributed = p \div Acc
      BY DEF distributed
    <3> HIDE DEF p
    <3>3. /\ p \div Acc \in Nat /\ p % Acc \in Nat /\ p % Acc <= Acc - 1
          /\ p = (p \div Acc) * Acc + (p % Acc)
      BY <3>1, Scales, QuotientRemainder
    <3>4. (p % Acc) \in 0..(Acc - 1)
      BY <3>3, Scales
    <3> QED
      BY <3>2, <3>3, <3>4 DEF p
  <2>7. /\ SumFunction(Unsettleds(r)) =
              SumFunction(Unsettleds(s)) + increment * SumFunction(s.stakeOf)
        /\ SumFunction(Unsettleds(s)) \in Nat
    <3> DEFINE f == Unsettleds(s)
               g == s.stakeOf
               h == Unsettleds(r)
    <3>1. f \in [Accounts -> Nat] /\ g \in [Accounts -> Nat] /\ h \in [Accounts -> Nat]
      BY <1>1, <1>2, UnsettledNatural, GoodFields
    <3>2. ASSUME NEW a \in Accounts PROVE h[a] = f[a] + increment * g[a]
      <4>1. h[a] = UnsettledOf(r, a) /\ f[a] = UnsettledOf(s, a)
        BY DEF Unsettleds
      <4>2. g[a] \in Nat /\ s.rewardDebt[a] \in Nat /\ Acc \in Nat
        BY <1>1, Scales, GoodFields
      <4> DEFINE debt == s.rewardDebt[a] * Acc
                 acc == s.accRewardPerShare
      <4>3. debt \in Nat /\ acc \in Nat
        BY <1>4, <4>2
      <4>4. h[a] = g[a] * (acc + increment) - debt /\ f[a] = g[a] * acc - debt
        BY <2>2, <2>3, <4>1 DEF UnsettledOf
      <4> HIDE DEF f, g, h, debt, acc
      <4>5. g[a] * (acc + increment) = g[a] * acc + increment * g[a]
        BY <2>5, <4>2, <4>3
      <4>6. g[a] * acc \in Nat /\ increment * g[a] \in Nat
        BY <2>5, <4>2, <4>3
      <4> QED
        BY <4>3, <4>4, <4>5, <4>6
    <3>3. IsFiniteSet(Accounts)
      BY Scales
    <3>4. SumFunction(h) = SumFunction(f) + increment * SumFunction(g) /\ SumFunction(f) \in Nat
      <4> HIDE DEF f, g, h
      <4>1. Scaled(h, f, increment, g, Accounts)
        BY <3>2 DEF Scaled
      <4> QED
        BY <2>5, <3>1, <3>3, <4>1, TotalScaled
    <3> QED
      BY <3>4
  <2>8. OwedOf(s) = OwedOf(r) + distributed
    <3>1. /\ SumFunction(s.accrued) \in Nat /\ SumFunction(s.pendingPayouts) \in Nat
          /\ NotYet(r) \in Nat
      BY <1>1, <1>2, TotalsNatural
    <3> QED
      BY <1>4, <2>2, <2>3, <2>4, <2>6, <3>1 DEF OwedOf
  <2>9. OwedScaledOf(r) = OwedScaledOf(s) + m
    <3> DEFINE o == OwedOf(r)
               U == SumFunction(Unsettleds(s))
    <3>1. o \in Nat /\ U \in Nat /\ Acc \in Nat /\ m \in Nat /\ distributed \in Nat
      BY <1>2, <2>6, <2>7, Scales, OwedNatural
    <3>2. SumFunction(Unsettleds(r)) = U + (distributed * Acc + m)
      BY <1>1, <2>6, <2>7 DEF Kept
    <3>3. OwedScaledOf(r) = o * Acc + (U + (distributed * Acc + m))
      BY <3>2 DEF OwedScaledOf
    <3>4. OwedScaledOf(s) = (o + distributed) * Acc + U
      BY <2>8 DEF OwedScaledOf
    <3> HIDE DEF o, U
    <3>5. (o + distributed) * Acc = o * Acc + distributed * Acc
      BY <3>1
    <3>6. o * Acc \in Nat /\ distributed * Acc \in Nat
      BY <3>1
    <3> QED
      BY <3>1, <3>3, <3>4, <3>5, <3>6
  <2>10. RewardBalance(r)
    BY <1>1, <2>2, <2>3, <2>9, EmissionRounds
  <2>11. Kept(r)
    BY <1>1, <1>4, <2>1, <2>2 DEF Kept, Same, KeptFields
  <2> QED
    BY <1>1, <1>2, <2>1, <2>10, <2>11, CreditsUntouched DEF Books, r
<1> QED
  BY <1>1, <1>5, <1>6, <1>7, <1>8 DEF Books, r

(* Settled rewards go from the unsettled to the accrued ones.                  *)
LEMMA SettleRewardsBooks ==
    ASSUME now \in Nat, NEW s, NEW n \in Nat, Books(s, n), NEW a \in Accounts
    PROVE  /\ Books(SettleRewards(s, a), n)
           /\ SettleRewards(s, a).rewardDebt[a] = RewardShare(SettleRewards(s, a), a)
<1> DEFINE share == RewardShare(s, a)
           r == SettleRewards(s, a)
<1>1. Good(s) /\ Kept(s) /\ RewardBalance(s) /\ CreditBalance(s, n)
  BY DEF Books
<1>2. Good(r)
  BY <1>1, StakingAssumption, SettleRewardsGood
<1>3. /\ AmountFields \union BookFields \union OtherFields \subseteq DOMAIN s
      /\ s.accrued \in [Accounts -> Nat] /\ s.rewardDebt \in [Accounts -> Nat]
      /\ s.stakeOf \in [Accounts -> Nat] /\ s.accRewardPerShare \in Nat
  BY <1>1, GoodFields
<1>4. share \in Nat /\ s.rewardDebt[a] <= share
  BY <1>1, StakingAssumption, ShareNatural DEF Good, Ahead
<1>5. PICK d \in Nat : d = share - s.rewardDebt[a]
  <2> HIDE DEF share
  <2> QED
    BY <1>3, <1>4
<1>6. /\ r.accrued = Plus(s.accrued, a, d)
      /\ r.rewardDebt = [s.rewardDebt EXCEPT ![a] = share]
      /\ Same(CreditFields \union KeptFields \union (RewardFields \ {"accrued", "rewardDebt"}), s, r)
  BY <1>3, <1>5 DEF SettleRewards, Same, CreditFields, KeptFields, RewardFields, AmountFields,
     BookFields, OtherFields
<1>7. /\ Same(CreditFields, s, r) /\ Same(KeptFields, s, r)
      /\ r.pendingPayouts = s.pendingPayouts /\ r.undistributedRewards = s.undistributedRewards
      /\ NotYet(r) = NotYet(s) /\ r.stakeOf = s.stakeOf
      /\ r.accRewardPerShare = s.accRewardPerShare /\ r.restakes = s.restakes
      /\ r.emissions = s.emissions /\ r.totalRewardLiability = s.totalRewardLiability
  BY <1>6 DEF Same, RewardFields, NotYet
<1>8. r.rewardDebt[a] = RewardShare(r, a)
  BY <1>3, <1>6, <1>7 DEF RewardShare
<1> HIDE DEF r
<1>9. /\ SumFunction(r.accrued) = SumFunction(s.accrued) + d
      /\ SumFunction(s.accrued) \in Nat
  <2> DEFINE f == s.accrued
             g == r.accrued
  <2>1. f \in [Accounts -> Nat] /\ g \in [Accounts -> Nat] /\ IsFiniteSet(Accounts)
    BY <1>1, <1>2, Scales, GoodFields
  <2>2. g[a] = f[a] + d /\ \A b \in Accounts : b # a => g[b] = f[b]
    BY <1>3, <1>6 DEF Plus
  <2> HIDE DEF f, g
  <2>3. SumFunction(g) = SumFunction(f) - f[a] + g[a] /\ SumFunction(f) \in Nat
    BY <2>1, <2>2, TotalChange
  <2>4. f[a] \in Nat
    BY <2>1
  <2>5. SumFunction(g) = SumFunction(f) + d /\ SumFunction(f) \in Nat
    BY <2>2, <2>3, <2>4
  <2> QED
    BY <2>5 DEF f, g
<1>10. /\ SumFunction(Unsettleds(s)) = SumFunction(Unsettleds(r)) + d * Acc
       /\ SumFunction(Unsettleds(r)) \in Nat
  <2> DEFINE f == Unsettleds(s)
             g == Unsettleds(r)
  <2>1. f \in [Accounts -> Nat] /\ g \in [Accounts -> Nat] /\ IsFiniteSet(Accounts)
    BY <1>1, <1>2, Scales, UnsettledNatural
  <2>2. ASSUME NEW b \in Accounts, b # a PROVE g[b] = f[b]
    BY <1>3, <1>6, <1>7, <2>2 DEF Unsettleds, UnsettledOf
  <2>3. f[a] = g[a] + d * Acc
    <3> DEFINE e == s.stakeOf[a] * s.accRewardPerShare
               debt == s.rewardDebt[a]
    <3>1. f[a] = e - debt * Acc /\ g[a] = e - share * Acc
      BY <1>3, <1>6, <1>7 DEF Unsettleds, UnsettledOf
    <3>2. e \in Nat /\ debt \in Nat /\ Acc \in Nat /\ share \in Nat
      BY <1>3, <1>4, Scales
    <3>3. d = share - debt
      BY <1>5
    <3> HIDE DEF e, debt, share, f, g
    <3>4. share * Acc = debt * Acc + d * Acc /\ debt * Acc \in Nat /\ d * Acc \in Nat
      <4>1. share = debt + d
        BY <3>2, <3>3
      <4> QED
        BY <3>2, <4>1
    <3> QED
      BY <3>1, <3>2, <3>4
  <2> HIDE DEF f, g
  <2>4. SumFunction(g) = SumFunction(f) - f[a] + g[a] /\ SumFunction(f) \in Nat /\ SumFunction(g) \in Nat
    BY <2>1, <2>2, TotalChange
  <2>5. f[a] \in Nat /\ g[a] \in Nat /\ d * Acc \in Nat
    BY <2>1, Scales
  <2>6. SumFunction(f) = SumFunction(g) + d * Acc
    BY <2>3, <2>4, <2>5
  <2> QED
    BY <2>4, <2>6 DEF f, g
<1>11. OwedScaledOf(r) = OwedScaledOf(s)
  <2> DEFINE o == OwedOf(s)
             U == SumFunction(Unsettleds(r))
  <2>1. OwedOf(r) = o + d
    <3>1. /\ SumFunction(s.pendingPayouts) \in Nat /\ s.undistributedRewards \in Nat
          /\ NotYet(s) \in Nat
      BY <1>1, TotalsNatural
    <3> QED
      BY <1>7, <1>9, <3>1 DEF OwedOf
  <2>2. o \in Nat /\ U \in Nat /\ Acc \in Nat
    BY <1>1, <1>10, Scales, OwedNatural
  <2>3. OwedScaledOf(r) = (o + d) * Acc + U /\ OwedScaledOf(s) = o * Acc + (U + d * Acc)
    BY <1>10, <2>1 DEF OwedScaledOf
  <2> HIDE DEF o, U
  <2>4. (o + d) * Acc = o * Acc + d * Acc /\ o * Acc \in Nat /\ d * Acc \in Nat
    BY <2>2
  <2> QED
    BY <2>2, <2>3, <2>4
<1>12. RewardBalance(r)
  BY <1>1, <1>7, <1>11 DEF RewardBalance
<1> QED
  BY <1>1, <1>2, <1>7, <1>8, <1>12, CreditsUntouched, KeptUntouched DEF Books, r

(* Settled credits go from an account's fraction to its bank and its remainder. *)
LEMMA SettleCreditsBooks ==
    ASSUME now \in Nat, NEW s, NEW n \in Nat, Books(s, n), NEW a \in Accounts
    PROVE  /\ Books(SettleCredits(s, a), n)
           /\ SettleCredits(s, a).creditDebt[a] = SettleCredits(s, a).accCreditPerToken
           /\ Same(RewardFields, s, SettleCredits(s, a))
<1> DEFINE scaled == s.stakeOf[a] * (s.accCreditPerToken - s.creditDebt[a])
                        + s.creditRemainderScaled[a]
           q == scaled \div CreditAcc
           m == scaled % CreditAcc
           r == SettleCredits(s, a)
<1>1. Good(s) /\ Kept(s) /\ RewardBalance(s) /\ CreditBalance(s, n)
  BY DEF Books
<1>2. Good(r)
  BY <1>1, StakingAssumption, SettleCreditsGood
<1>3. /\ AmountFields \union BookFields \union OtherFields \subseteq DOMAIN s
      /\ s.creditDebt \in [Accounts -> Nat] /\ s.bankedCredits \in [Accounts -> Nat]
      /\ s.stakeOf \in [Accounts -> Nat] /\ s.accCreditPerToken \in Nat
      /\ s.creditRemainderScaled \in [Accounts -> Nat]
  BY <1>1, GoodFields, TotalsNatural
<1>4. scaled = Fraction(s, a) + s.creditRemainderScaled[a]
  BY DEF Fraction
<1>5. scaled \in Nat
  <2>1. Fraction(s, a) \in Nat /\ s.creditRemainderScaled[a] \in Nat
    BY <1>1, <1>3, FractionNatural
  <2> HIDE DEF scaled
  <2> QED
    BY <1>4, <2>1
<1> HIDE DEF scaled
<1>6. q \in Nat /\ m \in Nat /\ scaled = q * CreditAcc + m
  BY <1>5, Scales, QuotientRemainder
<1>7. /\ Same(RewardFields \union KeptFields
                \union (CreditFields \ {"creditDebt", "creditRemainderScaled", "bankedCredits"}), s, r)
      /\ r.creditDebt = [s.creditDebt EXCEPT ![a] = s.accCreditPerToken]
      /\ \/ /\ s.stakeOf[a] = 0 /\ r.creditRemainderScaled = s.creditRemainderScaled
            /\ r.bankedCredits = s.bankedCredits
         \/ /\ r.creditRemainderScaled = [s.creditRemainderScaled EXCEPT ![a] = m]
            /\ r.bankedCredits = Plus(s.bankedCredits, a, q)
  <2> HIDE DEF q, m
  <2>1. CASE s.stakeOf[a] = 0
    BY <1>3, <2>1 DEF SettleCredits, Same, CreditFields, KeptFields, RewardFields, AmountFields,
       BookFields, OtherFields
  <2>2. CASE s.stakeOf[a] # 0
    BY <1>3, <2>2 DEF SettleCredits, Same, CreditFields, KeptFields, RewardFields, AmountFields,
       BookFields, OtherFields, q, m, scaled
  <2> QED
    BY <2>1, <2>2
<1> HIDE DEF q, m
<1>8. /\ Same(RewardFields, s, r) /\ Same(KeptFields, s, r)
      /\ r.stakeOf = s.stakeOf /\ r.accCreditPerToken = s.accCreditPerToken
      /\ r.outstandingTaskCredits = s.outstandingTaskCredits /\ r.burned = s.burned
      /\ r.totalCreditsIssued = s.totalCreditsIssued
      /\ r.creditAccumulatorRemainderScaled = s.creditAccumulatorRemainderScaled
  BY <1>7 DEF Same, CreditFields
<1>9. r.creditDebt[a] = r.accCreditPerToken
  BY <1>3, <1>7, <1>8
<1> HIDE DEF r
<1> DEFINE F == SumFunction(Fractions(r))
           R == SumFunction(r.creditRemainderScaled)
           B == SumFunction(r.bankedCredits)
           x == Fraction(s, a)
           y == s.creditRemainderScaled[a]
<1>10. /\ F \in Nat /\ R \in Nat /\ B \in Nat /\ x \in Nat /\ y \in Nat
       /\ SumFunction(Fractions(s)) \in Nat /\ SumFunction(s.creditRemainderScaled) \in Nat
       /\ SumFunction(s.bankedCredits) \in Nat /\ s.creditAccumulatorRemainderScaled \in Nat
       /\ s.outstandingTaskCredits \in Nat /\ s.burned \in Nat
  BY <1>1, <1>2, <1>3, TotalsNatural, FractionNatural, GoodFields DEF Kept
<1>11. SumFunction(Fractions(s)) = F + x
  <2> DEFINE f == Fractions(s)
             g == Fractions(r)
  <2>1. f \in [Accounts -> Nat] /\ g \in [Accounts -> Nat] /\ IsFiniteSet(Accounts)
    BY <1>1, <1>2, Scales, FractionNatural
  <2>2. ASSUME NEW b \in Accounts, b # a PROVE g[b] = f[b]
    BY <1>3, <1>7, <1>8, <2>2 DEF Fractions, Fraction
  <2>3. g[a] = 0 /\ f[a] = x
    <3>1. r.accCreditPerToken - r.creditDebt[a] = 0 /\ r.stakeOf[a] \in Nat
      BY <1>3, <1>8, <1>9
    <3>2. g[a] = r.stakeOf[a] * 0
      BY <3>1 DEF Fractions, Fraction
    <3> QED
      BY <3>1, <3>2 DEF Fractions
  <2> HIDE DEF f, g
  <2>4. SumFunction(g) = SumFunction(f) - f[a] + g[a]
    BY <2>1, <2>2, TotalChange
  <2> HIDE DEF x
  <2> QED
    BY <1>10, <2>3, <2>4 DEF f, g
<1>12. CreditBalance(r, n)
  <2> DEFINE I == s.totalCreditsIssued * CreditAcc
             c == s.creditAccumulatorRemainderScaled
             o == s.outstandingTaskCredits + s.burned
  <2>1. CASE /\ s.stakeOf[a] = 0 /\ r.creditRemainderScaled = s.creditRemainderScaled
             /\ r.bankedCredits = s.bankedCredits
    <3>1. x = 0
      <4>1. s.accCreditPerToken - s.creditDebt[a] \in Int
        BY <1>3
      <4> QED
        BY <2>1, <4>1 DEF Fraction
    <3>2. SumFunction(Fractions(s)) = F
      <4> HIDE DEF F, x
      <4> QED
        BY <1>10, <1>11, <3>1
    <3>3. Whole(r) = Whole(s) /\ Parts(r) = Parts(s)
      BY <1>8, <2>1, <3>2 DEF Whole, Parts
    <3> QED
      BY <1>1, <1>8, <3>3 DEF CreditBalance
  <2>2. CASE /\ r.creditRemainderScaled = [s.creditRemainderScaled EXCEPT ![a] = m]
             /\ r.bankedCredits = Plus(s.bankedCredits, a, q)
    <3>1. SumFunction(s.bankedCredits) + q = B
      <4> DEFINE f == s.bankedCredits
                 g == r.bankedCredits
      <4>1. f \in [Accounts -> Nat] /\ g \in [Accounts -> Nat] /\ IsFiniteSet(Accounts)
        BY <1>1, <1>2, Scales, GoodFields
      <4>2. g[a] = f[a] + q /\ \A b \in Accounts : b # a => g[b] = f[b]
        BY <1>3, <2>2 DEF Plus
      <4> HIDE DEF f, g
      <4>3. SumFunction(g) = SumFunction(f) - f[a] + g[a] /\ SumFunction(f) \in Nat
        BY <4>1, <4>2, TotalChange
      <4>4. f[a] \in Nat
        BY <4>1
      <4>5. SumFunction(g) = SumFunction(f) + q
        BY <1>6, <4>2, <4>3, <4>4
      <4> QED
        BY <4>5 DEF f, g
    <3>2. SumFunction(s.creditRemainderScaled) = R - m + y
      <4> DEFINE f == s.creditRemainderScaled
                 g == r.creditRemainderScaled
      <4>1. f \in [Accounts -> Nat] /\ g \in [Accounts -> Nat] /\ IsFiniteSet(Accounts)
        BY <1>1, <1>2, Scales, TotalsNatural
      <4>2. g[a] = m /\ f[a] = y /\ \A b \in Accounts : b # a => g[b] = f[b]
        BY <1>3, <2>2
      <4> HIDE DEF f, g
      <4>3. SumFunction(g) = SumFunction(f) - f[a] + g[a] /\ SumFunction(f) \in Nat
            /\ SumFunction(g) \in Nat
        BY <4>1, <4>2, TotalChange
      <4> HIDE DEF y
      <4>4. SumFunction(f) = SumFunction(g) - m + y
        BY <1>6, <1>10, <4>2, <4>3
      <4> QED
        BY <4>4 DEF f, g
    <3>3. I = (SumFunction(s.bankedCredits) + o + n) * CreditAcc
                 + (SumFunction(s.creditRemainderScaled) + c + (F + x))
      BY <1>1, <1>10, <1>11 DEF CreditBalance, Whole, Parts
    <3>4. x + y = q * CreditAcc + m
      BY <1>4, <1>6
    <3>5. Whole(r) = SumFunction(s.bankedCredits) + q + o /\ Parts(r) = R + c + F
      <4>1. Whole(r) = B + s.outstandingTaskCredits + s.burned
        BY <1>8 DEF Whole
      <4>2. Parts(r) = R + c + F
        BY <1>8 DEF Parts
      <4> HIDE DEF B
      <4> QED
        BY <1>6, <1>10, <3>1, <4>1, <4>2
    <3> DEFINE A == SumFunction(s.bankedCredits)
               S == SumFunction(s.creditRemainderScaled)
    <3>6. A \in Nat /\ S \in Nat /\ o \in Nat /\ c \in Nat /\ CreditAcc \in Nat
      BY <1>10, Scales
    <3> HIDE DEF A, S, F, R, B, x, y, I, c, o
    <3>7. (A + q + o + n) * CreditAcc = (A + o + n) * CreditAcc + q * CreditAcc
      BY <1>6, <3>6
    <3> DEFINE P == (A + o + n) * CreditAcc
               Q == q * CreditAcc
    <3>8. P \in Nat /\ Q \in Nat
      BY <1>6, <3>6
    <3>9. /\ I = P + (S + c + (F + x)) /\ S = R - m + y /\ x + y = Q + m
          /\ (A + q + o + n) * CreditAcc = P + Q
      BY <3>2, <3>3, <3>4, <3>7 DEF A, S
    <3>10. I = (A + q + o + n) * CreditAcc + (R + c + F)
      <4> HIDE DEF P, Q
      <4> QED
        BY <1>6, <1>10, <3>6, <3>8, <3>9
    <3> QED
      BY <1>8, <3>5, <3>10 DEF CreditBalance, A, I
  <2> QED
    BY <1>7, <2>1, <2>2
<1> QED
  BY <1>1, <1>2, <1>8, <1>9, <1>12, RewardsUntouched, KeptUntouched DEF Books, r

(* The whole of _update: what was owed and issued still is.                    *)
LEMMA UpdateAllBooks ==
    ASSUME now \in Nat, NEW s, NEW n \in Nat, Books(s, n)
    PROVE  Books(UpdateAll(s), n)
  BY AccrueBooks, DistributeBooks DEF UpdateAll

(* The whole of _update for one account, which has then nothing to settle.    *)
LEMMA UpdateBooks ==
    ASSUME now \in Nat, NEW s, NEW n \in Nat, Books(s, n), NEW a \in Accounts
    PROVE  /\ Books(Update(s, a), n)
           /\ Update(s, a).creditDebt[a] = Update(s, a).accCreditPerToken
           /\ Update(s, a).rewardDebt[a] = RewardShare(Update(s, a), a)
<1> DEFINE u == UpdateAll(s)
           w == SettleRewards(u, a)
           r == SettleCredits(w, a)
<1>1. Books(u, n)
  BY UpdateAllBooks
<1> HIDE DEF u
<1>2. Books(w, n) /\ w.rewardDebt[a] = RewardShare(w, a)
  BY <1>1, SettleRewardsBooks
<1> HIDE DEF w
<1>3. Books(r, n) /\ r.creditDebt[a] = r.accCreditPerToken /\ Same(RewardFields, w, r)
  BY <1>2, SettleCreditsBooks
<1>4. RewardShare(r, a) = RewardShare(w, a) /\ r.rewardDebt = w.rewardDebt
  BY <1>3 DEF RewardShare, Same, RewardFields
<1> HIDE DEF r
<1>5. Update(s, a) = r
  BY DEF Update, u, w, r
<1> QED
  BY <1>2, <1>3, <1>4, <1>5

-------------------------------------------------------------------------------
(* Each transaction keeps both balances.                                      *)

(* A change of stake after _update: the new stake owes what the accumulators   *)
(* show.                                                                      *)
Restaked(s, r, a, stake) ==
    /\ s.creditDebt[a] = s.accCreditPerToken /\ s.rewardDebt[a] = RewardShare(s, a)
    /\ r.stakeOf = [s.stakeOf EXCEPT ![a] = stake]
    /\ r.rewardDebt = [s.rewardDebt EXCEPT ![a] = (stake * s.accRewardPerShare) \div Acc]
    /\ r.creditDebt = [s.creditDebt EXCEPT ![a] = s.accCreditPerToken]
    /\ r.restakes = s.restakes + 1
    /\ r.totalStaked = s.totalStaked - s.stakeOf[a] + stake
    /\ Same((RewardFields \union CreditFields \union KeptFields)
               \ {"stakeOf", "rewardDebt", "creditDebt", "restakes", "totalStaked"}, s, r)

(* Nothing but one rounding moves.                                            *)
LEMMA RestakeBooks ==
    ASSUME now \in Nat, NEW s, NEW n \in Nat, Books(s, n), NEW a \in Accounts,
           NEW stake \in Nat, NEW r, Good(r), Restaked(s, r, a, stake)
    PROVE  Books(r, n)
<1> USE DEF Restaked
<1>1. Good(s) /\ Kept(s) /\ RewardBalance(s) /\ CreditBalance(s, n)
  BY DEF Books
<1>2. /\ s.stakeOf \in [Accounts -> Nat] /\ s.rewardDebt \in [Accounts -> Nat]
      /\ s.creditDebt \in [Accounts -> Nat] /\ s.accRewardPerShare \in Nat
      /\ r.stakeOf \in [Accounts -> Nat] /\ r.creditDebt \in [Accounts -> Nat]
      /\ s.accCreditPerToken \in Nat
  BY <1>1, GoodFields
<1>3. /\ r.accrued = s.accrued /\ r.pendingPayouts = s.pendingPayouts
      /\ r.undistributedRewards = s.undistributedRewards /\ NotYet(r) = NotYet(s)
      /\ r.accRewardPerShare = s.accRewardPerShare /\ r.accCreditPerToken = s.accCreditPerToken
      /\ r.emissions = s.emissions /\ r.totalRewardLiability = s.totalRewardLiability
  BY DEF Same, RewardFields, CreditFields, KeptFields, NotYet
<1>4. /\ Whole(r) = Whole(s) /\ r.totalCreditsIssued = s.totalCreditsIssued
      /\ r.creditRemainderScaled = s.creditRemainderScaled
      /\ r.creditAccumulatorRemainderScaled = s.creditAccumulatorRemainderScaled
  BY DEF Same, RewardFields, CreditFields, KeptFields, Whole
<1>5. CreditBalance(r, n)
  <2>1. Fractions(r) = Fractions(s)
    <3>1. ASSUME NEW b \in Accounts PROVE Fraction(r, b) = Fraction(s, b)
      <4>1. CASE b = a
        <5>1. s.accCreditPerToken - s.creditDebt[a] = 0 /\ r.creditDebt[a] = s.accCreditPerToken
          BY <1>2
        <5>2. Fraction(r, a) = r.stakeOf[a] * 0 /\ Fraction(s, a) = s.stakeOf[a] * 0
          BY <1>2, <1>3, <5>1 DEF Fraction
        <5>3. r.stakeOf[a] \in Nat /\ s.stakeOf[a] \in Nat
          BY <1>2
        <5> QED
          BY <4>1, <5>2, <5>3
      <4>2. CASE b # a
        BY <1>2, <1>3, <4>2 DEF Fraction
      <4> QED
        BY <4>1, <4>2
    <3> QED
      BY <3>1 DEF Fractions
  <2> QED
    BY <1>1, <1>4, <2>1 DEF CreditBalance, Parts
<1>6. /\ OwedScaledOf(r) <= OwedScaledOf(s) + (Acc - 1)
      /\ OwedScaledOf(s) <= OwedScaledOf(r) + (Acc - 1)
  <2> DEFINE f == Unsettleds(s)
             g == Unsettleds(r)
             o == OwedOf(s) * Acc
  <2>1. f \in [Accounts -> Nat] /\ g \in [Accounts -> Nat] /\ IsFiniteSet(Accounts)
    BY <1>1, Scales, UnsettledNatural
  <2>2. ASSUME NEW b \in Accounts, b # a PROVE g[b] = f[b]
    BY <1>2, <1>3, <2>2 DEF Unsettleds, UnsettledOf
  <2>3. ASSUME NEW k \in Nat, NEW c \in Nat
        PROVE  k * c - ((k * c) \div Acc) * Acc \in 0..(Acc - 1)
    <3> DEFINE e == k * c
               q == e \div Acc
               m == e % Acc
    <3>1. e \in Nat
      OBVIOUS
    <3>2. q \in Nat /\ m \in Nat /\ e = q * Acc + m /\ m <= Acc - 1
      <4> HIDE DEF e
      <4> QED
        BY <3>1, Scales, QuotientRemainder
    <3>3. Acc \in Nat \ {0}
      BY Scales
    <3> HIDE DEF e, q, m
    <3>4. q * Acc \in Nat
      BY <3>2, <3>3
    <3>5. e - q * Acc \in 0..(Acc - 1)
      BY <3>1, <3>2, <3>3, <3>4
    <3> QED
      BY <3>5 DEF e, q
  <2>4. f[a] \in 0..(Acc - 1)
    <3>1. f[a] = s.stakeOf[a] * s.accRewardPerShare
                    - ((s.stakeOf[a] * s.accRewardPerShare) \div Acc) * Acc
      BY DEF Unsettleds, UnsettledOf, RewardShare
    <3>2. s.stakeOf[a] \in Nat
      BY <1>2
    <3> HIDE DEF f
    <3> QED
      BY <1>2, <2>3, <3>1, <3>2
  <2>5. g[a] \in 0..(Acc - 1)
    <3>1. g[a] = stake * s.accRewardPerShare - ((stake * s.accRewardPerShare) \div Acc) * Acc
      BY <1>2, <1>3 DEF Unsettleds, UnsettledOf
    <3> HIDE DEF g
    <3> QED
      BY <1>2, <2>3, <3>1
  <2>6. o \in Nat
    BY <1>1, Scales, OwedNatural
  <2>7. OwedScaledOf(s) = o + SumFunction(f) /\ OwedScaledOf(r) = o + SumFunction(g)
    BY <1>3 DEF OwedScaledOf, OwedOf
  <2> HIDE DEF f, g, o
  <2>8. SumFunction(g) = SumFunction(f) - f[a] + g[a] /\ SumFunction(f) \in Nat
    BY <2>1, <2>2, TotalChange
  <2>9. Acc \in Nat \ {0}
    BY Scales
  <2> QED
    BY <2>4, <2>5, <2>6, <2>7, <2>8, <2>9
<1>7. RewardBalance(r)
  BY <1>1, <1>3, <1>6, RestakeRounds
<1>8. Kept(r)
  <2>1. SumFunction(r.stakeOf) = SumFunction(s.stakeOf) - s.stakeOf[a] + stake
    <3> DEFINE f == s.stakeOf
               g == r.stakeOf
    <3>1. f \in [Accounts -> Nat] /\ g \in [Accounts -> Nat] /\ IsFiniteSet(Accounts)
      BY <1>2, Scales
    <3>2. g[a] = stake /\ \A b \in Accounts : b # a => g[b] = f[b]
      BY <1>2
    <3> HIDE DEF f, g
    <3>3. SumFunction(g) = SumFunction(f) - f[a] + g[a]
      BY <3>1, <3>2, TotalChange
    <3> QED
      BY <3>2, <3>3 DEF f, g
  <2>2. /\ r.burned = s.burned /\ r.emissions = s.emissions /\ r.lastUpdate = s.lastUpdate
        /\ r.stakingActive = s.stakingActive /\ r.rewardFinish = s.rewardFinish
    BY DEF Same, RewardFields, CreditFields, KeptFields
  <2> QED
    BY <1>1, <2>1, <2>2 DEF Kept
<1> QED
  BY <1>5, <1>7, <1>8 DEF Books

(* What a reward or a payout adds to or takes from the liability it adds to or  *)
(* takes from what is owed.                                                   *)
LEMMA LiabilityMoves ==
    ASSUME NEW s, NEW r, Good(s), Good(r), Kept(s), Kept(r), NEW d \in Nat,
           OwedOf(r) = OwedOf(s) + d, r.totalRewardLiability = s.totalRewardLiability + d,
           Unsettleds(r) = Unsettleds(s),
           r.restakes = s.restakes, r.emissions = s.emissions
    PROVE  RewardBalance(r) <=> RewardBalance(s)
<1> DEFINE x == OwedScaledOf(s)
           y == OwedScaledOf(r)
           L == s.totalRewardLiability * Acc
           M == r.totalRewardLiability * Acc
           D == d * Acc
           K == s.restakes * (Acc - 1)
           E == (s.emissions + s.restakes) * (Acc - 1)
<1>1. /\ x \in Nat /\ L \in Nat /\ K \in Nat /\ E \in Nat /\ D \in Nat
      /\ M = L + D /\ y = x + D
  <2>1. /\ s.emissions \in Nat /\ s.restakes \in Nat /\ s.totalRewardLiability \in Nat
        /\ Acc \in Nat \ {0} /\ OwedOf(s) \in Nat
    BY Scales, GoodFields, OwedNatural DEF Kept
  <2>2. PICK c \in Nat : c = Acc - 1
    BY <2>1
  <2>3. s.restakes * c \in Nat /\ (s.emissions + s.restakes) * c \in Nat
    BY <2>1
  <2>4. L \in Nat /\ D \in Nat /\ M = L + D
    BY <2>1
  <2>5. OwedOf(s) * Acc \in Nat /\ (OwedOf(s) + d) * Acc = OwedOf(s) * Acc + D
    BY <2>1
  <2>6. SumFunction(Unsettleds(s)) \in Nat
    BY TotalsNatural
  <2>7. x \in Nat /\ y = x + D
    <3> DEFINE o == OwedOf(s) * Acc
               U == SumFunction(Unsettleds(s))
    <3>1. x = o + U /\ y = (o + D) + U
      BY <2>5 DEF OwedScaledOf
    <3> HIDE DEF o, U, x, y, D
    <3> QED
      BY <2>4, <2>5, <2>6, <3>1 DEF o, U
  <2> QED
    BY <2>2, <2>3, <2>4, <2>7
<1>2. /\ RewardBalance(s) <=> x + K >= L /\ x <= L + E
      /\ RewardBalance(r) <=> y + K >= M /\ y <= M + E
  BY DEF RewardBalance
<1> HIDE DEF x, y, L, M, D, K, E
<1> QED
  BY <1>1, <1>2

(* The fields of the conserved quantities, all at once.                        *)
AllFields == RewardFields \union CreditFields \union KeptFields

(* Nothing changes when none of the fields does.                              *)
LEMMA Untouched ==
    ASSUME NEW s, NEW r, NEW n, Books(s, n), Good(r), Same(AllFields, s, r)
    PROVE  Books(r, n)
<1>1. Same(RewardFields, s, r) /\ Same(CreditFields, s, r) /\ Same(KeptFields, s, r)
  BY DEF Same, AllFields
<1> QED
  BY <1>1, RewardsUntouched, CreditsUntouched, KeptUntouched DEF Books

(* An entry of a book and its total.                                          *)
LEMMA EntryMoves ==
    ASSUME NEW f \in [Accounts -> Nat], NEW a \in Accounts, NEW k \in Nat
    PROVE  /\ SumFunction([f EXCEPT ![a] = k]) = SumFunction(f) - f[a] + k
           /\ SumFunction(f) \in Nat /\ f[a] \in Nat /\ f[a] <= SumFunction(f)
<1> DEFINE g == [f EXCEPT ![a] = k]
<1>1. /\ g \in [Accounts -> Nat] /\ IsFiniteSet(Accounts)
      /\ g[a] = k /\ \A b \in Accounts : b # a => g[b] = f[b]
  BY Scales
<1> HIDE DEF g
<1>2. SumFunction(g) = SumFunction(f) - f[a] + k /\ SumFunction(f) \in Nat /\ f[a] <= SumFunction(f)
  BY <1>1, TotalChange
<1> QED
  BY <1>2 DEF g

(* Activation schedules nothing, so restarting the clock loses nothing.       *)
LEMMA ActivateBooks ==
    ASSUME Inv, Books(v, 0), Good(v'), ActivateStaking
    PROVE  Books(v', 0)
<1>1. Good(v) /\ Kept(v) /\ RewardBalance(v) /\ CreditBalance(v, 0) /\ now \in Nat
  BY DEF Books, Inv
<1>2. AmountFields \union BookFields \union OtherFields \subseteq DOMAIN v
  BY <1>1, GoodFields
<1>3. /\ Same(AllFields \ {"stakingActive", "lastUpdate"}, v, v') /\ v'.lastUpdate = now
      /\ v'.stakingActive = TRUE
  BY <1>2 DEF ActivateStaking, Same, AllFields, RewardFields, CreditFields, KeptFields,
     AmountFields, BookFields, OtherFields
<1>4. /\ v'.accrued = v.accrued /\ v'.pendingPayouts = v.pendingPayouts
      /\ v'.undistributedRewards = v.undistributedRewards /\ Unsettleds(v') = Unsettleds(v)
      /\ v'.restakes = v.restakes /\ v'.emissions = v.emissions
      /\ v'.totalRewardLiability = v.totalRewardLiability
      /\ v'.rewardFinish = v.rewardFinish /\ v'.rewardRate = v.rewardRate
  BY <1>3 DEF Same, AllFields, RewardFields, CreditFields, KeptFields, Unsettleds, UnsettledOf
<1>5. NotYet(v') = NotYet(v)
  <2>1. v.rewardFinish = 0 /\ v.lastUpdate \in Nat
    BY <1>1, GoodFields DEF Kept, ActivateStaking
  <2>2. ~(v.lastUpdate < v.rewardFinish) /\ ~(v'.lastUpdate < v'.rewardFinish)
    BY <1>1, <1>3, <1>4, <2>1
  <2> QED
    BY <1>4, <2>2 DEF NotYet
<1>6. RewardBalance(v')
  BY <1>1, <1>4, <1>5 DEF RewardBalance, OwedScaledOf, OwedOf
<1>7. CreditBalance(v', 0)
  <2>1. Same(CreditFields, v, v')
    BY <1>3 DEF Same, AllFields, CreditFields
  <2> QED
    BY <1>1, <2>1, CreditsUntouched
<1>8. Kept(v')
  BY <1>1, <1>3 DEF Kept, Same, AllFields, RewardFields, CreditFields, KeptFields
<1> QED
  BY <1>6, <1>7, <1>8 DEF Books

(* Surplus AZL comes and goes outside of the books.                           *)
LEMMA SurplusBooks ==
    ASSUME Inv, Books(v, 0), Good(v'),
           Donate \/ \E amount \in StakeAmounts : RescueSurplus(amount)
    PROVE  Books(v', 0)
<1>1. AmountFields \union BookFields \union OtherFields \subseteq DOMAIN v
  BY GoodFields DEF Books
<1>2. Same(AllFields, v, v')
  BY <1>1 DEF Donate, RescueSurplus, Same, AllFields, RewardFields, CreditFields, KeptFields,
     AmountFields, BookFields, OtherFields
<1> QED
  BY <1>2, Untouched

(* After _update, what is not yet emitted is what is left of the schedule.     *)
LEMMA RemainingNotYet ==
    ASSUME now \in Nat, NEW s, Good(s), Kept(s)
    PROVE  NotYet(Distribute(s)) = Remaining(Distribute(s))
<1> DEFINE r == Distribute(s)
<1>1. /\ s.lastUpdate \in Nat /\ s.lastUpdate <= now /\ s.rewardFinish \in Nat
      /\ s.rewardRate \in Nat /\ AmountFields \union BookFields \union OtherFields \subseteq DOMAIN s
  BY GoodFields DEF Kept
<1>2. /\ r.rewardFinish = s.rewardFinish /\ r.rewardRate = s.rewardRate
      /\ r.lastUpdate = IF Until(s) <= s.lastUpdate THEN s.lastUpdate ELSE Until(s)
  BY <1>1 DEF Distribute, AmountFields, OtherFields
<1> HIDE DEF r
<1>3. CASE now < s.rewardFinish
  <2>1. r.lastUpdate = now
    BY <1>1, <1>2, <1>3 DEF Until
  <2> QED
    BY <1>2, <1>3, <2>1 DEF NotYet, Remaining, r
<1>4. CASE ~(now < s.rewardFinish)
  <2>1. ~(r.lastUpdate < r.rewardFinish)
    BY <1>1, <1>2, <1>4 DEF Until
  <2>2. NotYet(r) = 0 * r.rewardRate
    BY <2>1 DEF NotYet
  <2>3. NotYet(r) = 0
    BY <1>1, <1>2, <2>2
  <2> QED
    BY <1>2, <1>4, <2>3 DEF Remaining, r
<1> QED
  BY <1>3, <1>4

(* _update does not start or stop the vault.                                  *)
LEMMA UpdateAllActive ==
    ASSUME NEW s, Good(s)
    PROVE  UpdateAll(s).stakingActive = s.stakingActive
<1> DEFINE r == AccrueCredits(s)
<1>1. "stakingActive" \in DOMAIN s
  BY GoodFields DEF OtherFields
<1>2. r.stakingActive = s.stakingActive /\ DOMAIN r = DOMAIN s
  BY <1>1 DEF AccrueCredits
<1> HIDE DEF r
<1>3. Distribute(r).stakingActive = r.stakingActive
  BY <1>1, <1>2 DEF Distribute
<1> QED
  BY <1>2, <1>3 DEF UpdateAll, r

(* A notified reward is owed in full: what is rescheduled is what was not yet  *)
(* emitted, and what does not divide is undistributed.                         *)
LEMMA NotifyBooks ==
    ASSUME Inv, Books(v, 0), Good(v'), NEW amount \in RewardAmounts, NotifyReward(amount)
    PROVE  Books(v', 0)
<1> DEFINE s == UpdateAll(v)
           scheduled == Scheduled(s, amount)
           rate == scheduled \div RewardDuration
           rest == scheduled % RewardDuration
<1>1. Books(v, 0) /\ now \in Nat /\ amount \in Nat /\ RewardDuration \in Nat \ {0}
  BY Scales DEF Inv
<1>2. Books(s, 0)
  BY <1>1, UpdateAllBooks
<1>3. NotYet(s) = Remaining(s)
  <2>1. Books(AccrueCredits(v), 0)
    BY <1>1, AccrueBooks
  <2> QED
    BY <1>1, <2>1, RemainingNotYet DEF UpdateAll, Books
<1>4. s.stakingActive
  BY <1>1, UpdateAllActive DEF Books, NotifyReward
<1>5. v' = [s EXCEPT !.balance = @ + amount, !.rewardRate = rate,
                     !.undistributedRewards = @ + rest, !.rewardFinish = now + RewardDuration,
                     !.lastUpdate = now, !.totalRewardLiability = @ + amount]
  BY DEF NotifyReward
<1> HIDE DEF s
<1>6. Good(s) /\ Kept(s) /\ RewardBalance(s) /\ CreditBalance(s, 0)
  BY <1>2 DEF Books
<1>7. /\ scheduled = amount + NotYet(s) /\ NotYet(s) \in Nat
  BY <1>3, <1>6, TotalsNatural DEF Scheduled
<1>8. rate \in Nat /\ rest \in Nat /\ scheduled = rate * RewardDuration + rest
  <2> HIDE DEF scheduled
  <2>1. scheduled \in Nat
    BY <1>1, <1>7
  <2> QED
    BY <1>1, <2>1, QuotientRemainder
<1> HIDE DEF scheduled, rate, rest
<1>9. /\ Same(CreditFields, s, v')
      /\ Same(AllFields \ {"rewardRate", "undistributedRewards", "rewardFinish", "lastUpdate",
                           "totalRewardLiability"}, s, v')
      /\ v'.rewardRate = rate /\ v'.undistributedRewards = s.undistributedRewards + rest
      /\ v'.rewardFinish = now + RewardDuration /\ v'.lastUpdate = now
      /\ v'.totalRewardLiability = s.totalRewardLiability + amount
  BY <1>5, <1>6, GoodFields DEF Same, AllFields, RewardFields, CreditFields, KeptFields,
     AmountFields, BookFields, OtherFields
<1>10. /\ v'.accrued = s.accrued /\ v'.pendingPayouts = s.pendingPayouts
       /\ Unsettleds(v') = Unsettleds(s)
       /\ v'.restakes = s.restakes /\ v'.emissions = s.emissions
  BY <1>9 DEF Same, AllFields, RewardFields, Unsettleds, UnsettledOf
<1>11. NotYet(v') = rate * RewardDuration
  <2>1. v'.lastUpdate < v'.rewardFinish /\ v'.rewardFinish - v'.lastUpdate = RewardDuration
    BY <1>1, <1>9
  <2>2. NotYet(v') = RewardDuration * rate
    BY <1>9, <2>1 DEF NotYet
  <2> QED
    BY <1>1, <1>8, <2>2
<1>12. OwedOf(v') = OwedOf(s) + amount
  <2>1. /\ SumFunction(s.accrued) \in Nat /\ SumFunction(s.pendingPayouts) \in Nat
        /\ s.undistributedRewards \in Nat
    BY <1>6, TotalsNatural
  <2> DEFINE p == rate * RewardDuration
  <2>2. p \in Nat
    BY <1>1, <1>8
  <2>3. p + rest = amount + NotYet(s)
    BY <1>7, <1>8
  <2>4. OwedOf(v') = SumFunction(s.accrued) + SumFunction(s.pendingPayouts)
                        + (s.undistributedRewards + rest) + p
    BY <1>9, <1>10, <1>11 DEF OwedOf
  <2> HIDE DEF p
  <2> QED
    BY <1>1, <1>7, <1>8, <2>1, <2>2, <2>3, <2>4 DEF OwedOf
<1>13. Kept(v')
  <2>1. v'.stakingActive = s.stakingActive
    BY <1>9 DEF Same, AllFields, KeptFields
  <2>2. /\ v'.emissions = s.emissions /\ v'.restakes = s.restakes /\ v'.burned = s.burned
        /\ v'.totalStaked = s.totalStaked /\ v'.stakeOf = s.stakeOf
    BY <1>9 DEF Same, AllFields, KeptFields
  <2> QED
    BY <1>1, <1>4, <1>6, <1>9, <2>1, <2>2 DEF Kept
<1>14. RewardBalance(v')
  BY <1>1, <1>6, <1>9, <1>10, <1>12, <1>13, LiabilityMoves
<1> QED
  BY <1>6, <1>9, <1>13, <1>14, CreditsUntouched DEF Books

(* A checkpoint and banking credits are _update alone.                        *)
LEMMA UpdateKeepsBooks ==
    ASSUME Inv, Books(v, 0), Checkpoint \/ \E a \in Accounts : BankCredits(a)
    PROVE  Books(v', 0)
<1>1. now \in Nat
  BY DEF Inv
<1>2. CASE Checkpoint
  BY <1>1, <1>2, UpdateAllBooks DEF Checkpoint
<1>3. CASE \E a \in Accounts : BankCredits(a)
  BY <1>1, <1>3, UpdateBooks DEF BankCredits
<1> QED
  BY <1>2, <1>3

(* What is paid leaves what is owed and the liability alike.                   *)
LEMMA PaidBooks ==
    ASSUME NEW s, NEW r, NEW d \in Nat, Books(s, 0), Good(r), Same(CreditFields, s, r),
           Same(KeptFields, s, r), OwedOf(s) = OwedOf(r) + d, Unsettleds(r) = Unsettleds(s),
           s.totalRewardLiability = r.totalRewardLiability + d
    PROVE  Books(r, 0)
<1>1. Good(s) /\ Kept(s) /\ RewardBalance(s) /\ CreditBalance(s, 0)
  BY DEF Books
<1>2. Kept(r) /\ CreditBalance(r, 0)
  BY <1>1, KeptUntouched, CreditsUntouched
<1>3. s.restakes = r.restakes /\ s.emissions = r.emissions
  BY DEF Same, KeptFields
<1>4. RewardBalance(s) <=> RewardBalance(r)
  BY <1>1, <1>2, <1>3, LiabilityMoves
<1> QED
  BY <1>1, <1>2, <1>4 DEF Books

(* A claim is paid, or waits as a deferred payout.                            *)
LEMMA ClaimBooks ==
    ASSUME Inv, Books(v, 0), Good(v'), NEW a \in Accounts, NEW refused \in BOOLEAN,
           Claim(a, refused)
    PROVE  Books(v', 0)
<1> DEFINE s == Update(v, a)
           amount == s.accrued[a]
           claimed == [s EXCEPT !.accrued[a] = 0]
<1>1. now \in Nat /\ Books(v, 0)
  BY DEF Inv
<1>2. Books(s, 0)
  BY <1>1, UpdateBooks
<1>3. \/ v' = [claimed EXCEPT !.pendingPayouts = Plus(@, a, amount)]
      \/ /\ amount <= s.totalRewardLiability
         /\ v' = [claimed EXCEPT !.totalRewardLiability = @ - amount, !.balance = @ - amount]
  <2> HIDE DEF s
  <2> QED
    BY DEF Claim, s
<1> HIDE DEF s
<1>4. /\ Good(s) /\ s.accrued \in [Accounts -> Nat] /\ s.pendingPayouts \in [Accounts -> Nat]
      /\ amount \in Nat /\ AmountFields \union BookFields \union OtherFields \subseteq DOMAIN s
      /\ s.totalRewardLiability \in Nat
  BY <1>2, GoodFields DEF Books
<1> HIDE DEF amount
<1>5. /\ SumFunction([s.accrued EXCEPT ![a] = 0]) = SumFunction(s.accrued) - amount
      /\ SumFunction(s.accrued) \in Nat /\ amount <= SumFunction(s.accrued)
  <2> DEFINE f == s.accrued
  <2>1. f \in [Accounts -> Nat] /\ f[a] = amount
    BY <1>4 DEF amount
  <2> HIDE DEF f
  <2>2. /\ SumFunction([f EXCEPT ![a] = 0]) = SumFunction(f) - f[a] + 0
        /\ SumFunction(f) \in Nat /\ f[a] <= SumFunction(f)
    BY <2>1, EntryMoves
  <2>3. SumFunction(f) - f[a] + 0 = SumFunction(f) - amount
    BY <1>4, <2>1, <2>2
  <2> QED
    BY <2>1, <2>2, <2>3 DEF f
<1>6. /\ SumFunction(s.pendingPayouts) \in Nat /\ s.undistributedRewards \in Nat
      /\ NotYet(s) \in Nat
  BY <1>4, TotalsNatural
<1>7. CASE v' = [claimed EXCEPT !.pendingPayouts = Plus(@, a, amount)]
  <2>1. /\ Same(AllFields \ {"accrued", "pendingPayouts"}, s, v')
        /\ v'.accrued = [s.accrued EXCEPT ![a] = 0]
        /\ v'.pendingPayouts = Plus(s.pendingPayouts, a, amount)
    BY <1>4, <1>7 DEF Same, AllFields, RewardFields, CreditFields, KeptFields,
       AmountFields, BookFields, OtherFields
  <2>2. /\ Same(CreditFields, s, v') /\ Same(KeptFields, s, v')
        /\ NotYet(v') = NotYet(s) /\ v'.undistributedRewards = s.undistributedRewards
        /\ Unsettleds(v') = Unsettleds(s) /\ v'.totalRewardLiability = s.totalRewardLiability
    BY <2>1 DEF Same, AllFields, RewardFields, CreditFields, KeptFields, NotYet, Unsettleds,
       UnsettledOf
  <2>3. SumFunction(v'.pendingPayouts) = SumFunction(s.pendingPayouts) + amount
    <3> DEFINE f == s.pendingPayouts
               k == f[a] + amount
    <3>1. f \in [Accounts -> Nat] /\ f[a] \in Nat
      BY <1>4
    <3>2. v'.pendingPayouts = [f EXCEPT ![a] = k]
      BY <2>1 DEF Plus
    <3> HIDE DEF f
    <3>3. k \in Nat
      BY <1>4, <3>1
    <3>4. SumFunction([f EXCEPT ![a] = k]) = SumFunction(f) - f[a] + k /\ SumFunction(f) \in Nat
      <4> HIDE DEF k
      <4> QED
        BY <3>1, <3>3, EntryMoves
    <3>5. SumFunction(f) - f[a] + k = SumFunction(f) + amount
      BY <1>4, <3>1, <3>4
    <3> HIDE DEF k
    <3> QED
      BY <3>2, <3>4, <3>5 DEF f
  <2>4. OwedOf(s) = OwedOf(v') + 0
    BY <1>4, <1>5, <1>6, <2>1, <2>2, <2>3 DEF OwedOf
  <2>5. s.totalRewardLiability = v'.totalRewardLiability + 0
    BY <1>4, <2>2
  <2> QED
    BY <1>2, <2>2, <2>4, <2>5, PaidBooks
<1>8. CASE /\ amount <= s.totalRewardLiability
           /\ v' = [claimed EXCEPT !.totalRewardLiability = @ - amount, !.balance = @ - amount]
  <2>1. /\ Same(AllFields \ {"accrued", "totalRewardLiability"}, s, v')
        /\ v'.accrued = [s.accrued EXCEPT ![a] = 0]
        /\ v'.totalRewardLiability = s.totalRewardLiability - amount
    BY <1>4, <1>8 DEF Same, AllFields, RewardFields, CreditFields, KeptFields,
       AmountFields, BookFields, OtherFields
  <2>2. /\ Same(CreditFields, s, v') /\ Same(KeptFields, s, v')
        /\ NotYet(v') = NotYet(s) /\ v'.undistributedRewards = s.undistributedRewards
        /\ Unsettleds(v') = Unsettleds(s) /\ v'.pendingPayouts = s.pendingPayouts
    BY <2>1 DEF Same, AllFields, RewardFields, CreditFields, KeptFields, NotYet, Unsettleds,
       UnsettledOf
  <2>3. OwedOf(s) = OwedOf(v') + amount
    BY <1>4, <1>5, <1>6, <2>1, <2>2 DEF OwedOf
  <2>4. s.totalRewardLiability = v'.totalRewardLiability + amount
    BY <1>4, <2>1
  <2> QED
    BY <1>2, <1>4, <2>2, <2>3, <2>4, PaidBooks
<1> QED
  BY <1>3, <1>7, <1>8

(* A deferred payout is paid.                                                 *)
LEMMA PayoutBooks ==
    ASSUME Inv, Books(v, 0), Good(v'), NEW a \in Accounts, ClaimPayout(a)
    PROVE  Books(v', 0)
<1> DEFINE amount == v.pendingPayouts[a]
<1>1. /\ Good(v) /\ v.pendingPayouts \in [Accounts -> Nat] /\ amount \in Nat
      /\ AmountFields \union BookFields \union OtherFields \subseteq DOMAIN v
      /\ v.totalRewardLiability \in Nat
  BY GoodFields DEF Books
<1>2. /\ Same(AllFields \ {"pendingPayouts", "totalRewardLiability"}, v, v')
      /\ v'.pendingPayouts = [v.pendingPayouts EXCEPT ![a] = 0]
      /\ v'.totalRewardLiability = v.totalRewardLiability - amount
  BY <1>1 DEF ClaimPayout, Same, AllFields, RewardFields, CreditFields, KeptFields,
     AmountFields, BookFields, OtherFields
<1>3. /\ Same(CreditFields, v, v') /\ Same(KeptFields, v, v')
      /\ NotYet(v') = NotYet(v) /\ v'.undistributedRewards = v.undistributedRewards
      /\ Unsettleds(v') = Unsettleds(v) /\ v'.accrued = v.accrued
  BY <1>2 DEF Same, AllFields, RewardFields, CreditFields, KeptFields, NotYet, Unsettleds,
     UnsettledOf
<1>4. /\ SumFunction(v'.pendingPayouts) = SumFunction(v.pendingPayouts) - amount
      /\ SumFunction(v.pendingPayouts) \in Nat
  <2> DEFINE f == v.pendingPayouts
  <2>1. f \in [Accounts -> Nat] /\ f[a] = amount
    BY <1>1
  <2> HIDE DEF f
  <2>2. SumFunction([f EXCEPT ![a] = 0]) = SumFunction(f) - f[a] + 0 /\ SumFunction(f) \in Nat
    BY <2>1, EntryMoves
  <2> HIDE DEF amount
  <2>3. SumFunction(f) - f[a] + 0 = SumFunction(f) - amount
    BY <1>1, <2>1, <2>2
  <2> QED
    BY <1>2, <2>2, <2>3 DEF f
<1> HIDE DEF amount
<1>5. OwedOf(v) = OwedOf(v') + amount
  <2>1. SumFunction(v.accrued) \in Nat /\ v.undistributedRewards \in Nat /\ NotYet(v) \in Nat
    BY <1>1, TotalsNatural
  <2> QED
    BY <1>1, <1>3, <1>4, <2>1 DEF OwedOf
<1>6. v.totalRewardLiability = v'.totalRewardLiability + amount
  BY <1>1, <1>2
<1> QED
  BY <1>1, <1>3, <1>5, <1>6, PaidBooks

(* Undistributed rewards go back to the treasury.                             *)
LEMMA RescueBooks ==
    ASSUME Inv, Books(v, 0), Good(v'), NEW amount \in StakeAmounts, RescueUndistributed(amount)
    PROVE  Books(v', 0)
<1> DEFINE s == UpdateAll(v)
<1>1. now \in Nat /\ amount \in Nat /\ Books(s, 0)
  BY Scales, UpdateAllBooks DEF Inv
<1>2. /\ amount <= s.undistributedRewards
      /\ v' = [s EXCEPT !.undistributedRewards = @ - amount,
                        !.totalRewardLiability = @ - amount, !.balance = @ - amount]
  BY DEF RescueUndistributed
<1> HIDE DEF s
<1>3. /\ Good(s) /\ s.totalRewardLiability \in Nat
      /\ AmountFields \union BookFields \union OtherFields \subseteq DOMAIN s
  BY <1>1, GoodFields DEF Books
<1>4. /\ Same(AllFields \ {"undistributedRewards", "totalRewardLiability"}, s, v')
      /\ v'.undistributedRewards = s.undistributedRewards - amount
      /\ v'.totalRewardLiability = s.totalRewardLiability - amount
  BY <1>2, <1>3 DEF Same, AllFields, RewardFields, CreditFields, KeptFields,
     AmountFields, BookFields, OtherFields
<1>5. /\ Same(CreditFields, s, v') /\ Same(KeptFields, s, v')
      /\ NotYet(v') = NotYet(s) /\ Unsettleds(v') = Unsettleds(s)
      /\ v'.accrued = s.accrued /\ v'.pendingPayouts = s.pendingPayouts
  BY <1>4 DEF Same, AllFields, RewardFields, CreditFields, KeptFields, NotYet, Unsettleds,
     UnsettledOf
<1>6. OwedOf(s) = OwedOf(v') + amount
  <2>1. /\ SumFunction(s.accrued) \in Nat /\ SumFunction(s.pendingPayouts) \in Nat
        /\ s.undistributedRewards \in Nat /\ NotYet(s) \in Nat
    BY <1>3, TotalsNatural
  <2> QED
    BY <1>1, <1>4, <1>5, <2>1 DEF OwedOf
<1>7. s.totalRewardLiability = v'.totalRewardLiability + amount
  BY <1>1, <1>3, <1>4
<1> QED
  BY <1>1, <1>5, <1>6, <1>7, PaidBooks

(* Staking and unstaking change one stake after _update.                      *)
LEMMA StakeBooks ==
    ASSUME Inv, Books(v, 0), Good(v'), NEW a \in Accounts, NEW amount \in StakeAmounts,
           Stake(a, amount) \/ Unstake(a, amount)
    PROVE  Books(v', 0)
<1> DEFINE s == Update(v, a)
           stake == IF Stake(a, amount) THEN s.stakeOf[a] + amount ELSE s.stakeOf[a] - amount
           total == IF Stake(a, amount) THEN s.totalStaked + amount ELSE s.totalStaked - amount
           funds == IF Stake(a, amount) THEN s.balance + amount ELSE s.balance - amount
           r == Restake(s, a, stake)
<1>1. now \in Nat /\ amount \in Nat /\ Good(v) /\ Books(v, 0)
  BY Scales DEF Inv
<1>2. /\ Books(s, 0) /\ s.creditDebt[a] = s.accCreditPerToken
      /\ s.rewardDebt[a] = RewardShare(s, a)
  BY <1>1, UpdateBooks
<1>3. SameFunds(v, s)
  BY <1>1, StakingAssumption, UpdateGood
<1>4. /\ v' = [r EXCEPT !.totalStaked = total, !.balance = funds]
      /\ ~Stake(a, amount) => amount <= v.stakeOf[a]
  <2> HIDE DEF s
  <2>1. /\ Restake(s, a, stake).totalStaked = s.totalStaked
        /\ Restake(s, a, stake).balance = s.balance
    <3> HIDE DEF stake
    <3>1. AmountFields \union BookFields \union OtherFields \subseteq DOMAIN s
      BY <1>2, GoodFields DEF Books
    <3> QED
      BY <3>1 DEF Restake, AmountFields, OtherFields, BookFields
  <2>2. CASE Stake(a, amount)
    <3>1. v' = [Restake(s, a, s.stakeOf[a] + amount) EXCEPT
                   !.totalStaked = @ + amount, !.balance = @ + amount]
      BY <2>2 DEF Stake, s
    <3>2. stake = s.stakeOf[a] + amount /\ total = s.totalStaked + amount
          /\ funds = s.balance + amount
      BY <2>2
    <3> HIDE DEF stake, total, funds
    <3> QED
      BY <2>1, <2>2, <3>1, <3>2
  <2>3. CASE ~Stake(a, amount)
    <3>1. /\ v' = [Restake(s, a, s.stakeOf[a] - amount) EXCEPT
                      !.totalStaked = @ - amount, !.balance = @ - amount]
          /\ amount <= v.stakeOf[a]
      BY <2>3 DEF Unstake, s
    <3>2. stake = s.stakeOf[a] - amount /\ total = s.totalStaked - amount
          /\ funds = s.balance - amount
      BY <2>3
    <3> HIDE DEF stake, total, funds
    <3> QED
      BY <2>1, <3>1, <3>2
  <2> QED
    BY <2>2, <2>3
<1> HIDE DEF s
<1>5. /\ Good(s) /\ s.stakeOf \in [Accounts -> Nat] /\ s.totalStaked \in Nat
      /\ AmountFields \union BookFields \union OtherFields \subseteq DOMAIN s
  BY <1>2, GoodFields DEF Books
<1>6. stake \in Nat /\ total = s.totalStaked - s.stakeOf[a] + stake
  <2>1. s.stakeOf[a] \in Nat /\ (~Stake(a, amount) => amount <= s.stakeOf[a])
    BY <1>3, <1>4, <1>5 DEF SameFunds
  <2>2. CASE Stake(a, amount)
    <3>1. stake = s.stakeOf[a] + amount /\ total = s.totalStaked + amount
      BY <2>2
    <3> HIDE DEF stake, total
    <3> QED
      BY <1>1, <1>5, <2>1, <3>1
  <2>3. CASE ~Stake(a, amount)
    <3>1. stake = s.stakeOf[a] - amount /\ total = s.totalStaked - amount
      BY <2>3
    <3> HIDE DEF stake, total
    <3> QED
      BY <1>1, <1>5, <2>1, <2>3, <3>1
  <2> QED
    BY <2>2, <2>3
<1> HIDE DEF stake, total, funds
<1>7. /\ v'.stakeOf = [s.stakeOf EXCEPT ![a] = stake]
      /\ v'.rewardDebt = [s.rewardDebt EXCEPT ![a] = (stake * s.accRewardPerShare) \div Acc]
      /\ v'.creditDebt = [s.creditDebt EXCEPT ![a] = s.accCreditPerToken]
      /\ v'.restakes = s.restakes + 1 /\ v'.totalStaked = total
      /\ Same((RewardFields \union CreditFields \union KeptFields)
                 \ {"stakeOf", "rewardDebt", "creditDebt", "restakes", "totalStaked"}, s, v')
  BY <1>4, <1>5 DEF Restake, Same, RewardFields, CreditFields, KeptFields, AmountFields,
     BookFields, OtherFields
<1>8. Restaked(s, v', a, stake)
  BY <1>2, <1>6, <1>7 DEF Restaked
<1> QED
  BY <1>1, <1>2, <1>6, <1>8, RestakeBooks

(* A credit moves between an account, a task and nobody: the whole ones in     *)
(* transit change by what the places together change.                          *)
LEMMA WholeMoves ==
    ASSUME NEW s, NEW r, NEW n \in Nat, NEW m \in Nat, Books(s, n), Good(r),
           Same(AllFields \ {"bankedCredits", "outstandingTaskCredits", "burned"}, s, r),
           r.burned \in Nat, Whole(r) + m = Whole(s) + n
    PROVE  Books(r, m)
<1>1. Good(s) /\ Kept(s) /\ RewardBalance(s) /\ CreditBalance(s, n)
  BY DEF Books
<1>2. Same(RewardFields, s, r) /\ Same(KeptFields \ {"burned"}, s, r)
  BY DEF Same, AllFields, RewardFields, KeptFields
<1>3. Kept(r)
  BY <1>1, <1>2 DEF Kept, Same, KeptFields
<1>4. /\ Parts(r) = Parts(s) /\ r.totalCreditsIssued = s.totalCreditsIssued
  BY DEF Same, AllFields, CreditFields, Parts, Fractions, Fraction
<1>5. CreditBalance(r, m)
  BY <1>1, <1>4 DEF CreditBalance
<1> QED
  BY <1>1, <1>2, <1>3, <1>5, RewardsUntouched DEF Books

(* Spending locks a banked credit in a task.                                  *)
LEMMA SpendBooks ==
    ASSUME Inv, Books(v, 0), Good(v'), NEW a \in Accounts, NEW t \in Tasks,
           NEW isPost \in BOOLEAN, TrySpendCredit(a, t, isPost)
    PROVE  Books(v', 0)
<1> DEFINE s == Update(v, a)
<1>1. now \in Nat /\ Books(s, 0) /\ CreditUnit \in Nat
  BY Scales, UpdateBooks DEF Inv
<1>2. \/ v' = s
      \/ /\ ~(s.bankedCredits[a] < CreditUnit)
         /\ v' = [s EXCEPT !.bankedCredits = Minus(@, a, CreditUnit),
                           !.taskCreditPayer[t][isPost] = a,
                           !.outstandingTaskCredits = @ + CreditUnit]
  BY DEF TrySpendCredit
<1> HIDE DEF s
<1>3. CASE v' = s
  BY <1>1, <1>3
<1>4. CASE /\ ~(s.bankedCredits[a] < CreditUnit)
           /\ v' = [s EXCEPT !.bankedCredits = Minus(@, a, CreditUnit),
                             !.taskCreditPayer[t][isPost] = a,
                             !.outstandingTaskCredits = @ + CreditUnit]
  <2>1. /\ Good(s) /\ s.bankedCredits \in [Accounts -> Nat] /\ s.outstandingTaskCredits \in Nat
        /\ AmountFields \union BookFields \union OtherFields \subseteq DOMAIN s
        /\ s.burned \in Nat
    BY <1>1, GoodFields DEF Books, Kept
  <2>2. /\ Same(AllFields \ {"bankedCredits", "outstandingTaskCredits", "burned"}, s, v')
        /\ v'.bankedCredits = Minus(s.bankedCredits, a, CreditUnit)
        /\ v'.outstandingTaskCredits = s.outstandingTaskCredits + CreditUnit
        /\ v'.burned = s.burned
    BY <1>4, <2>1 DEF Same, AllFields, RewardFields, CreditFields, KeptFields,
       AmountFields, BookFields, OtherFields
  <2>3. SumFunction(v'.bankedCredits) = SumFunction(s.bankedCredits) - CreditUnit
        /\ SumFunction(s.bankedCredits) \in Nat
    <3> DEFINE f == s.bankedCredits
               k == f[a] - CreditUnit
    <3>1. f \in [Accounts -> Nat] /\ f[a] \in Nat /\ ~(f[a] < CreditUnit)
      BY <1>4, <2>1
    <3>2. v'.bankedCredits = [f EXCEPT ![a] = k]
      BY <2>2 DEF Minus
    <3> HIDE DEF f
    <3>3. k \in Nat
      BY <1>1, <3>1
    <3>4. SumFunction([f EXCEPT ![a] = k]) = SumFunction(f) - f[a] + k /\ SumFunction(f) \in Nat
      <4> HIDE DEF k
      <4> QED
        BY <3>1, <3>3, EntryMoves
    <3>5. SumFunction(f) - f[a] + k = SumFunction(f) - CreditUnit
      BY <1>1, <3>1, <3>4
    <3> HIDE DEF k
    <3> QED
      BY <3>2, <3>4, <3>5 DEF f
  <2>4. Whole(v') + 0 = Whole(s) + 0
    BY <1>1, <2>1, <2>2, <2>3 DEF Whole
  <2>5. v'.burned \in Nat
    BY <2>1, <2>2
  <2> QED
    BY <1>1, <2>2, <2>4, <2>5, WholeMoves
<1> QED
  BY <1>2, <1>3, <1>4

(* Settling burns a locked credit or banks it for its payee.                  *)
LEMMA SettleBooks ==
    ASSUME Inv, Books(v, 0), Good(v'), NEW from \in Accounts,
           NEW to \in Accounts \union {Nobody}, NEW t \in Tasks, NEW isPost \in BOOLEAN,
           SettleSpentCredit(t, from, to, isPost)
    PROVE  Books(v', 0)
<1> DEFINE settled == [v EXCEPT !.taskCreditPayer[t][isPost] = Nobody,
                                !.outstandingTaskCredits = @ - CreditUnit]
           paid == Update(settled, from)
           s == Update(paid, to)
<1>1. now \in Nat /\ CreditUnit \in Nat /\ v.outstandingTaskCredits >= CreditUnit
  BY Scales DEF Inv, SettleSpentCredit
<1>2. \/ v' = [settled EXCEPT !.burned = @ + CreditUnit]
      \/ to \in Accounts /\ v' = [s EXCEPT !.bankedCredits = Plus(@, to, CreditUnit)]
  BY DEF SettleSpentCredit
<1>3. Books(settled, CreditUnit)
  <2>1. /\ Good(v) /\ v.bankedCredits \in [Accounts -> Nat] /\ v.outstandingTaskCredits \in Nat
        /\ AmountFields \union BookFields \union OtherFields \subseteq DOMAIN v
        /\ v.burned \in Nat /\ SumFunction(v.bankedCredits) \in Nat
    BY GoodFields, TotalsNatural DEF Books, Kept
  <2>2. /\ DOMAIN settled = DOMAIN v /\ settled.bankedCredits = v.bankedCredits
        /\ settled.outstandingTaskCredits = v.outstandingTaskCredits - CreditUnit
        /\ settled.burned = v.burned
        /\ Same(AllFields \ {"bankedCredits", "outstandingTaskCredits", "burned"}, v, settled)
        /\ \A f \in (AmountFields \ {"outstandingTaskCredits"})
                      \union (BookFields \ {"bankedCredits"}) : settled[f] = v[f]
    BY <2>1 DEF Same, AllFields, RewardFields, CreditFields, KeptFields,
       AmountFields, BookFields, OtherFields
  <2> HIDE DEF settled
  <2>3. settled.outstandingTaskCredits \in Nat /\ settled.bankedCredits \in [Accounts -> Nat]
    BY <1>1, <2>1, <2>2
  <2>4. Good(settled)
    BY <1>1, <2>1, <2>2, <2>3, StakingAssumption, CreditMoved
  <2>5. Whole(settled) + CreditUnit = Whole(v) + 0
    BY <1>1, <2>1, <2>2 DEF Whole
  <2> QED
    BY <1>1, <2>1, <2>2, <2>4, <2>5, WholeMoves
<1> HIDE DEF settled
<1>4. CASE v' = [settled EXCEPT !.burned = @ + CreditUnit]
  <2>1. /\ Good(settled) /\ settled.burned \in Nat /\ settled.outstandingTaskCredits \in Nat
        /\ AmountFields \union BookFields \union OtherFields \subseteq DOMAIN settled
        /\ SumFunction(settled.bankedCredits) \in Nat
    BY <1>3, GoodFields, TotalsNatural DEF Books, Kept
  <2>2. /\ Same(AllFields \ {"bankedCredits", "outstandingTaskCredits", "burned"}, settled, v')
        /\ v'.bankedCredits = settled.bankedCredits /\ v'.burned = settled.burned + CreditUnit
        /\ v'.outstandingTaskCredits = settled.outstandingTaskCredits
    BY <1>4, <2>1 DEF Same, AllFields, RewardFields, CreditFields, KeptFields,
       AmountFields, BookFields, OtherFields
  <2>3. Whole(v') + 0 = Whole(settled) + CreditUnit /\ v'.burned \in Nat
    BY <1>1, <2>1, <2>2 DEF Whole
  <2> QED
    BY <1>1, <1>3, <2>2, <2>3, WholeMoves
<1>5. CASE to \in Accounts /\ v' = [s EXCEPT !.bankedCredits = Plus(@, to, CreditUnit)]
  <2>1. Books(paid, CreditUnit)
    BY <1>1, <1>3, UpdateBooks
  <2> HIDE DEF paid
  <2>2. Books(s, CreditUnit)
    BY <1>1, <1>5, <2>1, UpdateBooks
  <2> HIDE DEF s
  <2>3. /\ Good(s) /\ s.burned \in Nat /\ s.outstandingTaskCredits \in Nat
        /\ AmountFields \union BookFields \union OtherFields \subseteq DOMAIN s
        /\ s.bankedCredits \in [Accounts -> Nat]
    BY <2>2, GoodFields DEF Books, Kept
  <2>4. /\ Same(AllFields \ {"bankedCredits", "outstandingTaskCredits", "burned"}, s, v')
        /\ v'.bankedCredits = Plus(s.bankedCredits, to, CreditUnit) /\ v'.burned = s.burned
        /\ v'.outstandingTaskCredits = s.outstandingTaskCredits
    BY <1>5, <2>3 DEF Same, AllFields, RewardFields, CreditFields, KeptFields,
       AmountFields, BookFields, OtherFields
  <2>5. /\ SumFunction(v'.bankedCredits) = SumFunction(s.bankedCredits) + CreditUnit
        /\ SumFunction(s.bankedCredits) \in Nat
    <3> DEFINE f == s.bankedCredits
               k == f[to] + CreditUnit
    <3>1. f \in [Accounts -> Nat] /\ f[to] \in Nat /\ to \in Accounts
      BY <1>5, <2>3
    <3>2. v'.bankedCredits = [f EXCEPT ![to] = k]
      BY <2>4 DEF Plus
    <3> HIDE DEF f
    <3>3. k \in Nat
      BY <1>1, <3>1
    <3>4. SumFunction([f EXCEPT ![to] = k]) = SumFunction(f) - f[to] + k /\ SumFunction(f) \in Nat
      <4> HIDE DEF k
      <4> QED
        BY <3>1, <3>3, EntryMoves
    <3>5. SumFunction(f) - f[to] + k = SumFunction(f) + CreditUnit
      BY <1>1, <3>1, <3>4
    <3> HIDE DEF k
    <3> QED
      BY <3>2, <3>4, <3>5 DEF f
  <2>6. Whole(v') + 0 = Whole(s) + CreditUnit /\ v'.burned \in Nat
    BY <1>1, <2>3, <2>4, <2>5 DEF Whole
  <2> QED
    BY <1>1, <2>2, <2>4, <2>6, WholeMoves
<1> QED
  BY <1>2, <1>4, <1>5

(* An empty vault has issued and owes nothing.                                *)
LEMMA InitBooks ==
    ASSUME Init, Inv
    PROVE  Books(v, 0)
<1>1. Good(v)
  BY DEF Inv
<1>2. /\ v.stakeOf = Zero /\ v.accrued = Zero /\ v.pendingPayouts = Zero
      /\ v.bankedCredits = Zero /\ v.creditRemainderScaled = Zero /\ v.rewardDebt = Zero
      /\ v.creditDebt = Zero
      /\ v.totalStaked = 0 /\ v.undistributedRewards = 0 /\ v.totalRewardLiability = 0
      /\ v.accRewardPerShare = 0 /\ v.rewardRate = 0 /\ v.rewardFinish = 0 /\ v.lastUpdate = 0
      /\ v.totalCreditsIssued = 0 /\ v.outstandingTaskCredits = 0 /\ v.accCreditPerToken = 0
      /\ v.creditAccumulatorRemainderScaled = 0
      /\ v.emissions = 0 /\ v.restakes = 0 /\ v.burned = 0 /\ now = 0
  BY DEF Init
<1>3. /\ Zero \in [Accounts -> Nat] /\ \A a \in Accounts : Zero[a] = 0
      /\ IsFiniteSet(Accounts) /\ Acc \in Nat \ {0} /\ CreditAcc \in Nat \ {0}
  BY Scales DEF Zero
<1>4. SumFunction(Zero) = 0
  BY <1>3, TotalZero
<1>5. SumFunction(Unsettleds(v)) = 0 /\ SumFunction(Fractions(v)) = 0
  <2>1. \A a \in Accounts : Unsettleds(v)[a] = 0 /\ Fractions(v)[a] = 0
    BY <1>2, <1>3 DEF Unsettleds, UnsettledOf, Fractions, Fraction
  <2>2. Unsettleds(v) \in [Accounts -> Nat] /\ Fractions(v) \in [Accounts -> Nat]
    BY <1>1, UnsettledNatural, FractionNatural
  <2> QED
    BY <1>3, <2>1, <2>2, TotalZero
<1>6. NotYet(v) = 0
  BY <1>2 DEF NotYet
<1>7. OwedScaledOf(v) = 0
  <2>1. OwedOf(v) = 0
    BY <1>2, <1>4, <1>6 DEF OwedOf
  <2> QED
    BY <1>3, <1>5, <2>1 DEF OwedScaledOf
<1>8. RewardBalance(v)
  BY <1>2, <1>3, <1>7 DEF RewardBalance
<1>9. CreditBalance(v, 0)
  <2>1. Whole(v) = 0 /\ Parts(v) = 0
    BY <1>2, <1>4, <1>5 DEF Whole, Parts
  <2> QED
    BY <1>2, <1>3, <2>1 DEF CreditBalance
<1>10. Kept(v)
  BY <1>2, <1>4 DEF Kept
<1> QED
  BY <1>1, <1>8, <1>9, <1>10 DEF Books

-------------------------------------------------------------------------------
(* Rewards and credits are conserved.                                         *)

Conserved == Inv /\ Books(v, 0)

(* A transaction keeps the books.                                             *)
LEMMA TransactionBooks ==
    ASSUME Conserved, Transaction, Good(v')
    PROVE  Books(v', 0)
<1>1. Inv /\ Books(v, 0)
  BY DEF Conserved
<1>2. CASE ActivateStaking
  BY <1>1, <1>2, ActivateBooks
<1>3. CASE Checkpoint \/ \E a \in Accounts : BankCredits(a)
  BY <1>1, <1>3, UpdateKeepsBooks
<1>4. CASE Donate \/ \E amount \in StakeAmounts : RescueSurplus(amount)
  BY <1>1, <1>4, SurplusBooks
<1>5. CASE \E amount \in RewardAmounts : NotifyReward(amount)
  BY <1>1, <1>5, NotifyBooks
<1>6. CASE \E amount \in StakeAmounts : RescueUndistributed(amount)
  BY <1>1, <1>6, RescueBooks
<1>7. CASE \E a \in Accounts : ClaimPayout(a)
  BY <1>1, <1>7, PayoutBooks
<1>8. CASE \E a \in Accounts, refused \in BOOLEAN : Claim(a, refused)
  BY <1>1, <1>8, ClaimBooks
<1>9. CASE \E a \in Accounts, amount \in StakeAmounts : Stake(a, amount) \/ Unstake(a, amount)
  BY <1>1, <1>9, StakeBooks
<1>10. CASE \E a \in Accounts, t \in Tasks, isPost \in BOOLEAN : TrySpendCredit(a, t, isPost)
  BY <1>1, <1>10, SpendBooks
<1>11. CASE \E a \in Accounts, t \in Tasks, isPost \in BOOLEAN :
               \E to \in Accounts \cup {Nobody} : SettleSpentCredit(t, a, to, isPost)
  BY <1>1, <1>11, SettleBooks
<1> QED
  BY <1>2, <1>3, <1>4, <1>5, <1>6, <1>7, <1>8, <1>9, <1>10, <1>11 DEF Transaction

(* The books hold after any sequence of the vault's transactions: every reward *)
(* notified and unpaid is owed but for the counted roundings, every credit     *)
(* issued is somewhere, and the total stake is the sum of the stakes.          *)
THEOREM StakingConserves == Spec => []Conserved
<1>1. Init /\ Inv => Conserved
  BY InitBooks DEF Conserved
<1>2. Inv /\ Inv' /\ Conserved /\ [Next]_vars => Conserved'
  <2> SUFFICES ASSUME Inv, Inv', Conserved, [Next]_vars
               PROVE  Conserved'
    OBVIOUS
  <2>1. CASE Transaction /\ UNCHANGED now
    <3>1. Good(v')
      BY <2>1 DEF Inv, Good, Natural, Ahead, RewardShare
    <3>2. Books(v', 0)
      BY <2>1, <3>1, TransactionBooks
    <3>3. (Books(v, 0))'
      BY <2>1, <3>1, <3>2 DEF Inv, Books, Kept, RewardBalance, CreditBalance, OwedScaledOf,
         OwedOf, NotYet, Unsettleds, UnsettledOf, Whole, Parts, Fractions, Fraction
    <3> QED
      BY <3>3 DEF Conserved
  <2>2. CASE Tick \/ UNCHANGED vars
    <3>1. v' = v /\ now \in Nat /\ (now' = now + 1 \/ now' = now)
      BY <2>2 DEF Tick, vars, Inv
    <3>2. Books(v, 0) /\ v.lastUpdate \in Nat
      BY GoodFields DEF Conserved, Books
    <3>3. Kept(v)'
      BY <3>1, <3>2 DEF Books, Kept
    <3>4. (Books(v, 0))'
      BY <3>1, <3>2, <3>3 DEF Inv, Books, RewardBalance, CreditBalance, OwedScaledOf,
         OwedOf, NotYet, Unsettleds, UnsettledOf, Whole, Parts, Fractions, Fraction
    <3> QED
      BY <3>4 DEF Conserved
  <2> QED
    BY <2>1, <2>2 DEF Next
<1> QED
  BY <1>1, <1>2, StakingSound, PTL DEF Spec

(* Every reward the treasury has notified and nobody has been paid is still    *)
(* owed, however stakes change and schedules are replaced, up to less than one *)
(* unit per emission and change of stake.                                      *)
THEOREM StakingRewardsConserved == Spec => []RewardsConserved
<1>1. Conserved => RewardsConserved
  <2> SUFFICES ASSUME Conserved
               PROVE  RewardsConserved
    OBVIOUS
  <2>1. Kept(v) /\ RewardBalance(v)
    BY DEF Conserved, Books
  <2>2. OwedScaled = OwedScaledOf(v)
    BY DEF OwedScaled, Owed, NotYetEmitted, Unsettled, OwedScaledOf, OwedOf, NotYet,
       Unsettleds, UnsettledOf
  <2> QED
    BY <2>1, <2>2 DEF RewardsConserved, Kept, RewardBalance
<1> QED
  BY <1>1, StakingConserves, PTL

(* Every credit issued is banked, a fraction, locked in a task or burned, and   *)
(* no more are issued than the cap.                                           *)
THEOREM StakingCreditsConserved == Spec => []CreditsConserved
<1>1. Conserved => CreditsConserved
  <2> SUFFICES ASSUME Conserved
               PROVE  CreditsConserved
    OBVIOUS
  <2>1. Good(v) /\ Kept(v) /\ CreditBalance(v, 0) /\ v.totalCreditsIssued <= CreditCap
    BY DEF Conserved, Books, Good, Ahead
  <2>2. Whole(v) \in Nat
    BY <2>1, TotalsNatural, GoodFields DEF Whole, Kept
  <2>3. v.totalCreditsIssued * CreditAcc = Whole(v) * CreditAcc + Parts(v)
    <3>1. Whole(v) + 0 = Whole(v)
      BY <2>2
    <3> QED
      BY <2>1, <3>1 DEF CreditBalance
  <2> DEFINE R == SumFunction(v.creditRemainderScaled)
             c == v.creditAccumulatorRemainderScaled
             F == SumFunction(Fractions(v))
             W == Whole(v) * CreditAcc
  <2>4. W \in Nat /\ R \in Nat /\ c \in Nat /\ F \in Nat
    BY <2>1, <2>2, Scales, TotalsNatural
  <2>5. v.totalCreditsIssued * CreditAcc = W + R + c + F
    <3>1. v.totalCreditsIssued * CreditAcc = W + (R + c + F)
      BY <2>3 DEF Parts
    <3> HIDE DEF W, R, c, F
    <3> QED
      BY <2>4, <3>1
  <2> QED
    BY <2>1, <2>5 DEF CreditsConserved, Whole, Fractions, Fraction
<1> QED
  BY <1>1, StakingConserves, PTL

-------------------------------------------------------------------------------
(* The staking arithmetic implements the ledger of Action Credits.             *)

(* What the vault shows of itself as a ledger.                                *)
LedgerOf(s) ==
    [stakingActive |-> s.stakingActive,
     bankedCredits |-> s.bankedCredits,
     taskCreditPayer |-> s.taskCreditPayer,
     totalCreditsIssued |-> s.everBanked,
     outstandingTaskCredits |-> s.outstandingTaskCredits]

LedgerFields ==
    {"stakingActive", "bankedCredits", "taskCreditPayer", "everBanked", "outstandingTaskCredits",
     "burned", "stakeOf"}

(* Of s, r has changed by updates of the accounts in U only: they banked, and  *)
(* what they banked is counted.  Without stake nobody banks.                  *)
Banked(s, r, U) ==
    /\ Same(LedgerFields \ {"bankedCredits", "everBanked"}, s, r)
    /\ \A x \in Accounts : /\ r.bankedCredits[x] >= s.bankedCredits[x]
                           /\ x \notin U => r.bankedCredits[x] = s.bankedCredits[x]
    /\ r.everBanked + SumFunction(s.bankedCredits) = s.everBanked + SumFunction(r.bankedCredits)
    /\ r.everBanked \in Nat
    /\ (\A x \in Accounts : s.stakeOf[x] = 0) => r.bankedCredits = s.bankedCredits

(* The credits ever banked are those that are banked, locked or burned, and n  *)
(* in transit; nobody stakes before staking starts.                           *)
LedgerKept(s, n) ==
    /\ Books(s, n)
    /\ s.everBanked = Whole(s) + n
    /\ ~s.stakingActive => \A x \in Accounts : s.stakeOf[x] = 0

Difference(f, g) == [x \in Accounts |-> g[x] - f[x]]

(* What the accounts have banked from s to r.                                 *)
Earned(s, r) == Difference(s.bankedCredits, r.bankedCredits)

(* The sums of ActionCredits are those of Staking.                            *)
LEMMA CreditSums ==
    ASSUME NEW f, NEW S
    PROVE  /\ Credits!SumFunctionOnSet(f, S) = SumFunctionOnSet(f, S)
           /\ Credits!SumFunction(f) = SumFunction(f)
BY DEF Credits!SumFunction, SumFunction, Credits!SumFunctionOnSet, SumFunctionOnSet,
       Credits!FoldFunctionOnSet, FoldFunctionOnSet, Credits!MapThenFoldSet, MapThenFoldSet

(* What two balances differ by, when at most two entries do.                   *)
LEMMA PairSums ==
    ASSUME NEW f \in [Accounts -> Nat], NEW g \in [Accounts -> Nat],
           NEW a \in Accounts, NEW b \in Accounts,
           \A x \in Accounts : g[x] >= f[x] /\ (x \notin {a, b} => g[x] = f[x])
    PROVE  /\ Difference(f, g) \in [Accounts -> Nat]
           /\ SumFunction(f) \in Nat /\ SumFunction(g) \in Nat
           /\ SumFunction(Difference(f, g)) \in Nat
           /\ SumFunction(g) = SumFunction(f) + SumFunction(Difference(f, g))
           /\ SumFunctionOnSet(Difference(f, g), {a, b}) = SumFunction(Difference(f, g))
           /\ \A x \in Accounts : Difference(f, g)[x] <= SumFunction(Difference(f, g))
<1> DEFINE e == Difference(f, g)
<1>0. e = [x \in Accounts |-> g[x] - f[x]]
  BY DEF Difference
<1> HIDE DEF e
<1>1. /\ e \in [Accounts -> Nat] /\ IsFiniteSet(Accounts)
      /\ \A x \in Accounts : g[x] = f[x] + e[x] /\ e[x] \in Nat
      /\ \A x \in Accounts \ {a, b} : e[x] = 0
  BY <1>0, Scales
<1>2. /\ SumFunction(f) \in Nat /\ SumFunction(g) \in Nat /\ SumFunction(e) \in Nat
      /\ \A x \in Accounts : e[x] <= SumFunction(e)
  BY <1>1, TotalType, TotalMember
<1> DEFINE h == [f EXCEPT ![a] = g[a]]
           On(S) == SumFunctionOnSet(e, S)
<1>3. NatsOn(e, Accounts) /\ SumFunction(e) = On(Accounts)
  BY <1>1, TotalIsSum
<1>4. \A S \in SUBSET Accounts : IsFiniteSet(S) /\ NatsOn(e, S)
  BY <1>1, <1>3, FS_Subset DEF NatsOn
<1>5. \A S \in SUBSET Accounts : On(S) \in Nat /\ \A x \in S : On(S) = e[x] + On(S \ {x})
  BY <1>4, SumType, SumRemove
<1>6. On(Accounts \ {a, b}) = 0 /\ On({}) = 0
  BY <1>1, <1>4, SumZero
<1>7. SumFunction(h) = SumFunction(f) + e[a] /\ h \in [Accounts -> Nat]
      /\ \A x \in Accounts : x # b => g[x] = h[x]
  <2>1. h \in [Accounts -> Nat] /\ h[a] = g[a] /\ g[a] = f[a] + e[a] /\ f[a] \in Nat /\ e[a] \in Nat
        /\ \A x \in Accounts : x # a => h[x] = f[x]
    BY <1>1
  <2>2. g[a] \in Nat
    OBVIOUS
  <2>3. SumFunction(h) = SumFunction(f) - f[a] + g[a]
    BY <2>2, EntryMoves
  <2>4. \A x \in Accounts : x # b => g[x] = h[x]
    BY <2>1
  <2> HIDE DEF h
  <2> QED
    BY <1>2, <2>1, <2>3, <2>4
<1>8. /\ SumFunction(g) = SumFunction(f) + SumFunction(e)
      /\ SumFunctionOnSet(e, {a, b}) = SumFunction(e)
  <2>1. CASE a = b
    <3>1. g = h
      BY <1>7, <2>1
    <3>2. {a, b} = {a} /\ {a} \ {a} = {} /\ Accounts \ {a, b} = Accounts \ {a}
      BY <2>1
    <3>3. On({a}) = e[a] + On({}) /\ On(Accounts) = e[a] + On(Accounts \ {a})
      <4> HIDE DEF On
      <4>1. {a} \in SUBSET Accounts /\ a \in {a}
        OBVIOUS
      <4>2. On({a}) = e[a] + On({a} \ {a}) /\ On(Accounts) = e[a] + On(Accounts \ {a})
        BY <1>5, <4>1
      <4> QED BY <3>2, <4>2
    <3>4. On({a, b}) = On(Accounts) /\ On(Accounts) = e[a]
      <4> HIDE DEF On
      <4>1. On(Accounts \ {a}) = 0 /\ On({}) = 0 /\ On({a, b}) = On({a}) /\ e[a] \in Nat
        BY <1>1, <1>6, <3>2
      <4> QED BY <3>3, <4>1
    <3> HIDE DEF h, On
    <3> QED
      BY <1>1, <1>2, <1>3, <1>7, <3>1, <3>4 DEF On
  <2>2. CASE a # b
    <3>1. /\ {a, b} \ {a} = {b} /\ {b} \ {b} = {} /\ (Accounts \ {a}) \ {b} = Accounts \ {a, b}
          /\ Accounts \ {a} \in SUBSET Accounts /\ b \in Accounts \ {a}
      BY <2>2
    <3>2. /\ On({a, b}) = e[a] + On({b}) /\ On({b}) = e[b] + On({})
          /\ On(Accounts) = e[a] + On(Accounts \ {a})
          /\ On(Accounts \ {a}) = e[b] + On(Accounts \ {a, b})
      <4> HIDE DEF On
      <4>1. {a, b} \in SUBSET Accounts /\ {b} \in SUBSET Accounts
        OBVIOUS
      <4>2. /\ On({a, b}) = e[a] + On({a, b} \ {a}) /\ On({b}) = e[b] + On({b} \ {b})
            /\ On(Accounts) = e[a] + On(Accounts \ {a})
            /\ On(Accounts \ {a}) = e[b] + On((Accounts \ {a}) \ {b})
        BY <1>5, <3>1, <4>1
      <4> QED BY <3>1, <4>2
    <3>3. On({a, b}) = On(Accounts) /\ On(Accounts) = e[a] + e[b]
      <4> HIDE DEF On
      <4> QED BY <1>1, <1>6, <3>2
    <3>4. h[b] = f[b] /\ g[b] = f[b] + e[b] /\ f[b] \in Nat /\ e[b] \in Nat
      BY <1>1, <2>2
    <3> HIDE DEF h
    <3>5. SumFunction(g) = SumFunction(h) - h[b] + g[b]
      <4>1. g = [h EXCEPT ![b] = g[b]]
        BY <1>7
      <4>2. SumFunction([h EXCEPT ![b] = g[b]]) = SumFunction(h) - h[b] + g[b]
        BY <1>7, <3>4, EntryMoves
      <4> QED BY <4>1, <4>2
    <3> HIDE DEF On
    <3> QED
      BY <1>1, <1>2, <1>3, <1>7, <3>3, <3>4, <3>5 DEF On
  <2> QED
    BY <2>1, <2>2
<1> QED
  BY <1>1, <1>2, <1>8 DEF e

(* An entry that grows or shrinks moves the total as much.                     *)
LEMMA EntryPlusMinus ==
    ASSUME NEW f \in [Accounts -> Nat], NEW a \in Accounts, NEW k \in Nat
    PROVE  /\ SumFunction(Plus(f, a, k)) = SumFunction(f) + k
           /\ f[a] >= k => SumFunction(Minus(f, a, k)) = SumFunction(f) - k
           /\ SumFunction(f) \in Nat
<1>1. f[a] \in Nat /\ SumFunction(f) \in Nat /\ f[a] + k \in Nat
      /\ (f[a] >= k => f[a] - k \in Nat)
  BY EntryMoves
<1>2. SumFunction(Plus(f, a, k)) = SumFunction(f) - f[a] + (f[a] + k)
  BY <1>1, EntryMoves DEF Plus
<1>3. f[a] >= k => SumFunction(Minus(f, a, k)) = SumFunction(f) - f[a] + (f[a] - k)
  BY <1>1, EntryMoves DEF Minus
<1> QED
  BY <1>1, <1>2, <1>3

(* Accrual, distribution and the settlement of rewards touch no ledger field.  *)
LEMMA UpdateAllLedger ==
    ASSUME NEW s, Good(s)
    PROVE  Same(LedgerFields, s, UpdateAll(s)) /\ DOMAIN UpdateAll(s) = DOMAIN s
<1> DEFINE r == AccrueCredits(s)
<1>1. LedgerFields \subseteq DOMAIN s
  BY GoodFields DEF AmountFields, BookFields, OtherFields, LedgerFields
<1>2. Same(LedgerFields, s, r) /\ DOMAIN r = DOMAIN s
  <2> DEFINE scaled == (now - s.lastCreditAccrual) * CreditUnit * s.totalStaked
                          + s.creditEmissionRemainder
             remaining == CreditCap - s.totalCreditsIssued
             period == Issue(scaled \div CreditTokenTime, remaining)
             accumulator == period * CreditAcc + s.creditAccumulatorRemainderScaled
             rest == IF period = remaining THEN 0 ELSE scaled % CreditTokenTime
             grown == accumulator \div s.totalStaked
             left == accumulator % s.totalStaked
             closes == period = remaining
             emitted == [s EXCEPT !.lastCreditAccrual = now, !.creditEmissionRemainder = rest]
             issued == [emitted EXCEPT
                          !.totalCreditsIssued = @ + period,
                          !.accCreditPerToken = @ + grown,
                          !.creditAccumulatorRemainderScaled = left,
                          !.creditIssuanceClosed = closes]
  <2>1. \/ r = s
        \/ r = [s EXCEPT !.lastCreditAccrual = now]
        \/ r = emitted
        \/ r = issued
    BY DEF AccrueCredits
  <2> HIDE DEF scaled, remaining, period, accumulator, rest, grown, left, closes, r
  <2> QED
    BY <1>1, <2>1 DEF Same, LedgerFields
<1> HIDE DEF r
<1>3. Same(LedgerFields, r, Distribute(r)) /\ DOMAIN Distribute(r) = DOMAIN r
  BY <1>1, <1>2 DEF Distribute, Same, LedgerFields
<1> QED
  BY <1>2, <1>3 DEF UpdateAll, Same, r

(* Settling an account's credits banks what it has earned.                    *)
LEMMA SettleCreditsBanked ==
    ASSUME now \in Nat, NEW s, Good(s), s.everBanked \in Nat, NEW a \in Accounts
    PROVE  Banked(s, SettleCredits(s, a), {a})
<1> DEFINE scaled == s.stakeOf[a] * (s.accCreditPerToken - s.creditDebt[a])
                        + s.creditRemainderScaled[a]
           k == scaled \div CreditAcc
           m == scaled % CreditAcc
           settled == [s EXCEPT !.creditDebt[a] = s.accCreditPerToken]
           r == SettleCredits(s, a)
<1>1. /\ s.bankedCredits \in [Accounts -> Nat] /\ s.creditRemainderScaled[a] \in Nat
      /\ LedgerFields \union {"creditDebt", "creditRemainderScaled"} \subseteq DOMAIN s
  BY GoodFields, TotalsNatural DEF AmountFields, BookFields, OtherFields, LedgerFields
<1>2. k \in Nat
  <2>1. scaled \in Nat
    BY <1>1, FractionNatural DEF Fraction
  <2> HIDE DEF scaled
  <2> QED
    BY <2>1, Scales, DivFacts
<1>3. IF s.stakeOf[a] = 0 THEN r = settled
      ELSE r = [settled EXCEPT !.creditRemainderScaled[a] = m,
                               !.bankedCredits = Plus(@, a, k), !.everBanked = @ + k]
  BY DEF SettleCredits
<1> HIDE DEF k, m, scaled, r
<1>4. CASE s.stakeOf[a] = 0
  <2>1. Same(LedgerFields, s, r)
    BY <1>1, <1>3, <1>4 DEF Same, LedgerFields
  <2>2. SumFunction(s.bankedCredits) \in Nat /\ \A x \in Accounts : s.bankedCredits[x] \in Nat
    BY <1>1, TotalsNatural
  <2> QED
    BY <2>1, <2>2 DEF Banked, Same, LedgerFields, r
<1>5. CASE s.stakeOf[a] # 0
  <2>1. /\ Same(LedgerFields \ {"bankedCredits", "everBanked"}, s, r)
        /\ r.bankedCredits = Plus(s.bankedCredits, a, k)
        /\ r.everBanked = s.everBanked + k
    BY <1>1, <1>3, <1>5 DEF Same, LedgerFields
  <2>2. /\ SumFunction(r.bankedCredits) = SumFunction(s.bankedCredits) + k
        /\ SumFunction(s.bankedCredits) \in Nat
    BY <1>1, <1>2, <2>1, EntryPlusMinus
  <2>3. \A x \in Accounts : /\ r.bankedCredits[x] >= s.bankedCredits[x]
                            /\ x \notin {a} => r.bankedCredits[x] = s.bankedCredits[x]
    BY <1>1, <1>2, <2>1 DEF Plus
  <2>4. ~\A x \in Accounts : s.stakeOf[x] = 0
    BY <1>5
  <2>5. r.everBanked \in Nat
        /\ r.everBanked + SumFunction(s.bankedCredits) = s.everBanked + SumFunction(r.bankedCredits)
    BY <1>2, <2>1, <2>2
  <2> QED
    BY <2>1, <2>3, <2>4, <2>5 DEF Banked, r
<1> QED
  BY <1>4, <1>5

(* The whole _update of an account.                                           *)
LEMMA UpdateBanked ==
    ASSUME now \in Nat, NEW s, Good(s), s.everBanked \in Nat, NEW a \in Accounts
    PROVE  Banked(s, Update(s, a), {a})
<1> DEFINE u == UpdateAll(s)
           w == SettleRewards(u, a)
           r == SettleCredits(w, a)
<1>1. Same(LedgerFields, s, u) /\ Good(u)
  BY StakingAssumption, UpdateAllLedger, UpdateAllGood
<1> HIDE DEF u
<1>2. Same(LedgerFields, u, w) /\ Good(w)
  <2>1. LedgerFields \subseteq DOMAIN u
    BY <1>1, GoodFields DEF AmountFields, BookFields, OtherFields, LedgerFields
  <2>2. Same(LedgerFields, u, w)
    BY <2>1 DEF SettleRewards, Same, LedgerFields
  <2> QED
    BY <1>1, <2>2, StakingAssumption, SettleRewardsGood
<1> HIDE DEF w
<1>3. w.everBanked = s.everBanked /\ w.bankedCredits = s.bankedCredits
      /\ w.stakeOf = s.stakeOf /\ Same(LedgerFields, s, w)
  BY <1>1, <1>2 DEF Same, LedgerFields
<1>4. Banked(w, r, {a})
  BY <1>2, <1>3, SettleCreditsBanked
<1> HIDE DEF r
<1>5. Same(LedgerFields \ {"bankedCredits", "everBanked"}, s, r)
  BY <1>3, <1>4 DEF Same, Banked
<1>6. Banked(s, r, {a})
  BY <1>3, <1>4, <1>5 DEF Banked
<1> QED
  BY <1>6 DEF Update, u, w, r

(* Two updates after each other.                                              *)
LEMMA BankedTwice ==
    ASSUME NEW s, NEW u, NEW r, NEW a \in Accounts, NEW b \in Accounts,
           Good(s), Good(u), Good(r), s.everBanked \in Nat, Banked(s, u, {a}), Banked(u, r, {b})
    PROVE  Banked(s, r, {a, b})
<1>1. /\ s.bankedCredits \in [Accounts -> Nat] /\ u.bankedCredits \in [Accounts -> Nat]
      /\ r.bankedCredits \in [Accounts -> Nat] /\ SumFunction(s.bankedCredits) \in Nat
      /\ SumFunction(u.bankedCredits) \in Nat /\ SumFunction(r.bankedCredits) \in Nat
  BY GoodFields, TotalsNatural
<1>2. Same(LedgerFields \ {"bankedCredits", "everBanked"}, s, r) /\ u.stakeOf = s.stakeOf
  BY DEF Banked, Same, LedgerFields
<1>3. \A x \in Accounts : /\ r.bankedCredits[x] >= s.bankedCredits[x]
                          /\ x \notin {a, b} => r.bankedCredits[x] = s.bankedCredits[x]
  <2> SUFFICES ASSUME NEW x \in Accounts
               PROVE  /\ r.bankedCredits[x] >= s.bankedCredits[x]
                      /\ x \notin {a, b} => r.bankedCredits[x] = s.bankedCredits[x]
    OBVIOUS
  <2>1. /\ u.bankedCredits[x] >= s.bankedCredits[x] /\ r.bankedCredits[x] >= u.bankedCredits[x]
        /\ x # a => u.bankedCredits[x] = s.bankedCredits[x]
        /\ x # b => r.bankedCredits[x] = u.bankedCredits[x]
        /\ s.bankedCredits[x] \in Nat /\ u.bankedCredits[x] \in Nat /\ r.bankedCredits[x] \in Nat
    BY <1>1 DEF Banked
  <2> QED
    BY <2>1
<1>4. /\ r.everBanked + SumFunction(s.bankedCredits) = s.everBanked + SumFunction(r.bankedCredits)
      /\ r.everBanked \in Nat
  BY <1>1 DEF Banked
<1>5. (\A x \in Accounts : s.stakeOf[x] = 0) => r.bankedCredits = s.bankedCredits
  BY <1>2 DEF Banked
<1> QED
  BY <1>2, <1>3, <1>4, <1>5 DEF Banked

(* What is ever banked stays under the cap.                                    *)
LEMMA BankedWithinCap ==
    ASSUME NEW s, NEW n \in Nat, LedgerKept(s, n)
    PROVE  /\ Good(s) /\ s.everBanked \in Nat /\ s.everBanked <= CreditCap
           /\ s.bankedCredits \in [Accounts -> Nat]
           /\ LedgerFields \subseteq DOMAIN s
           /\ s.outstandingTaskCredits \in Nat /\ s.burned \in Nat
<1>1. Good(s) /\ Kept(s) /\ CreditBalance(s, n) /\ s.totalCreditsIssued <= CreditCap
  BY DEF LedgerKept, Books, Good, Ahead
<1>2. Whole(s) \in Nat /\ Parts(s) \in Nat
  BY <1>1, TotalsNatural, GoodFields DEF Whole, Parts, Kept
<1>3. s.totalCreditsIssued \in Nat /\ CreditAcc \in Nat \ {0} /\ CreditCap \in Nat
  BY <1>1, Scales, TotalsNatural
<1>4. s.everBanked \in Nat /\ s.everBanked = Whole(s) + n
  BY <1>2 DEF LedgerKept
<1>5. s.totalCreditsIssued * CreditAcc = s.everBanked * CreditAcc + Parts(s)
  BY <1>1, <1>4 DEF CreditBalance
<1>6. s.everBanked <= s.totalCreditsIssued
  <2> SUFFICES ASSUME s.everBanked >= s.totalCreditsIssued + 1
               PROVE  FALSE
    BY <1>3, <1>4
  <2> DEFINE gap == s.everBanked - (s.totalCreditsIssued + 1)
  <2>0. gap \in Nat /\ s.everBanked = s.totalCreditsIssued + 1 + gap
    BY <1>3, <1>4
  <2> HIDE DEF gap
  <2>1. PICK d \in Nat : s.everBanked = s.totalCreditsIssued + 1 + d
    BY <2>0
  <2>2. s.everBanked * CreditAcc = s.totalCreditsIssued * CreditAcc + CreditAcc + d * CreditAcc
        /\ d * CreditAcc \in Nat /\ s.totalCreditsIssued * CreditAcc \in Nat
    BY <1>3, <2>1
  <2> QED
    BY <1>2, <1>3, <1>5, <2>2
<1> QED
  BY <1>1, <1>3, <1>4, <1>6, GoodFields DEF Kept, AmountFields, BookFields, OtherFields, LedgerFields

(* Updates of two accounts, or of one, are updates of the ledger: the earnings *)
(* fit under its cap, and there are none before staking starts.                *)
LEMMA BankedIsUpdate ==
    ASSUME NEW s, NEW r, NEW n \in Nat, LedgerKept(s, n), Books(r, n),
           NEW a \in Accounts, NEW b \in Accounts, Banked(s, r, {a, b})
    PROVE  /\ LedgerKept(r, n)
           /\ Earned(s, r) \in [Accounts -> 0..CreditCap]
           /\ Credits!CanEarn(LedgerOf(s), Earned(s, r))
           /\ Credits!Update(LedgerOf(s), {a, b}, Earned(s, r)) = LedgerOf(r)
           /\ \A x \in Accounts : r.bankedCredits[x] = s.bankedCredits[x] + Earned(s, r)[x]
           /\ ~s.stakingActive => LedgerOf(r) = LedgerOf(s)
           /\ Same(LedgerFields \ {"bankedCredits", "everBanked"}, s, r)
<1> DEFINE e == Earned(s, r)
<1>0. /\ e = [x \in Accounts |-> r.bankedCredits[x] - s.bankedCredits[x]]
      /\ e = Difference(s.bankedCredits, r.bankedCredits)
  BY DEF Earned, Difference
<1> HIDE DEF e
<1>1. /\ s.bankedCredits \in [Accounts -> Nat] /\ r.bankedCredits \in [Accounts -> Nat]
      /\ s.everBanked \in Nat /\ s.outstandingTaskCredits \in Nat /\ s.burned \in Nat
  BY BankedWithinCap, GoodFields DEF Books
<1>2. /\ e \in [Accounts -> Nat]
      /\ SumFunction(s.bankedCredits) \in Nat /\ SumFunction(r.bankedCredits) \in Nat
      /\ SumFunction(e) \in Nat
      /\ SumFunction(r.bankedCredits) = SumFunction(s.bankedCredits) + SumFunction(e)
      /\ SumFunctionOnSet(e, {a, b}) = SumFunction(e)
      /\ \A x \in Accounts : e[x] <= SumFunction(e)
  <2>1. \A x \in Accounts : /\ r.bankedCredits[x] >= s.bankedCredits[x]
                            /\ x \notin {a, b} => r.bankedCredits[x] = s.bankedCredits[x]
    BY DEF Banked
  <2> QED
    <3> DEFINE d == Difference(s.bankedCredits, r.bankedCredits)
    <3>1. /\ d \in [Accounts -> Nat]
          /\ SumFunction(s.bankedCredits) \in Nat /\ SumFunction(r.bankedCredits) \in Nat
          /\ SumFunction(d) \in Nat
          /\ SumFunction(r.bankedCredits) = SumFunction(s.bankedCredits) + SumFunction(d)
          /\ SumFunctionOnSet(d, {a, b}) = SumFunction(d)
          /\ \A x \in Accounts : d[x] <= SumFunction(d)
      BY <1>1, <2>1, PairSums
    <3> QED
      BY <1>0, <3>1
<1>3. /\ Same(LedgerFields \ {"bankedCredits", "everBanked"}, s, r)
      /\ r.everBanked \in Nat /\ r.everBanked = s.everBanked + SumFunction(e)
  BY <1>1, <1>2 DEF Banked
<1>4. /\ r.stakingActive = s.stakingActive /\ r.taskCreditPayer = s.taskCreditPayer
      /\ r.outstandingTaskCredits = s.outstandingTaskCredits /\ r.burned = s.burned
      /\ r.stakeOf = s.stakeOf
  BY <1>3 DEF Same, LedgerFields
<1>5. LedgerKept(r, n)
  <2>1. Whole(s) \in Nat /\ s.everBanked = Whole(s) + n
    BY <1>1, <1>2 DEF Whole, LedgerKept
  <2>2. Whole(r) = Whole(s) + SumFunction(e)
    BY <1>1, <1>2, <1>4 DEF Whole
  <2>3. r.everBanked = Whole(r) + n
    BY <1>2, <1>3, <2>1, <2>2
  <2> QED
    BY <1>4, <2>3 DEF LedgerKept
<1>6. s.everBanked + SumFunction(e) <= CreditCap
  BY <1>3, <1>5, BankedWithinCap
<1>7. e \in [Accounts -> 0..CreditCap]
  <2>1. \A x \in Accounts : e[x] \in 0..CreditCap
    BY <1>1, <1>2, <1>6, Scales
  <2> QED BY <1>2, <2>1
<1>8. ~s.stakingActive => r.bankedCredits = s.bankedCredits
  BY DEF LedgerKept, Banked
<1>9. \A x \in Accounts : r.bankedCredits[x] = s.bankedCredits[x] + e[x]
  BY <1>0, <1>1
<1>10. Credits!CanEarn(LedgerOf(s), e)
  <2>1. LedgerOf(s).totalCreditsIssued = s.everBanked /\ LedgerOf(s).stakingActive = s.stakingActive
    BY DEF LedgerOf
  <2>2. ~s.stakingActive => e = Credits!NoEarnings
    BY <1>0, <1>1, <1>8 DEF Credits!NoEarnings
  <2> QED
    BY <1>6, <2>1, <2>2, CreditSums DEF Credits!CanEarn
<1>11. Credits!Update(LedgerOf(s), {a, b}, e) = LedgerOf(r)
  <2> DEFINE bank == [x \in Accounts |->
                        s.bankedCredits[x] + (IF x \in {a, b} THEN e[x] ELSE 0)]
             total == s.everBanked + Credits!SumFunctionOnSet(e, {a, b})
  <2>1. bank = r.bankedCredits
    <3>1. \A x \in Accounts : bank[x] = r.bankedCredits[x]
      BY <1>1, <1>9 DEF Banked
    <3> QED BY <1>1, <3>1
  <2>2. total = r.everBanked
    BY <1>2, <1>3, CreditSums
  <2>3. Credits!Update(LedgerOf(s), {a, b}, e)
           = [LedgerOf(s) EXCEPT !.bankedCredits = bank, !.totalCreditsIssued = total]
    BY DEF Credits!Update, LedgerOf
  <2> HIDE DEF bank, total
  <2> QED
    BY <1>4, <2>1, <2>2, <2>3 DEF LedgerOf
<1>12. ~s.stakingActive => LedgerOf(r) = LedgerOf(s)
  <2> SUFFICES ASSUME ~s.stakingActive
               PROVE  LedgerOf(r) = LedgerOf(s)
    OBVIOUS
  <2>1. r.everBanked = s.everBanked
    BY <1>1, <1>2, <1>8 DEF Banked
  <2> QED
    BY <1>4, <1>8, <2>1 DEF LedgerOf
<1> QED
  BY <1>3, <1>5, <1>7, <1>9, <1>10, <1>11, <1>12 DEF e

(* The _update of one account, in the same words.                             *)
LEMMA UpdateIsUpdate ==
    ASSUME now \in Nat, NEW s, NEW n \in Nat, LedgerKept(s, n), NEW a \in Accounts
    PROVE  /\ LedgerKept(Update(s, a), n)
           /\ Earned(s, Update(s, a)) \in [Accounts -> 0..CreditCap]
           /\ Credits!CanEarn(LedgerOf(s), Earned(s, Update(s, a)))
           /\ Credits!Update(LedgerOf(s), {a}, Earned(s, Update(s, a))) = LedgerOf(Update(s, a))
           /\ \A x \in Accounts : Update(s, a).bankedCredits[x]
                                     = s.bankedCredits[x] + Earned(s, Update(s, a))[x]
           /\ ~s.stakingActive => LedgerOf(Update(s, a)) = LedgerOf(s)
           /\ Same(LedgerFields \ {"bankedCredits", "everBanked"}, s, Update(s, a))
<1> DEFINE r == Update(s, a)
<1>1. Books(r, n)
  BY UpdateBooks DEF LedgerKept
<1>2. Banked(s, r, {a}) /\ {a, a} = {a}
  BY BankedWithinCap, UpdateBanked
<1>3. Banked(s, r, {a, a})
  BY <1>2
<1> HIDE DEF r
<1>4. /\ LedgerKept(r, n)
      /\ Earned(s, r) \in [Accounts -> 0..CreditCap]
      /\ Credits!CanEarn(LedgerOf(s), Earned(s, r))
      /\ Credits!Update(LedgerOf(s), {a, a}, Earned(s, r)) = LedgerOf(r)
      /\ \A x \in Accounts : r.bankedCredits[x] = s.bankedCredits[x] + Earned(s, r)[x]
      /\ ~s.stakingActive => LedgerOf(r) = LedgerOf(s)
      /\ Same(LedgerFields \ {"bankedCredits", "everBanked"}, s, r)
  BY <1>1, <1>3, BankedIsUpdate
<1> QED
  BY <1>2, <1>4 DEF r

(* A ledger of which nothing has changed but stakes, while staking.            *)
LEMMA LedgerStays ==
    ASSUME NEW s, NEW r, NEW n, LedgerKept(s, n), Books(r, n),
           Same(LedgerFields \ {"stakeOf"}, s, r), s.stakingActive \/ r.stakeOf = s.stakeOf
    PROVE  LedgerKept(r, n) /\ LedgerOf(r) = LedgerOf(s)
<1>1. /\ r.stakingActive = s.stakingActive /\ r.taskCreditPayer = s.taskCreditPayer
      /\ r.outstandingTaskCredits = s.outstandingTaskCredits /\ r.burned = s.burned
      /\ r.bankedCredits = s.bankedCredits /\ r.everBanked = s.everBanked
  BY DEF Same, LedgerFields
<1> QED
  BY <1>1 DEF LedgerKept, LedgerOf, Whole

(* A step of the vault is a step of the ledger or leaves it alone.             *)
LedgerStep == Credits!Next \/ AbstractLedger' = AbstractLedger

(* A ledger whose vault has been activated only.                              *)
LEMMA ActiveLedger ==
    ASSUME NEW s, NEW r, NEW x, r.stakingActive = x, r.bankedCredits = s.bankedCredits,
           r.taskCreditPayer = s.taskCreditPayer, r.everBanked = s.everBanked,
           r.outstandingTaskCredits = s.outstandingTaskCredits
    PROVE  LedgerOf(r) = [LedgerOf(s) EXCEPT !.stakingActive = x]
BY DEF LedgerOf

(* A ledger with other slots, balances and outstanding credits.                *)
WithSlots(l, p, f, n) ==
    [l EXCEPT !.bankedCredits = f, !.taskCreditPayer = p, !.outstandingTaskCredits = n]

(* A vault with these shows that ledger.                                      *)
LEMMA SlotsLedger ==
    ASSUME NEW s, NEW r, NEW p, NEW f, NEW n,
           r.stakingActive = s.stakingActive, r.everBanked = s.everBanked,
           r.bankedCredits = f, r.outstandingTaskCredits = n, r.taskCreditPayer = p
    PROVE  LedgerOf(r) = WithSlots(LedgerOf(s), p, f, n)
<1> DEFINE R0 == LedgerOf(s)
           R1 == [R0 EXCEPT !.bankedCredits = f]
           R2 == [R1 EXCEPT !.taskCreditPayer = p]
           R3 == [R2 EXCEPT !.outstandingTaskCredits = n]
           m == s.outstandingTaskCredits
           q == s.taskCreditPayer
<1>1. R1 = [stakingActive |-> s.stakingActive, bankedCredits |-> f, taskCreditPayer |-> q,
            totalCreditsIssued |-> s.everBanked, outstandingTaskCredits |-> m]
  BY DEF LedgerOf
<1>2. [R0 EXCEPT !.bankedCredits = f, !.taskCreditPayer = p, !.outstandingTaskCredits = n] = R3
  OBVIOUS
<1> HIDE DEF R1
<1>3. R2 = [stakingActive |-> s.stakingActive, bankedCredits |-> f, taskCreditPayer |-> p,
            totalCreditsIssued |-> s.everBanked, outstandingTaskCredits |-> m]
  BY <1>1
<1> HIDE DEF R2
<1>4. R3 = [stakingActive |-> s.stakingActive, bankedCredits |-> f, taskCreditPayer |-> p,
            totalCreditsIssued |-> s.everBanked, outstandingTaskCredits |-> n]
  BY <1>3
<1>5. LedgerOf(r) = [stakingActive |-> s.stakingActive, bankedCredits |-> f, taskCreditPayer |-> p,
                     totalCreditsIssued |-> s.everBanked, outstandingTaskCredits |-> n]
  BY Zenon DEF LedgerOf
<1> QED
  BY <1>2, <1>4, <1>5 DEF R1, R2, WithSlots

(* The ledger the refinement is about is that of the vault.                  *)
LEMMA ThisLedger == AbstractLedger = LedgerOf(v) /\ AbstractLedger' = LedgerOf(v')
BY DEF AbstractLedger, LedgerOf

(* Updating one account, and nothing the ledger shows besides.                *)
LEMMA UpdateSteps ==
    ASSUME Inv, LedgerKept(v, 0), Books(v', 0), NEW a \in Accounts,
           Same(LedgerFields \ {"stakeOf"}, Update(v, a), v'),
           v.stakingActive \/ v'.stakeOf = Update(v, a).stakeOf
    PROVE  LedgerKept(v', 0) /\ LedgerStep
<1> DEFINE s == Update(v, a)
           e == Earned(v, s)
<1>1. /\ LedgerKept(s, 0) /\ e \in [Accounts -> 0..CreditCap]
      /\ Credits!CanEarn(LedgerOf(v), e) /\ Credits!Update(LedgerOf(v), {a}, e) = LedgerOf(s)
      /\ ~v.stakingActive => LedgerOf(s) = LedgerOf(v)
      /\ Same(LedgerFields \ {"bankedCredits", "everBanked"}, v, s)
  BY UpdateIsUpdate DEF Inv
<1>2. s.stakingActive = v.stakingActive
  BY <1>1 DEF Same, LedgerFields
<1> HIDE DEF s, e
<1>3. LedgerKept(v', 0) /\ LedgerOf(v') = LedgerOf(s)
  BY <1>1, <1>2, LedgerStays DEF s
<1>4. CASE v.stakingActive
  <2>1. LedgerOf(v).stakingActive
    BY <1>4 DEF LedgerOf
  <2>2. Credits!BankCredits(a, e)
    BY <1>1, <1>3, <2>1, ThisLedger DEF Credits!BankCredits
  <2> QED
    BY <1>1, <1>3, <2>2 DEF LedgerStep, Credits!Next
<1>5. CASE ~v.stakingActive
  BY <1>1, <1>3, <1>5, ThisLedger DEF LedgerStep
<1> QED
  BY <1>4, <1>5

(* bankCredits, claim, stake and unstake.                                     *)
LEMMA AccountSteps ==
    ASSUME Inv, LedgerKept(v, 0), Books(v', 0), NEW a \in Accounts,
           \/ BankCredits(a)
           \/ \E refused \in BOOLEAN : Claim(a, refused)
           \/ \E amount \in StakeAmounts : Stake(a, amount) \/ Unstake(a, amount)
    PROVE  LedgerKept(v', 0) /\ LedgerStep
<1> DEFINE s == Update(v, a)
<1>1. Good(s)
  BY StakingAssumption, UpdateGood DEF Inv
<1>2. LedgerFields \subseteq DOMAIN s
  BY <1>1, GoodFields DEF AmountFields, BookFields, OtherFields, LedgerFields
<1>3. CASE BankCredits(a)
  BY <1>3, UpdateSteps DEF BankCredits, Same
<1>4. CASE \E refused \in BOOLEAN : Claim(a, refused)
  <2>1. Same(LedgerFields, s, v')
    <3> HIDE DEF s
    <3>1. \/ v' = [[s EXCEPT !.accrued[a] = 0]
                     EXCEPT !.pendingPayouts = Plus(@, a, s.accrued[a])]
          \/ v' = [[s EXCEPT !.accrued[a] = 0]
                     EXCEPT !.totalRewardLiability = @ - s.accrued[a], !.balance = @ - s.accrued[a]]
      BY <1>4 DEF Claim, s
    <3> QED
      BY <1>2, <3>1 DEF Same, LedgerFields
  <2>2. Same(LedgerFields \ {"stakeOf"}, s, v') /\ v'.stakeOf = s.stakeOf
    BY <2>1 DEF Same, LedgerFields
  <2> QED
    BY <2>2, UpdateSteps
<1>5. CASE \E amount \in StakeAmounts : Stake(a, amount) \/ Unstake(a, amount)
  <2>1. v.stakingActive
    BY <1>5 DEF Stake, Unstake
  <2>2. PICK amount \in StakeAmounts : Stake(a, amount) \/ Unstake(a, amount)
    BY <1>5
  <2>3. Same(LedgerFields \ {"stakeOf"}, s, v')
    <3> HIDE DEF s
    <3>1. \/ v' = [Restake(s, a, s.stakeOf[a] + amount) EXCEPT
                     !.totalStaked = @ + amount, !.balance = @ + amount]
          \/ v' = [Restake(s, a, s.stakeOf[a] - amount) EXCEPT
                     !.totalStaked = @ - amount, !.balance = @ - amount]
      BY <2>2 DEF Stake, Unstake, s
    <3> QED
      BY <1>2, <3>1 DEF Same, LedgerFields, Restake
  <2> QED
    BY <2>1, <2>3, UpdateSteps
<1> QED
  BY <1>3, <1>4, <1>5

(* Activation; and the transactions that update no account.                   *)
LEMMA OtherSteps ==
    ASSUME Inv, LedgerKept(v, 0), Books(v', 0),
           \/ ActivateStaking
           \/ Checkpoint
           \/ Donate
           \/ \E amount \in RewardAmounts : NotifyReward(amount)
           \/ \E amount \in StakeAmounts : RescueUndistributed(amount) \/ RescueSurplus(amount)
           \/ \E a \in Accounts : ClaimPayout(a)
    PROVE  LedgerKept(v', 0) /\ LedgerStep
<1> DEFINE s == UpdateAll(v)
<1>1. Good(v) /\ LedgerFields \subseteq DOMAIN v /\ Same(LedgerFields, v, s) /\ DOMAIN s = DOMAIN v
  BY BankedWithinCap, UpdateAllLedger
<1>2. CASE ActivateStaking
  <2>1. /\ ~v.stakingActive /\ v'.stakingActive
        /\ Same(LedgerFields \ {"stakingActive"}, v, v')
    BY <1>1, <1>2 DEF ActivateStaking, Same, LedgerFields
  <2>2. /\ v'.bankedCredits = v.bankedCredits /\ v'.taskCreditPayer = v.taskCreditPayer
        /\ v'.everBanked = v.everBanked /\ v'.outstandingTaskCredits = v.outstandingTaskCredits
        /\ v'.burned = v.burned /\ v'.stakingActive = TRUE
    BY <1>1, <1>2 DEF ActivateStaking, LedgerFields
  <2>3. LedgerKept(v', 0)
    BY <2>1, <2>2 DEF LedgerKept, Whole
  <2>4. Credits!Activate
    <3>1. LedgerOf(v') = [LedgerOf(v) EXCEPT !.stakingActive = TRUE]
      BY <2>2, ActiveLedger
    <3>2. ~LedgerOf(v).stakingActive
      BY <2>1 DEF LedgerOf
    <3> QED
      BY <3>1, <3>2, ThisLedger DEF Credits!Activate
  <2> QED
    BY <2>3, <2>4 DEF LedgerStep, Credits!Next
<1>3. CASE ~ActivateStaking
  <2>1. Same(LedgerFields, v, v')
    <3> HIDE DEF s
    <3>1. LedgerFields \subseteq DOMAIN s
      BY <1>1
    <3>2. CASE Checkpoint
      BY <1>1, <3>2 DEF Checkpoint, s
    <3>3. CASE Donate
      BY <1>1, <3>3 DEF Donate, Same, LedgerFields
    <3>4. CASE \E amount \in RewardAmounts : NotifyReward(amount)
      <4>1. PICK amount \in RewardAmounts : NotifyReward(amount)
        BY <3>4
      <4>2. Same(LedgerFields, s, v')
        BY <3>1, <4>1 DEF NotifyReward, Same, LedgerFields, s
      <4> QED BY <1>1, <4>2 DEF Same
    <3>5. CASE \E amount \in StakeAmounts : RescueUndistributed(amount)
      <4>1. PICK amount \in StakeAmounts : RescueUndistributed(amount)
        BY <3>5
      <4>2. v' = [s EXCEPT !.undistributedRewards = @ - amount,
                           !.totalRewardLiability = @ - amount, !.balance = @ - amount]
        BY <4>1 DEF RescueUndistributed, s
      <4>3. Same(LedgerFields, s, v')
        BY <3>1, <4>2 DEF Same, LedgerFields
      <4> QED BY <1>1, <4>3 DEF Same
    <3>6. CASE \E amount \in StakeAmounts : RescueSurplus(amount)
      BY <1>1, <3>6 DEF RescueSurplus, Same, LedgerFields
    <3>7. CASE \E a \in Accounts : ClaimPayout(a)
      BY <1>1, <3>7 DEF ClaimPayout, Same, LedgerFields
    <3> QED
      BY <1>3, <3>2, <3>3, <3>4, <3>5, <3>6, <3>7
  <2>2. Same(LedgerFields \ {"stakeOf"}, v, v') /\ v'.stakeOf = v.stakeOf
    BY <2>1 DEF Same, LedgerFields
  <2> QED
    BY <2>2, LedgerStays, ThisLedger DEF LedgerStep
<1> QED
  BY <1>2, <1>3

(* trySpendCredit, which moves a banked credit into a task or banks only.      *)
LEMMA SpendSteps ==
    ASSUME Inv, LedgerKept(v, 0), Books(v', 0), NEW a \in Accounts, NEW t \in Tasks,
           NEW isPost \in BOOLEAN, TrySpendCredit(a, t, isPost)
    PROVE  LedgerKept(v', 0) /\ LedgerStep
<1> DEFINE s == Update(v, a)
           e == Earned(v, s)
           spent == [s EXCEPT !.bankedCredits = Minus(@, a, CreditUnit),
                              !.taskCreditPayer[t][isPost] = a,
                              !.outstandingTaskCredits = @ + CreditUnit]
           spends == ~(s.bankedCredits[a] < CreditUnit) /\ s.taskCreditPayer[t][isPost] = Nobody
<1>1. /\ LedgerKept(s, 0) /\ e \in [Accounts -> 0..CreditCap]
      /\ Credits!CanEarn(LedgerOf(v), e) /\ Credits!Update(LedgerOf(v), {a}, e) = LedgerOf(s)
      /\ s.bankedCredits[a] = v.bankedCredits[a] + e[a]
      /\ Same(LedgerFields \ {"bankedCredits", "everBanked"}, v, s)
  BY UpdateIsUpdate DEF Inv
<1>2. s.stakingActive = v.stakingActive /\ s.taskCreditPayer = v.taskCreditPayer
  BY <1>1 DEF Same, LedgerFields
<1>3. v.stakingActive /\ v' = IF spends THEN spent ELSE s
  BY DEF TrySpendCredit
<1> HIDE DEF s, e
<1>4. /\ s.bankedCredits \in [Accounts -> Nat] /\ s.outstandingTaskCredits \in Nat
      /\ s.burned \in Nat /\ LedgerFields \subseteq DOMAIN s /\ CreditUnit \in Nat
  BY <1>1, BankedWithinCap, Scales
<1>5. Credits!Spends(LedgerOf(v), a, t, isPost, e) <=> spends
  <2>1. (~(s.bankedCredits[a] < CreditUnit)) <=> v.bankedCredits[a] + e[a] >= CreditUnit
    BY <1>1, <1>4
  <2> QED
    BY <1>2, <1>3, <2>1 DEF Credits!Spends, LedgerOf
<1>6. LedgerOf(v).stakingActive
  BY <1>3 DEF LedgerOf
<1>7. CASE ~spends
  <2>1. v' = s
    BY <1>3, <1>7
  <2>2. Credits!TrySpend(LedgerOf(v), a, t, isPost, e) = LedgerOf(v')
    BY <1>1, <1>5, <1>6, <1>7, <2>1 DEF Credits!TrySpend
  <2>3. Credits!RegistrySpend(a, t, isPost, e)
    BY <1>1, <2>2, ThisLedger DEF Credits!RegistrySpend
  <2> QED
    BY <1>1, <2>1, <2>3 DEF LedgerStep, Credits!Next
<1>8. CASE spends
  <2>1. v' = spent
    BY <1>3, <1>8
  <2>2. /\ v'.bankedCredits = Minus(s.bankedCredits, a, CreditUnit)
        /\ v'.taskCreditPayer = [s.taskCreditPayer EXCEPT ![t][isPost] = a]
        /\ v'.outstandingTaskCredits = s.outstandingTaskCredits + CreditUnit
        /\ v'.stakingActive = s.stakingActive /\ v'.everBanked = s.everBanked
        /\ v'.burned = s.burned /\ v'.stakeOf = s.stakeOf
    BY <1>4, <2>1 DEF LedgerFields
  <2>3. [LedgerOf(s) EXCEPT !.bankedCredits = Credits!Minus(@, a, CreditUnit),
                            !.taskCreditPayer[t][isPost] = a,
                            !.outstandingTaskCredits = @ + CreditUnit] = LedgerOf(v')
    <3> DEFINE f == Minus(s.bankedCredits, a, CreditUnit)
               n == s.outstandingTaskCredits + CreditUnit
               p == [s.taskCreditPayer EXCEPT ![t][isPost] = a]
    <3>1. LedgerOf(v') = WithSlots(LedgerOf(s), p, f, n)
      <4>1. /\ v'.stakingActive = s.stakingActive /\ v'.everBanked = s.everBanked
            /\ v'.bankedCredits = f /\ v'.outstandingTaskCredits = n
            /\ v'.taskCreditPayer = p
        BY <2>2
      <4> HIDE DEF f, n, p
      <4> QED BY <4>1, SlotsLedger
    <3>2. Credits!Minus(LedgerOf(s).bankedCredits, a, CreditUnit) = f
          /\ LedgerOf(s).outstandingTaskCredits + CreditUnit = n
      BY DEF Credits!Minus, Minus, LedgerOf
    <3>3. [LedgerOf(s) EXCEPT !.bankedCredits = f, !.taskCreditPayer[t][isPost] = a,
                              !.outstandingTaskCredits = n] = WithSlots(LedgerOf(s), p, f, n)
      <4> HIDE DEF f, n
      <4> QED BY DEF LedgerOf, WithSlots
    <3> HIDE DEF f, n, p
    <3> QED
      BY <3>1, <3>2, <3>3
  <2>4. Credits!TrySpend(LedgerOf(v), a, t, isPost, e) = LedgerOf(v')
    BY <1>1, <1>5, <1>6, <1>8, <2>3 DEF Credits!TrySpend
  <2>5. Credits!RegistrySpend(a, t, isPost, e)
    BY <1>1, <2>4, ThisLedger DEF Credits!RegistrySpend
  <2>6. LedgerKept(v', 0)
    <3>1. /\ SumFunction(v'.bankedCredits) = SumFunction(s.bankedCredits) - CreditUnit
          /\ SumFunction(s.bankedCredits) \in Nat
      <4>1. s.bankedCredits[a] \in Nat /\ s.bankedCredits[a] >= CreditUnit
        BY <1>4, <1>8
      <4> QED BY <1>4, <2>2, <4>1, EntryPlusMinus
    <3>2. Whole(v') = Whole(s)
      BY <1>4, <2>2, <3>1 DEF Whole
    <3> QED
      BY <1>1, <2>2, <3>2 DEF LedgerKept
  <2> QED
    BY <1>1, <2>5, <2>6 DEF LedgerStep, Credits!Next
<1> QED
  BY <1>7, <1>8

(* settleSpentCredit, which updates payer and payee, who may be one account.   *)
LEMMA SettleSteps ==
    ASSUME Inv, LedgerKept(v, 0), Books(v', 0), NEW from \in Accounts,
           NEW to \in Accounts \union {Nobody}, NEW t \in Tasks, NEW isPost \in BOOLEAN,
           SettleSpentCredit(t, from, to, isPost)
    PROVE  LedgerKept(v', 0) /\ LedgerStep
<1> DEFINE settled == [v EXCEPT !.taskCreditPayer[t][isPost] = Nobody,
                                !.outstandingTaskCredits = @ - CreditUnit]
           paid == Update(settled, from)
           s == Update(paid, to)
           abstract == [LedgerOf(v) EXCEPT !.taskCreditPayer[t][isPost] = Nobody,
                                           !.outstandingTaskCredits = @ - CreditUnit]
<1>1. /\ now \in Nat /\ CreditUnit \in Nat /\ v.outstandingTaskCredits >= CreditUnit
      /\ v.taskCreditPayer[t][isPost] = from /\ from # Nobody
  BY Scales DEF Inv, SettleSpentCredit
<1>2. IF to = Nobody THEN v' = [settled EXCEPT !.burned = @ + CreditUnit]
      ELSE v' = [s EXCEPT !.bankedCredits = Plus(@, to, CreditUnit)]
  BY DEF SettleSpentCredit
<1>3. Credits!CanSettleSpentCredit(LedgerOf(v), t, from, isPost)
  BY <1>1 DEF Credits!CanSettleSpentCredit, LedgerOf
<1>4. LedgerKept(settled, CreditUnit) /\ LedgerOf(settled) = abstract
  <2>1. /\ Books(v, 0) /\ Good(v) /\ LedgerFields \subseteq DOMAIN v
        /\ v.bankedCredits \in [Accounts -> Nat] /\ v.outstandingTaskCredits \in Nat
        /\ AmountFields \union BookFields \union OtherFields \subseteq DOMAIN v
        /\ v.burned \in Nat /\ SumFunction(v.bankedCredits) \in Nat
    BY BankedWithinCap, GoodFields, TotalsNatural DEF LedgerKept
  <2>2. /\ DOMAIN settled = DOMAIN v /\ settled.bankedCredits = v.bankedCredits
        /\ settled.outstandingTaskCredits = v.outstandingTaskCredits - CreditUnit
        /\ settled.burned = v.burned /\ settled.everBanked = v.everBanked
        /\ settled.taskCreditPayer = [v.taskCreditPayer EXCEPT ![t][isPost] = Nobody]
        /\ settled.stakingActive = v.stakingActive /\ settled.stakeOf = v.stakeOf
        /\ Same(AllFields \ {"bankedCredits", "outstandingTaskCredits", "burned"}, v, settled)
        /\ \A f \in (AmountFields \ {"outstandingTaskCredits"})
                      \union (BookFields \ {"bankedCredits"}) : settled[f] = v[f]
    BY <2>1 DEF Same, AllFields, RewardFields, CreditFields, KeptFields, LedgerFields,
       AmountFields, BookFields, OtherFields
  <2>3. LedgerOf(settled) = abstract
    <3> HIDE DEF settled
    <3> DEFINE f == v.bankedCredits
               n == v.outstandingTaskCredits - CreditUnit
               p == [v.taskCreditPayer EXCEPT ![t][isPost] = Nobody]
    <3>1. LedgerOf(settled) = WithSlots(LedgerOf(v), p, f, n)
      <4>1. /\ settled.stakingActive = v.stakingActive /\ settled.everBanked = v.everBanked
            /\ settled.bankedCredits = f /\ settled.outstandingTaskCredits = n
            /\ settled.taskCreditPayer = p
        BY <2>2
      <4> HIDE DEF f, n, p, settled
      <4> QED BY <4>1, SlotsLedger
    <3>2. LedgerOf(v).bankedCredits = f /\ LedgerOf(v).outstandingTaskCredits - CreditUnit = n
      BY DEF LedgerOf
    <3>3. [LedgerOf(v) EXCEPT !.bankedCredits = f, !.taskCreditPayer[t][isPost] = Nobody,
                              !.outstandingTaskCredits = n] = WithSlots(LedgerOf(v), p, f, n)
      <4> HIDE DEF f, n
      <4> QED BY DEF LedgerOf, WithSlots
    <3>4. abstract = [LedgerOf(v) EXCEPT !.bankedCredits = f,
                                         !.taskCreditPayer[t][isPost] = Nobody,
                                         !.outstandingTaskCredits = n]
      BY <3>2 DEF LedgerOf
    <3> QED
      BY <3>1, <3>3, <3>4
  <2> HIDE DEF settled
  <2>4. settled.outstandingTaskCredits \in Nat /\ settled.bankedCredits \in [Accounts -> Nat]
    BY <1>1, <2>1, <2>2
  <2>5. Good(settled)
    BY <1>1, <2>1, <2>2, <2>4, StakingAssumption, CreditMoved
  <2>6. Whole(settled) + CreditUnit = Whole(v) + 0 /\ Whole(v) + 0 = Whole(v)
    BY <1>1, <2>1, <2>2 DEF Whole
  <2>7. Books(settled, CreditUnit)
    BY <1>1, <2>1, <2>2, <2>5, <2>6, WholeMoves
  <2> QED
    BY <2>2, <2>3, <2>6, <2>7 DEF LedgerKept
<1> HIDE DEF settled
<1>5. CASE to = Nobody
  <2> DEFINE none == Earned(settled, settled)
  <2>1. /\ settled.bankedCredits \in [Accounts -> Nat] /\ settled.everBanked \in Nat
        /\ settled.burned \in Nat /\ settled.outstandingTaskCredits \in Nat
        /\ LedgerFields \subseteq DOMAIN settled /\ Books(settled, CreditUnit)
        /\ SumFunction(settled.bankedCredits) \in Nat
    BY <1>1, <1>4, BankedWithinCap, TotalsNatural DEF LedgerKept
  <2>2. Banked(settled, settled, {from, from})
    BY <2>1 DEF Banked, Same
  <2>3. none \in [Accounts -> 0..CreditCap] /\ Credits!CanEarn(LedgerOf(settled), none)
    BY <1>1, <1>4, <2>1, <2>2, BankedIsUpdate
  <2> HIDE DEF none
  <2>4. Credits!CanEarn(LedgerOf(v), none)
    BY <1>4, <2>3 DEF Credits!CanEarn, LedgerOf
  <2>5. v' = [settled EXCEPT !.burned = @ + CreditUnit]
    BY <1>2, <1>5
  <2>6. /\ v'.burned = settled.burned + CreditUnit
        /\ Same(LedgerFields \ {"burned"}, settled, v')
    BY <2>1, <2>5 DEF Same, LedgerFields
  <2>7. /\ v'.bankedCredits = settled.bankedCredits /\ v'.everBanked = settled.everBanked
        /\ v'.outstandingTaskCredits = settled.outstandingTaskCredits
        /\ v'.taskCreditPayer = settled.taskCreditPayer
        /\ v'.stakingActive = settled.stakingActive /\ v'.stakeOf = settled.stakeOf
    BY <2>6 DEF Same, LedgerFields
  <2>8. LedgerOf(v') = abstract
    BY <1>4, <2>7 DEF LedgerOf
  <2>9. Credits!SettleSpentCredit(LedgerOf(v), t, from, to, isPost, none) = LedgerOf(v')
    BY <1>5, <2>8 DEF Credits!SettleSpentCredit
  <2>10. Credits!RegistrySettle(t, from, to, isPost, none)
    BY <1>3, <2>4, <2>9, ThisLedger DEF Credits!RegistrySettle
  <2>11. LedgerKept(v', 0)
    <3>1. Whole(v') + 0 = Whole(settled) + CreditUnit
      BY <1>1, <2>1, <2>6, <2>7 DEF Whole
    <3> QED
      BY <1>4, <2>7, <3>1 DEF LedgerKept
  <2> QED
    BY <2>3, <2>10, <2>11 DEF LedgerStep, Credits!Next
<1>6. CASE to # Nobody
  <2> DEFINE e == Earned(settled, s)
  <2>1. to \in Accounts
    BY <1>6
  <2>2. LedgerKept(paid, CreditUnit) /\ Banked(settled, paid, {from})
    BY <1>1, <1>4, BankedWithinCap, UpdateIsUpdate, UpdateBanked
  <2> HIDE DEF paid
  <2>3. LedgerKept(s, CreditUnit) /\ Banked(paid, s, {to})
    BY <1>1, <2>1, <2>2, BankedWithinCap, UpdateIsUpdate, UpdateBanked
  <2> HIDE DEF s
  <2>4. Banked(settled, s, {from, to})
    <3>1. Good(settled) /\ Good(paid) /\ Good(s) /\ settled.everBanked \in Nat
      BY <1>1, <1>4, <2>2, <2>3, BankedWithinCap
    <3> QED
      BY <2>1, <2>2, <2>3, <3>1, BankedTwice
  <2>5. /\ e \in [Accounts -> 0..CreditCap] /\ Credits!CanEarn(LedgerOf(settled), e)
        /\ Credits!Update(LedgerOf(settled), {from, to}, e) = LedgerOf(s)
    <3>1. Books(s, CreditUnit)
      BY <2>3 DEF LedgerKept
    <3> QED
      BY <1>1, <1>4, <2>1, <2>4, <3>1, BankedIsUpdate
  <2> HIDE DEF e
  <2>6. Credits!CanEarn(LedgerOf(v), e)
    BY <1>4, <2>5 DEF Credits!CanEarn, LedgerOf
  <2>7. v' = [s EXCEPT !.bankedCredits = Plus(@, to, CreditUnit)]
    BY <1>2, <1>6
  <2>8. /\ s.bankedCredits \in [Accounts -> Nat] /\ s.everBanked \in Nat /\ s.burned \in Nat
        /\ s.outstandingTaskCredits \in Nat /\ LedgerFields \subseteq DOMAIN s
    BY <1>1, <2>3, BankedWithinCap
  <2>9. /\ v'.bankedCredits = Plus(s.bankedCredits, to, CreditUnit)
        /\ v'.everBanked = s.everBanked /\ v'.burned = s.burned
        /\ v'.outstandingTaskCredits = s.outstandingTaskCredits
        /\ v'.taskCreditPayer = s.taskCreditPayer
        /\ v'.stakingActive = s.stakingActive /\ v'.stakeOf = s.stakeOf
    BY <2>7, <2>8 DEF LedgerFields
  <2>10. [LedgerOf(s) EXCEPT !.bankedCredits = Credits!Plus(@, to, CreditUnit)] = LedgerOf(v')
    BY <2>9 DEF LedgerOf, Credits!Plus, Plus
  <2>11. Credits!SettleSpentCredit(LedgerOf(v), t, from, to, isPost, e) = LedgerOf(v')
    BY <1>4, <1>6, <2>5, <2>10 DEF Credits!SettleSpentCredit
  <2>12. Credits!RegistrySettle(t, from, to, isPost, e)
    BY <1>3, <2>6, <2>11, ThisLedger DEF Credits!RegistrySettle
  <2>13. LedgerKept(v', 0)
    <3>1. /\ SumFunction(v'.bankedCredits) = SumFunction(s.bankedCredits) + CreditUnit
          /\ SumFunction(s.bankedCredits) \in Nat
      BY <1>1, <2>1, <2>8, <2>9, EntryPlusMinus
    <3>2. Whole(v') + 0 = Whole(s) + CreditUnit
      BY <1>1, <2>8, <2>9, <3>1 DEF Whole
    <3> QED
      BY <2>3, <2>9, <3>2 DEF LedgerKept
  <2> QED
    BY <2>5, <2>12, <2>13 DEF LedgerStep, Credits!Next
<1> QED
  BY <1>5, <1>6

(* Every transaction of the vault is a step of the ledger.                    *)
LEMMA TransactionSteps ==
    ASSUME Inv, LedgerKept(v, 0), Books(v', 0), Transaction
    PROVE  LedgerKept(v', 0) /\ LedgerStep
<1>1. CASE \/ ActivateStaking
           \/ Checkpoint
           \/ Donate
           \/ \E amount \in RewardAmounts : NotifyReward(amount)
           \/ \E amount \in StakeAmounts : RescueUndistributed(amount) \/ RescueSurplus(amount)
           \/ \E a \in Accounts : ClaimPayout(a)
  BY <1>1, OtherSteps
<1>2. CASE \E a \in Accounts :
              \/ BankCredits(a)
              \/ \E refused \in BOOLEAN : Claim(a, refused)
              \/ \E amount \in StakeAmounts : Stake(a, amount) \/ Unstake(a, amount)
  BY <1>2, AccountSteps
<1>3. CASE \E a \in Accounts, t \in Tasks, isPost \in BOOLEAN : TrySpendCredit(a, t, isPost)
  BY <1>3, SpendSteps
<1>4. CASE \E a \in Accounts, t \in Tasks, isPost \in BOOLEAN :
              \E to \in Accounts \cup {Nobody} : SettleSpentCredit(t, a, to, isPost)
  BY <1>4, SettleSteps
<1> QED
  BY <1>1, <1>2, <1>3, <1>4 DEF Transaction

(* The staking vault implements the ledger of Action Credits: whatever is     *)
(* staked, for how long, and however its divisions round, an update banks     *)
(* credits for the accounts it is for only, no more than the lifetime cap     *)
(* still leaves and none before staking starts, and credits are spent on and  *)
(* settled from a task once.                                                  *)
THEOREM StakingImplementsLedger == Spec => ImplementsLedger
<1> DEFINE Holds == LedgerKept(v, 0)
<1>1. Init /\ Conserved => Credits!Init /\ Holds
  <2> SUFFICES ASSUME Init, Conserved
               PROVE  Credits!Init /\ Holds
    OBVIOUS
  <2>1. /\ v.bankedCredits = Zero /\ v.stakeOf = Zero /\ v.everBanked = 0 /\ v.burned = 0
        /\ v.outstandingTaskCredits = 0 /\ v.stakingActive = FALSE
        /\ v.taskCreditPayer = [t \in Tasks |-> [isPost \in BOOLEAN |-> Nobody]]
    BY DEF Init
  <2>2. Zero \in [Accounts -> Nat] /\ \A a \in Accounts : Zero[a] = 0
    BY DEF Zero
  <2>3. SumFunction(Zero) = 0
    BY <2>2, Scales, TotalZero
  <2>4. Holds
    BY <2>1, <2>2, <2>3 DEF LedgerKept, Conserved, Whole
  <2>5. Credits!Init
    BY <2>1 DEF Credits!Init, Credits!EmptyLedger, AbstractLedger, Zero
  <2> QED
    BY <2>4, <2>5
<1>2. Conserved /\ Conserved' /\ Holds /\ [Next]_vars => Holds' /\ [Credits!Next]_AbstractLedger
  <2> SUFFICES ASSUME Conserved, Conserved', Holds, [Next]_vars
               PROVE  Holds' /\ [Credits!Next]_AbstractLedger
    OBVIOUS
  <2>1. Inv
    BY DEF Conserved
  <2>2. CASE Transaction /\ UNCHANGED now
    <3>1. Good(v')
      BY <2>2 DEF Conserved, Inv, Good, Natural, Ahead, RewardShare
    <3>2. Books(v', 0)
      BY <2>1, <2>2, <3>1, TransactionBooks
    <3>3. LedgerKept(v', 0) /\ LedgerStep
      BY <2>1, <2>2, <3>2, TransactionSteps
    <3>4. Holds'
      BY <3>3 DEF LedgerKept, Conserved, Whole
    <3> QED
      BY <3>3, <3>4 DEF LedgerStep
  <2>3. CASE Tick \/ UNCHANGED vars
    <3>1. v' = v
      BY <2>3 DEF Tick, vars
    <3>2. Holds'
      BY <3>1 DEF LedgerKept, Conserved, Whole
    <3> QED
      BY <3>1, <3>2 DEF AbstractLedger
  <2> QED
    BY <2>2, <2>3 DEF Next
<1> QED
  BY <1>1, <1>2, StakingConserves, PTL DEF Spec, ImplementsLedger, Credits!Spec
===============================================================================
