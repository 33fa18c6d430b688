---------------------------- MODULE StakePoolProofs ----------------------------
(***************************************************************************)
(* Theorems about StakePool, for every number of users and boost tokens,   *)
(* every amount, rate, multiplier and precision.  Neither the accounts nor *)
(* the tokens that may be registered need be finitely many: finitely many  *)
(* are ever used, and that is part of the inductive invariants.            *)
(***************************************************************************)
EXTENDS StakePool, TotalsProofs

(***************************************************************************)
(* The accounting functions return amounts.                                *)
(***************************************************************************)
Used(p) == p \in PoolInfos /\ IsFiniteSet(Registered(p))

\* A registered token has a multiplier and a total.
LEMMA RegisteredBoost ==
  ASSUME NEW p \in PoolInfos, NEW t \in BoostTokens
  PROVE  IF t \in Registered(p) THEN p.boost_tokens[t] \in Boosts
                                ELSE p.boost_tokens[t] = None
<1>1. None \notin Boosts
  BY StakeInfoAssumption DEF Boosts
<1>2. p.boost_tokens[t] \in Boosts \cup {None}
  BY DEF PoolInfos
<1> QED
  BY <1>1, <1>2 DEF Registered

\* Boost tokens are multiplied and rounded down.
LEMMA BoostedType ==
  ASSUME NEW p \in PoolInfos, NEW t \in Registered(p), NEW n \in Nat
  PROVE  /\ Boosted(p, t, n) \in Nat
         /\ BoostMultiplierPrecision * Boosted(p, t, n)
              <= p.boost_tokens[t].multiplier * n
<1>1. p.boost_tokens[t].multiplier \in Nat
  BY RegisteredBoost DEF Registered, Boosts
<1>2. p.boost_tokens[t].multiplier * n \in Nat
  BY <1>1, ProductType
<1> QED
  BY <1>2, StakeInfoAssumption, QuotientType DEF Boosted

\* The weight of a user is an amount.
LEMMA UserWeightType ==
  ASSUME NEW p, Used(p), NEW u \in StakeUsers
  PROVE  UserWeight(p, u) \in Nat
<1> DEFINE f == [t \in Registered(p) |-> Boosted(p, t, u.boost_token[t])]
<1>1. f \in [Registered(p) -> Nat]
  BY BoostedType DEF Used, StakeUsers, Registered
<1>2. Total(f) \in Nat
  BY <1>1, UnitsOfFinite DEF Used
<1> QED
  BY <1>2 DEF UserWeight, StakeUsers

\* The weight of the pool is an amount.
LEMMA TotalWeightType ==
  ASSUME NEW p, Used(p)
  PROVE  TotalWeight(p) \in Nat
<1> DEFINE f == [t \in Registered(p) |->
                   p.boost_tokens[t].total_staked * p.boost_tokens[t].multiplier]
           whole == p.total_staked * BoostMultiplierPrecision
<1>1. ASSUME NEW t \in Registered(p)
      PROVE  p.boost_tokens[t].total_staked * p.boost_tokens[t].multiplier \in Nat
  <2>1. p.boost_tokens[t] \in Boosts
    BY RegisteredBoost DEF Registered, Used
  <2> QED
    BY <2>1, ProductType DEF Boosts
<1>2. Total(f) \in Nat
  BY <1>1, UnitsOfFinite DEF Used
<1>3. whole \in Nat
  BY StakeInfoAssumption, ProductType DEF Used, PoolInfos
<1>4. whole + Total(f) \in Nat
  BY <1>2, <1>3
<1>5. (whole + Total(f)) \div BoostMultiplierPrecision \in Nat
  BY <1>4, StakeInfoAssumption, QuotientType
<1> QED
  BY <1>5 DEF TotalWeight

\* update_reward changes the reward per share and the time, which stay
\* amounts, and nothing else.
LEMMA UpdateRewardType ==
  ASSUME NEW p, Used(p), NEW time \in Nat
  PROVE  /\ Used(UpdateReward(p, time))
         /\ Registered(UpdateReward(p, time)) = Registered(p)
         /\ UpdateReward(p, time).boost_tokens = p.boost_tokens
         /\ UpdateReward(p, time).total_staked = p.total_staked
<1>1. AccRewardPerShare(p, time) \in Nat
  <2>1. CASE time > p.last_update_timestamp /\ TotalWeight(p) # 0
    <3>1. /\ p.reward_per_second \in Nat /\ time - p.last_update_timestamp \in Nat
          /\ p.acc_reward_per_share \in Nat
      BY <2>1 DEF Used, PoolInfos
    <3>2. p.reward_per_second * (time - p.last_update_timestamp) \in Nat
      BY <3>1, ProductType
    <3>3. p.reward_per_second * (time - p.last_update_timestamp) * AccRewardPrecision
            \in Nat
      BY <3>2, ProductType, StakeInfoAssumption
    <3>4. (p.reward_per_second * (time - p.last_update_timestamp) * AccRewardPrecision)
            \div TotalWeight(p) \in Nat
      BY <2>1, <3>3, TotalWeightType, QuotientType
    <3> QED
      BY <2>1, <3>1, <3>4 DEF AccRewardPerShare
  <2>2. CASE ~(time > p.last_update_timestamp /\ TotalWeight(p) # 0)
    BY <2>2 DEF AccRewardPerShare, Used, PoolInfos
  <2> QED
    BY <2>1, <2>2
<1>2. /\ UpdateReward(p, time) \in PoolInfos
      /\ UpdateReward(p, time).boost_tokens = p.boost_tokens
      /\ UpdateReward(p, time).total_staked = p.total_staked
  BY <1>1 DEF UpdateReward, Used, PoolInfos
<1>3. Registered(UpdateReward(p, time)) = Registered(p)
  BY <1>2 DEF Registered
<1> QED
  BY <1>2, <1>3 DEF Used

\* A reward is an integer; that of an amount is an amount.
LEMMA RewardType ==
  ASSUME NEW p \in PoolInfos, NEW weight \in Int
  PROVE  /\ Reward(p, weight) \in Int
         /\ weight \in Nat => Reward(p, weight) \in Nat
<1>1. p.acc_reward_per_share \in Nat
  BY DEF PoolInfos
<1>2. weight * p.acc_reward_per_share \in Int
  BY <1>1
<1>3. weight \in Nat => weight * p.acc_reward_per_share \in Nat
  BY <1>1, ProductType
<1> QED
  BY <1>2, <1>3, StakeInfoAssumption, QuotientType, SMT DEF Reward

\* What a user has pending is an integer.
LEMMA PendingRewardType ==
  ASSUME NEW p, Used(p), NEW u \in StakeUsers, NEW time \in Nat
  PROVE  PendingReward(p, u, time) \in Int
<1>1. Used(UpdateReward(p, time))
  BY UpdateRewardType
<1>2. UserWeight(p, u) \in Nat
  BY UserWeightType
<1>3. Reward(UpdateReward(p, time), UserWeight(p, u)) \in Int
  BY <1>1, <1>2, RewardType DEF Used
<1> QED
  BY <1>3 DEF PendingReward, StakeUsers

(***************************************************************************)
(* What one operation moves.  A user's record goes from u to v while the   *)
(* pool's goes from p to q: the totals move by what the user's amounts     *)
(* move by, and a user without a stake has no boost tokens in the pool.    *)
(***************************************************************************)
BoostStaked(p, t) ==
  IF t \in Registered(p) THEN p.boost_tokens[t].total_staked ELSE 0

Whole(p, u) ==
  /\ u \in StakeUsers
  /\ u.amount = 0 => \A t \in BoostTokens : u.boost_token[t] = 0
  /\ \A t \in BoostTokens \ Registered(p) : u.boost_token[t] = 0

Moves(p, u, q, v) ==
  /\ Used(q) /\ Registered(q) = Registered(p)
  /\ Whole(q, v)
  /\ q.total_staked = p.total_staked + v.amount - u.amount
  /\ \A t \in BoostTokens :
       BoostStaked(q, t) = BoostStaked(p, t) + v.boost_token[t] - u.boost_token[t]

\* The totals of a pool are amounts.
LEMMA BoostStakedType ==
  ASSUME NEW p \in PoolInfos, NEW t \in BoostTokens
  PROVE  BoostStaked(p, t) \in Nat
  BY RegisteredBoost DEF BoostStaked, Boosts

\* Debts are no part of it.
LEMMA DebtMoves ==
  ASSUME NEW p, NEW u, NEW q, NEW v, Moves(p, u, q, v), NEW debt \in Int
  PROVE  Moves(p, u, q, [v EXCEPT !.reward_debt = debt])
<1>1. v \in StakeUsers
  BY DEF Moves, Whole
<1>2. /\ [v EXCEPT !.reward_debt = debt] \in StakeUsers
      /\ [v EXCEPT !.reward_debt = debt].amount = v.amount
      /\ [v EXCEPT !.reward_debt = debt].boost_token = v.boost_token
  BY <1>1 DEF StakeUsers
<1> QED
  BY <1>2 DEF Moves, Whole

\* deposit adds to the stake.
LEMMA DepositMoves ==
  ASSUME NEW p, Used(p), NEW u, Whole(p, u), NEW n \in Nat \ {0}
  PROVE  Moves(p, u, PoolAfterDeposit(p, n), UserAfterDeposit(p, u, n))
<1> DEFINE q == PoolAfterDeposit(p, n)
           v == UserAfterDeposit(p, u, n)
<1>1. Reward(p, n) \in Int
  BY RewardType DEF Used
<1>2. /\ u.amount \in Nat /\ u.reward_debt \in Int /\ p.total_staked \in Nat
      /\ u.boost_token \in [BoostTokens -> Nat]
  BY DEF Whole, StakeUsers, Used, PoolInfos
<1>3. /\ q \in PoolInfos /\ q.boost_tokens = p.boost_tokens
      /\ q.total_staked = p.total_staked + n
  BY <1>2 DEF PoolAfterDeposit, Used, PoolInfos
<1>4. /\ v \in StakeUsers /\ v.boost_token = u.boost_token
      /\ v.amount = u.amount + n
  <2>1. u.amount + n \in Nat /\ u.reward_debt + Reward(p, n) \in Int
    BY <1>1, <1>2
  <2>2. u \in StakeUsers
    BY DEF Whole
  <2> QED
    BY <2>1, <2>2 DEF UserAfterDeposit, StakeUsers
<1>5. Registered(q) = Registered(p)
  BY <1>3 DEF Registered
<1> HIDE DEF q, v
<1>6. \A t \in BoostTokens :
        /\ BoostStaked(q, t) = BoostStaked(p, t)
        /\ BoostStaked(p, t) \in Nat /\ u.boost_token[t] \in Nat
  BY <1>2, <1>3, <1>5, BoostStakedType DEF BoostStaked, Used
<1>7. Whole(q, v)
  BY <1>2, <1>4, <1>5 DEF Whole
<1>8. Moves(p, u, q, v)
  BY <1>2, <1>3, <1>4, <1>5, <1>6, <1>7 DEF Moves, Used
<1> QED
  BY <1>8 DEF q, v

\* deposit_boost_token adds to the boost of a user with a stake, or does
\* nothing for a token nobody registered.
LEMMA BoostMoves ==
  ASSUME NEW p, Used(p), NEW u, Whole(p, u), u.amount # 0,
         NEW token \in BoostTokens, NEW n \in Nat
  PROVE  Moves(p, u, PoolAfterBoost(p, token, n), UserAfterBoost(p, u, token, n))
<1> DEFINE q == PoolAfterBoost(p, token, n)
           v == UserAfterBoost(p, u, token, n)
<1>1. /\ u.amount \in Nat /\ u.reward_debt \in Int /\ p.total_staked \in Nat
      /\ u.boost_token \in [BoostTokens -> Nat]
      /\ \A t \in BoostTokens : BoostStaked(p, t) \in Nat /\ u.boost_token[t] \in Nat
  BY BoostStakedType DEF Whole, StakeUsers, Used, PoolInfos
<1>2. CASE token \notin Registered(p)
  BY <1>1, <1>2 DEF PoolAfterBoost, UserAfterBoost, Moves
<1>3. CASE token \in Registered(p)
  <2>1. Reward(p, Boosted(p, token, n)) \in Int
    BY <1>3, BoostedType, RewardType DEF Used
  <2>2. p.boost_tokens[token] \in Boosts
    BY <1>3, RegisteredBoost DEF Used
  <2>3. [p.boost_tokens[token] EXCEPT !.total_staked = @ + n] \in Boosts
    BY <2>2 DEF Boosts
  <2>4. /\ q \in PoolInfos /\ q.total_staked = p.total_staked
        /\ q.boost_tokens[token] = [p.boost_tokens[token] EXCEPT !.total_staked = @ + n]
        /\ \A t \in BoostTokens \ {token} : q.boost_tokens[t] = p.boost_tokens[t]
    BY <1>3, <2>3 DEF PoolAfterBoost, Used, PoolInfos
  <2>5. /\ v \in StakeUsers /\ v.amount = u.amount
        /\ v.boost_token[token] = u.boost_token[token] + n
        /\ \A t \in BoostTokens \ {token} : v.boost_token[t] = u.boost_token[t]
    <3>1. /\ u.boost_token[token] + n \in Nat
          /\ u.reward_debt + Reward(p, Boosted(p, token, n)) \in Int
      BY <1>1, <2>1
    <3>2. u \in StakeUsers
      BY DEF Whole
    <3> QED
      BY <1>3, <3>1, <3>2 DEF UserAfterBoost, StakeUsers
  <2> HIDE DEF q, v
  <2>6. Registered(q) = Registered(p)
    <3>1. None \notin Boosts
      BY StakeInfoAssumption DEF Boosts
    <3> QED
      BY <1>3, <2>3, <2>4, <3>1 DEF Registered
  <2>7. q.boost_tokens[token].total_staked = p.boost_tokens[token].total_staked + n
    BY <2>2, <2>4 DEF Boosts
  <2>8. \A t \in BoostTokens :
          BoostStaked(q, t) = BoostStaked(p, t) + v.boost_token[t] - u.boost_token[t]
    <3>1. ASSUME NEW t \in BoostTokens
          PROVE  BoostStaked(q, t)
                   = BoostStaked(p, t) + v.boost_token[t] - u.boost_token[t]
      <4>1. CASE t = token
        BY <1>1, <1>3, <2>5, <2>6, <2>7, <4>1 DEF BoostStaked
      <4>2. CASE t # token
        BY <1>1, <2>4, <2>5, <2>6, <4>2 DEF BoostStaked
      <4> QED
        BY <4>1, <4>2
    <3> QED
      BY <3>1
  <2>9. Whole(q, v)
    BY <1>3, <2>5, <2>6 DEF Whole
  <2>10. Moves(p, u, q, v)
    BY <1>1, <2>4, <2>5, <2>6, <2>8, <2>9 DEF Moves, Used
  <2> QED
    BY <2>10 DEF q, v
<1> QED
  BY <1>2, <1>3

\* withdraw takes n off the stake, and all boost tokens with the last of it.
LEMMA WithdrawMoves ==
  ASSUME NEW p, Used(p), NEW u, Whole(p, u), NEW n \in Nat, WithdrawFits(p, u, n)
  PROVE  Moves(p, u, PoolAfterWithdraw(p, u, n), WithoutStake(u, n))
<1> DEFINE q == PoolAfterWithdraw(p, u, n)
           v == WithoutStake(u, n)
           r == Returned(u, n)
<1>1. /\ u \in StakeUsers /\ u.amount \in Nat /\ p.total_staked \in Nat
      /\ u.boost_token \in [BoostTokens -> Nat]
      /\ \A t \in BoostTokens : BoostStaked(p, t) \in Nat /\ u.boost_token[t] \in Nat
  BY BoostStakedType DEF Whole, StakeUsers, Used, PoolInfos
<1>2. \A t \in BoostTokens :
        /\ r[t] = IF n = u.amount THEN u.boost_token[t] ELSE 0
        /\ r[t] \in Nat /\ u.boost_token[t] - r[t] \in Nat
        /\ t \in Registered(p) => r[t] <= p.boost_tokens[t].total_staked
  <2> SUFFICES ASSUME NEW t \in BoostTokens
               PROVE  /\ r[t] = IF n = u.amount THEN u.boost_token[t] ELSE 0
                      /\ r[t] \in Nat /\ u.boost_token[t] - r[t] \in Nat
                      /\ t \in Registered(p) => r[t] <= p.boost_tokens[t].total_staked
    OBVIOUS
  <2>1. r[t] = IF n = u.amount THEN u.boost_token[t] ELSE 0
    BY DEF Returned
  <2>2. t \in Registered(p) => r[t] <= p.boost_tokens[t].total_staked
    BY DEF WithdrawFits
  <2>3. u.boost_token[t] \in Nat
    BY <1>1
  <2> HIDE DEF r
  <2> QED
    BY <2>1, <2>2, <2>3
<1> HIDE DEF r
<1>3. /\ v \in StakeUsers /\ v.amount = u.amount - n
      /\ \A t \in BoostTokens : v.boost_token[t] = u.boost_token[t] - r[t]
  <2>1. u.amount - n \in Nat
    BY <1>1 DEF WithdrawFits
  <2>2. v = [u EXCEPT !.amount = u.amount - n,
                      !.boost_token = [t \in BoostTokens |-> u.boost_token[t] - r[t]]]
    BY DEF WithoutStake, r
  <2>3. [t \in BoostTokens |-> u.boost_token[t] - r[t]] \in [BoostTokens -> Nat]
    BY <1>2
  <2> HIDE DEF v
  <2> QED
    BY <1>1, <2>1, <2>2, <2>3 DEF StakeUsers
<1>4. /\ p.total_staked - n \in Nat
      /\ q = [p EXCEPT !.total_staked = p.total_staked - n,
                       !.boost_tokens = [t \in BoostTokens |->
            IF t \in Registered(p) THEN LessBoost(p.boost_tokens[t], r[t]) ELSE None]]
  BY <1>1 DEF PoolAfterWithdraw, WithdrawFits, r
<1>5. \A t \in Registered(p) :
        /\ LessBoost(p.boost_tokens[t], r[t]) \in Boosts
        /\ LessBoost(p.boost_tokens[t], r[t]).total_staked
             = p.boost_tokens[t].total_staked - r[t]
  <2> SUFFICES ASSUME NEW t \in Registered(p)
               PROVE  /\ LessBoost(p.boost_tokens[t], r[t]) \in Boosts
                      /\ LessBoost(p.boost_tokens[t], r[t]).total_staked
                           = p.boost_tokens[t].total_staked - r[t]
    OBVIOUS
  <2>1. t \in BoostTokens /\ p.boost_tokens[t] \in Boosts
    BY RegisteredBoost DEF Registered, Used
  <2>2. p.boost_tokens[t].total_staked - r[t] \in Nat
    BY <1>2, <2>1 DEF Boosts
  <2> QED
    BY <2>1, <2>2 DEF LessBoost, Boosts
<1> HIDE DEF q, v
<1>6. /\ q \in PoolInfos /\ q.total_staked = p.total_staked - n
      /\ \A t \in BoostTokens :
           q.boost_tokens[t] = IF t \in Registered(p)
                               THEN LessBoost(p.boost_tokens[t], r[t])
                               ELSE None
  BY <1>4, <1>5 DEF Used, PoolInfos
<1>7. Registered(q) = Registered(p)
  <2>1. None \notin Boosts
    BY StakeInfoAssumption DEF Boosts
  <2> QED
    BY <1>5, <1>6, <2>1 DEF Registered
<1>8. \A t \in BoostTokens :
        BoostStaked(q, t) = BoostStaked(p, t) + v.boost_token[t] - u.boost_token[t]
  <2> SUFFICES ASSUME NEW t \in BoostTokens
               PROVE  BoostStaked(q, t)
                        = BoostStaked(p, t) + v.boost_token[t] - u.boost_token[t]
    OBVIOUS
  <2>1. BoostStaked(p, t) \in Nat /\ u.boost_token[t] \in Nat /\ r[t] \in Nat
    BY <1>1, <1>2
  <2>2. CASE t \in Registered(p)
    <3>1. BoostStaked(q, t) = p.boost_tokens[t].total_staked - r[t]
      BY <1>5, <1>6, <1>7, <2>2 DEF BoostStaked
    <3> QED
      BY <1>3, <2>1, <2>2, <3>1 DEF BoostStaked
  <2>3. CASE t \notin Registered(p)
    <3>1. u.boost_token[t] = 0 /\ r[t] = 0
      BY <1>2, <2>3 DEF Whole
    <3> QED
      BY <1>3, <1>7, <2>3, <3>1 DEF BoostStaked
  <2> QED
    BY <2>2, <2>3
<1>9. Whole(q, v)
  <2>1. v.amount = 0 => \A t \in BoostTokens : v.boost_token[t] = 0
    BY <1>1, <1>2, <1>3
  <2>2. \A t \in BoostTokens \ Registered(q) : v.boost_token[t] = 0
    BY <1>1, <1>2, <1>3, <1>7 DEF Whole
  <2> QED
    BY <1>3, <2>1, <2>2 DEF Whole
<1>10. Moves(p, u, q, v)
  BY <1>1, <1>3, <1>6, <1>7, <1>8, <1>9 DEF Moves, Used
<1> QED
  BY <1>10 DEF q, v

\* Nothing moves.
LEMMA NoMoves ==
  ASSUME NEW p, Used(p), NEW u, Whole(p, u)
  PROVE  Moves(p, u, p, u)
<1>1. /\ u.amount \in Nat /\ p.total_staked \in Nat
      /\ \A t \in BoostTokens : BoostStaked(p, t) \in Nat /\ u.boost_token[t] \in Nat
  BY BoostStakedType DEF Whole, StakeUsers, Used, PoolInfos
<1> QED
  BY <1>1 DEF Moves

\* The three ways out, with the debts the code writes: an integer each.
LEMMA ExitMoves ==
  ASSUME NEW p, Used(p), NEW u, Whole(p, u), NEW n \in Nat
  PROVE  /\ WithdrawFits(p, u, n) =>
              /\ Moves(p, u, PoolAfterWithdraw(p, u, n), UserAfterWithdraw(p, u, n))
              /\ Moves(p, u, PoolAfterWithdraw(p, u, n),
                       UserAfterWithdrawAndHarvest(p, u, n))
         /\ Moves(p, u, p, UserAfterHarvest(p, u))
<1>1. p \in PoolInfos /\ u \in StakeUsers
  BY DEF Used, Whole
<1>2. UserWeight(p, u) \in Nat
  BY <1>1, UserWeightType
<1>3. Reward(p, UserWeight(p, u)) \in Int /\ Reward(p, n) \in Int
  BY <1>1, <1>2, RewardType
<1>4. Moves(p, u, p, UserAfterHarvest(p, u))
  BY <1>3, NoMoves, DebtMoves DEF UserAfterHarvest
<1>5. ASSUME WithdrawFits(p, u, n)
      PROVE  /\ Moves(p, u, PoolAfterWithdraw(p, u, n), UserAfterWithdraw(p, u, n))
             /\ Moves(p, u, PoolAfterWithdraw(p, u, n),
                      UserAfterWithdrawAndHarvest(p, u, n))
  <2>1. Moves(p, u, PoolAfterWithdraw(p, u, n), WithoutStake(u, n))
    BY <1>5, WithdrawMoves
  <2>2. WithoutStake(u, n) \in StakeUsers
    BY <2>1 DEF Moves, Whole
  <2>3. UserWeight(p, WithoutStake(u, n)) \in Nat
    BY <2>2, UserWeightType
  <2>4. Reward(p, UserWeight(p, u) - UserWeight(p, WithoutStake(u, n))) \in Int
    BY <1>1, <1>2, <2>3, RewardType
  <2>5. /\ WithoutStake(u, n).reward_debt
             - Reward(p, UserWeight(p, u) - UserWeight(p, WithoutStake(u, n))) \in Int
        /\ Reward(p, UserWeight(p, u)) - Reward(p, n) \in Int
    BY <1>3, <2>2, <2>4 DEF StakeUsers
  <2> QED
    BY <2>1, <2>5, DebtMoves DEF UserAfterWithdraw, UserAfterWithdrawAndHarvest
<1> QED
  BY <1>4, <1>5

\* set_boost_token moves nothing: a token is registered with a total of 0, or
\* gets another multiplier.
LEMMA SetBoostUsed ==
  ASSUME NEW p, Used(p), NEW token \in BoostTokens, NEW multiplier \in Nat
  PROVE  LET q == PoolAfterSetBoost(p, token, multiplier)
         IN  /\ Used(q) /\ Registered(p) \subseteq Registered(q)
             /\ q.total_staked = p.total_staked
             /\ \A t \in BoostTokens : BoostStaked(q, t) = BoostStaked(p, t)
<1> DEFINE q == PoolAfterSetBoost(p, token, multiplier)
           entry == [multiplier |-> multiplier, total_staked |-> BoostStaked(p, token)]
<1>1. q = [p EXCEPT !.boost_tokens[token] = entry]
  BY DEF PoolAfterSetBoost, BoostStaked
<1>2. BoostStaked(p, token) \in Nat
  BY BoostStakedType DEF Used
<1>3. entry \in Boosts /\ entry.total_staked = BoostStaked(p, token)
  BY <1>2 DEF Boosts
<1> HIDE DEF q, entry
<1>4. /\ q \in PoolInfos /\ q.total_staked = p.total_staked
      /\ q.boost_tokens[token] = entry
      /\ \A t \in BoostTokens \ {token} : q.boost_tokens[t] = p.boost_tokens[t]
  BY <1>1, <1>3 DEF Used, PoolInfos
<1>5. None \notin Boosts
  BY StakeInfoAssumption DEF Boosts
<1>6. Registered(q) = Registered(p) \cup {token}
  BY <1>3, <1>4, <1>5 DEF Registered
<1>7. IsFiniteSet(Registered(q))
  BY <1>6, FS_AddElement DEF Used
<1>8. \A t \in BoostTokens : BoostStaked(q, t) = BoostStaked(p, t)
  BY <1>3, <1>4, <1>6 DEF BoostStaked
<1> QED
  BY <1>4, <1>6, <1>7, <1>8 DEF q, Used

(***************************************************************************)
(* The inductive invariant: types, finitely many tokens registered, totals *)
(* that count what the users have, and no boost without a stake.           *)
(***************************************************************************)
StakeOf == [u \in Accounts |-> staker[u].amount]
BoostOf(t) == [u \in Accounts |-> staker[u].boost_token[t]]

StakeInv ==
  /\ StakeTypeOK
  /\ IsFiniteSet(Registered(stake))
  /\ Counts(Accounts, stake.total_staked, StakeOf)
  /\ \A t \in BoostTokens : Counts(Accounts, BoostStaked(stake, t), BoostOf(t))
  /\ BoostNeedsStake

\* Nobody has boost tokens that are not registered, so every user's record is
\* one the lemmas above apply to.
LEMMA InvWhole ==
  ASSUME StakeInv, NEW u \in Accounts
  PROVE  Whole(stake, staker[u])
<1>1. staker[u] \in StakeUsers
  BY DEF StakeInv, StakeTypeOK
<1>2. \A t \in BoostTokens : staker[u].boost_token[t] \in Nat
  BY <1>1 DEF StakeUsers
<1>3. ASSUME NEW t \in BoostTokens, t \notin Registered(stake)
      PROVE  staker[u].boost_token[t] = 0
  <2>1. BoostStaked(stake, t) = 0
    BY <1>3 DEF BoostStaked
  <2>2. BoostOf(t)[u] <= BoostStaked(stake, t)
    BY CountsCovers DEF StakeInv
  <2> QED
    BY <1>2, <2>1, <2>2 DEF BoostOf
<1>4. staker[u].amount = 0 => \A t \in BoostTokens : staker[u].boost_token[t] = 0
  BY DEF StakeInv, BoostNeedsStake
<1> QED
  BY <1>1, <1>3, <1>4 DEF Whole

\* Bringing the rewards up to date moves no stake.
LEMMA UpdatedPool ==
  ASSUME StakeInv
  PROVE  /\ Used(Updated) /\ Registered(Updated) = Registered(stake)
         /\ Updated.total_staked = stake.total_staked
         /\ \A t \in BoostTokens : BoostStaked(Updated, t) = BoostStaked(stake, t)
         /\ \A u \in Accounts : Whole(Updated, staker[u])
<1>1. Used(stake) /\ now \in Nat
  BY DEF StakeInv, StakeTypeOK, Used
<1>2. /\ Used(Updated) /\ Registered(Updated) = Registered(stake)
      /\ Updated.boost_tokens = stake.boost_tokens
      /\ Updated.total_staked = stake.total_staked
  BY <1>1, UpdateRewardType DEF Updated
<1> QED
  BY <1>2, InvWhole DEF BoostStaked, Whole

\* A step that replaces one user's record and the pool's, and moves the totals
\* by the difference, keeps the invariant.
LEMMA MoveKeepsInv ==
  ASSUME StakeInv, NEW u \in Accounts, NEW v,
         Moves(Updated, staker[u], stake', v),
         staker' = [staker EXCEPT ![u] = v],
         balance' \in [StakeTokens -> Nat], position' \in [Accounts -> Nat],
         now' = now
  PROVE  StakeInv'
<1>1. /\ Used(stake') /\ Whole(stake', v) /\ v \in StakeUsers
      /\ stake'.total_staked = stake.total_staked + v.amount - staker[u].amount
      /\ \A t \in BoostTokens :
           BoostStaked(stake', t)
             = BoostStaked(stake, t) + v.boost_token[t] - staker[u].boost_token[t]
  BY UpdatedPool DEF Moves, Whole
<1>2. staker \in [Accounts -> StakeUsers] /\ now \in Nat
  BY DEF StakeInv, StakeTypeOK
<1>3. StakeTypeOK'
  BY <1>1, <1>2 DEF StakeTypeOK, Used
<1>4. v.amount \in Nat /\ \A t \in BoostTokens : v.boost_token[t] \in Nat
  BY <1>1 DEF StakeUsers
<1>5. Counts(Accounts, stake'.total_staked, StakeOf')
  <2>1. Counts(Accounts, stake.total_staked + v.amount - StakeOf[u],
               [StakeOf EXCEPT ![u] = v.amount])
    BY <1>4, CountsAfter DEF StakeInv
  <2>2. /\ StakeOf' = [StakeOf EXCEPT ![u] = v.amount]
        /\ StakeOf[u] = staker[u].amount
    BY <1>2 DEF StakeOf
  <2> QED
    BY <1>1, <2>1, <2>2
<1>6. ASSUME NEW t \in BoostTokens
      PROVE  Counts(Accounts, BoostStaked(stake', t), BoostOf(t)')
  <2>1. Counts(Accounts, BoostStaked(stake, t) + v.boost_token[t] - BoostOf(t)[u],
               [BoostOf(t) EXCEPT ![u] = v.boost_token[t]])
    BY <1>4, CountsAfter DEF StakeInv
  <2>2. /\ BoostOf(t)' = [BoostOf(t) EXCEPT ![u] = v.boost_token[t]]
        /\ BoostOf(t)[u] = staker[u].boost_token[t]
    BY <1>2 DEF BoostOf
  <2> QED
    BY <1>1, <2>1, <2>2
<1>7. BoostNeedsStake'
  BY <1>1, <1>2 DEF StakeInv, BoostNeedsStake, Whole
<1> QED
  BY <1>1, <1>3, <1>5, <1>6, <1>7 DEF StakeInv, Used, Counts, BoostStaked, Registered

\* A step of the owner or of the environment moves nobody's tokens.
LEMMA PoolKeepsInv ==
  ASSUME StakeInv, UNCHANGED staker, Used(stake'),
         stake'.total_staked = stake.total_staked,
         \A t \in BoostTokens : BoostStaked(stake', t) = BoostStaked(stake, t),
         balance' \in [StakeTokens -> Nat], position' \in [Accounts -> Nat],
         now' \in Nat
  PROVE  StakeInv'
<1>1. StakeTypeOK'
  BY DEF StakeInv, StakeTypeOK, Used
<1>2. StakeOf' = StakeOf /\ \A t \in BoostTokens : BoostOf(t)' = BoostOf(t)
  BY DEF StakeOf, BoostOf
<1>3. /\ Counts(Accounts, stake'.total_staked, StakeOf')
      /\ \A t \in BoostTokens : Counts(Accounts, BoostStaked(stake', t), BoostOf(t)')
  BY <1>2 DEF StakeInv
<1>4. BoostNeedsStake'
  BY DEF StakeInv, BoostNeedsStake
<1> QED
  BY <1>1, <1>3, <1>4 DEF StakeInv, Used, Counts, BoostStaked, Registered

(***************************************************************************)
(* Payments.                                                               *)
(***************************************************************************)
\* A payment is an amount of every token.
LEMMA PaymentType ==
  ASSUME StakeTypeOK, NEW u \in Accounts, NEW n \in Nat, NEW reward \in Nat
  PROVE  Payment(u, n, reward) \in [StakeTokens -> Nat]
<1>1. \A t \in BoostTokens : Returned(staker[u], n)[t] \in Nat
  BY DEF StakeTypeOK, StakeUsers, Returned
<1> QED
  BY <1>1 DEF Payment

\* A payment leaves amounts: it takes no more than there is.
LEMMA PayType ==
  ASSUME StakeTypeOK, NEW payment \in [StakeTokens -> Nat], Pay(payment)
  PROVE  balance' \in [StakeTokens -> Nat]
<1>1. \A t \in StakeTokens : balance[t] - payment[t] \in Nat
  BY DEF StakeTypeOK, Pay
<1> QED
  BY <1>1 DEF Pay

\* Position tokens that are surrendered were there.
LEMMA SurrenderType ==
  ASSUME StakeTypeOK, NEW u \in Accounts, NEW n \in Nat, Surrender(u, n)
  PROVE  position' \in [Accounts -> Nat]
<1>1. position[u] - n \in Nat
  BY DEF StakeTypeOK, Surrender
<1> QED
  BY <1>1 DEF StakeTypeOK, Surrender

\* Tokens that are received add to the balance.
LEMMA ReceiveType ==
  ASSUME StakeTypeOK, NEW token \in StakeTokens, NEW n \in Nat, Receive(token, n)
  PROVE  balance' \in [StakeTokens -> Nat]
  BY DEF StakeTypeOK, Receive

(***************************************************************************)
(* The initial state and every action keep the invariant.                  *)
(***************************************************************************)
\* instantiate: nothing is registered and nobody has anything.
LEMMA InitStakeInv == StakeInit => StakeInv
<1> SUFFICES ASSUME StakeInit PROVE StakeInv
  OBVIOUS
<1> DEFINE nothing == [u \in Accounts |-> 0]
<1>1. stake \in PoolInfos
  BY StakePoolAssumption DEF StakeInit, InitialPoolInfo, PoolInfos
<1>2. staker \in [Accounts -> StakeUsers]
  BY DEF StakeInit, DefaultStakeUser, StakeUsers
<1>3. StakeTypeOK
  BY <1>1, <1>2, StakePoolAssumption DEF StakeInit, StakeTypeOK
<1>4. Registered(stake) = {}
  BY DEF StakeInit, InitialPoolInfo, Registered
<1>5. /\ stake.total_staked = 0
      /\ \A t \in BoostTokens : BoostStaked(stake, t) = 0
  BY <1>4 DEF StakeInit, InitialPoolInfo, BoostStaked
<1>6. StakeOf = nothing /\ \A t \in BoostTokens : BoostOf(t) = nothing
  BY DEF StakeInit, DefaultStakeUser, StakeOf, BoostOf
<1>7. BoostNeedsStake
  BY DEF StakeInit, DefaultStakeUser, BoostNeedsStake
<1> QED
  BY <1>3, <1>4, <1>5, <1>6, <1>7, CountsNothing, FS_EmptySet DEF StakeInv

\* A deposit for somebody.
LEMMA DepositKeepsInv ==
  ASSUME StakeInv, NEW u \in Accounts, NEW n \in Nat \ {0}, Deposit(u, n)
  PROVE  StakeInv'
<1> DEFINE v == UserAfterDeposit(Updated, staker[u], n)
<1>1. Moves(Updated, staker[u], stake', v)
  BY UpdatedPool, DepositMoves DEF Deposit
<1>2. staker' = [staker EXCEPT ![u] = v] /\ now' = now
  BY DEF Deposit, StakeInv, StakeTypeOK
<1>3. balance' \in [StakeTokens -> Nat]
  BY ReceiveType DEF Deposit, StakeInv, StakeTokens
<1>4. position' \in [Accounts -> Nat]
  BY DEF Deposit, StakeInv, StakeTypeOK
<1> HIDE DEF v
<1> QED
  BY <1>1, <1>2, <1>3, <1>4, MoveKeepsInv

\* A boost for somebody.
LEMMA BoostKeepsInv ==
  ASSUME StakeInv, NEW u \in Accounts, NEW token \in BoostTokens,
         NEW n \in Nat, DepositBoostToken(u, token, n)
  PROVE  StakeInv'
<1> DEFINE v == UserAfterBoost(Updated, staker[u], token, n)
<1>1. Moves(Updated, staker[u], stake', v)
  BY UpdatedPool, BoostMoves DEF DepositBoostToken
<1>2. staker' = [staker EXCEPT ![u] = v] /\ now' = now
  BY DEF DepositBoostToken, StakeInv, StakeTypeOK
<1>3. balance' \in [StakeTokens -> Nat]
  BY ReceiveType DEF DepositBoostToken, StakeInv, StakeTokens
<1>4. position' \in [Accounts -> Nat]
  BY DEF DepositBoostToken, StakeInv, StakeTypeOK
<1> HIDE DEF v
<1> QED
  BY <1>1, <1>2, <1>3, <1>4, MoveKeepsInv

\* What is pending is an integer; harvest and withdraw_and_harvest refuse one
\* that is not positive.
LEMMA PendingType ==
  ASSUME StakeInv, NEW u \in Accounts
  PROVE  PendingReward(stake, staker[u], now) \in Int
<1>1. Used(stake) /\ staker[u] \in StakeUsers /\ now \in Nat
  BY DEF StakeInv, StakeTypeOK, Used
<1> QED
  BY <1>1, PendingRewardType

\* A withdrawal without the reward.
LEMMA WithdrawKeepsInv ==
  ASSUME StakeInv, NEW u \in Accounts, NEW n \in Nat, Withdraw(u, n)
  PROVE  StakeInv'
<1> DEFINE v == UserAfterWithdraw(Updated, staker[u], n)
<1>1. Moves(Updated, staker[u], stake', v)
  BY UpdatedPool, ExitMoves DEF Withdraw
<1>2. staker' = [staker EXCEPT ![u] = v] /\ now' = now
  BY DEF Withdraw, StakeInv, StakeTypeOK
<1>3. balance' \in [StakeTokens -> Nat]
  BY PaymentType, PayType DEF Withdraw, StakeInv
<1>4. position' \in [Accounts -> Nat]
  BY SurrenderType DEF Withdraw, StakeInv
<1> HIDE DEF v
<1> QED
  BY <1>1, <1>2, <1>3, <1>4, MoveKeepsInv

\* A withdrawal with the reward.
LEMMA WithdrawAndHarvestKeepsInv ==
  ASSUME StakeInv, NEW u \in Accounts, NEW n \in Nat, WithdrawAndHarvest(u, n)
  PROVE  StakeInv'
<1> DEFINE v == UserAfterWithdrawAndHarvest(Updated, staker[u], n)
           reward == PendingReward(stake, staker[u], now)
<1>1. Moves(Updated, staker[u], stake', v)
  BY UpdatedPool, ExitMoves DEF WithdrawAndHarvest
<1>2. staker' = [staker EXCEPT ![u] = v] /\ now' = now
  BY DEF WithdrawAndHarvest, StakeInv, StakeTypeOK
<1>3. balance' \in [StakeTokens -> Nat]
  <2>1. reward \in Nat
    BY PendingType DEF WithdrawAndHarvest
  <2> QED
    BY <2>1, PaymentType, PayType DEF WithdrawAndHarvest, StakeInv
<1>4. position' \in [Accounts -> Nat]
  BY SurrenderType DEF WithdrawAndHarvest, StakeInv
<1> HIDE DEF v
<1> QED
  BY <1>1, <1>2, <1>3, <1>4, MoveKeepsInv

\* A harvest for somebody.
LEMMA HarvestKeepsInv ==
  ASSUME StakeInv, NEW u \in Accounts, Harvest(u)
  PROVE  StakeInv'
<1> DEFINE v == UserAfterHarvest(Updated, staker[u])
           reward == PendingReward(stake, staker[u], now)
<1>1. Moves(Updated, staker[u], stake', v)
  BY UpdatedPool, ExitMoves DEF Harvest
<1>2. staker' = [staker EXCEPT ![u] = v] /\ now' = now
  BY DEF Harvest, StakeInv, StakeTypeOK
<1>3. balance' \in [StakeTokens -> Nat]
  <2>1. balance[RewardToken] - reward \in Nat
    BY PendingType DEF Harvest, StakeInv, StakeTypeOK, StakeTokens
  <2> QED
    BY <2>1 DEF Harvest, StakeInv, StakeTypeOK
<1>4. position' \in [Accounts -> Nat]
  BY DEF Harvest, StakeInv, StakeTypeOK
<1> HIDE DEF v
<1> QED
  BY <1>1, <1>2, <1>3, <1>4, MoveKeepsInv

\* A message of the owner.
LEMMA OwnerKeepsInv ==
  ASSUME StakeInv, StakeOwnerNext
  PROVE  StakeInv'
<1>1. /\ balance \in [StakeTokens -> Nat] /\ position \in [Accounts -> Nat]
      /\ now \in Nat
  BY DEF StakeInv, StakeTypeOK
<1>2. ASSUME NEW caller \in Accounts, NEW rate \in RewardRates,
             SetRewardPerSecond(caller, rate)
      PROVE  StakeInv'
  <2>1. rate \in Nat
    BY StakePoolAssumption
  <2>2. stake' = [Updated EXCEPT !.reward_per_second = rate]
    BY <1>2 DEF SetRewardPerSecond
  <2>3. /\ stake' \in PoolInfos /\ stake'.boost_tokens = Updated.boost_tokens
        /\ stake'.total_staked = Updated.total_staked
    BY <2>1, <2>2, UpdatedPool DEF Used, PoolInfos
  <2>4. Registered(stake') = Registered(Updated)
    BY <2>3 DEF Registered
  <2>5. /\ Used(stake') /\ stake'.total_staked = stake.total_staked
        /\ \A t \in BoostTokens : BoostStaked(stake', t) = BoostStaked(stake, t)
    BY <2>3, <2>4, UpdatedPool DEF Used, BoostStaked
  <2> QED
    BY <1>1, <1>2, <2>5, PoolKeepsInv DEF SetRewardPerSecond
<1>3. ASSUME NEW caller \in Accounts, NEW token \in BoostTokens,
             NEW multiplier \in Multipliers, SetBoostToken(caller, token, multiplier)
      PROVE  StakeInv'
  <2>1. multiplier \in Nat
    BY StakePoolAssumption
  <2>2. stake' = PoolAfterSetBoost(Updated, token, multiplier)
    BY <1>3 DEF SetBoostToken
  <2>3. /\ Used(stake') /\ stake'.total_staked = stake.total_staked
        /\ \A t \in BoostTokens : BoostStaked(stake', t) = BoostStaked(stake, t)
    BY <2>1, <2>2, UpdatedPool, SetBoostUsed
  <2> QED
    BY <1>1, <1>3, <2>3, PoolKeepsInv DEF SetBoostToken
<1> QED
  BY <1>2, <1>3 DEF StakeOwnerNext

\* A step of the environment.
LEMMA EnvironmentKeepsInv ==
  ASSUME StakeInv, StakeEnvironmentNext
  PROVE  StakeInv'
<1>1. /\ balance \in [StakeTokens -> Nat] /\ position \in [Accounts -> Nat]
      /\ now \in Nat /\ Used(stake)
  BY DEF StakeInv, StakeTypeOK, Used
<1>2. UNCHANGED <<stake, staker>>
  BY DEF StakeEnvironmentNext, Tick, FundRewards, TransferPosition, BurnPosition
<1>3. CASE Tick
  BY <1>1, <1>2, <1>3, PoolKeepsInv DEF Tick
<1>4. ASSUME NEW n \in FundAmounts, FundRewards(n)
      PROVE  StakeInv'
  <2>1. balance' \in [StakeTokens -> Nat]
    BY <1>4, ReceiveType, StakePoolAssumption DEF FundRewards, StakeTokens, StakeInv
  <2> QED
    BY <1>1, <1>2, <1>4, <2>1, PoolKeepsInv DEF FundRewards
<1>5. ASSUME NEW from \in Accounts, NEW n \in HolderAmounts, NEW to \in Accounts,
             TransferPosition(from, to, n)
      PROVE  StakeInv'
  <2>1. n \in Nat
    BY StakePoolAssumption
  <2>2. position[from] - n \in Nat /\ position[to] + n \in Nat
    BY <1>1, <1>5, <2>1 DEF TransferPosition
  <2>3. position' \in [Accounts -> Nat]
    BY <1>1, <1>5, <2>2 DEF TransferPosition
  <2> QED
    BY <1>1, <1>2, <1>5, <2>3, PoolKeepsInv DEF TransferPosition
<1>6. ASSUME NEW from \in Accounts, NEW n \in HolderAmounts, BurnPosition(from, n)
      PROVE  StakeInv'
  <2>1. position' \in [Accounts -> Nat]
    BY <1>6, SurrenderType, StakePoolAssumption DEF BurnPosition, StakeInv
  <2> QED
    BY <1>1, <1>2, <1>6, <2>1, PoolKeepsInv DEF BurnPosition
<1> QED
  BY <1>3, <1>4, <1>5, <1>6 DEF StakeEnvironmentNext

\* Every step keeps the invariant.
LEMMA NextStakeInv == StakeInv /\ [StakeNext]_stakeVars => StakeInv'
<1> SUFFICES ASSUME StakeInv, [StakeNext]_stakeVars
             PROVE  StakeInv'
  OBVIOUS
<1>1. CASE StakerNext
  <2>1. \A n \in Amounts : n \in Nat \ {0} /\ n \in Nat
    BY StakePoolAssumption
  <2> QED
    BY <1>1, <2>1, DepositKeepsInv, BoostKeepsInv, WithdrawKeepsInv,
       WithdrawAndHarvestKeepsInv, HarvestKeepsInv DEF StakerNext
<1>2. CASE StakeOwnerNext
  BY <1>2, OwnerKeepsInv
<1>3. CASE StakeEnvironmentNext
  BY <1>3, EnvironmentKeepsInv
<1>4. CASE UNCHANGED stakeVars
  <2>1. Used(stake)
    BY DEF StakeInv, StakeTypeOK, Used
  <2> QED
    BY <1>4, <2>1, PoolKeepsInv DEF stakeVars, StakeInv, StakeTypeOK
<1> QED
  BY <1>1, <1>2, <1>3, <1>4 DEF StakeNext

\* The inductive invariant holds of every behaviour.
LEMMA StakeInvariant == StakeSpec => []StakeInv
  BY InitStakeInv, NextStakeInv, PTL DEF StakeSpec

\* The state of the staking contract is well formed: no total, user's amount,
\* balance or reward per share ever goes below zero (pool.rs:122-205).
THEOREM StakeTypeCorrect == StakeSpec => []StakeTypeOK
<1>1. StakeInv => StakeTypeOK
  BY DEF StakeInv
<1> QED
  BY <1>1, StakeInvariant, PTL

\* total_staked and the total of every boost token are the sums over the
\* users, so that the subtractions of a withdrawal never abort on what others
\* did (pool.rs:122, 134).
THEOREM StakedTotalsCorrect == StakeSpec => []StakedTotals
<1>1. StakeInv => StakedTotals
  BY DEF StakeInv, StakedTotals, Counts, BoostStaked, StakeOf, BoostOf
<1> QED
  BY <1>1, StakeInvariant, PTL

\* Nobody has boost tokens in the pool without a stake (error.rs:27).
THEOREM BoostsNeedStake == StakeSpec => []BoostNeedsStake
<1>1. StakeInv => BoostNeedsStake
  BY DEF StakeInv
<1> QED
  BY <1>1, StakeInvariant, PTL

(***************************************************************************)
(* The weights.                                                            *)
(***************************************************************************)
\* What all users' boosts in one token weigh is no more than what the token's
\* total weighs: each is rounded down.
LEMMA BoostsWithinTotal ==
  ASSUME StakeInv, NEW t \in Registered(stake)
  PROVE  LET each == [u \in Accounts |-> Boosted(stake, t, staker[u].boost_token[t])]
         IN  /\ each \in [Accounts -> Nat]
             /\ IsFiniteSet(Units(each))
             /\ BoostMultiplierPrecision * Total(each)
                  <= stake.boost_tokens[t].total_staked * stake.boost_tokens[t].multiplier
<1> DEFINE each == [u \in Accounts |-> Boosted(stake, t, staker[u].boost_token[t])]
<1>1. stake \in PoolInfos /\ t \in BoostTokens
  BY DEF StakeInv, StakeTypeOK, Registered
<1>2. PICK m \in Nat, total \in Nat :
        /\ m = stake.boost_tokens[t].multiplier
        /\ total = stake.boost_tokens[t].total_staked
  BY <1>1, RegisteredBoost DEF Boosts
<1>3. /\ BoostOf(t) \in [Accounts -> Nat] /\ IsFiniteSet(Units(BoostOf(t)))
      /\ Total(BoostOf(t)) = total
  BY <1>1, <1>2 DEF StakeInv, Counts, BoostStaked
<1>4. ASSUME NEW u \in Accounts
      PROVE  /\ each[u] \in Nat
             /\ BoostMultiplierPrecision * each[u] <= m * BoostOf(t)[u]
  <2>1. BoostOf(t)[u] = staker[u].boost_token[t] /\ staker[u].boost_token[t] \in Nat
    BY <1>3 DEF BoostOf
  <2> QED
    BY <1>1, <1>2, <2>1, BoostedType
<1>5. each \in [Accounts -> Nat]
  BY <1>4
<1>6. BoostMultiplierPrecision \in Nat \ {0}
  BY StakeInfoAssumption
<1> HIDE DEF each
<1>7. /\ IsFiniteSet(Units(each))
      /\ BoostMultiplierPrecision * Total(each) <= m * Total(BoostOf(t))
  BY <1>3, <1>4, <1>5, <1>6, TotalOfShares
<1>8. m * total = total * m
  OBVIOUS
<1> QED
  BY <1>2, <1>3, <1>5, <1>7, <1>8 DEF each

\* The users' weights add up to at most the weight of the pool.
Weights == [u \in Accounts |-> UserWeight(stake, staker[u])]

LEMMA WeightsWithinTotal ==
  ASSUME StakeInv
  PROVE  /\ Weights \in [Accounts -> Nat] /\ IsFiniteSet(Units(Weights))
         /\ Total(Weights) <= TotalWeight(stake)
<1> DEFINE R == Registered(stake)
           f == [u \in Accounts |-> [t \in R |->
                   Boosted(stake, t, staker[u].boost_token[t])]]
           kind == [t \in R |-> [u \in Accounts |->
                      Boosted(stake, t, staker[u].boost_token[t])]]
           kinds == [t \in R |-> Total(kind[t])]
           each == [u \in Accounts |-> Total(f[u])]
           scaled == [t \in R |-> BoostMultiplierPrecision * kinds[t]]
           most == [t \in R |-> stake.boost_tokens[t].total_staked
                                  * stake.boost_tokens[t].multiplier]
           weights == [u \in Accounts |-> StakeOf[u] + each[u]]
<1>1. /\ stake \in PoolInfos /\ IsFiniteSet(R) /\ R \subseteq BoostTokens
      /\ stake.total_staked \in Nat
  BY DEF StakeInv, StakeTypeOK, Registered, PoolInfos
<1>2. BoostMultiplierPrecision \in Nat \ {0}
  BY StakeInfoAssumption
<1>3. f \in [Accounts -> [R -> Nat]]
  <2>1. ASSUME NEW u \in Accounts, NEW t \in R
        PROVE  Boosted(stake, t, staker[u].boost_token[t]) \in Nat
    <3>1. staker[u].boost_token[t] \in Nat
      BY <1>1 DEF StakeInv, StakeTypeOK, StakeUsers
    <3> QED
      BY <1>1, <3>1, BoostedType
  <2> QED
    BY <2>1
<1>4. ASSUME NEW t \in R
      PROVE  /\ kind[t] \in [Accounts -> Nat] /\ IsFiniteSet(Units(kind[t]))
             /\ kinds[t] \in Nat
             /\ scaled[t] <= most[t]
  <2>1. /\ kind[t] \in [Accounts -> Nat] /\ IsFiniteSet(Units(kind[t]))
        /\ BoostMultiplierPrecision * Total(kind[t]) <= most[t]
    BY BoostsWithinTotal
  <2> HIDE DEF kind
  <2> QED
    BY <2>1, FS_CardinalityType DEF Total
<1>5. /\ each \in [Accounts -> Nat] /\ kinds \in [R -> Nat]
      /\ IsFiniteSet(Units(each)) /\ Total(each) = Total(kinds)
  <2>1. /\ kind \in [R -> [Accounts -> Nat]]
        /\ \A u \in Accounts, t \in R : kind[t][u] = f[u][t]
        /\ \A t \in R : IsFiniteSet(Units(kind[t]))
    BY <1>4
  <2>2. \A u \in Accounts : Total(f[u]) \in Nat
    <3> HIDE DEF f, R
    <3> QED
      BY <1>1, <1>3, UnitsOfFinite
  <2>3. /\ each \in [Accounts -> Nat] /\ \A u \in Accounts : each[u] = Total(f[u])
        /\ kinds \in [R -> Nat] /\ \A t \in R : kinds[t] = Total(kind[t])
    BY <1>4, <2>2
  <2> HIDE DEF kind, f, R, each, kinds
  <2>4. /\ Crossed(Accounts, R, f, kind)
        /\ Sums(Accounts, f, each) /\ Sums(R, kind, kinds)
    BY <1>3, <2>1, <2>3 DEF Crossed, Sums
  <2>5. IsFiniteSet(Units(each)) /\ Total(each) = Total(kinds)
    BY <1>1, <2>4, TotalOfTotals
  <2> QED
    BY <2>3, <2>5
<1> HIDE DEF f, kind
<1>6. IsFiniteSet(Units(kinds)) /\ Total(kinds) \in Nat
  BY <1>1, <1>5, UnitsOfFinite
<1>7. most \in [R -> Nat]
  <2>1. ASSUME NEW t \in R
        PROVE  stake.boost_tokens[t].total_staked * stake.boost_tokens[t].multiplier
                 \in Nat
    <3>1. stake.boost_tokens[t] \in Boosts
      BY <1>1, RegisteredBoost
    <3> QED
      BY <3>1, ProductType DEF Boosts
  <2> QED
    BY <2>1
<1>8. IsFiniteSet(Units(most)) /\ Total(most) \in Nat
  BY <1>1, <1>7, UnitsOfFinite
<1> HIDE DEF kinds
<1>9. /\ scaled \in [R -> Nat]
       /\ Total(scaled) = BoostMultiplierPrecision * Total(kinds)
  <2>1. scaled \in [R -> Nat] /\ \A t \in R : scaled[t] = BoostMultiplierPrecision * kinds[t]
    <3>1. \A t \in R : BoostMultiplierPrecision * kinds[t] \in Nat
      BY <1>2, <1>4, ProductType
    <3> QED
      BY <3>1
  <2> HIDE DEF scaled, R
  <2> QED
    BY <1>2, <1>5, <1>6, <2>1, TotalTimes
<1>10. Total(scaled) <= Total(most)
  <2> HIDE DEF scaled, most
  <2> QED
    BY <1>4, <1>7, <1>8, <1>9, TotalShrinks
<1>11. /\ StakeOf \in [Accounts -> Nat] /\ IsFiniteSet(Units(StakeOf))
       /\ Total(StakeOf) = stake.total_staked
  BY DEF StakeInv, Counts
<1> HIDE DEF each, scaled, most
<1>12. /\ weights \in [Accounts -> Nat] /\ IsFiniteSet(Units(weights))
       /\ Total(weights) = Total(StakeOf) + Total(each)
  <2>1. weights \in [Accounts -> Nat]
        /\ \A u \in Accounts : weights[u] = StakeOf[u] + each[u]
    BY <1>5, <1>11
  <2> HIDE DEF weights
  <2> QED
    BY <1>5, <1>11, <2>1, TotalPlus
<1>13. weights = Weights
  BY DEF each, f, UserWeight, StakeOf, Weights
<1>14. TotalWeight(stake)
         = (stake.total_staked * BoostMultiplierPrecision + Total(most))
             \div BoostMultiplierPrecision
  BY DEF TotalWeight, most
<1> HIDE DEF weights
<1>15. PICK k \in Nat, b \in Nat \ {0}, n \in Nat, w \in Nat :
         /\ k = stake.total_staked /\ b = BoostMultiplierPrecision
         /\ n = Total(kinds) /\ w = Total(most)
  BY <1>1, <1>2, <1>6, <1>8
<1>16. b * (k + n) <= k * b + w
  <2>1. b * n <= w
    BY <1>9, <1>10, <1>15
  <2>2. b * (k + n) = k * b + b * n /\ b * n \in Nat /\ k * b \in Nat
    BY SMT
  <2> QED
    BY <2>1, <2>2
<1>17. k + n <= (k * b + w) \div b
  <2>1. k * b + w \in Nat /\ k + n \in Nat
    BY ProductType
  <2> QED
    BY <1>16, <2>1, QuotientBound
<1>18. Total(weights) = k + n
  BY <1>5, <1>11, <1>12, <1>15
<1> QED
  BY <1>12, <1>13, <1>14, <1>15, <1>17, <1>18

LEMMA InvWeights == StakeInv => WeightsCovered
  BY WeightsWithinTotal DEF WeightsCovered, Weights

\* The rewards are never shared out by more weight than they were divided by,
\* whatever the multipliers are set to (pool.rs:241, 258).
THEOREM WeightsAlwaysCovered == StakeSpec => []WeightsCovered
  BY InvWeights, StakeInvariant, PTL
===============================================================================
