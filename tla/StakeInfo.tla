------------------------------- MODULE StakeInfo ------------------------------
(***************************************************************************)
(* The accounting of contracts/fantastic-stake/src/pool.rs: PoolInfo and   *)
(* UserInfo as records, and the methods of `impl PoolInfo` as functions    *)
(* from records to records.                                                *)
(*                                                                         *)
(* The vector of boost tokens never holds an address twice and never       *)
(* forgets one: it is a function, None for a token that is not registered. *)
(* A user's vector is a function too, 0 for a token that is not in it.     *)
(***************************************************************************)
EXTENDS Totals

CONSTANTS
  AccRewardPrecision,        \* 1_000_000 in the code
  BoostMultiplierPrecision,  \* 1_000_000 in the code
  BoostTokens,               \* addresses users may send as boost tokens
  None                       \* no entry in the vector of boost tokens

ASSUME StakeInfoAssumption ==
  /\ AccRewardPrecision \in Nat \ {0}
  /\ BoostMultiplierPrecision \in Nat \ {0}
  /\ None \notin [multiplier : Nat, total_staked : Nat]

Boosts == [multiplier : Nat, total_staked : Nat]

PoolInfos ==
  [ reward_per_second : Nat, acc_reward_per_share : Nat,
    last_update_timestamp : Nat, total_staked : Nat,
    boost_tokens : [BoostTokens -> Boosts \cup {None}] ]

StakeUsers ==
  [amount : Nat, reward_debt : Int, boost_token : [BoostTokens -> Nat]]

InitialPoolInfo(start) ==
  [ reward_per_second |-> 0, acc_reward_per_share |-> 0,
    last_update_timestamp |-> start, total_staked |-> 0,
    boost_tokens |-> [t \in BoostTokens |-> None] ]

DefaultStakeUser ==
  [amount |-> 0, reward_debt |-> 0, boost_token |-> [t \in BoostTokens |-> 0]]

(***************************************************************************)
(* Weights and rewards.  Amounts of a user are rounded one by one, the     *)
(* total once.                                                             *)
(***************************************************************************)
Registered(p) == {t \in BoostTokens : p.boost_tokens[t] # None}

Boosted(p, token, n) ==
  (p.boost_tokens[token].multiplier * n) \div BoostMultiplierPrecision

UserWeight(p, u) ==
  u.amount + Total([t \in Registered(p) |-> Boosted(p, t, u.boost_token[t])])

\* Mutant: the boost tokens do not count.
TotalWeightUnboosted(p) == p.total_staked

TotalWeight(p) ==
  (p.total_staked * BoostMultiplierPrecision
     + Total([t \in Registered(p) |->
                p.boost_tokens[t].total_staked * p.boost_tokens[t].multiplier]))
    \div BoostMultiplierPrecision

AccRewardPerShare(p, time) ==
  IF time > p.last_update_timestamp /\ TotalWeight(p) # 0
  THEN p.acc_reward_per_share
         + (p.reward_per_second * (time - p.last_update_timestamp)
              * AccRewardPrecision) \div TotalWeight(p)
  ELSE p.acc_reward_per_share

UpdateReward(p, time) ==
  [p EXCEPT !.acc_reward_per_share = AccRewardPerShare(p, time),
            !.last_update_timestamp = time]

Reward(p, weight) == (weight * p.acc_reward_per_share) \div AccRewardPrecision

\* pending_reward before its conversion to an unsigned integer, which panics
\* below zero.
PendingReward(p, u, time) ==
  Reward(UpdateReward(p, time), UserWeight(p, u)) - u.reward_debt

(***************************************************************************)
(* deposit and deposit_boost_token: `p` is the pool after update_reward.   *)
(***************************************************************************)
PoolAfterDeposit(p, n) == [p EXCEPT !.total_staked = @ + n]

UserAfterDeposit(p, u, n) ==
  [u EXCEPT !.amount = @ + n, !.reward_debt = @ + Reward(p, n)]

\* A token nobody registered changes neither the pool nor the user.
PoolAfterBoost(p, token, n) ==
  IF token \in Registered(p)
  THEN [p EXCEPT !.boost_tokens[token].total_staked = @ + n]
  ELSE p

UserAfterBoost(p, u, token, n) ==
  IF token \in Registered(p)
  THEN [u EXCEPT !.reward_debt = @ + Reward(p, Boosted(p, token, n)),
                 !.boost_token[token] = @ + n]
  ELSE u

(***************************************************************************)
(* withdraw, harvest and withdraw_and_harvest.  Who withdraws everything   *)
(* gets all boost tokens back.                                             *)
(***************************************************************************)
Returned(u, n) ==
  [t \in BoostTokens |-> IF n = u.amount THEN u.boost_token[t] ELSE 0]

WithdrawFits(p, u, n) ==
  /\ n <= u.amount
  /\ n <= p.total_staked
  /\ \A t \in Registered(p) : Returned(u, n)[t] <= p.boost_tokens[t].total_staked

\* What is staked of a boost token, less what is returned.
LessBoost(boost, n) == [boost EXCEPT !.total_staked = @ - n]

\* Mutant: the boost tokens returned are taken off the stake as well.
PoolAfterWithdrawMixed(p, u, n) ==
  [p EXCEPT !.total_staked = @ - n - Total(Returned(u, n)),
            !.boost_tokens = [t \in BoostTokens |->
     IF t \in Registered(p)
     THEN LessBoost(p.boost_tokens[t], Returned(u, n)[t])
     ELSE None]]

PoolAfterWithdraw(p, u, n) ==
  [p EXCEPT !.total_staked = @ - n,
            !.boost_tokens = [t \in BoostTokens |->
     IF t \in Registered(p)
     THEN LessBoost(p.boost_tokens[t], Returned(u, n)[t])
     ELSE None]]

\* Mutant: the boost tokens are sent back and stay credited.
WithoutStakeKeepsBoost(u, n) == [u EXCEPT !.amount = @ - n]

WithoutStake(u, n) ==
  [u EXCEPT !.amount = @ - n,
            !.boost_token = [t \in BoostTokens |-> @[t] - Returned(u, n)[t]]]

UserAfterWithdraw(p, u, n) ==
  LET left == WithoutStake(u, n)
      withdrawal_weight == UserWeight(p, u) - UserWeight(p, left)
  IN [left EXCEPT !.reward_debt = @ - Reward(p, withdrawal_weight)]

UserAfterHarvest(p, u) == [u EXCEPT !.reward_debt = Reward(p, UserWeight(p, u))]

\* Only the weight of the stake is taken off the debt, not that of the boost
\* tokens returned with it.
UserAfterWithdrawAndHarvest(p, u, n) ==
  [WithoutStake(u, n) EXCEPT
     !.reward_debt = Reward(p, UserWeight(p, u)) - Reward(p, n)]

(***************************************************************************)
(* set_boost_token registers a token or changes its multiplier.            *)
(***************************************************************************)
PoolAfterSetBoost(p, token, multiplier) ==
  [p EXCEPT !.boost_tokens[token] =
     [ multiplier   |-> multiplier,
       total_staked |-> IF token \in Registered(p) THEN @.total_staked ELSE 0 ]]
===============================================================================
