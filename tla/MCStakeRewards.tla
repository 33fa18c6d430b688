----------------------------- MODULE MCStakeRewards ----------------------------
(***************************************************************************)
(* StakePool with the sum of the rewards that the rate in force promised   *)
(* while somebody was staking, less what was paid: the contract keeps a    *)
(* reward per share, never an amount, and checks a payment against its     *)
(* balance only.  What deposits may have rounded in a user's favour is     *)
(* summed up apart.                                                        *)
(***************************************************************************)
EXTENDS MCStakePool

VARIABLES
  unspent,    \* rewards accrued and not paid out
  rounding    \* what the deposits so far may have rounded, in reward tokens

rewardVars == <<stakeVars, unspent, rounding>>

RewardsInit == StakeInit /\ unspent = 0 /\ rounding = 0

Accrued ==
  IF TotalWeight(stake) # 0
  THEN stake.reward_per_second * (now' - now)
  ELSE 0

Paid ==
  IF balance'[RewardToken] < balance[RewardToken]
  THEN balance[RewardToken] - balance'[RewardToken]
  ELSE 0

\* A debt is rounded down, by less than a token: by nothing if the reward per
\* share is kept in whole tokens.  A weight is rounded by less than one when a
\* boost is added, unless the multiplier is a whole number.
OneDebt == IF AccRewardPrecision = 1 THEN 0 ELSE 1

OneWeight(t) ==
  IF stake.boost_tokens[t].multiplier % BoostMultiplierPrecision = 0
  THEN 0
  ELSE Reward(stake', 1) + OneDebt

BoostAdded(t) == stake'.boost_tokens[t].total_staked > stake.boost_tokens[t].total_staked

Rounded ==
  IF stake'.total_staked > stake.total_staked
  THEN OneDebt
  ELSE IF \E t \in Registered(stake) : BoostAdded(t)
  THEN OneDebt + OneWeight(CHOOSE t \in Registered(stake) : BoostAdded(t))
  ELSE 0

RewardsNext ==
  /\ StakeNext
  /\ unspent' = unspent + Accrued - Paid
  /\ rounding' = rounding + Rounded

Leave(u) == Withdraw(u, staker[u].amount) /\ DebtBounded(u)

\* A user who wants to leave keeps sending the position tokens back.
RewardsSpec ==
  /\ RewardsInit
  /\ [][RewardsNext]_rewardVars
  /\ \A u \in Accounts : WF_rewardVars(Leave(u) /\ RewardsNext)

\* Whatever the order of stakes, boosts, withdrawals, harvests and changes of
\* the rate, what all users together could harvest now is no more than the
\* rate in force promised over the time somebody was staking, less what was
\* paid: no second is paid twice, at a rate set after it, or to a weight that
\* was not there (update_reward pool.rs:224, set_reward_per_second
\* pool.rs:207).  Withdrawals and harvests round nothing in the users' favour,
\* a deposit one debt (pool.rs:88), a boost one debt and one weight
\* (pool.rs:103, 241).  It holds while no multiplier changes.
Harvestable(u) == IF Earned(u) > 0 THEN Earned(u) ELSE 0

RewardsWithinAccrual == Total([u \in Accounts |-> Harvestable(u)]) <= unspent + rounding

\* The owner changes no multiplier of a registered token (set_boost_token
\* pool.rs:213): what the theorem about RewardsWithinAccrual assumes.
MultipliersKept ==
  [][\A t \in Registered(stake) : Multiplier'[t] = Multiplier[t]]_rewardVars

\* Who stakes and keeps the position tokens gets the stake back in the end,
\* boost tokens included, when nobody ever funds the rewards and whatever
\* the owner and the other users do meanwhile: withdraw pays no reward, and no
\* step of another takes its guards away (stake.rs:109).
StakerCanLeave ==
  \A u \in Accounts :
    staker[u].amount > 0
      ~> (staker[u].amount = 0 \/ position[u] < staker[u].amount)
===============================================================================
