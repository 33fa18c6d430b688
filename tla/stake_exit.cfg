\* Rewards without any rounding and one multiplier; stakers leave while nobody funds the rewards.
SPECIFICATION RewardsSpec
CONSTANTS
  a1 = a1
  a2 = a2
  boost = boost
  Accounts <- TwoAccounts
  Owner = a1
  WantToken = want
  RewardToken = reward
  BoostTokens <- MCBoostTokens
  None = None
  AccRewardPrecision = 1
  BoostMultiplierPrecision = 2
  StartTime = 0
  MaxTime = 2
  MaxStaked = 2
  MaxBoost = 1
  MaxFunds = 3
  Amounts = {1, 2}
  FundAmounts = {3}
  RewardRates = {2, 3}
  Multipliers = {4}
  MaxDebt = 20
  HolderAmounts = {1}
INVARIANTS RewardsWithinAccrual
PROPERTIES StakerCanLeave ImplementsStakeVault
CHECK_DEADLOCK FALSE
