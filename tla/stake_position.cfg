\* Position tokens change hands.
SPECIFICATION StakeSpec
CONSTANTS
  a1 = a1
  a2 = a2
  boost = boost
  Accounts <- TwoAccounts
  Owner = a1
  WantToken = want
  RewardToken = reward
  BoostTokens <- MCBoostTokens
  None = None
  AccRewardPrecision = 1
  BoostMultiplierPrecision = 2
  StartTime = 0
  MaxTime = 1
  MaxStaked = 3
  MaxBoost = 2
  MaxFunds = 3
  Amounts = {1, 2}
  FundAmounts = {3}
  RewardRates = {2}
  Multipliers = {1, 4}
  MaxDebt = 4
  HolderAmounts = {1}
INVARIANTS PositionRedeemable
CHECK_DEADLOCK FALSE
