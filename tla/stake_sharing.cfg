\* Two users stake, boost, leave and return and share the rewards; rates and multipliers change.
SPECIFICATION StakeSpec
CONSTANTS
  a1 = a1
  a2 = a2
  boost = boost
  Accounts <- TwoAccounts
  Owner = a1
  WantToken = want
  RewardToken = reward
  BoostTokens <- MCBoostTokens
  None = None
  AccRewardPrecision = 2
  BoostMultiplierPrecision = 2
  StartTime = 0
  MaxTime = 2
  MaxStaked = 2
  MaxBoost = 2
  MaxFunds = 3
  Amounts = {1, 2}
  FundAmounts = {3}
  RewardRates = {3}
  Multipliers = {1, 4}
  MaxDebt = 3
  HolderAmounts = {1}
INVARIANTS StakeTypeOK StakedTotals PrincipalCovered WeightsCovered BoostNeedsStake
PROPERTIES RewardOnlyByTime
CHECK_DEADLOCK FALSE
