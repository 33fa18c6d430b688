\* The cooldown of the ratio is longer than the TWAP period.
SPECIFICATION HistorySpec
CONSTANTS
  a1 = a1
  a2 = a2
  p1 = p1
  none = none
  None = none
  Accounts <- OneAccount
  Pairs <- MCPairs
  Deployer = a1
  Precision = 4
  CollateralRatioStep = 1
  PriceBand = 1
  InitialMintingFee = 1
  InitialRedemptionFee = 1
  InitialFunds = {2}
  ShareMaxCap = 2
  Cooldown = 3
  StartTime = 3
  DefaultTwapPeriod = 1
  SupplyTiers <- Tiers
  ExpansionRates <- Rates
  TotalCollateral = 6
  ReserveChoices <- AroundPar
  TimeSteps = {1}
  MaxHeight = 3
  MintAmounts = {}
  RedeemAmounts = {}
  MinOuts = {0}
  SwapOutputs = {1}
  HolderAmounts = {}
  FeeChoices = {}
  PauseChoices = {}
  NewOwners = {}
  RatioChoices = {0, 2}
  ShareIndexes = {0}
  SynthIndexes = {0}
  PeriodChoices = {1}
  DurationChoices = {}
  CeilChoices = {}
  MaxRateChoices = {}
PROPERTIES RefreshCoolsDown
CHECK_DEADLOCK FALSE
