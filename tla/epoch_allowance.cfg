\* Two mints of one epoch, collected late.
SPECIFICATION HistorySpec
CONSTANTS
  a1 = a1
  a2 = a2
  p1 = p1
  none = none
  None = none
  Accounts <- OneAccount
  Pairs <- MCPairs
  Deployer = a1
  Precision = 4
  CollateralRatioStep = 2
  PriceBand = 1
  InitialMintingFee = 1
  InitialRedemptionFee = 1
  InitialFunds = {4}
  ShareMaxCap = 1
  Cooldown = 1
  StartTime = 1
  DefaultTwapPeriod = 1
  SupplyTiers <- Tiers
  ExpansionRates <- Rates
  TotalCollateral = 12
  ReserveChoices <- AbovePar
  TimeSteps = {1}
  MaxHeight = 4
  MintAmounts = {4}
  RedeemAmounts = {}
  MinOuts = {0}
  SwapOutputs = {1}
  HolderAmounts = {}
  FeeChoices = {}
  PauseChoices = {FALSE}
  NewOwners = {}
  RatioChoices = {4}
  ShareIndexes = {0}
  SynthIndexes = {0}
  PeriodChoices = {1}
  DurationChoices = {2}
  CeilChoices = {4}
  MaxRateChoices = {none}
INVARIANTS EpochMintsWithinAllowance
CHECK_DEADLOCK FALSE
