\* The ratio follows the price, shares are bought and burnt.  Epochs end and are
\* lengthened, so that mints meet a maximum within the ramp and after it.
SPECIFICATION Spec
CONSTANTS
  a1 = a1
  a2 = a2
  p1 = p1
  none = none
  None = none
  Accounts <- OneAccount
  Pairs <- MCPairs
  Deployer = a1
  Precision = 4
  CollateralRatioStep = 2
  PriceBand = 1
  InitialMintingFee = 1
  InitialRedemptionFee = 1
  InitialFunds = {2}
  ShareMaxCap = 4
  Cooldown = 1
  StartTime = 1
  DefaultTwapPeriod = 1
  SupplyTiers <- Tiers
  ExpansionRates <- Rates
  TotalCollateral = 6
  ReserveChoices <- AroundPar
  TimeSteps = {1}
  MaxHeight = 3
  MintAmounts = {2}
  RedeemAmounts = {2}
  MinOuts = {0}
  SwapOutputs = {1}
  HolderAmounts = {4}
  FeeChoices = {}
  PauseChoices = {}
  NewOwners = {}
  RatioChoices = {2}
  ShareIndexes = {0}
  SynthIndexes = {1}
  PeriodChoices = {1}
  DurationChoices = {1, 4}
  CeilChoices = {4}
  MaxRateChoices = {none}
INVARIANTS TypeOK OneSynthPair
PROPERTIES RatioFollowsPeg ImplementsClaimLedger MintWithinEpochMaximum
CHECK_DEADLOCK FALSE
