\* Two users mint, redeem and collect under changing fees, pauses and owners; claims are paid.
SPECIFICATION OwnershipSpec
CONSTANTS
  a1 = a1
  a2 = a2
  p1 = p1
  none = none
  None = none
  Accounts <- TwoAccounts
  Pairs <- MCPairs
  Deployer = a1
  Precision = 2
  CollateralRatioStep = 1
  PriceBand = 1
  InitialMintingFee = 1
  InitialRedemptionFee = 1
  InitialFunds = {1}
  ShareMaxCap = 1
  Cooldown = 1
  StartTime = 1
  DefaultTwapPeriod = 1
  SupplyTiers <- Tiers
  ExpansionRates <- Rates
  TotalCollateral = 7
  ReserveChoices <- AtPar
  TimeSteps = {0}
  MaxHeight = 3
  MintAmounts = {3}
  RedeemAmounts = {2}
  MinOuts = {0}
  SwapOutputs = {1}
  HolderAmounts = {}
  FeeChoices = {0, 1}
  PauseChoices = {FALSE, TRUE}
  NewOwners <- TwoAccounts
  RatioChoices = {2}
  ShareIndexes = {0}
  SynthIndexes = {}
  PeriodChoices = {1}
  DurationChoices = {}
  CeilChoices = {}
  MaxRateChoices = {}
INVARIANTS TypeOK UnclaimedTotals FullyBacked OfferFromOwner
PROPERTIES ImplementsClaimLedger ClaimsEventuallyPaid
CHECK_DEADLOCK FALSE
