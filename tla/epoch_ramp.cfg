\* Epochs follow one another while price, supply and configuration move.
SPECIFICATION EpochSpec
CONSTANTS
  p1 = p1
  none = none
  None = none
  Pairs <- MCPairs
  Precision = 2
  ReserveChoices <- MCReserves
  TimeSteps = {0, 1, 3}
  MaxHeight = 4
  StartTime = 1
  SupplyTiers <- Tiers
  ExpansionRates <- Rates
  SupplyChoices = {0, 5, 6, 12}
  Durations = {2, 5}
  Ceils = {none, 2}
  MaxRates = {none, 3}
INVARIANTS ExpansionNeedsPremium ElapsedEpochCanEnd
PROPERTIES RampOnlyRises
CHECK_DEADLOCK FALSE
