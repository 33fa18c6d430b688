\* One oracle over two pairs that trade, drain and are swapped for each other.
SPECIFICATION OracleSpec
CONSTANTS
  p1 = p1
  p2 = p2
  none = none
  None = none
  Pairs <- MCPairs
  Precision = 2
  ReserveChoices <- MCReserves
  TimeSteps = {0, 1, 2}
  MaxHeight = 4
  StartTime = 1
  DefaultTwapPeriod = 1
  Periods = {0, 2}
INVARIANTS TwapInWindow PeriodOverMeansUpdatable
CHECK_DEADLOCK FALSE
