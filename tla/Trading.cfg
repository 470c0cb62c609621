CONSTANTS
  Settlement = 2
  MinRR = 0
  FeeRate = 3
  KellyFraction = 25
  BaseCapital = 1
  ReviewInterval = 3
  Step = 1
  Window = 3
  MaxCandles = 5
  MaxFaults = 1
  Shapes <- MCShapes
  Plans <- MCPlans
  OrderIds = {1, 2}
  Sizes = {1}
  Sides = {"short"}
  Profits <- MCProfits
  MinTs <- MCMinTs
  MaxTs = 7
  Stamps <- MCStamps
  MaxClock = 1
  MaxRows = 3
  MAX_QUERY_ROWS = 2
  MAX_QUERY_WINDOW_SECS = 3
  DefaultLimit = 1
  Bucket = 2
  Pnls <- MCPnls
  OrderSizes = {1}
  MaxTrades = 4
SPECIFICATION TradingSpec
INVARIANTS
  
  OrdersKept
  
  ReportAddsUp
CHECK_DEADLOCK FALSE
