\* The example cancels no order of a list inside an object.
CONSTANTS
  Null = Null
  t1 = t1
  a1 = a1
  Tokens = {t1}
  AccountIds = {a1}
  Markets = {1, 2}
  MarketIdOf <- MCMarketIdOf
  AccountArgs = {}
  PriceArgs = {}
  OhlcArgs = {}
  TradeArgs = {}
  ClockSteps = {2}
  RefusalIds <- ZeroIds
  Ops <- MCOps
  Faults = {}
  Program <- MCProgram
  currency_pairs <- MCPairs
  ListForms = {"object"}
SPECIFICATION ProgramsSpec
INVARIANT ActiveOrdersCancelled
CHECK_DEADLOCK FALSE
