\* The bench, the tests and the example, with every fault.
CONSTANTS
  Null = Null
  t1 = t1
  a1 = a1
  Tokens = {t1}
  AccountIds = {a1}
  Markets = {1, 2}
  MarketIdOf <- MCMarketIdOf
  AccountArgs = {}
  PriceArgs = {}
  OhlcArgs = {}
  TradeArgs = {}
  ClockSteps = {2}
  RefusalIds <- AnyRefusal
  Ops <- MCOps
  Faults <- AllFaults
  Program <- MCProgram
  currency_pairs <- MCPairs
  ListForms = {"object", "array"}
SPECIFICATION ProgramsSpec
INVARIANT NothingWithoutCredentials
INVARIANT FailedServerFails
INVARIANT CorrectServerSucceeds
INVARIANT TestsPass
INVARIANT ExitTellsOrders
INVARIANT ListedOrdersCancelled
PROPERTY ProgramsEnd
CHECK_DEADLOCK FALSE
