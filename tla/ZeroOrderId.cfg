\* trade_order succeeds with an order that was refused.
CONSTANTS
  Null = Null
  t1 = t1
  t2 = t2
  a1 = a1
  a2 = a2
  Tokens = {t1, t2}
  AccountIds = {a1}
  Markets = {1, 2}
  MarketIdOf <- MCMarketIdOf
  AccountArgs <- MCAccountArgs
  PriceArgs <- MCPriceArgs
  OhlcArgs <- MCOhlcArgs
  TradeArgs <- MCTradeArgs
  ClockSteps = {1, 2}
  RefusalIds <- AnyRefusal
  Ops <- TradeOps
  Faults = {}
SPECIFICATION Spec
INVARIANT OkMeansPlaced
