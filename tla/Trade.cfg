\* Orders and their retries, with the faults that tell outcomes apart.
CONSTANTS
  Null = Null
  t1 = t1
  t2 = t2
  a1 = a1
  a2 = a2
  Tokens = {t1, t2}
  AccountIds = {a1}
  Markets = {1, 2}
  MarketIdOf <- MCMarketIdOf
  AccountArgs <- MCAccountArgs
  PriceArgs <- MCPriceArgs
  OhlcArgs <- MCOhlcArgs
  TradeArgs <- MCTradeArgs
  ClockSteps = {1, 2}
  RefusalIds <- AnyRefusal
  Ops <- TradeOps
  Faults = {"null", "http_error", "lost_reply", "not_object", "expiry"}
SPECIFICATION Spec
INVARIANT TypeOK
INVARIANT AtMostOnce
INVARIANT ErrorMeansNotPlaced
INVARIANT FreshPrices
INVARIANT AttemptsBounded
PROPERTY ImplementsTradeOnce
