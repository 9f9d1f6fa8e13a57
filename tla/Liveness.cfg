\* Every operation comes back, and a session that expired is replaced.
CONSTANTS
  Null = Null
  t1 = t1
  t2 = t2
  a1 = a1
  a2 = a2
  Tokens = {t1, t2}
  AccountIds = {a1}
  Markets = {1}
  MarketIdOf <- MCMarketIdOf
  AccountArgs <- OneAccount
  PriceArgs <- OnePrice
  OhlcArgs = {}
  TradeArgs <- OneTrade
  ClockSteps = {1, 2}
  RefusalIds <- ZeroIds
  Ops <- KindsOfOps
  Faults = {"refusal", "null", "not_object", "expiry"}
SPECIFICATION FairSpec
PROPERTY EveryCallReturns
PROPERTY SessionRecovers
