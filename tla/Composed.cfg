\* All operations together, in any order.
CONSTANTS
  Null = Null
  t1 = t1
  t2 = t2
  a1 = a1
  a2 = a2
  Tokens = {t1, t2}
  AccountIds = {a1, a2}
  Markets = {1, 2}
  MarketIdOf <- MCMarketIdOf
  AccountArgs <- MCAccountArgs
  PriceArgs <- MCPriceArgs
  OhlcArgs <- MCOhlcArgs
  TradeArgs <- OneTrade
  ClockSteps = {2}
  RefusalIds <- ZeroIds
  Ops <- AllOps
  Faults = {"null", "lost_reply", "expiry"}
SPECIFICATION Spec
INVARIANT GuardedFresh
INVARIANT DefaultAccountCurrent
INVARIANT RenewsExpiredSession
INVARIANT MarketIdsTruthful
INVARIANT IInv
PROPERTY AccountsStable
PROPERTY LoginHasAccounts
