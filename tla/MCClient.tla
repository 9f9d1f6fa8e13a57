----------------------------- MODULE MCClient ----------------------------
(***************************************************************************)
(* Small instances of GCClient for TLC.                                    *)
(***************************************************************************)
EXTENDS GCInduction

CONSTANTS t1, t2, a1, a2

MCMarketIdOf == [m \in Markets |-> 100 + m]

SessionOps == {"authenticate_session", "validate_session"} \cup Guarded
MarketOps == {"get_account_info", "get_margin_info", "get_market_info",
              "get_market_id", "return_market_id", "get_prices", "get_ohlc"}

TradeOps == {"authenticate_session", "trade_order"}
(* Every way of calling: a login, a check, a guarded operation, one that   *)
(* asks directly, one for a market, one for prices, and an order.          *)
KindsOfOps == {"authenticate_session", "validate_session", "cancel_order",
               "get_account_info", "get_market_id", "get_prices", "trade_order"}
AllOps == SessionOps \cup MarketOps \cup TradeOps

AllFaults == {"refusal", "null", "no_connection", "http_error", "lost_reply",
              "garbage", "not_object", "expiry"}

OneAccount == {Empty}
MCAccountArgs == OneAccount \cup {Dump(a2)}

OnePrice == {[market |-> 1, price_type |-> "bid", from_ts |-> 0, to_ts |-> 7]}

MCPriceArgs ==
  OnePrice \cup
  {[market |-> 2, price_type |-> "mid", from_ts |-> 3, to_ts |-> 7],
   [market |-> 2, price_type |-> "last", from_ts |-> 0, to_ts |-> 0]}

MCOhlcArgs ==
  {[market |-> 1, interval |-> "minute", span |-> 30, from_ts |-> 3, to_ts |-> 0],
   [market |-> 2, interval |-> "hour", span |-> 3, from_ts |-> 0, to_ts |-> 0],
   [market |-> 2, interval |-> "day", span |-> 9, from_ts |-> 0, to_ts |-> 0]}

MarketOrder == [Direction |-> "buy", Quantity |-> 10, TriggerPrice |-> Null,
                StopPrice |-> Null, LimitPrice |-> Null]
LimitOrder == [MarketOrder EXCEPT !.Direction = "sell", !.TriggerPrice = 5,
                                  !.StopPrice = 6]

MCTradeArgs ==
  {[trade_map |-> [m \in {1, 2} |-> MarketOrder], type |-> "market",
    account |-> Empty],
   [trade_map |-> [m \in {2} |-> LimitOrder], type |-> "limit",
    account |-> Dump(a2)],
   [trade_map |-> [m \in {2} |-> MarketOrder], type |-> "limit",
    account |-> Empty],
   [trade_map |-> [m \in {} |-> MarketOrder], type |-> "market",
    account |-> Empty],
   [trade_map |-> [m \in {2} |-> MarketOrder], type |-> "stop",
    account |-> Empty]}

OneTrade ==
  {[trade_map |-> [m \in {1} |-> LimitOrder], type |-> "limit",
    account |-> Empty]}

ZeroStopTrade ==
  {[trade_map |-> [m \in {1} |-> [LimitOrder EXCEPT !.StopPrice = 0]],
    type |-> "limit", account |-> Empty]}

ZeroIds == {[type |-> "float", num |-> 0]}
AnyRefusal == {[type |-> "float", num |-> 0], [type |-> "integer", num |-> 0],
               [type |-> "absent"]}
============================================================================
