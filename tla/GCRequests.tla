---------------------------- MODULE GCRequests ----------------------------
(***************************************************************************)
(* The part of GCClient that computes and keeps no state: texts made by    *)
(* nlohmann's dump(), the checks on the caller's arguments, and the        *)
(* requests it writes (src/src/gain_capital_client.cpp).                       *)
(*                                                                         *)
(* A std::string that the client stores is the sequence of the JSON values *)
(* dumped into it: <<>> when it was never assigned, one value afterwards.  *)
(* dump() of a JSON null is the non-empty text "null".                     *)
(***************************************************************************)
EXTENDS Naturals, Sequences

CONSTANT Null   \* JSON null; operator[] yields it for a key the object lacks

Empty == <<>>
Dump(json) == <<json>>

(***************************************************************************)
(* std::transform(..., ::toupper), on the words the client compares with.  *)
(***************************************************************************)
Upper == [bid |-> "BID", ask |-> "ASK", mid |-> "MID",
          hour |-> "HOUR", minute |-> "MINUTE", day |-> "DAY", week |-> "WEEK",
          month |-> "MONTH", market |-> "MARKET", limit |-> "LIMIT"]

ToUpper(word) == IF word \in DOMAIN Upper THEN Upper[word] ELSE word

(***************************************************************************)
(* Arguments of get_prices and get_ohlc.                                   *)
(***************************************************************************)
PriceTypeOk(price_type) == ToUpper(price_type) \in {"BID", "ASK", "MID"}

SPAN_M == {1, 2, 3, 5, 10, 15, 30}
SPAN_H == {1, 2, 4, 8}
INTERVAL == {"HOUR", "MINUTE", "DAY", "WEEK", "MONTH"}

IntervalOk(interval, span) ==
  /\ ToUpper(interval) \in INTERVAL
  /\ ToUpper(interval) = "HOUR" => span \in SPAN_H
  /\ ToUpper(interval) = "MINUTE" => span \in SPAN_M

SpanSent(interval, span) ==
  IF ToUpper(interval) \in {"HOUR", "MINUTE"} THEN span ELSE 1

(***************************************************************************)
(* Which of the four history resources of a market is read, and which of   *)
(* the caller's limits it carries: 0 means "not given".                    *)
(***************************************************************************)
History(from_ts, to_ts) ==
  IF from_ts # 0 /\ to_ts # 0
    THEN [range |-> "between", from |-> from_ts, to |-> to_ts, counted |-> FALSE]
  ELSE IF to_ts # 0
    THEN [range |-> "before", from |-> 0, to |-> to_ts, counted |-> TRUE]
  ELSE IF from_ts # 0
    THEN [range |-> "after", from |-> from_ts, to |-> 0, counted |-> TRUE]
  ELSE [range |-> "latest", from |-> 0, to |-> 0, counted |-> TRUE]

TickRequest(session, market_id, price_type, from_ts, to_ts) ==
  [url |-> "tickhistory", session |-> session, market_id |-> market_id,
   price_type |-> ToUpper(price_type), history |-> History(from_ts, to_ts)]

BarRequest(session, market_id, interval, span, from_ts, to_ts) ==
  [url |-> "barhistory", session |-> session, market_id |-> market_id,
   interval |-> ToUpper(interval), span |-> SpanSent(interval, span),
   history |-> History(from_ts, to_ts)]

(***************************************************************************)
(* trade_order: the trade map is a JSON object, so an ordered map from     *)
(* market names to the fields of an order.  Names are numbers here and     *)
(* their order is the order of the keys.  A field that is absent, or null, *)
(* is Null.                                                                *)
(***************************************************************************)
FirstMarket(trade_map) ==
  CHOOSE m \in DOMAIN trade_map : \A n \in DOMAIN trade_map : m <= n

OrderTypeOk(type) == ToUpper(type) \in {"MARKET", "LIMIT"}

FieldsMissing(type, order) ==
  \/ order.Direction = Null
  \/ order.Quantity = Null
  \/ ToUpper(type) = "LIMIT" /\ order.TriggerPrice = Null

OppDirection(direction) == IF direction = "sell" THEN "buy" ELSE "sell"

Leg(kind, price, order) ==
  IF price = Null THEN <<>>
  ELSE <<[kind |-> kind, TriggerPrice |-> Dump(price),
          Direction |-> OppDirection(order.Direction),
          Quantity |-> Dump(order.Quantity)]>>

IfDone(order) ==
  Leg("Stop", order.StopPrice, order) \o Leg("Limit", order.LimitPrice, order)

OrderUrls == {"newtradeorder", "newstoplimitorder"}

Terms(type, order) ==
  IF ToUpper(type) = "LIMIT"
    THEN [TriggerPrice |-> Dump(order.TriggerPrice), IfDone |-> IfDone(order)]
    ELSE [PriceTolerance |-> 0]

OrderRequest(session, type, market, order, market_id, account, bid, offer) ==
  [url |-> IF ToUpper(type) = "MARKET" THEN "newtradeorder"
                                       ELSE "newstoplimitorder",
   session |-> session, Direction |-> order.Direction, MarketId |-> market_id,
   Quantity |-> Dump(order.Quantity), MarketName |-> market,
   TradingAccountId |-> account, OfferPrice |-> offer, BidPrice |-> bid,
   terms |-> Terms(type, order)]

(***************************************************************************)
(* The answer to an order.  An OrderId is [type, num]: the JSON type and,  *)
(* for numbers, the value.  Numbers of different types compare by value;   *)
(* values of other types differ from the number 0.                         *)
(***************************************************************************)
IsZero(id) == id.type \in {"integer", "float"} /\ id.num = 0

(* Mutant: only an OrderId that is not an integer ends the loop. *)
OrderDoneFloat(json) == json.OrderId.type # "integer" /\ ~IsZero(json.OrderId)

OrderDone(json) == json.OrderId.type = "integer" \/ ~IsZero(json.OrderId)
============================================================================
