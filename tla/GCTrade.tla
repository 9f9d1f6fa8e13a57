----------------------------- MODULE GCTrade -----------------------------
(***************************************************************************)
(* GCClient::trade_order (src/src/gain_capital_client.cpp): find the       *)
(* market's number, check the order, then fetch both prices and post the   *)
(* order, again and again until it is taken or the time is up.             *)
(***************************************************************************)
EXTENDS GCMarkets

PriceRequest(market_id, side) ==
  TickRequest(session_header, market_id, side, 0, 0)

Order(c) == c.args.trade_map[MarketOf(c)]

Account(c) ==
  IF c.args.account = Empty THEN trading_account_id ELSE c.args.account

(* What comes after the number of the market is known. *)
CheckOrder(c, market_id) ==
  \/ FieldsMissing(c.args.type, Order(c)) /\ Return(c, "error")
  \/ /\ ~FieldsMissing(c.args.type, Order(c))
     /\ Post(c, "bid", PriceRequest(market_id, "BID"))
     /\ current_time' = 0 /\ attempts' = 0 /\ bid_response' = NoAnswer
     /\ UNCHANGED vouched

(* begin().key() of a trade map without a market throws. *)
TradeFor(c) ==
  \/ Refused(c)
  \/ ~OrderTypeOk(c.args.type) /\ Reject(c, "error")
  \/ /\ OrderTypeOk(c.args.type) /\ DOMAIN c.args.trade_map = {}
     /\ Reject(c, "throw")
  \/ /\ OrderTypeOk(c.args.type) /\ DOMAIN c.args.trade_map # {}
     /\ \/ ~Cached(MarketOf(c)) /\ AskMarket(c)
        \/ /\ Cached(MarketOf(c))
           /\ HasHeader /\ Begin(c)
           /\ CheckOrder(c, market_id_map[MarketOf(c)])
           /\ UNCHANGED <<session_header, accountVars, market_id_map>>

trade_order ==
  \E a \in TradeArgs : TradeFor([op |-> "trade_order", args |-> a])

ReceiveTradeMarket ==
  /\ LearnMarket
  /\ call.op = "trade_order"
  /\ CheckOrder(call, market_id_map'[MarketOf(call)])

(***************************************************************************)
(* The loop.  The offer is asked for whatever became of the bid.           *)
(***************************************************************************)
InLoop == Ongoing /\ UNCHANGED <<session_header, accountVars, market_id_map>>

ReceiveBid ==
  /\ pc = "bid" /\ Arrived
  /\ bid_response' = response
  /\ Post(call, "ask",
          PriceRequest(market_id_map[MarketOf(call)], "ASK"))
  /\ InLoop
  /\ UNCHANGED <<current_time, attempts, vouched>>

HavePrices == pc = "ask" /\ Arrived /\ Ok(bid_response) /\ Ok(response)

PricesFail ==
  /\ pc = "ask" /\ Arrived /\ (~Ok(bid_response) \/ ~Ok(response))
  /\ Return(call, "error")
  /\ InLoop

BidQuoted == bid_response.shape = "object" /\ bid_response.json.Price # Null

PricesThrow ==
  /\ HavePrices
  /\ \/ bid_response.shape # "object"
     \/ BidQuoted /\ response.shape # "object"
  /\ Return(call, "throw")
  /\ InLoop

PricesMissing ==
  /\ HavePrices
  /\ \/ bid_response.shape = "object" /\ bid_response.json.Price = Null
     \/ /\ BidQuoted
        /\ response.shape = "object" /\ response.json.Price = Null
  /\ Return(call, "error")
  /\ InLoop

PlaceOrder ==
  /\ HavePrices
  /\ BidQuoted
  /\ response.shape = "object" /\ response.json.Price # Null
  /\ Post(call, "order",
          OrderRequest(session_header, call.args.type, MarketOf(call),
                       Order(call), market_id_map[MarketOf(call)],
                       Account(call), Dump(bid_response.json.Price),
                       Dump(response.json.Price)))
  /\ attempts' = attempts + 1
  /\ bid_response' = NoAnswer
  /\ InLoop
  /\ UNCHANGED <<current_time, vouched>>

OrderTaken ==
  /\ pc = "order" /\ Replied
  /\ OrderDone(response.json)
  /\ Return(call, "ok")
  /\ InLoop

(* Mutant: a failed exchange is taken for an order that was not placed.    *)
PauseAfterFailure ==
  /\ pc = "order" /\ Arrived
  /\ Replied => ~OrderDone(response.json)
  /\ pc' = "sleep"
  /\ request' = NoRequest /\ response' = NoAnswer
  /\ InLoop
  /\ UNCHANGED <<auth_payload, call, result, serverVars, loopVars, vouched>>

(* Mutant: the same order is posted again at once.                         *)
PostAgain ==
  /\ pc = "order" /\ Replied
  /\ ~OrderDone(response.json)
  /\ response' = NoAnswer
  /\ InLoop
  /\ UNCHANGED <<auth_payload, call, pc, request, result, serverVars, loopVars,
                 vouched>>

PauseBeforeRetry ==
  /\ pc = "order" /\ Replied
  /\ ~OrderDone(response.json)
  /\ pc' = "sleep"
  /\ request' = NoRequest /\ response' = NoAnswer
  /\ InLoop
  /\ UNCHANGED <<auth_payload, call, result, serverVars, loopVars, vouched>>

(* Mutant: one second too many.                                            *)
RetryLate ==
  /\ pc = "sleep"
  /\ \E d \in ClockSteps :
       /\ current_time + d <= RETRY_SECONDS + 1
       /\ current_time' = current_time + d
  /\ Post(call, "bid", PriceRequest(market_id_map[MarketOf(call)], "BID"))
  /\ InLoop
  /\ UNCHANGED <<attempts, bid_response, vouched>>

(* Mutant: the clock is read once, before the loop.                        *)
RetryByOldClock ==
  /\ pc = "sleep"
  /\ \E d \in ClockSteps : current_time + d <= RETRY_SECONDS
  /\ Post(call, "bid", PriceRequest(market_id_map[MarketOf(call)], "BID"))
  /\ InLoop
  /\ UNCHANGED <<current_time, attempts, bid_response, vouched>>

Retry ==
  /\ pc = "sleep"
  /\ \E d \in ClockSteps :
       /\ current_time + d <= RETRY_SECONDS
       /\ current_time' = current_time + d
  /\ Post(call, "bid", PriceRequest(market_id_map[MarketOf(call)], "BID"))
  /\ InLoop
  /\ UNCHANGED <<attempts, bid_response, vouched>>

TimeExpired ==
  /\ pc = "sleep"
  /\ \E d \in ClockSteps : current_time + d > RETRY_SECONDS
  /\ Return(call, "error")
  /\ InLoop

TradeStep ==
  \/ trade_order \/ ReceiveTradeMarket
  \/ ReceiveBid \/ PricesFail \/ PricesThrow \/ PricesMissing
  \/ PlaceOrder \/ OrderTaken \/ PauseBeforeRetry \/ Retry \/ TimeExpired
============================================================================
