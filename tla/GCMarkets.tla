---------------------------- MODULE GCMarkets ----------------------------
(***************************************************************************)
(* The operations of GCClient that read: the account and the margin, the   *)
(* number the server gives a market, which the client remembers, and the   *)
(* prices, asked for by that number (src/src/gain_capital_client.cpp).     *)
(* None of them checks the session: having a header is enough.             *)
(***************************************************************************)
EXTENDS GCState

MarketRequest(market) ==
  [url |-> "markets", session |-> session_header, market |-> market]

DataRequest(c, market_id) ==
  IF c.op = "get_prices"
    THEN TickRequest(session_header, market_id, c.args.price_type,
                     c.args.from_ts, c.args.to_ts)
    ELSE BarRequest(session_header, market_id, c.args.interval, c.args.span,
                    c.args.from_ts, c.args.to_ts)

(* The market a call is about. *)
MarketOf(c) ==
  IF c.op = "trade_order" THEN FirstMarket(c.args.trade_map) ELSE c.args.market

Cached(market) == market_id_map[market] # Empty

(***************************************************************************)
(* First steps that the operations share.                                  *)
(***************************************************************************)
Ask(c, where, req) ==
  /\ HasHeader
  /\ Begin(c)
  /\ Send(c, where, req)
  /\ UNCHANGED <<session_header, accountVars, market_id_map, vouched>>

Reject(c, status) ==
  /\ HasHeader
  /\ Begin(c)
  /\ Return(c, status)
  /\ UNCHANGED <<session_header, accountVars, market_id_map>>

AskMarket(c) == Ask(c, "market", MarketRequest(MarketOf(c)))

(***************************************************************************)
(* The operations.                                                         *)
(***************************************************************************)
get_account_info ==
  LET c == [op |-> "get_account_info", args |-> Empty] IN
  \/ Refused(c)
  \/ Ask(c, "direct", [url |-> "ClientAndTradingAccount",
                       session |-> session_header])

get_margin_info ==
  LET c == [op |-> "get_margin_info", args |-> Empty] IN
  \/ Refused(c)
  \/ Ask(c, "direct", [url |-> "clientAccountMargin",
                       session |-> session_header,
                       clientAccountId |-> client_account_id])

get_market_info ==
  \E m \in Markets :
    LET c == [op |-> "get_market_info", args |-> [market |-> m]] IN
    \/ Refused(c)
    \/ Ask(c, "direct", MarketRequest(m))

get_market_id ==
  \E m \in Markets :
    LET c == [op |-> "get_market_id", args |-> [market |-> m]] IN
    Refused(c) \/ AskMarket(c)

(* It looks at the cache before get_market_id looks at the header. *)
return_market_id ==
  \E m \in Markets :
    LET c == [op |-> "return_market_id", args |-> [market |-> m]] IN
    \/ /\ Cached(m)
       /\ Begin(c) /\ Return(c, "ok")
       /\ UNCHANGED <<session_header, accountVars, market_id_map>>
    \/ ~Cached(m) /\ (Refused(c) \/ AskMarket(c))

AskPrices(c, valid) ==
  \/ Refused(c)
  \/ ~valid /\ Reject(c, "error")
  \/ valid /\ ~Cached(MarketOf(c)) /\ AskMarket(c)
  \/ /\ valid /\ Cached(MarketOf(c))
     /\ Ask(c, "direct", DataRequest(c, market_id_map[MarketOf(c)]))

get_prices ==
  \E a \in PriceArgs :
    AskPrices([op |-> "get_prices", args |-> a], PriceTypeOk(a.price_type))

get_ohlc ==
  \E a \in OhlcArgs :
    AskPrices([op |-> "get_ohlc", args |-> a], IntervalOk(a.interval, a.span))

(***************************************************************************)
(* The answer to get_market_id's request.  return_market_id looks into the *)
(* cache again and reports a failure of its own when nothing came in.      *)
(***************************************************************************)
MarketMissing ==
  /\ pc = "market"
  /\ Replied /\ response.json.MarketId = Null
  /\ Return(call, "error")
  /\ Ongoing
  /\ UNCHANGED <<session_header, accountVars, market_id_map>>

(* Mutant: the number is remembered before it is checked.                  *)
LearnMarketUnchecked ==
  /\ pc = "market"
  /\ Replied
  /\ market_id_map' =
       [market_id_map EXCEPT ![MarketOf(call)] = Dump(response.json.MarketId)]
  /\ Ongoing
  /\ UNCHANGED <<session_header, accountVars>>

LearnMarket ==
  /\ pc = "market"
  /\ Replied /\ response.json.MarketId # Null
  /\ market_id_map' =
       [market_id_map EXCEPT ![MarketOf(call)] = Dump(response.json.MarketId)]
  /\ Ongoing
  /\ UNCHANGED <<session_header, accountVars>>

ReceiveMarket ==
  /\ LearnMarket
  /\ \/ /\ call.op \in {"get_market_id", "return_market_id"}
        /\ Return(call, "ok")
     \/ /\ call.op \in {"get_prices", "get_ohlc"}
        /\ Send(call, "direct", DataRequest(call, market_id_map'[MarketOf(call)]))
        /\ UNCHANGED vouched

MarketStep ==
  \/ get_account_info \/ get_margin_info \/ get_market_info
  \/ get_market_id \/ return_market_id \/ get_prices \/ get_ohlc
  \/ MarketMissing \/ ReceiveMarket
============================================================================
