------------------------------ MODULE GCCalls -----------------------------
(***************************************************************************)
(* Programs that call GCClient.  In GCClient any operation may be called   *)
(* at any time; here a program says which, and learns how the call ended   *)
(* and, from the GCException, where it failed.                             *)
(***************************************************************************)
EXTENDS GCClient

VARIABLE where   \* GCException::where of the last failed call, "" without one

(***************************************************************************)
(* The calls.                                                              *)
(***************************************************************************)
Op(op) == [op |-> op, args |-> Empty]
Named(op, market) == [op |-> op, args |-> [market |-> market]]

Prices(market, price_type, from_ts, to_ts) ==
  [op |-> "get_prices",
   args |-> [market |-> market, price_type |-> price_type,
             from_ts |-> from_ts, to_ts |-> to_ts]]

Ohlc(market, interval, span, from_ts, to_ts) ==
  [op |-> "get_ohlc",
   args |-> [market |-> market, interval |-> interval, span |-> span,
             from_ts |-> from_ts, to_ts |-> to_ts]]

NoFields == [f \in {"Direction", "Quantity", "TriggerPrice", "StopPrice",
                    "LimitPrice"} |-> Null]

Trade(type, trade_map) ==
  [op |-> "trade_order",
   args |-> [trade_map |-> trade_map, type |-> type, account |-> Empty]]

(* validate_auth_payload and validate_session_header, called on their own. *)
Check(c, valid) ==
  /\ Begin(c)
  /\ Return(c, IF valid THEN "ok" ELSE "error")
  /\ UNCHANGED <<session_header, accountVars, market_id_map>>

HasCredentials == auth_payload # Empty

(* The call c is made: an operation with its arguments. *)
Enter(c) ==
  \/ c.op = "validate_auth_payload" /\ Check(c, HasCredentials)
  \/ c.op = "validate_session_header" /\ Check(c, HasHeader)
  \/ c.op = "authenticate_session" /\ authenticate_session
  \/ c.op \in Guarded \cup {"validate_session"} /\ (BeginValidate(c) \/ Refused(c))
  \/ c.op = "get_account_info" /\ get_account_info
  \/ c.op = "get_margin_info" /\ get_margin_info
  \/ /\ c.op = "get_market_info"
     /\ Refused(c) \/ Ask(c, "direct", MarketRequest(c.args.market))
  \/ c.op = "get_market_id" /\ (Refused(c) \/ AskMarket(c))
  \/ c.op = "get_prices" /\ AskPrices(c, PriceTypeOk(c.args.price_type))
  \/ c.op = "get_ohlc" /\ AskPrices(c, IntervalOk(c.args.interval, c.args.span))
  \/ c.op = "trade_order" /\ TradeFor(c)

(***************************************************************************)
(* The function an error names: make_network_call takes the location of    *)
(* its caller, the other errors that of the function that makes them.      *)
(***************************************************************************)
EntryError(c) ==
  IF c.op = "authenticate_session" THEN "validate_auth_payload"
  ELSE IF c.op = "validate_auth_payload" \/ HasHeader THEN c.op
  ELSE "validate_session_header"

FunctionOf(place) ==
  CASE place = "login" -> "authenticate_session"
    [] place = "account" -> "set_trading_account_id"
    [] place = "validate" ->
         IF Replied THEN "validate_auth_payload" ELSE "validate_session"
    [] place = "market" ->
         IF \/ Replied /\ response.json.MarketId # Null
            \/ call.op = "get_market_id"
           THEN call.op ELSE "return_market_id"
    [] OTHER -> call.op

Report(error) ==
  where' = IF pc' = "idle" /\ result'.status = "error" THEN error ELSE ""

Calls(c) == Enter(c) /\ Report(EntryError(c))

(* The call in progress goes on. *)
Continue == pc # "idle" /\ ClientStep /\ Report(FunctionOf(pc))
============================================================================
