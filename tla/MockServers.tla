---------------------------- MODULE MockServers ---------------------------
(***************************************************************************)
(* The bench of src/test: a client, and in the place of the Gain Capital   *)
(* server the mock servers of the functional tests, one whose resources    *)
(* work and one that lets a program log in and then fails, or no server.   *)
(* A program may point the client to any of them, write its public         *)
(* members, move it away and move a new one into its place.                *)
(***************************************************************************)
EXTENDS GCCalls

CONSTANT Program   \* the calls the program may make

(* The calls of the bench have valid arguments, as those of the functional *)
(* tests that expect success have.                                         *)
MarketCalls == {"get_market_info", "get_market_id", "get_prices", "get_ohlc"}

ValidCall(c) ==
  /\ c.op \in MarketCalls => c.args.market \in Markets
  /\ c.op = "get_prices" => PriceTypeOk(c.args.price_type)
  /\ c.op = "get_ohlc" => IntervalOk(c.args.interval, c.args.span)
  /\ c.op = "trade_order" =>
       /\ OrderTypeOk(c.args.type)
       /\ DOMAIN c.args.trade_map # {} /\ DOMAIN c.args.trade_map \subseteq Markets
       /\ ~FieldsMissing(c.args.type, Order(c))

ASSUME ProgramAssumption ==
  \A c \in Program :
    ValidCall(c) /\ c.op \notin {"validate_auth_payload", "validate_session_header"}

(* No value in a body of the mock servers is JSON null.                    *)
ASSUME MockAssumption ==
  Null # "TradingTestID" /\ Null # "ClientTestID" /\ Null # 123 /\ Null # 1

VARIABLE server    \* where set_testing_rest_urls points

benchVars == <<vars, where, server>>

Servers == {"unreachable", "correct", "failed"}

(***************************************************************************)
(* responseHandler: the two servers give the same bodies, but the failed   *)
(* one gives them with status 400, except to a login, a validation and an  *)
(* order, which it refuses with the number 0.                              *)
(***************************************************************************)
Bodies ==
  [Session |-> [statusCode |-> 0, session |-> "123"],
   validate |-> [isAuthenticated |-> TRUE],
   ClientAndTradingAccount |-> [tradingAccountId |-> "TradingTestID",
                                clientAccountId |-> "ClientTestID"],
   markets |-> [MarketId |-> 123],
   tickhistory |-> [Price |-> 1]]

MockOrder(s) ==
  [OrderId |-> [type |-> "integer", num |-> IF s = "correct" THEN 1 ELSE 0]]

MockBody(s) ==
  IF request.url \in OrderUrls THEN MockOrder(s)
  ELSE IF request.url \in DOMAIN Bodies THEN Bodies[request.url] ELSE Empty

MockWorks(s) ==
  s = "correct" \/ request.url \in {"Session", "validate"} \cup OrderUrls

(* The price resources of both exist for market 123 only. *)
MockFound == request.url \in AsksByNumber => request.market_id = Dump(123)

MockAnswer(s) ==
  IF s = "unreachable" THEN Failure(0)
  ELSE IF ~MockFound THEN Failure(404)
  ELSE [status |-> IF MockWorks(s) THEN 200 ELSE 400,
        shape |-> "object", json |-> MockBody(s)]

MockReply ==
  /\ Pending
  /\ response' = MockAnswer(server)
  /\ UNCHANGED <<clientVars, call, pc, request, result, loopVars, serverVars,
                 vouched, historyVars, where, server>>

(***************************************************************************)
(* What a program does to the object between two calls.  It has then seen  *)
(* how the last call ended.                                                *)
(***************************************************************************)
Between ==
  /\ pc = "idle"
  /\ result' = [op |-> "none", status |-> "none"] /\ where' = ""
  /\ UNCHANGED <<call, pc, request, response, loopVars, serverVars, vouched,
                 historyVars>>

set_testing_rest_urls ==
  /\ Between
  /\ server' \in Servers
  /\ UNCHANGED clientVars

(* CLASS_trading_account_id and CLASS_client_account_id are public. *)
AssignIds ==
  /\ Between
  /\ trading_account_id' = <<"TEST">> /\ client_account_id' = <<"TEST">>
  /\ UNCHANGED <<auth_payload, session_header, market_id_map, server>>

(* No numbers and the default URLs, of the real service, which the bench   *)
(* does not reach.                                                         *)
Blank ==
  /\ Between
  /\ trading_account_id' = Empty /\ client_account_id' = Empty
  /\ market_id_map' = [m \in Markets |-> Empty]
  /\ server' = "unreachable"

(* Mutant: the header stays behind.                                        *)
MoveAwayHeader == Blank /\ auth_payload' = Empty /\ UNCHANGED session_header

(* The defaulted moves: the source keeps nothing, not even its URLs.       *)
MoveAway == Blank /\ auth_payload' = Empty /\ session_header' = Empty

(* A client just constructed is moved into this one.                       *)
MoveInto ==
  /\ Blank
  /\ auth_payload' \in {Empty, <<"credentials">>} /\ session_header' = Empty

BenchInit == Init /\ where = "" /\ server = "unreachable"

Working == MockReply \/ (Continue /\ UNCHANGED server)

BenchNext ==
  \/ \E c \in Program : Calls(c) /\ UNCHANGED server
  \/ Working
  \/ set_testing_rest_urls \/ AssignIds \/ MoveAway \/ MoveInto

(***************************************************************************)
(* Whatever a program does to a client, nothing is sent for one that has   *)
(* no credentials: it never has a header then, so every call is refused    *)
(* (src/test/unit_test.cpp tests it for clients that never logged in).     *)
(***************************************************************************)
NothingWithoutCredentials ==
  ~HasCredentials => ~HasHeader /\ request = NoRequest

(* With the server of functional_failed_server_test.cpp only what needs    *)
(* nothing but a session succeeds, whatever an earlier server has left in  *)
(* the client: a validation, and a login that has account numbers already. *)
(* Nothing throws.                                                         *)
FailedServerFails ==
  pc = "idle" /\ server = "failed" /\ result.op # "none" =>
    \/ result.status = "error"
    \/ result.status = "ok" /\ result.op = "validate_session"
    \/ /\ result.status = "ok" /\ result.op = "authenticate_session"
       /\ HasAccounts
============================================================================
