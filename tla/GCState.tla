----------------------------- MODULE GCState -----------------------------
(***************************************************************************)
(* The state of one GCClient (src/include/gain_capital_client.h) in the    *)
(* middle of a call, of the Gain Capital server it talks to, and the       *)
(* building blocks of the client's steps.                                  *)
(*                                                                         *)
(* A client object is used by one thread and every request blocks, so a    *)
(* step of the client runs from one answer to the next request.  The       *)
(* server moves between the two.                                           *)
(***************************************************************************)
EXTENDS GCRequests

CONSTANTS
  Tokens,       \* session tokens the server hands out
  AccountIds,   \* account numbers the server knows
  Markets,      \* markets, numbered in the order of their names
  MarketIdOf,   \* the server's numbering of the markets
  AccountArgs,  \* values of the callers' tr_account_id, Empty for the default
  PriceArgs,    \* arguments of get_prices
  OhlcArgs,     \* arguments of get_ohlc
  TradeArgs,    \* arguments of trade_order
  ClockSteps,   \* seconds that sleep(1) may take by the system clock
  RefusalIds,   \* values of OrderId in an answer that refuses an order
  Ops,          \* the operations the program calls
  Faults        \* what may go wrong outside the client

(* JSON null is not the Boolean true.                                      *)
ASSUME NullAssumption == Null # TRUE

(* A number of an account is not missing.                                  *)
ASSUME AccountsAssumption == Null \notin AccountIds

ASSUME MarketsAssumption == Markets \subseteq Nat

ASSUME TradeArgsAssumption ==
  \A a \in TradeArgs : DOMAIN a.trade_map \subseteq Markets

ASSUME MarketArgsAssumption ==
  \A a \in PriceArgs \cup OhlcArgs : a.market \in Markets

(* sleep(1) takes at least a second, and nobody sets the clock back.       *)
ASSUME ClockAssumption == ClockSteps \subseteq Nat \ {0}

(* A refusal has no order number, or the number 0.                         *)
ASSUME RefusalAssumption ==
  RefusalIds \subseteq [type : {"integer", "float"}, num : {0}]
                         \cup [type : {"absent"}]

RETRY_SECONDS == 5

VARIABLES
  (* the data members of GCClient *)
  auth_payload, session_header, trading_account_id, client_account_id,
  market_id_map,
  (* the call in progress: what it waits for, its request and the answer *)
  call, pc, request, response, result,
  (* the locals of trade_order's loop, and how many orders it has posted *)
  current_time, attempts, bid_response,
  (* the server: live sessions, and the round of prices it quotes *)
  sessions, tick,
  (* history of the call: the session the server confirmed, orders it      *)
  (* executed, whether anything failed or expired, and whether an answer   *)
  (* to an executed request was spoilt                                     *)
  vouched, placed, disturbed, lost

accountVars == <<trading_account_id, client_account_id>>
clientVars == <<auth_payload, session_header, accountVars, market_id_map>>
loopVars == <<current_time, attempts, bid_response>>
callVars == <<call, pc, request, response, result>>
serverVars == <<sessions, tick>>
historyVars == <<placed, disturbed, lost>>
vars == <<clientVars, callVars, loopVars, serverVars, vouched, historyVars>>

NoCall == [op |-> "none", args |-> Empty]
NoRequest == [url |-> "none"]
NoAnswer == [status |-> 0, shape |-> "none", json |-> Empty]

(***************************************************************************)
(* make_network_call: an answer is a status code, the shape of the body    *)
(* and, when the body is an object, its content.  Status 200 with a body   *)
(* that parses is a value; anything else is an error.                      *)
(***************************************************************************)
Answer(json) == [status |-> 200, shape |-> "object", json |-> json]
Failure(status) == [status |-> status, shape |-> "garbage", json |-> Empty]
Unusable(shape) == [status |-> 200, shape |-> shape, json |-> Empty]

(* Mutant: the status code is not looked at.                               *)
OkByShape(r) == r.shape # "garbage"

Ok(r) == r.status = 200 /\ r.shape # "garbage"

Arrived == response # NoAnswer
Replied == Arrived /\ Ok(response) /\ response.shape = "object"

(***************************************************************************)
(* Steps of a call c.                                                      *)
(***************************************************************************)
Begin(c) ==
  /\ pc = "idle"
  /\ c.op \in Ops
  /\ placed' = 0 /\ disturbed' = FALSE /\ lost' = FALSE

Ongoing == UNCHANGED historyVars

Post(c, where, req) ==
  /\ call' = c /\ pc' = where
  /\ request' = req /\ response' = NoAnswer
  /\ UNCHANGED <<auth_payload, result, serverVars>>

Send(c, where, req) == Post(c, where, req) /\ UNCHANGED loopVars

Return(c, status) ==
  /\ call' = NoCall /\ pc' = "idle"
  /\ request' = NoRequest /\ response' = NoAnswer
  /\ result' = [op |-> c.op, status |-> status]
  /\ current_time' = 0 /\ attempts' = 0 /\ bid_response' = NoAnswer
  /\ vouched' = Empty
  /\ UNCHANGED <<auth_payload, serverVars>>

(* validate_session_header *)
HasHeader == session_header # Empty

Refused(c) ==
  /\ ~HasHeader
  /\ Begin(c)
  /\ Return(c, "error")
  /\ UNCHANGED <<session_header, accountVars, market_id_map>>

(* Mutant: what failed is sent again, for as long as it fails.             *)
CallFailsRetries ==
  /\ pc \notin {"bid", "ask"}
  /\ Arrived /\ ~Ok(response)
  /\ response' = NoAnswer
  /\ Ongoing
  /\ UNCHANGED <<clientVars, call, pc, request, result, loopVars, serverVars, vouched>>

(***************************************************************************)
(* An answer make_network_call reports as an error ends the call, except   *)
(* that trade_order looks at the two prices only when it has both.         *)
(***************************************************************************)
CallFails ==
  /\ pc \notin {"bid", "ask"}
  /\ Arrived /\ ~Ok(response)
  /\ Return(call, "error")
  /\ Ongoing
  /\ UNCHANGED <<session_header, accountVars, market_id_map>>

(***************************************************************************)
(* operator[] with a key throws on a body that parses but is no object.    *)
(* Nothing catches the exception, so it leaves the operation.              *)
(***************************************************************************)
CallThrows ==
  /\ pc \in {"login", "account", "validate", "market", "order"}
  /\ Arrived /\ Ok(response) /\ response.shape # "object"
  /\ Return(call, "throw")
  /\ Ongoing
  /\ UNCHANGED <<session_header, accountVars, market_id_map>>

(* return make_network_call(...) *)
ReceiveDirect ==
  /\ pc = "direct"
  /\ Arrived /\ Ok(response)
  /\ Return(call, "ok")
  /\ Ongoing
  /\ UNCHANGED <<session_header, accountVars, market_id_map>>

Init ==
  /\ auth_payload \in {Empty, <<"credentials">>}
  /\ session_header = Empty
  /\ trading_account_id = Empty /\ client_account_id = Empty
  /\ market_id_map = [m \in Markets |-> Empty]
  /\ call = NoCall /\ pc = "idle"
  /\ request = NoRequest /\ response = NoAnswer
  /\ result = [op |-> "none", status |-> "none"]
  /\ current_time = 0 /\ attempts = 0 /\ bid_response = NoAnswer
  /\ sessions = {} /\ tick = 0
  /\ vouched = Empty /\ placed = 0 /\ disturbed = FALSE /\ lost = FALSE
============================================================================
