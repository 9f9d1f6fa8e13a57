--------------------------- MODULE GCInduction ---------------------------
(***************************************************************************)
(* The inductive invariants behind the properties of GCClient.  TLC checks *)
(* them on its instances; GCClientProofs and GCOrderProofs prove them for  *)
(* all.                                                                    *)
(***************************************************************************)
EXTENDS GCClient

(***************************************************************************)
(* What a client waits for says which request it has sent ...              *)
(***************************************************************************)
RequestOK ==
  /\ pc \in {"idle", "sleep"} => request = NoRequest
  /\ pc = "login" => request.url = "Session"
  /\ pc = "account" => request.url = "ClientAndTradingAccount"
  /\ pc = "validate" => request = ValidateRequest
  /\ pc = "market" => request = MarketRequest(MarketOf(call))
  /\ pc \in {"bid", "ask"} => request.url = "tickhistory"
  /\ pc = "order" => request.url \in OrderUrls
  /\ pc = "direct" =>
       request.url \notin {"Session", "validate", "none"} \cup OrderUrls

(***************************************************************************)
(* ... and what the answer holds.                                          *)
(***************************************************************************)
AnswerOK ==
  /\ pc = "login" /\ Replied => response.json.session \in Tokens \cup {Null}
  /\ pc = "account" /\ Replied =>
       /\ response.json.tradingAccountId \in AccountIds \cup {Null}
       /\ response.json.clientAccountId \in AccountIds \cup {Null}

TypeInv == TypeOK /\ RequestOK /\ AnswerOK

(* A request is out while the client waits, for any server.                *)
CallShape ==
  /\ pc = "idle" <=> call = NoCall
  /\ request = NoRequest <=> pc \in {"idle", "sleep"}
  /\ request = NoRequest => response = NoAnswer

(***************************************************************************)
(* An order is executed only while the client waits for an answer to one,  *)
(* and the answer then says so, or was spoilt.                             *)
(***************************************************************************)
Executed == pc = "order" /\ Arrived

TradeInv ==
  /\ placed \in {0, 1}
  /\ pc # "idle" /\ ~Executed => placed = 0
  /\ Executed /\ placed = 1 =>
       lost \/ (Replied /\ OrderDone(response.json))
  /\ Executed /\ Replied /\ ~OrderDone(response.json) => placed = 0
  /\ ErrorMeansNotPlaced
  /\ pc \in {"bid", "ask", "order", "sleep"} => call.op = "trade_order"

(***************************************************************************)
(* Every order but the first has cost a second.                            *)
(***************************************************************************)
AttemptsInv ==
  /\ pc \in {"bid", "ask"} => attempts <= current_time
  /\ attempts <= current_time + 1

(***************************************************************************)
(* The session the server confirmed, on its way to the client's request.   *)
(***************************************************************************)
SessionInv ==
  /\ pc = "login" /\ Replied /\ response.json.statusCode = 0 =>
       vouched = Dump(response.json.session)
  /\ pc = "account" => vouched = session_header
  /\ pc = "validate" /\ Replied /\ response.json.isAuthenticated = TRUE =>
       vouched = session_header
  /\ GuardedFresh

(***************************************************************************)
(* The account is fetched only by a client that has a session and lacks an *)
(* account number.                                                         *)
(***************************************************************************)
AccountInv == pc = "account" => ~HasAccounts /\ HasHeader

(***************************************************************************)
(* The number of a market on its way from the server, through the cache,   *)
(* to a request; the loop of trade_order runs for a market that has one.   *)
(***************************************************************************)
LoopPlaces == {"bid", "ask", "order", "sleep"}

NumberOf(c) == Dump(MarketIdOf[MarketOf(c)])

MarketInv ==
  /\ pc \in {"market"} \cup LoopPlaces => MarketOf(call) \in Markets
  /\ pc = "market" /\ Replied =>
       response.json.MarketId \in {Null, MarketIdOf[MarketOf(call)]}
  /\ pc \in LoopPlaces => market_id_map[MarketOf(call)] = NumberOf(call)
  /\ MarketIdsTruthful

(***************************************************************************)
(* The two prices of an attempt, each as it was quoted in this round.      *)
(***************************************************************************)
Quote(side) ==
  [market_id |-> NumberOf(call), side |-> side, tick |-> tick]

PriceOf(answer, side) ==
  answer # NoAnswer /\ Ok(answer) /\ answer.shape = "object" =>
    answer.json.Price \in {Null, Quote(side)}

PriceInv ==
  /\ pc = "bid" => request.price_type = "BID" /\ PriceOf(response, "BID")
  /\ pc = "ask" =>
       /\ request.price_type = "ASK"
       /\ PriceOf(bid_response, "BID") /\ PriceOf(response, "ASK")
  /\ FreshPrices

(***************************************************************************)
(* A call that renews the session, as long as nothing has gone wrong: the  *)
(* server has answered as it should, and what it answered to is alive.     *)
(***************************************************************************)
Renewing == call.op \in Guarded \cup {"validate_session"}

Live(header) == \E t \in sessions : header = Dump(t)

RenewInv ==
  /\ HasHeader \/ pc = "login" => auth_payload # Empty
  /\ pc # "idle" /\ Renewing /\ ~disturbed =>
       /\ pc \in {"validate", "login", "account", "direct"}
       /\ Arrived => Replied
       /\ pc = "validate" => HasHeader
       /\ pc = "validate" /\ Replied /\ response.json.isAuthenticated = TRUE =>
            Live(session_header)
       /\ pc = "login" /\ Replied =>
            response.json.statusCode = 0 /\ Live(Dump(response.json.session))
       /\ pc \in {"account", "direct"} =>
            request.session = session_header /\ Live(session_header)
       /\ pc = "account" /\ Replied =>
            Null \notin {response.json.tradingAccountId,
                         response.json.clientAccountId}
  /\ RenewsExpiredSession

(* All of them: the session, the account, the trade and its attempts stay  *)
(* in step through every interleaving of the client's operations with the  *)
(* server's answers, failures and expiries.                                *)
IInv ==
  /\ TypeInv /\ TradeInv /\ AttemptsInv /\ SessionInv /\ AccountInv
  /\ MarketInv /\ PriceInv /\ RenewInv /\ DefaultAccountCurrent
============================================================================
