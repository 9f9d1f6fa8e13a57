---------------------------- MODULE GCClient -----------------------------
(***************************************************************************)
(* A GCClient and the server it talks to, and what is expected of them.    *)
(***************************************************************************)
EXTENDS GCSession, GCTrade, GCServer, FiniteSets

ClientStep ==
  SessionStep \/ MarketStep \/ TradeStep \/ CallFails \/ CallThrows \/ ReceiveDirect

ServerStep == Exchange \/ SpoilAnswer \/ Expire

Next == ClientStep \/ ServerStep

Spec == Init /\ [][Next]_vars

(***************************************************************************)
(* Fairness.  A call that has its answer goes on, and a request that is    *)
(* out is answered or fails: cpr sets no timeout, so the second is what    *)
(* the operating system's connection gives, not what the client enforces.  *)
(* Nobody has to start a call, and nothing has to go wrong.                *)
(***************************************************************************)
Fairness == WF_vars(pc # "idle" /\ ClientStep) /\ WF_vars(Exchange)

FairSpec == Spec /\ Fairness

(***************************************************************************)
(* Types.                                                                  *)
(***************************************************************************)
SessionTexts == {Empty, Dump(Null)} \cup {Dump(t) : t \in Tokens}
AccountTexts == {Empty, Dump(Null)} \cup {Dump(a) : a \in AccountIds}

Places == {"idle", "login", "account", "validate", "direct", "market", "bid",
           "ask", "order", "sleep"}
Statuses == {"none", "ok", "error", "throw"}
Shapes == {"object", "not_object", "garbage"}

IsAnswer(r) ==
  r = NoAnswer \/ (r.status \in {0, 200, 401, 500} /\ r.shape \in Shapes)

ClientTypeOK ==
  /\ auth_payload \in {Empty, <<"credentials">>}
  /\ session_header \in SessionTexts
  /\ trading_account_id \in AccountTexts /\ client_account_id \in AccountTexts
  /\ DOMAIN market_id_map = Markets

CallTypeOK ==
  /\ pc \in Places /\ result.status \in Statuses
  /\ pc = "idle" <=> call = NoCall
  /\ request = NoRequest <=> pc \in {"idle", "sleep"}
  /\ IsAnswer(response) /\ (request = NoRequest => response = NoAnswer)

LoopTypeOK ==
  /\ current_time \in 0 .. RETRY_SECONDS /\ attempts \in Nat
  /\ IsAnswer(bid_response)

WorldTypeOK ==
  /\ sessions \subseteq Tokens /\ tick \in {0, 1}
  /\ vouched \in SessionTexts
  /\ placed \in Nat /\ disturbed \in BOOLEAN /\ lost \in BOOLEAN

TypeOK == ClientTypeOK /\ CallTypeOK /\ LoopTypeOK /\ WorldTypeOK

(***************************************************************************)
(* Sessions and accounts.                                                  *)
(***************************************************************************)
Finished(ops) == pc = "idle" /\ result.op \in ops

(* A login ends well, or goes on to the request it was nested in.          *)
LoginPasses ==
  /\ pc \in {"login", "account"}
  /\ pc' = "direct" \/ (pc' = "idle" /\ result'.status = "ok")

(* No login passes, neither authenticate_session nor the one that          *)
(* validate_session and the guarded operations may make, before there are  *)
(* a header and two account numbers, also when an earlier call stored the  *)
(* header and then failed to fetch the account.  A number a login passes   *)
(* with is the one it has just fetched and checked, or was there before:   *)
(* the text null passes only when an earlier call has left it behind       *)
(* (src/src/gain_capital_client.cpp:98, refuted as AuthOkHasRealIds).      *)
LoginHasAccounts ==
  [][LoginPasses =>
       /\ Empty \notin {session_header', trading_account_id',
                        client_account_id'}
       /\ Dump(Null) \in {trading_account_id', client_account_id'} =>
            UNCHANGED accountVars]_vars

(* The account stays the one of the first login that found it: logging in  *)
(* again renews the session only.                                          *)
AccountsStable ==
  [][Empty \notin {trading_account_id, client_account_id} =>
       UNCHANGED accountVars]_vars

(* list_open_positions, list_active_orders and cancel_order send what they *)
(* ask under a session that the server confirmed, or handed out, in this   *)
(* very call.                                                              *)
GuardedFresh ==
  pc = "direct" /\ call.op \in Guarded =>
    request.session = vouched /\ request.session = session_header

(* A request for the default account names the account the client has when *)
(* it is sent, which the same call may just have fetched.                  *)
DefaultAccountCurrent ==
  /\ pc = "direct" /\ call.op \in Guarded /\ call.args = Empty =>
       request.TradingAccountId = trading_account_id
  /\ pc = "order" /\ call.args.account = Empty =>
       request.TradingAccountId = trading_account_id

(* A client that has ever logged in gets over a session that expired       *)
(* between two calls: the next call that checks the session succeeds,      *)
(* unless something else goes wrong during it.                             *)
RenewsExpiredSession ==
  Finished(Guarded \cup {"validate_session"}) /\ HasHeader /\ ~disturbed =>
    result.status = "ok"

(***************************************************************************)
(* Markets.                                                                *)
(***************************************************************************)
AsksByNumber == {"tickhistory", "barhistory"}

(* The client remembers for a market the number the server gave it, and    *)
(* every request for its prices, and every order, names that number.       *)
MarketIdsTruthful ==
  /\ \A m \in Markets : market_id_map[m] \in {Empty, Dump(MarketIdOf[m])}
  /\ pc \in {"direct", "bid", "ask"} /\ request.url \in AsksByNumber =>
       request.market_id = Dump(MarketIdOf[MarketOf(call)])
  /\ pc = "order" => request.MarketId = Dump(MarketIdOf[MarketOf(call)])

(***************************************************************************)
(* Orders.                                                                 *)
(***************************************************************************)

(* However often trade_order posts, the server executes one order at most: *)
(* a further attempt follows only an answer that refused the last one.     *)
AtMostOnce == placed <= 1

(* A call that executed an order does not report failure, unless the       *)
(* answer of the server was spoilt on its way.                             *)
ErrorMeansNotPlaced ==
  Finished({"trade_order"}) /\ result.status # "ok" /\ ~lost => placed = 0

(* Each attempt carries a bid and an offer of the order's market, quoted   *)
(* since the attempt before it.                                            *)
FreshPrices ==
  pc = "order" /\ response = NoAnswer =>
    \A quote \in {<<"BID", request.BidPrice>>, <<"ASK", request.OfferPrice>>} :
      quote[2] = Dump([market_id |-> request.MarketId, side |-> quote[1],
                       tick |-> tick])

(* The loop posts at most one order per second, so at most six.            *)
AttemptsBounded == attempts <= RETRY_SECONDS + 1

(* trade_order, retries and all, is a trade that happens once at most.     *)
Trading ==
  \/ pc # "idle" /\ call.op = "trade_order"
  \/ Finished({"trade_order"})

Once == INSTANCE TradeOnce WITH
  phase <- IF pc # "idle" /\ Trading THEN "working" ELSE "idle",
  placed <- IF Trading THEN placed ELSE 0,
  spoilt <- Trading /\ lost,
  outcome <- IF Finished({"trade_order"}) THEN result.status ELSE "none"

ImplementsTradeOnce == Once!Spec

(***************************************************************************)
(* Liveness: every operation comes back, whatever fails on the way, as     *)
(* long as every exchange ends.                                            *)
(***************************************************************************)
EveryCallReturns == pc # "idle" ~> pc = "idle"

HeaderLive == \E t \in sessions : session_header = Dump(t)

(* A program that, whatever else it calls, keeps coming back to             *)
(* validate_session recovers: once it has logged in it has a live session  *)
(* again, whatever state an expiry or a login that failed half way has     *)
(* left it in, unless sessions go on expiring or exchanges go on failing   *)
(* for ever.                                                               *)
SessionRecovers ==
  SF_vars(validate_session) =>
    \/ []<><<Expire>>_vars \/ []<>disturbed
    \/ HasHeader ~> HeaderLive

(***************************************************************************)
(* What the repository's documentation, comments and tests say of the      *)
(* client and the code does not do: each is refuted by a run of its own.   *)
(***************************************************************************)

(* After an authenticate_session that succeeded the account numbers are    *)
(* those of an account (src/src/gain_capital_client.cpp:85 and :101, and   *)
(* the test at src/test/functional_correct_server_test.cpp:126).           *)
AuthOkHasRealIds ==
  Finished({"authenticate_session"}) /\ result.status = "ok" =>
    Dump(Null) \notin {trading_account_id, client_account_id}

(* An order that was not placed is tried again until the time has expired, *)
(* and then reported (src/src/gain_capital_client.cpp:537 and :544).       *)
OkMeansPlaced ==
  Finished({"trade_order"}) /\ result.status = "ok" => placed = 1

(* "StopPrice", "1.3010 or 0 for None"                                     *)
(* (src/src/gain_capital_client.cpp:397).                                  *)
ZeroMeansNoStop ==
  pc = "order" /\ ToUpper(call.args.type) = "LIMIT"
      /\ Order(call).StopPrice = 0 =>
    \A i \in DOMAIN request.terms.IfDone : request.terms.IfDone[i].kind # "Stop"

(* The trade map holds an order for each currency pair                     *)
(* (src/README.md, "Placing Market Orders"), and success means that all of *)
(* them were placed.                                                       *)
EveryMarketTraded ==
  [][Trading /\ pc = "order" /\ pc' = "idle" /\ result'.status = "ok" =>
       placed = Cardinality(DOMAIN call.args.trade_map)]_vars
============================================================================
