--------------------------- MODULE GCOrderProofs ---------------------------
(***************************************************************************)
(* Proofs about what GCClient asks the server for and orders: that it gets *)
(* over a session that expired between two calls; the market, the prices   *)
(* and the account that its requests name; and that trade_order is a trade *)
(* that happens once at most.                                              *)
(***************************************************************************)
EXTENDS GCClientProofs, WellFoundedInduction

USE DEF NoCall, NoRequest, NoAnswer, Answer, Failure, Unusable,
        Arrived, Replied, Ok

(***************************************************************************)
(* A session that expired between two calls is renewed.                    *)
(***************************************************************************)
RenewingOps == Guarded \cup {"validate_session"}
RenewPlaces == {"validate", "login", "account", "direct"}

(* The steps of the other operations begin, continue and end no such call. *)
LEMMA OtherCalls ==
  ASSUME MarketStep \/ TradeStep,
         pc # "idle" /\ call.op \in RenewingOps => pc \in RenewPlaces
  PROVE  /\ pc' # "idle" => call'.op \notin RenewingOps
         /\ pc' = "idle" => result'.op \notin RenewingOps
<1> DEFINE P == /\ pc' # "idle" => call'.op \notin RenewingOps
                /\ pc' = "idle" => result'.op \notin RenewingOps
<1> USE DEF RenewPlaces, RenewingOps, Guarded, Post, Send, Return
<1>1. ASSUME NEW c, c.op \notin RenewingOps,
             \/ Refused(c) \/ Reject(c, "error") \/ Reject(c, "throw")
             \/ AskMarket(c)
      PROVE  P
  BY <1>1 DEF Refused, Reject, AskMarket, Ask
<1>2. ASSUME NEW c, c.op \notin RenewingOps, NEW req, Ask(c, "direct", req)
      PROVE  P
  BY <1>2 DEF Ask
<1>3. ASSUME NEW c, c.op \notin RenewingOps, NEW market_id,
             CheckOrder(c, market_id)
      PROVE  P
  BY <1>3 DEF CheckOrder
<1>4. MarketStep => P
  <2>1. get_account_info \/ get_margin_info => P
    BY <1>1, <1>2 DEF get_account_info, get_margin_info
  <2>2. get_market_info => P
    BY <1>1, <1>2 DEF get_market_info
  <2>3. get_market_id => P
    BY <1>1 DEF get_market_id
  <2>4. return_market_id => P
    <3>1. ASSUME NEW c, c.op \notin RenewingOps, Return(c, "ok") PROVE P
      BY <3>1
    <3> QED
      BY <1>1, <3>1 DEF return_market_id
  <2>5. ASSUME NEW c, c.op \notin RenewingOps, NEW valid, AskPrices(c, valid)
        PROVE  P
    BY <1>1, <1>2, <2>5 DEF AskPrices
  <2>6. get_prices \/ get_ohlc => P
    BY <2>5 DEF get_prices, get_ohlc
  <2>7. MarketMissing \/ ReceiveMarket => P
    BY DEF MarketMissing, ReceiveMarket, LearnMarket
  <2> QED
    BY <2>1, <2>2, <2>3, <2>4, <2>6, <2>7 DEF MarketStep
<1>5. TradeStep => P
  <2>1. trade_order => P
    BY <1>1, <1>3 DEF trade_order, TradeFor
  <2>2. ReceiveTradeMarket => P
    BY <1>3 DEF ReceiveTradeMarket
  <2>3. ReceiveBid \/ PlaceOrder \/ PauseBeforeRetry \/ Retry => P
    BY DEF ReceiveBid, PlaceOrder, HavePrices, PauseBeforeRetry, Retry
  <2>4. PricesFail \/ PricesThrow \/ PricesMissing => P
    BY DEF PricesFail, PricesThrow, PricesMissing, HavePrices
  <2>5. OrderTaken \/ TimeExpired => P
    BY DEF OrderTaken, TimeExpired
  <2> QED
    BY <2>1, <2>2, <2>3, <2>4, <2>5 DEF TradeStep
<1> QED
  BY <1>4, <1>5

(* The steps by which a call that renews the session goes from one of its  *)
(* places to the next, and what it sends from there.                       *)
RenewSteps ==
  /\ pc' \in RenewPlaces
  /\ pc' = "validate" => HasHeader /\ UNCHANGED session_header
  /\ pc' \in {"account", "direct"} =>
       /\ ReceiveLogin \/ (pc' = "direct" /\ (ReceiveAccount \/ SessionIsValid))
       /\ request'.session = session_header'

LEMMA RenewStep ==
  ASSUME ClientStep, CallTypeOK,
         pc # "idle" /\ call.op \in RenewingOps => pc \in RenewPlaces,
         pc' # "idle", call'.op \in RenewingOps
  PROVE  RenewSteps
<1> USE DEF RenewSteps, RenewPlaces, RenewingOps, Guarded, Post, Send, Return
<1>1. SessionStep => RenewSteps
  <2>1. authenticate_session \/ BeginLogin \/ RefuseLogin => RenewSteps
    BY DEF authenticate_session, PostLogin, BeginLogin, RefuseLogin
  <2>2. validate_session \/ list_open_positions \/ list_active_orders
          \/ cancel_order => RenewSteps
    BY DEF validate_session, list_open_positions, list_active_orders,
           cancel_order, BeginValidate, Refused
  <2>3. ReceiveLogin => RenewSteps
    BY DEF ReceiveLogin, LoginReceived, Proceed, GuardedRequest, AccountRequest
  <2>4. ASSUME ReceiveAccount PROVE RenewSteps
    <3>1. /\ Return(call, "error") \/ Proceed(session_header, trading_account_id')
          /\ UNCHANGED session_header
      BY <2>4 DEF ReceiveAccount
    <3> QED
      BY <2>4, <3>1 DEF Proceed, GuardedRequest
  <2>5. SessionIsValid => RenewSteps
    BY DEF SessionIsValid, Proceed, GuardedRequest
  <2> QED
    BY <2>1, <2>2, <2>3, <2>4, <2>5 DEF SessionStep
<1>2. ~MarketStep /\ ~TradeStep
  BY OtherCalls
<1>3. ~CallFails /\ ~CallThrows /\ ~ReceiveDirect
  BY DEF CallFails, CallThrows, ReceiveDirect
<1> QED
  BY <1>1, <1>2, <1>3 DEF ClientStep

(* What makes such a call fail. *)
RenewFailure ==
  \/ ~HasHeader'
  \/ Arrived /\ ~Replied
  \/ pc = "login" /\ Replied /\ response.json.statusCode # 0
  \/ pc = "validate" /\ auth_payload = Empty
  \/ /\ pc = "account" /\ Replied
     /\ Null \in {response.json.tradingAccountId,
                  response.json.clientAccountId}

LEMMA RenewFails ==
  ASSUME ClientStep, CallTypeOK,
         pc # "idle" => pc \in RenewPlaces,
         pc' = "idle", result'.op \in RenewingOps, result'.status # "ok"
  PROVE  RenewFailure
<1> USE DEF RenewFailure, RenewPlaces, RenewingOps, Guarded, Post, Send, Return
<1>1. ASSUME NEW c, Refused(c) PROVE RenewFailure
  BY <1>1 DEF Refused, HasHeader
<1>2. SessionStep => RenewFailure
  <2>1. ~authenticate_session
    BY DEF authenticate_session, PostLogin
  <2>2. validate_session \/ list_open_positions \/ list_active_orders
          \/ cancel_order => RenewFailure
    BY <1>1 DEF validate_session, list_open_positions, list_active_orders,
                cancel_order, BeginValidate
  <2>3. BeginLogin \/ RefuseLogin => RenewFailure
    BY DEF BeginLogin, PostLogin, RefuseLogin
  <2>4. ~ReceiveLogin /\ ~SessionIsValid
    BY DEF ReceiveLogin, LoginReceived, Proceed, SessionIsValid
  <2>5. ReceiveAccount => RenewFailure
    <3> SUFFICES ASSUME ReceiveAccount PROVE RenewFailure
      OBVIOUS
    <3>1. pc = "account" /\ Replied
      BY DEF ReceiveAccount
    <3>2. Dump(Null) \in {Dump(response.json.tradingAccountId),
                         Dump(response.json.clientAccountId)}
      BY DEF ReceiveAccount, Proceed
    <3> QED
      BY <3>1, <3>2 DEF Dump
  <2> QED
    BY <2>1, <2>2, <2>3, <2>4, <2>5 DEF SessionStep
<1>3. ~MarketStep /\ ~TradeStep
  BY OtherCalls
<1>4. CallFails \/ CallThrows => RenewFailure
  BY DEF CallFails, CallThrows
<1>5. ~ReceiveDirect
  BY DEF ReceiveDirect
<1> QED
  BY <1>2, <1>3, <1>4, <1>5 DEF ClientStep

(* Only a client with credentials logs in. *)
LEMMA LoginSent ==
  ASSUME ClientStep, pc' = "login"
  PROVE  auth_payload # Empty
<1> USE DEF Post, Send, Return
<1>1. SessionStep => auth_payload # Empty
  <2>1. authenticate_session \/ BeginLogin => auth_payload # Empty
    BY DEF authenticate_session, BeginLogin, PostLogin
  <2>2. /\ ~validate_session /\ ~list_open_positions /\ ~list_active_orders
        /\ ~cancel_order
    BY DEF validate_session, list_open_positions, list_active_orders,
           cancel_order, BeginValidate, Refused
  <2>3. ~RefuseLogin /\ ~ReceiveLogin /\ ~ReceiveAccount /\ ~SessionIsValid
    BY DEF RefuseLogin, ReceiveLogin, LoginReceived, ReceiveAccount,
           SessionIsValid, Proceed
  <2> QED
    BY <2>1, <2>2, <2>3 DEF SessionStep
<1>2. ~MarketStep
  BY DEF MarketStep, get_account_info, get_margin_info, get_market_info,
         get_market_id, return_market_id, get_prices, get_ohlc, AskPrices,
         AskMarket, Ask, Reject, Refused, MarketMissing, ReceiveMarket
<1>3. ~TradeStep
  BY DEF TradeStep, trade_order, TradeFor, CheckOrder, AskMarket, Ask, Reject,
         Refused, ReceiveTradeMarket, ReceiveBid, PricesFail, PricesThrow,
         PricesMissing, PlaceOrder, OrderTaken, PauseBeforeRetry, Retry,
         TimeExpired
<1>4. ~CallFails /\ ~CallThrows /\ ~ReceiveDirect
  BY DEF CallFails, CallThrows, ReceiveDirect
<1> QED
  BY <1>1, <1>2, <1>3, <1>4 DEF ClientStep

LEMMA RenewClient ==
  ASSUME TypeInv, RenewInv, ClientStep
  PROVE  RenewInv'
<1>1. CallTypeOK
  BY DEF TypeInv, TypeOK
<1>2. response' = NoAnswer
  BY <1>1, ClientStepShape DEF Ended, Sent, PauseBeforeRetry
<1>3. /\ UNCHANGED <<auth_payload, sessions>>
      /\ ReceiveLogin \/ UNCHANGED session_header
      /\ pc = "idle" \/ UNCHANGED disturbed
  BY <1>1, ClientStepFrame DEF ClientFrame, serverVars, historyVars, Begun
<1>4. HasHeader' \/ pc' = "login" => auth_payload' # Empty
  <2>1. ReceiveLogin => auth_payload # Empty
    BY DEF ReceiveLogin, LoginReceived, RenewInv
  <2> QED
    BY <1>3, <2>1, LoginSent DEF RenewInv, HasHeader
<1>5. /\ pc # "idle" /\ call.op \in RenewingOps /\ ~disturbed =>
           pc \in RenewPlaces
      /\ RenewingOps = Guarded \cup {"validate_session"}
  BY DEF RenewInv, Renewing, RenewingOps, RenewPlaces
<1>6. ASSUME pc' # "idle", call'.op \in RenewingOps, ~disturbed'
      PROVE  /\ pc' \in RenewPlaces
             /\ pc' = "validate" => HasHeader'
             /\ pc' \in {"account", "direct"} =>
                  request'.session = session_header' /\ Live(session_header)'
  <2>1. pc = "idle" \/ (call' = call /\ ~disturbed)
    BY <1>1, <1>3, <1>6, ClientStepShape DEF Ended, Sent, PauseBeforeRetry
  <2>2. RenewSteps
    BY <1>1, <1>5, <1>6, <2>1, RenewStep
  <2>3. CASE pc' \in {"account", "direct"}
    <3>1. pc \in {"login", "account", "validate"} /\ Replied
      BY <2>2, <2>3 DEF RenewSteps, ReceiveLogin, LoginReceived,
                        ReceiveAccount, SessionIsValid
    <3>2. Renewing /\ ~disturbed /\ pc # "idle"
      BY <1>5, <1>6, <2>1, <3>1 DEF Renewing
    <3>3. CASE ReceiveLogin
      <4>1. /\ pc = "login" /\ session_header' = Dump(response.json.session)
        BY <3>3 DEF ReceiveLogin, LoginReceived
      <4>2. Live(session_header)'
        BY <1>3, <3>1, <3>2, <4>1 DEF RenewInv, Live
      <4> QED
        BY <2>2, <2>3, <4>2 DEF RenewSteps, RenewPlaces
    <3>4. CASE ReceiveAccount
      <4>1. pc = "account" /\ UNCHANGED session_header
        BY <3>4 DEF ReceiveAccount
      <4>2. Live(session_header)'
        BY <1>3, <3>1, <3>2, <4>1 DEF RenewInv, Live
      <4> QED
        BY <2>2, <2>3, <4>2 DEF RenewSteps, RenewPlaces
    <3>5. CASE SessionIsValid
      <4>1. /\ pc = "validate" /\ UNCHANGED session_header
            /\ response.json.isAuthenticated = TRUE
        BY <3>5 DEF SessionIsValid
      <4>2. Live(session_header)'
        BY <1>3, <3>1, <3>2, <4>1 DEF RenewInv, Live
      <4> QED
        BY <2>2, <2>3, <4>2 DEF RenewSteps, RenewPlaces
    <3> QED
      BY <2>2, <2>3, <3>3, <3>4, <3>5 DEF RenewSteps
  <2>4. CASE pc' \notin {"account", "direct"}
    BY <2>2, <2>4 DEF RenewSteps, HasHeader
  <2> QED
    BY <2>3, <2>4
<1>7. RenewsExpiredSession'
  <2> SUFFICES ASSUME pc' = "idle", result'.op \in RenewingOps, HasHeader',
                      ~disturbed', result'.status # "ok"
               PROVE  FALSE
    BY <1>5 DEF RenewsExpiredSession, Finished
  <2>1. pc = "idle" \/ (result'.op = call.op /\ ~disturbed)
    BY <1>1, <1>3, ClientStepShape DEF Ended, Sent, PauseBeforeRetry
  <2>2. RenewFailure
    BY <1>1, <1>5, <2>1, RenewFails
  <2>3. pc # "idle" /\ Renewing /\ ~disturbed
    <3>1. pc # "idle"
      BY <1>1, <2>2 DEF RenewFailure, CallTypeOK
    <3> QED
      BY <1>5, <2>1, <3>1 DEF Renewing
  <2> QED
    BY <2>2, <2>3 DEF RenewFailure, RenewInv
<1> QED
  BY <1>2, <1>4, <1>5, <1>6, <1>7 DEF RenewInv, Renewing, RenewPlaces

(* An answer that leaves the call undisturbed is one the server gave, and  *)
(* what it then says of the session is so.                                 *)
LEMMA ServerTruth ==
  ASSUME TypeInv, ServerStep, ~disturbed', pc # "idle"
  PROVE  /\ ~disturbed
         /\ \A t \in sessions : t \in sessions'
         /\ \/ UNCHANGED response
            \/ Unauthorised
            \/ /\ Replied'
               /\ pc = "login" => ServeLogin
               /\ pc = "validate" => ServeValidate
               /\ pc = "account" => ServeAccount
<1>1. RequestOK /\ CallTypeOK
  BY DEF TypeInv, TypeOK
<1> USE DEF historyVars, serverVars, Disturb, Fields
<1>2. ~FailExchange /\ ~SpoilAnswer /\ ~Expire
  BY DEF FailExchange, SpoilAnswer, Expire
<1>3. CASE Unauthorised
  BY <1>3 DEF Unauthorised
<1>4. CASE ServeLogin
  <2>1. pc \notin {"validate", "account"}
    BY <1>1, <1>4 DEF ServeLogin, Serve, RequestOK, ValidateRequest
  <2> QED
    BY <1>4, <2>1 DEF ServeLogin, Reply
<1>5. CASE ServeValidate
  <2>1. pc \notin {"login", "account"}
    BY <1>1, <1>5 DEF ServeValidate, Serve, RequestOK
  <2> QED
    BY <1>5, <2>1 DEF ServeValidate, Reply
<1>6. CASE ServeAccount
  <2>1. pc \notin {"login", "validate"}
    BY <1>1, <1>6 DEF ServeAccount, Serve, RequestOK, ValidateRequest
  <2> QED
    BY <1>6, <2>1 DEF ServeAccount, Reply
<1>7. CASE ServeMarket \/ ServeTick \/ ServeOther \/ ServeOrder
  <2>1. pc \notin {"login", "validate", "account"}
    BY <1>1, <1>7 DEF ServeMarket, ServeTick, ServeOther, ServeOrder, Serve,
                      RequestOK, ValidateRequest, OrderUrls
  <2> QED
    BY <1>7, <2>1 DEF ServeMarket, ServeTick, ServeOther, ServeOrder, Reply
<1> QED
  BY <1>2, <1>3, <1>4, <1>5, <1>6, <1>7 DEF ServerStep, Exchange

LEMMA RenewServer ==
  ASSUME TypeInv, RenewInv, ServerStep
  PROVE  RenewInv'
<1>1. UNCHANGED <<auth_payload, session_header, call, pc, request, result>>
  BY ServerStepFrame DEF clientVars
<1>2. CallTypeOK /\ RequestOK
  BY DEF TypeInv, TypeOK
<1>3. CASE pc = "idle"
  <2>1. Expire
    BY <1>2, <1>3, ServerKinds DEF CallTypeOK, Pending, SpoilAnswer
  <2>2. disturbed' <=> disturbed
    BY <1>3, <2>1 DEF Expire
  <2> QED
    BY <1>1, <1>3, <2>2 DEF RenewInv, RenewsExpiredSession, Finished, HasHeader
<1>4. CASE pc # "idle" /\ Renewing /\ ~disturbed'
  <2>1. ~disturbed /\ \A t \in sessions : t \in sessions'
    BY <1>4, ServerTruth
  <2>2. /\ pc \in {"validate", "login", "account", "direct"}
        /\ pc = "validate" => HasHeader
        /\ pc \in {"account", "direct"} =>
             request.session = session_header /\ Live(session_header)
    BY <1>4, <2>1 DEF RenewInv
  <2>3. pc \in {"account", "direct"} =>
          request'.session = session_header' /\ Live(session_header)'
    BY <1>1, <2>1, <2>2 DEF Live
  <2>4. /\ Arrived' => Replied'
        /\ pc = "validate" /\ Replied' /\ response'.json.isAuthenticated = TRUE =>
             Live(session_header)'
        /\ pc = "login" /\ Replied' =>
             /\ response'.json.statusCode = 0
             /\ Live(Dump(response.json.session))'
        /\ pc = "account" /\ Replied' =>
             Null \notin {response'.json.tradingAccountId,
                          response'.json.clientAccountId}
    <3>1. CASE UNCHANGED response
      BY <1>1, <1>4, <2>1, <3>1 DEF RenewInv, Live
    <3>2. ~Unauthorised
      <4>1. pc = "login" => request.url = "Session"
        BY <1>2 DEF RequestOK
      <4>2. pc = "validate" => request.url = "validate"
        BY <1>2 DEF RequestOK, ValidateRequest
      <4>3. pc \in {"account", "direct"} => Authorised
        BY <2>2 DEF Live, Authorised
      <4> QED
        BY <2>2, <4>1, <4>2, <4>3 DEF Unauthorised, Serve
    <3>3. CASE Replied' /\ pc = "login" /\ ServeLogin
      <4>1. PICK t \in Tokens : /\ sessions' = sessions \cup {t}
                                /\ response' = Answer([statusCode |-> 0, session |-> t])
        BY <1>4, <3>3 DEF ServeLogin, Reply, Disturb
      <4>2. response'.json.statusCode = 0 /\ response'.json.session = t
        BY <4>1
      <4> QED
        BY <3>3, <4>1, <4>2 DEF Live
    <3>4. CASE Replied' /\ pc = "validate" /\ ServeValidate
      <4>1. Authorised \/ response' = Answer([isAuthenticated |-> FALSE])
        BY <1>4, <3>4 DEF ServeValidate, Reply, Disturb
      <4>2. request.session = session_header
        BY <1>2, <3>4 DEF RequestOK, ValidateRequest
      <4>3. Authorised => Live(session_header)'
        BY <1>1, <2>1, <4>2 DEF Authorised, Live
      <4>4. response' = Answer([isAuthenticated |-> FALSE]) =>
              response'.json.isAuthenticated = FALSE
        OBVIOUS
      <4> QED
        BY <3>4, <4>1, <4>3, <4>4
    <3>5. CASE Replied' /\ pc = "account" /\ ServeAccount
      <4>1. PICK t \in AccountIds, c \in AccountIds :
              response' = Answer([tradingAccountId |-> t, clientAccountId |-> c])
        BY <1>4, <3>5 DEF ServeAccount, Fields, Reply, Disturb
      <4>2. /\ response'.json.tradingAccountId = t
            /\ response'.json.clientAccountId = c
        BY <4>1
      <4> QED
        BY <3>5, <4>2, AccountsAssumption
    <3>6. CASE Replied' /\ pc = "direct"
      BY <3>6
    <3> QED
      BY <1>4, <2>2, <3>1, <3>2, <3>3, <3>4, <3>5, <3>6, ServerTruth
  <2> QED
    BY <1>1, <1>4, <2>2, <2>3, <2>4
       DEF RenewInv, RenewsExpiredSession, Finished, HasHeader
<1>5. CASE pc # "idle" /\ ~(Renewing /\ ~disturbed')
  BY <1>1, <1>5 DEF RenewInv, RenewsExpiredSession, Finished, HasHeader, Renewing
<1> QED
  BY <1>3, <1>4, <1>5

LEMMA RenewInvariant == Spec => []RenewInv
<1>1. Init => RenewInv
  BY DEF Init, RenewInv, HasHeader, RenewsExpiredSession, Finished
<1>2. TypeInv /\ RenewInv /\ [Next]_vars => RenewInv'
  <2> SUFFICES ASSUME TypeInv, RenewInv, [Next]_vars PROVE RenewInv'
    OBVIOUS
  <2>1. CASE Next
    BY <2>1, RenewClient, RenewServer DEF Next
  <2>2. CASE UNCHANGED vars
    BY <2>2 DEF vars, clientVars, callVars, serverVars, historyVars, RenewInv,
                Renewing, Live, HasHeader, RenewsExpiredSession, Finished
  <2> QED
    BY <2>1, <2>2
<1> QED
  BY TypeInvariant, <1>1, <1>2, PTL DEF Spec

(* validate_session and the operations that run it succeed on a client     *)
(* that has ever logged in, even when its session expired since, unless    *)
(* something goes wrong during that very call.                             *)
THEOREM ExpiredSessionIsRenewed == Spec => []RenewsExpiredSession
<1>1. RenewInv => RenewsExpiredSession
  BY DEF RenewInv
<1> QED
  BY RenewInvariant, <1>1, PTL

(***************************************************************************)
(* The first key of a trade map is the least of its keys, and a market.    *)
(***************************************************************************)
LEMMA LeastNumber ==
  ASSUME NEW S \in SUBSET Nat, S # {}
  PROVE  \E m \in S : \A n \in S : m <= n
<1>1. IsWellFoundedOn(OpToRel(<, Nat), Nat)
  BY NatLessThanWellFounded, Zenon
<1>2. PICK m \in S : \A n \in S : <<n, m>> \notin OpToRel(<, Nat)
  BY <1>1, WFMin, Zenon
<1>3. \A n \in S : ~ (n < m)
  BY <1>2 DEF OpToRel
<1> QED
  BY <1>3

LEMMA FirstIsMarket ==
  ASSUME NEW a \in TradeArgs, DOMAIN a.trade_map # {}
  PROVE  FirstMarket(a.trade_map) \in Markets
<1>1. DOMAIN a.trade_map \subseteq Markets /\ Markets \subseteq Nat
  BY TradeArgsAssumption, MarketsAssumption
<1>2. \E m \in DOMAIN a.trade_map : \A n \in DOMAIN a.trade_map : m <= n
  BY <1>1, LeastNumber
<1>3. FirstMarket(a.trade_map) \in DOMAIN a.trade_map
  BY <1>2 DEF FirstMarket
<1> QED
  BY <1>1, <1>3

(***************************************************************************)
(* What leads to each place of the loop of trade_order.                    *)
(***************************************************************************)
LEMMA LoopSteps ==
  ASSUME ClientStep
  PROVE  /\ pc' = "bid" => request'.price_type = "BID"
         /\ pc' = "ask" => ReceiveBid
         /\ pc' = "order" => PlaceOrder
         /\ pc' = "sleep" => PauseBeforeRetry
<1> DEFINE P == /\ pc' = "bid" => request'.price_type = "BID"
                /\ pc' = "ask" => ReceiveBid
                /\ pc' = "order" => PlaceOrder
                /\ pc' = "sleep" => PauseBeforeRetry
<1> USE DEF Post, Send, Return, LoopPlaces
<1>1. TradeStep => P
  <2> USE DEF PriceRequest, TickRequest, ToUpper, Upper
  <2>1. trade_order => P
    BY DEF trade_order, TradeFor, CheckOrder, AskMarket, Ask, Reject, Refused
  <2>2. ReceiveTradeMarket \/ Retry => P
    BY DEF ReceiveTradeMarket, CheckOrder, Retry
  <2>3. ReceiveBid \/ PlaceOrder \/ PauseBeforeRetry => P
    BY DEF ReceiveBid, PlaceOrder, PauseBeforeRetry
  <2>4. PricesFail \/ PricesThrow \/ PricesMissing \/ OrderTaken \/ TimeExpired => P
    BY DEF PricesFail, PricesThrow, PricesMissing, OrderTaken, TimeExpired
  <2> QED
    BY <2>1, <2>2, <2>3, <2>4 DEF TradeStep
<1> QED
  BY <1>1, OutsideLoop DEF ClientStep

(***************************************************************************)
(* The numbers of markets.                                                 *)
(***************************************************************************)

(* What is in the cache is the server's number. *)
LEMMA CachedNumber ==
  ASSUME MarketInv, NEW c, MarketOf(c) \in Markets, Cached(MarketOf(c))
  PROVE  market_id_map[MarketOf(c)] = NumberOf(c)
BY DEF MarketInv, MarketIdsTruthful, Cached, NumberOf

LEMMA LearnedNumber ==
  ASSUME TypeInv, MarketInv, LearnMarket
  PROVE  /\ MarketOf(call) \in Markets
         /\ market_id_map'[MarketOf(call)] = NumberOf(call)
         /\ \A m \in Markets :
              market_id_map'[m] \in {Empty, Dump(MarketIdOf[m])}
<1>1. /\ MarketOf(call) \in Markets
      /\ response.json.MarketId = MarketIdOf[MarketOf(call)]
  BY DEF LearnMarket, MarketInv
<1>2. market_id_map' = [market_id_map EXCEPT ![MarketOf(call)] = NumberOf(call)]
  BY <1>1 DEF LearnMarket, NumberOf
<1>3. DOMAIN market_id_map = Markets
  BY DEF TypeInv, TypeOK, ClientTypeOK
<1>4. \A m \in Markets : market_id_map[m] \in {Empty, Dump(MarketIdOf[m])}
  BY DEF MarketInv, MarketIdsTruthful
<1> QED
  BY <1>1, <1>2, <1>3, <1>4 DEF NumberOf

(* The requests that name a market, or whose answer is about one. *)
MarketSent ==
  /\ pc \in {"market"} \cup LoopPlaces => MarketOf(call) \in Markets
  /\ pc \in LoopPlaces => market_id_map[MarketOf(call)] = NumberOf(call)
  /\ pc \in {"direct", "bid", "ask"} /\ request.url \in AsksByNumber =>
       request.market_id = NumberOf(call)
  /\ pc = "order" => request.MarketId = NumberOf(call)

LEMMA DataNumber ==
  ASSUME NEW c, NEW market_id
  PROVE  DataRequest(c, market_id).market_id = market_id
BY DEF DataRequest, TickRequest, BarRequest

LEMMA MarketSentStep ==
  ASSUME TypeInv, MarketInv, ClientStep
  PROVE  MarketSent'
<1> USE DEF MarketSent, LoopPlaces, AsksByNumber, Post, Send, Return
<1>1. SessionStep => MarketSent'
  <2> USE DEF Refused, Guarded
  <2>1. authenticate_session \/ BeginLogin \/ RefuseLogin => MarketSent'
    BY DEF authenticate_session, PostLogin, BeginLogin, RefuseLogin
  <2>2. validate_session \/ list_open_positions \/ list_active_orders
          \/ cancel_order => MarketSent'
    BY DEF validate_session, list_open_positions, list_active_orders,
           cancel_order, BeginValidate
  <2>3. ReceiveLogin \/ SessionIsValid => MarketSent'
    BY DEF ReceiveLogin, LoginReceived, SessionIsValid, Proceed, GuardedRequest
  <2>4. ReceiveAccount => MarketSent'
    BY DEF ReceiveAccount, Proceed, GuardedRequest
  <2> QED
    BY <2>1, <2>2, <2>3, <2>4 DEF SessionStep
<1>2. MarketStep => MarketSent'
  <2>1. ASSUME NEW c, Refused(c) \/ Reject(c, "error") PROVE MarketSent'
    BY <2>1 DEF Refused, Reject
  <2>2. ASSUME NEW c, MarketOf(c) \in Markets, AskMarket(c) PROVE MarketSent'
    BY <2>2 DEF AskMarket, Ask
  <2>3. get_account_info \/ get_margin_info => MarketSent'
    BY DEF get_account_info, get_margin_info, Ask, Refused
  <2>4. get_market_info => MarketSent'
    BY DEF get_market_info, Ask, Refused, MarketRequest
  <2>5. get_market_id => MarketSent'
    BY <2>1, <2>2 DEF get_market_id, MarketOf
  <2>6. return_market_id => MarketSent'
    BY <2>1, <2>2 DEF return_market_id, MarketOf
  <2>7. ASSUME NEW c, NEW valid, MarketOf(c) \in Markets, AskPrices(c, valid)
        PROVE  MarketSent'
    <3>1. CASE Cached(MarketOf(c)) /\ Ask(c, "direct", DataRequest(c, market_id_map[MarketOf(c)]))
      BY <2>7, <3>1, CachedNumber, DataNumber DEF Ask, NumberOf
    <3> QED
      BY <2>1, <2>2, <2>7, <3>1 DEF AskPrices
  <2>8. get_prices \/ get_ohlc => MarketSent'
    BY <2>7, MarketArgsAssumption DEF get_prices, get_ohlc, MarketOf
  <2>9. ReceiveMarket \/ MarketMissing => MarketSent'
    BY LearnedNumber, DataNumber DEF ReceiveMarket, MarketMissing, NumberOf
  <2> QED
    BY <2>3, <2>4, <2>5, <2>6, <2>8, <2>9 DEF MarketStep
<1>3. TradeStep => MarketSent'
  <2> USE DEF PriceRequest, TickRequest
  <2>1. ASSUME NEW a \in TradeArgs, TradeFor([op |-> "trade_order", args |-> a])
        PROVE  MarketSent'
    <3> DEFINE c == [op |-> "trade_order", args |-> a]
    <3>1. DOMAIN a.trade_map # {} => MarketOf(c) \in Markets
      BY FirstIsMarket DEF MarketOf
    <3> HIDE DEF c
    <3>2. CASE AskMarket(c) /\ MarketOf(c) \in Markets
      BY <3>2 DEF AskMarket, Ask
    <3>3. CASE /\ Cached(MarketOf(c)) /\ MarketOf(c) \in Markets
               /\ CheckOrder(c, market_id_map[MarketOf(c)])
               /\ UNCHANGED market_id_map
      BY <3>3, CachedNumber DEF CheckOrder, NumberOf
    <3>4. \/ Refused(c) \/ Reject(c, "error") \/ Reject(c, "throw")
          \/ AskMarket(c) /\ MarketOf(c) \in Markets
          \/ /\ Cached(MarketOf(c)) /\ MarketOf(c) \in Markets
             /\ CheckOrder(c, market_id_map[MarketOf(c)])
             /\ UNCHANGED market_id_map
      BY <2>1, <3>1 DEF TradeFor, c
    <3>5. CASE Refused(c) \/ Reject(c, "error") \/ Reject(c, "throw")
      BY <3>5 DEF Refused, Reject
    <3> QED
      BY <3>2, <3>3, <3>4, <3>5
  <2>2. ReceiveTradeMarket => MarketSent'
    BY LearnedNumber DEF ReceiveTradeMarket, CheckOrder, NumberOf
  <2>3. ReceiveBid \/ Retry \/ PauseBeforeRetry => MarketSent'
    BY DEF MarketInv, ReceiveBid, Retry, PauseBeforeRetry, InLoop, NumberOf
  <2>4. PlaceOrder => MarketSent'
    BY DEF MarketInv, PlaceOrder, HavePrices, InLoop, NumberOf, OrderRequest
  <2>5. PricesFail \/ PricesThrow \/ PricesMissing \/ OrderTaken \/ TimeExpired
        => MarketSent'
    BY DEF PricesFail, PricesThrow, PricesMissing, OrderTaken, TimeExpired
  <2> QED
    BY <2>1, <2>2, <2>3, <2>4, <2>5 DEF TradeStep, trade_order
<1>4. CallFails \/ CallThrows \/ ReceiveDirect => MarketSent'
  BY DEF CallFails, CallThrows, ReceiveDirect
<1> QED
  BY <1>1, <1>2, <1>3, <1>4 DEF ClientStep

LEMMA MarketClient ==
  ASSUME TypeInv, MarketInv, ClientStep
  PROVE  MarketInv'
<1>1. CallTypeOK
  BY DEF TypeInv, TypeOK
<1>2. response' = NoAnswer
  BY <1>1, ClientStepShape DEF Ended, Sent, PauseBeforeRetry
<1>3. \A m \in Markets : market_id_map'[m] \in {Empty, Dump(MarketIdOf[m])}
  BY <1>1, LearnedNumber, ClientStepFrame
     DEF ClientFrame, MarketInv, MarketIdsTruthful
<1>4. MarketSent'
  BY MarketSentStep
<1> QED
  BY <1>2, <1>3, <1>4 DEF MarketInv, MarketSent, MarketIdsTruthful, NumberOf

LEMMA MarketServer ==
  ASSUME TypeInv, MarketInv, ServerStep
  PROVE  MarketInv'
<1>1. UNCHANGED <<call, pc, request, market_id_map>>
  BY ServerStepFrame DEF clientVars
<1>2. pc = "market" /\ Replied' =>
        response'.json.MarketId \in {Null, MarketIdOf[MarketOf(call)]}
  <2> SUFFICES ASSUME pc = "market", Replied'
               PROVE  response'.json.MarketId \in {Null, MarketIdOf[MarketOf(call)]}
    OBVIOUS
  <2>1. request.url = "markets" /\ request.market = MarketOf(call)
    BY DEF TypeInv, RequestOK, MarketRequest
  <2>2. CASE ServeMarket
    BY <2>1, <2>2 DEF ServeMarket, Fields, Reply
  <2>3. CASE Expire
    BY <2>3 DEF Expire, callVars, MarketInv
  <2>4. ~Unauthorised /\ ~FailExchange /\ ~SpoilAnswer
    BY DEF Unauthorised, FailExchange, SpoilAnswer
  <2>5. /\ ~ServeLogin /\ ~ServeValidate /\ ~ServeAccount /\ ~ServeTick
        /\ ~ServeOther /\ ~ServeOrder
    BY <2>1 DEF ServeLogin, ServeValidate, ServeAccount, ServeTick, ServeOther,
                ServeOrder, Serve, OrderUrls
  <2> QED
    BY <2>2, <2>3, <2>4, <2>5 DEF ServerStep, Exchange
<1> QED
  BY <1>1, <1>2 DEF MarketInv, MarketIdsTruthful, NumberOf, MarketOf

LEMMA MarketInvariant == Spec => []MarketInv
<1>1. Init => MarketInv
  BY DEF Init, MarketInv, MarketIdsTruthful, LoopPlaces
<1>2. TypeInv /\ MarketInv /\ [Next]_vars => MarketInv'
  <2> SUFFICES ASSUME TypeInv, MarketInv, [Next]_vars PROVE MarketInv'
    OBVIOUS
  <2>1. CASE Next
    BY <2>1, MarketClient, MarketServer DEF Next
  <2>2. CASE UNCHANGED vars
    BY <2>2 DEF vars, clientVars, callVars, MarketInv, MarketIdsTruthful,
                NumberOf, MarketOf
  <2> QED
    BY <2>1, <2>2
<1> QED
  BY TypeInvariant, <1>1, <1>2, PTL DEF Spec

(* The number the client remembers for a market is the one the server gave *)
(* it, and every request for prices and every order names that number.     *)
THEOREM MarketsAreTrue == Spec => []MarketIdsTruthful
<1>1. MarketInv => MarketIdsTruthful
  BY DEF MarketInv
<1> QED
  BY MarketInvariant, <1>1, PTL

(***************************************************************************)
(* The prices of an order.                                                 *)
(***************************************************************************)
LEMMA PriceClient ==
  ASSUME TypeInv, MarketInv, PriceInv, ClientStep
  PROVE  PriceInv'
<1>1. CallTypeOK
  BY DEF TypeInv, TypeOK
<1>2. response' = NoAnswer /\ UNCHANGED tick
  BY <1>1, ClientStepShape, ClientStepFrame
     DEF Ended, Sent, PauseBeforeRetry, ClientFrame, serverVars
<1>3. pc' = "bid" => request'.price_type = "BID"
  BY LoopSteps
<1>4. pc' = "ask" => /\ request'.price_type = "ASK"
                     /\ PriceOf(bid_response, "BID")'
  <2> SUFFICES ASSUME ReceiveBid
               PROVE  request'.price_type = "ASK" /\ PriceOf(bid_response, "BID")'
    BY LoopSteps
  <2>1. request'.price_type = "ASK"
    BY DEF ReceiveBid, Post, PriceRequest, TickRequest, ToUpper, Upper
  <2>2. pc = "bid" /\ call' = call /\ bid_response' = response
    BY DEF ReceiveBid, Post
  <2> QED
    BY <1>2, <2>1, <2>2 DEF PriceInv, PriceOf, Quote, NumberOf, MarketOf
<1>5. FreshPrices'
  <2> SUFFICES ASSUME PlaceOrder PROVE FreshPrices'
    BY LoopSteps DEF FreshPrices
  <2>1. /\ pc = "ask" /\ Ok(bid_response) /\ Ok(response)
        /\ bid_response.shape = "object" /\ bid_response.json.Price # Null
        /\ response.shape = "object" /\ response.json.Price # Null
    BY DEF PlaceOrder, HavePrices, BidQuoted
  <2>2. /\ bid_response.json.Price = Quote("BID")
        /\ response.json.Price = Quote("ASK")
    BY <2>1 DEF PriceInv, PriceOf
  <2>3. market_id_map[MarketOf(call)] = NumberOf(call)
    BY <2>1 DEF MarketInv, LoopPlaces
  <2>4. /\ request'.BidPrice = Dump(Quote("BID"))
        /\ request'.OfferPrice = Dump(Quote("ASK"))
        /\ request'.MarketId = NumberOf(call)
    BY <2>2, <2>3 DEF PlaceOrder, Post, OrderRequest
  <2> QED
    BY <1>2, <2>4 DEF FreshPrices, Quote
<1> QED
  BY <1>2, <1>3, <1>4, <1>5 DEF PriceInv, PriceOf

LEMMA PriceServer ==
  ASSUME TypeInv, MarketInv, PriceInv, ServerStep
  PROVE  PriceInv'
<1>1. UNCHANGED <<call, pc, request, bid_response>>
  BY ServerStepFrame DEF loopVars
<1>2. CallTypeOK /\ RequestOK
  BY DEF TypeInv, TypeOK
<1>3. CASE pc \in {"bid", "ask"}
  <2>1. /\ request.url = "tickhistory" /\ request.market_id = NumberOf(call)
    BY <1>2, <1>3 DEF RequestOK, MarketInv, MarketIdsTruthful, AsksByNumber,
                      NumberOf
  <2>2. ~ServeOrder
    BY <2>1 DEF ServeOrder, Serve, OrderUrls
  <2>3. UNCHANGED tick
    BY <2>2 DEF ServerStep, Exchange, ServeLogin, ServeValidate, Unauthorised,
                ServeAccount, ServeMarket, ServeTick, ServeOther, FailExchange,
                SpoilAnswer, Expire, serverVars
  <2>4. \/ UNCHANGED response
        \/ ~Replied'
        \/ response'.json.Price \in {Null, Quote(request.price_type)}
    <3>1. CASE ServeTick
      BY <2>1, <3>1 DEF ServeTick, Fields, Reply, Quote
    <3>2. CASE Expire
      BY <3>2 DEF Expire, callVars
    <3>3. CASE Unauthorised \/ FailExchange \/ SpoilAnswer
      BY <3>3 DEF Unauthorised, FailExchange, SpoilAnswer
    <3>4. /\ ~ServeLogin /\ ~ServeValidate /\ ~ServeAccount /\ ~ServeMarket
          /\ ~ServeOther
      BY <2>1 DEF ServeLogin, ServeValidate, ServeAccount, ServeMarket,
                  ServeOther, Serve
    <3> QED
      BY <2>2, <3>1, <3>2, <3>3, <3>4 DEF ServerStep, Exchange
  <2> QED
    BY <1>1, <1>3, <2>3, <2>4
       DEF PriceInv, PriceOf, Quote, NumberOf, MarketOf, FreshPrices
<1>4. CASE pc \notin {"bid", "ask"}
  <2>1. response' = NoAnswer => UNCHANGED <<response, tick>>
    <3>1. CASE ServeOrder
      <4>1. response'.status = 200
        BY <3>1 DEF ServeOrder, Reply
      <4> QED
        BY <4>1
    <3>2. CASE ~ServeOrder
      BY <1>2, <3>2, ServerNeedsRequest
         DEF CallTypeOK, ServerStep, Exchange, ServeLogin, ServeValidate,
             Unauthorised, ServeAccount, ServeMarket, ServeTick, ServeOther,
             FailExchange, SpoilAnswer, Expire, serverVars
    <3> QED
      BY <3>1, <3>2
  <2> QED
    BY <1>1, <1>4, <2>1 DEF PriceInv, FreshPrices
<1> QED
  BY <1>3, <1>4

LEMMA PriceInvariant == Spec => []PriceInv
<1>1. Init => PriceInv
  BY DEF Init, PriceInv, FreshPrices
<1>2. TypeInv /\ MarketInv /\ PriceInv /\ [Next]_vars => PriceInv'
  <2> SUFFICES ASSUME TypeInv, MarketInv, PriceInv, [Next]_vars
               PROVE  PriceInv'
    OBVIOUS
  <2>1. CASE Next
    BY <2>1, PriceClient, PriceServer DEF Next
  <2>2. CASE UNCHANGED vars
    BY <2>2 DEF vars, callVars, loopVars, serverVars, PriceInv, PriceOf, Quote,
                NumberOf, MarketOf, FreshPrices
  <2> QED
    BY <2>1, <2>2
<1> QED
  BY TypeInvariant, MarketInvariant, <1>1, <1>2, PTL DEF Spec

(* Every attempt of trade_order carries a bid and an offer of its own      *)
(* market, both quoted since the attempt before it.                        *)
THEOREM PricesAreFresh == Spec => []FreshPrices
<1>1. PriceInv => FreshPrices
  BY DEF PriceInv
<1> QED
  BY PriceInvariant, <1>1, PTL

(***************************************************************************)
(* The account of a request.                                               *)
(***************************************************************************)

(* A guarded request for the default account takes the number from the     *)
(* member that the same call may just have filled.                         *)
LEMMA GuardedAccount ==
  ASSUME ClientStep, CallTypeOK, pc' = "direct", call'.op \in Guarded,
         call'.args = Empty
  PROVE  request'.TradingAccountId = trading_account_id'
<1> USE DEF Send, Post, Return, GuardedRequest, Proceed
<1>1. CASE ReceiveLogin
  BY <1>1 DEF ReceiveLogin, LoginReceived, accountVars
<1>2. CASE ReceiveAccount
  <2>1. Return(call, "error") \/ Proceed(session_header, trading_account_id')
    BY <1>2 DEF ReceiveAccount
  <2> QED
    BY <2>1
<1>3. CASE SessionIsValid
  BY <1>3 DEF SessionIsValid, accountVars
<1> QED
  BY <1>1, <1>2, <1>3, SessionSent

LEMMA AccountSent ==
  ASSUME TypeInv, DefaultAccountCurrent, Next
  PROVE  DefaultAccountCurrent'
<1>1. CallTypeOK
  BY DEF TypeInv, TypeOK
<1>2. CASE ClientStep
  <2>1. pc' = "order" /\ call'.args.account = Empty =>
          request'.TradingAccountId = trading_account_id'
    BY <1>2, LoopSteps
       DEF PlaceOrder, Post, OrderRequest, Account, InLoop, accountVars
  <2> QED
    BY <1>1, <1>2, <2>1, GuardedAccount DEF DefaultAccountCurrent
<1>3. CASE ServerStep
  BY <1>3, ServerStepFrame DEF DefaultAccountCurrent, clientVars, accountVars
<1> QED
  BY <1>2, <1>3 DEF Next

(* A request for the default account names the account that the client has *)
(* when it is sent, even if a login within the call has just fetched it.   *)
THEOREM DefaultAccountIsCurrent == Spec => []DefaultAccountCurrent
<1>1. Init => DefaultAccountCurrent
  BY DEF Init, DefaultAccountCurrent
<1>2. TypeInv /\ DefaultAccountCurrent /\ [Next]_vars => DefaultAccountCurrent'
  <2> SUFFICES ASSUME TypeInv, DefaultAccountCurrent, [Next]_vars
               PROVE  DefaultAccountCurrent'
    OBVIOUS
  <2>1. CASE Next
    BY <2>1, AccountSent
  <2>2. CASE UNCHANGED vars
    BY <2>2 DEF vars, callVars, clientVars, accountVars, DefaultAccountCurrent
  <2> QED
    BY <2>1, <2>2
<1> QED
  BY TypeInvariant, <1>1, <1>2, PTL DEF Spec

(***************************************************************************)
(* The calls of trade_order against TradeOnce.                             *)
(***************************************************************************)

(* A call that ends where it begins has been turned down, unless a number  *)
(* in the cache answered it.                                               *)
LEMMA TurnedDown ==
  ASSUME CallTypeOK, ClientStep, pc = "idle", pc' = "idle",
         result'.op = "trade_order"
  PROVE  result'.status \in {"error", "throw"}
<1> USE DEF Begin, Post, Send, Return, Refused, Reject, Ask, AskMarket
<1>1. ~SessionStep
  BY DEF SessionStep, authenticate_session, PostLogin, validate_session,
         list_open_positions, list_active_orders, cancel_order, BeginValidate,
         BeginLogin, RefuseLogin, ReceiveLogin, LoginReceived,
         ReceiveAccount, SessionIsValid
<1>2. ~MarketStep
  BY DEF MarketStep, get_account_info, get_margin_info, get_market_info,
         get_market_id, return_market_id, get_prices, get_ohlc, AskPrices,
         MarketMissing, ReceiveMarket, LearnMarket
<1>3. TradeStep => result'.status \in {"error", "throw"}
  <2>1. trade_order => result'.status \in {"error", "throw"}
    BY DEF trade_order, TradeFor, CheckOrder
  <2>2. TradeStep => trade_order
    BY DEF TradeStep, ReceiveTradeMarket, LearnMarket, ReceiveBid, PricesFail,
           PricesThrow, PricesMissing, HavePrices, PlaceOrder, OrderTaken,
           PauseBeforeRetry, Retry, TimeExpired
  <2> QED
    BY <2>1, <2>2
<1>4. ~(CallFails \/ CallThrows \/ ReceiveDirect)
  BY DEF CallTypeOK, CallFails, CallThrows, ReceiveDirect
<1> QED
  BY <1>1, <1>2, <1>3, <1>4 DEF ClientStep

(* The history of a call changes with an order executed or an answer       *)
(* spoilt.                                                                 *)
LEMMA ServerHistory ==
  ASSUME ServerStep
  PROVE  \/ UNCHANGED <<placed, lost>>
         \/ ServeOrder /\ placed' = placed + 1 /\ UNCHANGED lost
         \/ SpoilAnswer
<1> USE DEF historyVars, Fields, Disturb
<1>1. ServeLogin \/ ServeValidate \/ Unauthorised \/ ServeOther
        => UNCHANGED <<placed, lost>>
  BY DEF ServeLogin, ServeValidate, Unauthorised, ServeOther
<1>2. ServeAccount \/ ServeMarket \/ ServeTick => UNCHANGED <<placed, lost>>
  BY DEF ServeAccount, ServeMarket, ServeTick
<1>3. FailExchange \/ Expire => UNCHANGED <<placed, lost>>
  BY DEF FailExchange, Expire
<1>4. ServeOrder => UNCHANGED lost /\ (UNCHANGED placed \/ placed' = placed + 1)
  BY DEF ServeOrder
<1> QED
  BY <1>1, <1>2, <1>3, <1>4 DEF ServerStep, Exchange

LEMMA OnceInit == Init => Once!Init
BY DEF Init, Once!Init, Trading, Finished

(* The client begins a trade, turns it down, or ends it; everything else   *)
(* that it does in a trade the caller does not see.                        *)
LEMMA OnceClient ==
  ASSUME TypeInv, TradeInv, TradeInv', ClientStep
  PROVE  [Once!Next]_(Once!tvars)
<1> USE DEF Trading, Finished
<1>1. CallTypeOK
  BY DEF TypeInv, TypeOK
<1>2. Ended \/ Sent \/ PauseBeforeRetry
  BY <1>1, ClientStepShape
<1>3. Begun \/ (pc # "idle" /\ UNCHANGED historyVars)
  BY <1>1, ClientStepFrame DEF ClientFrame
<1>4. CASE Begun
  <2>1. pc = "idle" /\ placed' = 0 /\ lost' = FALSE
    BY <1>4, Zenon DEF Begun
  <2>2. CASE ~Trading'
    <3>1. Once!Forget
      BY <2>1, <2>2 DEF Once!Forget
    <3> QED
      BY <3>1 DEF Once!Next
  <2>3. CASE Trading' /\ pc' # "idle"
    <3>1. Once!Start
      BY <2>1, <2>3 DEF Once!Start
    <3> QED
      BY <3>1 DEF Once!Next
  <2>4. CASE Trading' /\ pc' = "idle"
    <3>1. result'.op = "trade_order" /\ result'.status \in {"error", "throw"}
      BY <1>1, <2>1, <2>4, TurnedDown
    <3>2. Once!TurnDown
      BY <2>1, <2>4, <3>1 DEF Once!TurnDown
    <3> QED
      BY <3>2 DEF Once!Next
  <2> QED
    BY <2>2, <2>3, <2>4
<1>5. CASE pc # "idle" /\ UNCHANGED historyVars
  <2>1. placed' = placed /\ lost' = lost
    BY <1>5 DEF historyVars
  <2>2. CASE pc' = "idle"
    <3>1. Ended
      BY <1>2, <2>2 DEF Sent, PauseBeforeRetry
    <3>2. result'.op = call.op /\ result'.status \in {"ok", "error", "throw"}
      BY <1>5, <3>1 DEF Ended
    <3>3. CASE call.op = "trade_order"
      <4>1. placed = 1 /\ ~lost => result'.status = "ok"
        BY <2>1, <2>2, <3>2, <3>3 DEF TradeInv, ErrorMeansNotPlaced
      <4>2. Once!Finish
        BY <1>5, <2>1, <2>2, <3>2, <3>3, <4>1 DEF Once!Finish
      <4> QED
        BY <4>2 DEF Once!Next
    <3>4. CASE call.op # "trade_order"
      BY <1>5, <2>2, <3>2, <3>4 DEF Once!tvars
    <3> QED
      BY <3>3, <3>4
  <2>3. CASE pc' # "idle"
    <3>1. call' = call
      BY <1>2, <1>5, <2>3 DEF Ended, Sent, PauseBeforeRetry
    <3> QED
      BY <1>5, <2>1, <2>3, <3>1 DEF Once!tvars
  <2> QED
    BY <2>2, <2>3
<1> QED
  BY <1>3, <1>4, <1>5

(* In a trade, the server executes an order or the network spoils an       *)
(* answer.                                                                 *)
LEMMA OnceServer ==
  ASSUME TypeInv, TradeInv, ServerStep
  PROVE  [Once!Next]_(Once!tvars)
<1> USE DEF Trading, Finished
<1>1. UNCHANGED <<call, pc, request, result>>
  BY ServerStepFrame
<1>2. CallTypeOK /\ RequestOK
  BY DEF TypeInv, TypeOK
<1>3. CASE UNCHANGED <<placed, lost>>
  BY <1>1, <1>3 DEF Once!tvars
<1>4. CASE ServeOrder /\ placed' = placed + 1 /\ UNCHANGED lost
  <2>1. pc = "order" /\ response = NoAnswer
    BY <1>4, OrderUrl DEF ServeOrder, Serve, Pending
  <2>2. placed = 0 /\ call.op = "trade_order"
    BY <2>1 DEF TradeInv, Executed
  <2>3. Once!Execute
    BY <1>1, <1>4, <2>1, <2>2 DEF Once!Execute
  <2> QED
    BY <2>3 DEF Once!Next
<1>5. CASE SpoilAnswer
  <2>1. pc # "idle" /\ lost' = TRUE /\ placed' = placed
    BY <1>2, <1>5 DEF SpoilAnswer, CallTypeOK
  <2>2. CASE call.op = "trade_order"
    <3>1. Once!Spoil
      BY <1>1, <2>1, <2>2 DEF Once!Spoil
    <3> QED
      BY <3>1 DEF Once!Next
  <2>3. CASE call.op # "trade_order"
    BY <1>1, <2>1, <2>3 DEF Once!tvars
  <2> QED
    BY <2>2, <2>3
<1> QED
  BY <1>3, <1>4, <1>5, ServerHistory

(* A call of trade_order, with its prices, its retries, its session that   *)
(* may expire and its answers that may be lost, is to its caller a trade   *)
(* that is executed once at most and not reported as failed when it was.   *)
THEOREM TradeOnceImplemented == Spec => ImplementsTradeOnce
<1>1. TypeInv /\ TradeInv /\ TradeInv' /\ [Next]_vars
        => [Once!Next]_(Once!tvars)
  <2> SUFFICES ASSUME TypeInv, TradeInv, TradeInv', [Next]_vars
               PROVE  [Once!Next]_(Once!tvars)
    OBVIOUS
  <2>1. CASE Next
    BY <2>1, OnceClient, OnceServer DEF Next
  <2>2. CASE UNCHANGED vars
    BY <2>2 DEF vars, callVars, historyVars, Once!tvars, Trading, Finished
  <2> QED
    BY <2>1, <2>2
<1> QED
  BY TypeInvariant, TradeInvariant, OnceInit, <1>1, PTL
     DEF Spec, ImplementsTradeOnce, Once!Spec

(***************************************************************************)
(* All of it together.                                                     *)
(***************************************************************************)

(* Whatever the client, the server and the network do, and in whatever     *)
(* order, the invariant that TLC checks on the instances holds.            *)
THEOREM InvariantsHold == Spec => []IInv
BY TypeInvariant, TradeInvariant, AttemptsInvariant, SessionInvariant,
   AccountInvariant, MarketInvariant, PriceInvariant, RenewInvariant,
   DefaultAccountIsCurrent, PTL DEF IInv
============================================================================
