-------------------------- MODULE GCClientProofs --------------------------
(***************************************************************************)
(* Proofs about GCClient, for every value of its constants.                *)
(***************************************************************************)
EXTENDS GCInduction, TLAPS

USE DEF NoCall, NoRequest, NoAnswer, Answer, Failure, Unusable,
        Arrived, Replied, Ok

(***************************************************************************)
(* Types, requests and answers.                                            *)
(***************************************************************************)
LEMMA TypeInit == Init => TypeInv
<1> SUFFICES ASSUME Init PROVE TypeInv
  OBVIOUS
<1>1. ClientTypeOK
  BY DEF Init, ClientTypeOK, SessionTexts, AccountTexts
<1>2. CallTypeOK
  BY DEF Init, CallTypeOK, Places, Statuses, IsAnswer
<1>3. LoopTypeOK
  BY DEF Init, LoopTypeOK, IsAnswer, RETRY_SECONDS
<1>4. WorldTypeOK
  <2>1. disturbed \in BOOLEAN /\ lost \in BOOLEAN
    BY Zenon DEF Init
  <2> QED
    BY <2>1 DEF Init, WorldTypeOK, SessionTexts
<1>5. RequestOK /\ AnswerOK
  BY DEF Init, RequestOK, AnswerOK
<1> QED
  BY <1>1, <1>2, <1>3, <1>4, <1>5 DEF TypeInv, TypeOK

(***************************************************************************)
(* What every step of the client has in common: it leaves the server       *)
(* alone, the history of the call is kept, or begun when the call is, and  *)
(* each of the client's data members has one step that writes it.          *)
(***************************************************************************)
Begun == pc = "idle" /\ placed' = 0 /\ disturbed' = FALSE /\ lost' = FALSE

ClientFrame ==
  /\ UNCHANGED <<auth_payload, serverVars>>
  /\ Begun \/ (pc # "idle" /\ UNCHANGED historyVars)
  /\ ReceiveLogin \/ UNCHANGED session_header
  /\ ReceiveAccount \/ UNCHANGED accountVars
  /\ LearnMarket \/ UNCHANGED market_id_map
  /\ \/ UNCHANGED loopVars /\ pc' \notin {"bid", "ask"}
     \/ current_time' = 0 /\ attempts' = 0 /\ bid_response' = NoAnswer
     \/ ReceiveBid \/ PlaceOrder \/ Retry

LEMMA StepFrame ==
  ASSUME CallShape, ClientStep
  PROVE  ClientFrame
<1> USE DEF CallShape, ClientFrame, Begun, Ongoing, InLoop, Begin, Return, Post, Send,
            serverVars
<1>1. SessionStep => ClientFrame
  <2> USE DEF BeginValidate, Refused, Proceed
  <2>1. authenticate_session => ClientFrame
    BY DEF authenticate_session, PostLogin
  <2>2. validate_session \/ list_open_positions \/ list_active_orders \/ cancel_order => ClientFrame
    BY DEF validate_session, list_open_positions, list_active_orders,
           cancel_order
  <2>3. BeginLogin \/ RefuseLogin \/ ReceiveLogin \/ ReceiveAccount \/ SessionIsValid
        => ClientFrame
    BY DEF BeginLogin, PostLogin, RefuseLogin, ReceiveLogin, LoginReceived,
           ReceiveAccount, SessionIsValid
  <2> QED
    BY <2>1, <2>2, <2>3 DEF SessionStep
<1>2. MarketStep => ClientFrame
  BY DEF MarketStep, get_account_info, get_margin_info, get_market_info,
         get_market_id, return_market_id, get_prices, get_ohlc, AskPrices,
         AskMarket, Ask, Reject, Refused, MarketMissing, ReceiveMarket,
         LearnMarket
<1>3. TradeStep => ClientFrame
  <2>1. trade_order => ClientFrame
    BY DEF trade_order, TradeFor, CheckOrder, AskMarket, Ask, Reject, Refused
  <2>2. ReceiveTradeMarket => ClientFrame
    BY DEF ReceiveTradeMarket, CheckOrder, LearnMarket
  <2>3. ReceiveBid \/ PlaceOrder \/ Retry => ClientFrame
    BY DEF ReceiveBid, PlaceOrder, HavePrices, Retry
  <2>4. PricesFail \/ PricesThrow \/ PricesMissing => ClientFrame
    BY DEF PricesFail, HavePrices, PricesThrow, PricesMissing
  <2>5. OrderTaken \/ PauseBeforeRetry \/ TimeExpired => ClientFrame
    BY DEF OrderTaken, PauseBeforeRetry, TimeExpired
  <2> QED
    BY <2>1, <2>2, <2>3, <2>4, <2>5 DEF TradeStep
<1>4. CallFails \/ CallThrows \/ ReceiveDirect => ClientFrame
  BY DEF CallFails, CallThrows, ReceiveDirect
<1> QED
  BY <1>1, <1>2, <1>3, <1>4 DEF ClientStep

LEMMA TypedShape == ASSUME CallTypeOK PROVE CallShape
BY DEF CallTypeOK, CallShape

LEMMA ClientStepFrame == ASSUME CallTypeOK, ClientStep PROVE ClientFrame
BY TypedShape, StepFrame

(***************************************************************************)
(* The server and the network leave the client and its request alone.      *)
(***************************************************************************)
LEMMA ServerStepFrame ==
  ServerStep => UNCHANGED <<clientVars, call, pc, request, result, loopVars>>
BY DEF ServerStep, Exchange, ServeLogin, ServeValidate, Unauthorised,
       ServeAccount, ServeMarket, ServeTick, ServeOther, ServeOrder, Serve,
       FailExchange, SpoilAnswer, Expire, callVars, clientVars, loopVars

(***************************************************************************)
(* A step of the client ends the call, or sends the next request, or goes  *)
(* to sleep.                                                               *)
(***************************************************************************)
Ended ==
  /\ call' = NoCall /\ pc' = "idle"
  /\ request' = NoRequest /\ response' = NoAnswer
  /\ result'.status \in {"ok", "error", "throw"}
  /\ pc # "idle" => result'.op = call.op
  /\ current_time' = 0 /\ attempts' = 0 /\ bid_response' = NoAnswer
  /\ vouched' = Empty

Sent ==
  /\ pc' \in Places \ {"idle", "sleep"}
  /\ IF pc = "idle" THEN call'.op # "none" ELSE call' = call
  /\ request'.url # "none" /\ response' = NoAnswer
  /\ result' = result
  /\ vouched' = vouched

LEMMA DataUrl ==
  ASSUME NEW c, NEW market_id
  PROVE  DataRequest(c, market_id).url \in {"tickhistory", "barhistory"}
BY DEF DataRequest, TickRequest, BarRequest

LEMMA StepShape ==
  ASSUME CallShape, ClientStep
  PROVE  Ended \/ Sent \/ PauseBeforeRetry
<1> USE DEF Ended, Sent, Ongoing, InLoop, Begin, Return, Post, Send,
            CallShape, Places
<1>1. SessionStep => Ended \/ Sent
  <2> USE DEF BeginValidate, Refused, Proceed, LoginRequest, AccountRequest,
              ValidateRequest, GuardedRequest, Guarded
  <2>1. authenticate_session => Ended \/ Sent
    BY DEF authenticate_session, PostLogin
  <2>2. /\ validate_session => Ended \/ Sent
        /\ list_open_positions => Ended \/ Sent
        /\ list_active_orders => Ended \/ Sent
        /\ cancel_order => Ended \/ Sent
    BY DEF validate_session, list_open_positions, list_active_orders,
           cancel_order
  <2>3. BeginLogin => Ended \/ Sent
    BY DEF BeginLogin, PostLogin
  <2>5. RefuseLogin => Ended
    BY DEF RefuseLogin
  <2>6. ReceiveLogin => Ended \/ Sent
    BY DEF ReceiveLogin, LoginReceived
  <2>7. SessionIsValid => Ended \/ Sent
    BY DEF SessionIsValid
  <2>4. ASSUME ReceiveAccount PROVE Ended \/ Sent
    <3>1. /\ pc = "account"
          /\ Return(call, "error") \/ Proceed(session_header, trading_account_id')
      BY <2>4 DEF ReceiveAccount
    <3> QED
      BY <3>1
  <2> QED
    BY <2>1, <2>2, <2>3, <2>4, <2>5, <2>6, <2>7 DEF SessionStep
<1>2. MarketStep => Ended \/ Sent
  <2> USE DEF Ask, Reject, Refused, AskMarket, MarketRequest
  <2>1. get_account_info \/ get_margin_info => Ended \/ Sent
    BY DEF get_account_info, get_margin_info
  <2>4. get_market_info => Ended \/ Sent
    BY DEF get_market_info
  <2>7. get_market_id => Ended \/ Sent
    BY DEF get_market_id
  <2>8. return_market_id => Ended \/ Sent
    BY DEF return_market_id
  <2>9. MarketMissing => Ended
    BY DEF MarketMissing
  <2>2. ASSUME NEW c, c.op # "none", NEW valid, AskPrices(c, valid)
        PROVE  Ended \/ Sent
    BY <2>2, DataUrl DEF AskPrices
  <2>5. get_prices => Ended \/ Sent
    BY <2>2 DEF get_prices
  <2>6. get_ohlc => Ended \/ Sent
    BY <2>2 DEF get_ohlc
  <2>3. ReceiveMarket => Ended \/ Sent
    BY DataUrl DEF ReceiveMarket, LearnMarket
  <2> QED
    BY <2>1, <2>3, <2>4, <2>5, <2>6, <2>7, <2>8, <2>9 DEF MarketStep
<1>3. TradeStep => Ended \/ Sent \/ PauseBeforeRetry
  <2> USE DEF CheckOrder, PriceRequest, TickRequest
  <2>1. trade_order => Ended \/ Sent
    BY DEF trade_order, TradeFor, Refused, Reject, AskMarket, Ask, MarketRequest
  <2>2. ReceiveTradeMarket \/ ReceiveBid \/ Retry => Ended \/ Sent
    BY DEF ReceiveTradeMarket, LearnMarket, ReceiveBid, Retry
  <2>3. PricesFail \/ PricesThrow \/ PricesMissing \/ OrderTaken \/ TimeExpired
        => Ended
    BY DEF PricesFail, HavePrices, PricesThrow, PricesMissing, OrderTaken,
           TimeExpired
  <2>4. PlaceOrder => Sent
    BY DEF PlaceOrder, OrderRequest, HavePrices
  <2> QED
    BY <2>1, <2>2, <2>3, <2>4 DEF TradeStep
<1>4. CallFails \/ CallThrows \/ ReceiveDirect => Ended
  <2>1. Arrived => pc # "idle"
    OBVIOUS
  <2> QED
    BY <2>1 DEF CallFails, CallThrows, ReceiveDirect
<1> QED
  BY <1>1, <1>2, <1>3, <1>4 DEF ClientStep

LEMMA ClientStepShape ==
  ASSUME CallTypeOK, ClientStep
  PROVE  Ended \/ Sent \/ PauseBeforeRetry
BY TypedShape, StepShape

(***************************************************************************)
(* The types, one group of variables after the other.                      *)
(***************************************************************************)
LEMMA ServerAnswers ==
  ASSUME IsAnswer(response), ServerStep
  PROVE  IsAnswer(response')
BY DEF ServerStep, Exchange, ServeLogin, ServeValidate, Unauthorised,
       ServeAccount, ServeMarket, ServeTick, ServeOther, ServeOrder, Serve,
       Fields, Reply, FailExchange, SpoilAnswer, Expire, callVars, IsAnswer,
       Shapes

LEMMA ServerNeedsRequest ==
  ASSUME request = NoRequest => response = NoAnswer, ServerStep
  PROVE  UNCHANGED response \/ (request # NoRequest /\ response' # NoAnswer)
BY DEF ServerStep, Exchange, ServeLogin, ServeValidate, Unauthorised,
       ServeAccount, ServeMarket, ServeTick, ServeOther, ServeOrder, Serve,
       Pending, Fields, Reply, FailExchange, SpoilAnswer, Expire, callVars

LEMMA CallTypeStep ==
  ASSUME CallTypeOK, Next
  PROVE  CallTypeOK'
<1>1. CASE ClientStep
  <2>1. CASE Ended
    BY <2>1 DEF Ended, CallTypeOK, Places, Statuses, IsAnswer
  <2>2. CASE Sent
    BY <2>2 DEF Sent, CallTypeOK, Places, Statuses, IsAnswer
  <2>3. CASE PauseBeforeRetry
    BY <2>3 DEF PauseBeforeRetry, CallTypeOK, Places, Statuses, IsAnswer
  <2> QED
    BY <1>1, <2>1, <2>2, <2>3, ClientStepShape
<1>2. CASE ServerStep
  <2>1. UNCHANGED <<call, pc, request, result>>
    BY <1>2, ServerStepFrame
  <2>2. IsAnswer(response')
    BY <1>2, ServerAnswers DEF CallTypeOK
  <2>3. request = NoRequest => response' = NoAnswer
    BY <1>2, ServerNeedsRequest DEF CallTypeOK
  <2> QED
    BY <2>1, <2>2, <2>3 DEF CallTypeOK
<1> QED
  BY <1>1, <1>2 DEF Next

LEMMA LoopTypeStep ==
  ASSUME TypeOK, Next
  PROVE  LoopTypeOK'
<1> USE DEF LoopTypeOK, RETRY_SECONDS
<1>1. LoopTypeOK /\ CallTypeOK
  BY DEF TypeOK
<1>2. CASE ClientStep
  <2>1. CASE UNCHANGED loopVars
    BY <1>1, <2>1 DEF loopVars
  <2>2. CASE current_time' = 0 /\ attempts' = 0 /\ bid_response' = NoAnswer
    BY <2>2 DEF IsAnswer
  <2>3. CASE ReceiveBid
    BY <1>1, <2>3 DEF ReceiveBid, CallTypeOK
  <2>4. CASE PlaceOrder
    BY <1>1, <2>4 DEF PlaceOrder, IsAnswer
  <2>5. CASE Retry
    BY <1>1, <2>5, ClockAssumption DEF Retry
  <2> QED
    BY <1>1, <1>2, <2>1, <2>2, <2>3, <2>4, <2>5, ClientStepFrame DEF ClientFrame
<1>3. CASE ServerStep
  BY <1>1, <1>3, ServerStepFrame DEF loopVars
<1> QED
  BY <1>2, <1>3 DEF Next

LEMMA ClientTypeStep ==
  ASSUME TypeInv, Next
  PROVE  ClientTypeOK'
<1> USE DEF ClientTypeOK
<1>1. ClientTypeOK /\ CallTypeOK /\ AnswerOK
  BY DEF TypeInv, TypeOK
<1>2. CASE ClientStep
  <2>1. session_header' \in SessionTexts
    <3>1. CASE ReceiveLogin
      BY <1>1, <3>1 DEF ReceiveLogin, LoginReceived, AnswerOK, SessionTexts
    <3> QED
      BY <1>1, <1>2, <3>1, ClientStepFrame DEF ClientFrame
  <2>2. trading_account_id' \in AccountTexts /\ client_account_id' \in AccountTexts
    <3>1. CASE ReceiveAccount
      BY <1>1, <3>1 DEF ReceiveAccount, AnswerOK, AccountTexts
    <3> QED
      BY <1>1, <1>2, <3>1, ClientStepFrame DEF ClientFrame, accountVars
  <2>3. DOMAIN market_id_map' = Markets
    <3>1. CASE LearnMarket
      BY <1>1, <3>1 DEF LearnMarket
    <3> QED
      BY <1>1, <1>2, <3>1, ClientStepFrame DEF ClientFrame
  <2> QED
    BY <1>1, <1>2, <2>1, <2>2, <2>3, ClientStepFrame DEF ClientFrame
<1>3. CASE ServerStep
  BY <1>1, <1>3, ServerStepFrame DEF clientVars, accountVars
<1> QED
  BY <1>2, <1>3 DEF Next

(* Only an order that the server takes counts as placed. *)
LEMMA ServerPlaced ==
  ASSUME ServerStep
  PROVE  UNCHANGED placed \/ (ServeOrder /\ placed' = placed + 1)
<1> USE DEF historyVars, Fields, Disturb
<1>1. ServeLogin \/ ServeValidate \/ Unauthorised \/ ServeOther => UNCHANGED placed
  BY DEF ServeLogin, ServeValidate, Unauthorised, ServeOther
<1>2. ServeAccount \/ ServeMarket \/ ServeTick => UNCHANGED placed
  BY DEF ServeAccount, ServeMarket, ServeTick
<1>3. FailExchange \/ SpoilAnswer \/ Expire => UNCHANGED placed
  BY DEF FailExchange, SpoilAnswer, Expire
<1>4. ServeOrder => UNCHANGED placed \/ placed' = placed + 1
  BY DEF ServeOrder
<1> QED
  BY <1>1, <1>2, <1>3, <1>4 DEF ServerStep, Exchange

LEMMA WorldTypeStep ==
  ASSUME TypeInv, Next
  PROVE  WorldTypeOK'
<1>1. WorldTypeOK /\ CallTypeOK /\ RequestOK /\ ClientTypeOK
  BY DEF TypeInv, TypeOK
<1>2. CASE ClientStep
  <2>1. disturbed' \in BOOLEAN /\ lost' \in BOOLEAN
    BY <1>1, <1>2, ClientStepFrame, Zenon DEF ClientFrame, Begun, historyVars,
                                              WorldTypeOK
  <2>2. vouched' \in SessionTexts
    BY <1>1, <1>2, ClientStepShape
       DEF Ended, Sent, PauseBeforeRetry, WorldTypeOK, SessionTexts
  <2>3. sessions' \subseteq Tokens /\ tick' \in {0, 1}
    BY <1>1, <1>2, ClientStepFrame DEF ClientFrame, serverVars, WorldTypeOK
  <2>4. placed' \in Nat
    <3>1. Begun \/ UNCHANGED historyVars
      BY <1>1, <1>2, ClientStepFrame DEF ClientFrame
    <3>2. CASE Begun
      BY <3>2 DEF Begun
    <3>3. CASE UNCHANGED historyVars
      BY <1>1, <3>3 DEF historyVars, WorldTypeOK
    <3> QED
      BY <3>1, <3>2, <3>3
  <2> QED
    BY <2>1, <2>2, <2>3, <2>4 DEF WorldTypeOK
<1>3. CASE ServerStep
  <2>6. placed' \in Nat
    BY <1>1, <1>3, ServerPlaced DEF WorldTypeOK
  <2> USE DEF ServerStep, Exchange, ServeLogin, ServeValidate, Unauthorised,
       ServeAccount, ServeMarket, ServeTick, ServeOther, ServeOrder,
       Fields, FailExchange, SpoilAnswer, Expire, serverVars, historyVars, Disturb
  <2>1. disturbed' \in BOOLEAN
    BY <1>1, <1>3 DEF WorldTypeOK
  <2>2. lost' \in BOOLEAN
    BY <1>1, <1>3 DEF WorldTypeOK
  <2>3. vouched' \in SessionTexts
    BY <1>1, <1>3 DEF WorldTypeOK, SessionTexts, Authorised
  <2>4. sessions' \subseteq Tokens
    BY <1>1, <1>3 DEF WorldTypeOK
  <2>5. tick' \in {0, 1}
    BY <1>1, <1>3 DEF WorldTypeOK
  <2> QED
    BY <2>1, <2>2, <2>3, <2>4, <2>5, <2>6 DEF WorldTypeOK
<1> QED
  BY <1>2, <1>3 DEF Next
(***************************************************************************)
(* Each request the client sends fits what it waits for next.              *)
(***************************************************************************)
LEMMA ClientRequest ==
  ASSUME CallShape, ClientStep
  PROVE  RequestOK'
<1> USE DEF RequestOK, Post, Send, OrderUrls
<1>1. CASE Ended
  BY <1>1 DEF Ended
<1>2. CASE PauseBeforeRetry
  BY <1>2 DEF PauseBeforeRetry
<1>3. ASSUME SessionStep, Sent PROVE RequestOK'
  <2> USE DEF Proceed, LoginRequest, AccountRequest, GuardedRequest, Guarded,
              Return
  <2>1. ASSUME NEW c, BeginValidate(c) PROVE RequestOK'
    BY <2>1 DEF BeginValidate, ValidateRequest, accountVars
  <2>2. CASE authenticate_session
    BY <1>3, <2>2 DEF Sent, authenticate_session, PostLogin
  <2>3. CASE BeginLogin
    BY <1>3, <2>3 DEF Sent, BeginLogin, PostLogin
  <2>4. CASE ReceiveLogin
    BY <1>3, <2>4 DEF Sent, ReceiveLogin, LoginReceived
  <2>5. CASE ReceiveAccount
    <3>1. Return(call, "error") \/ Proceed(session_header, trading_account_id')
      BY <2>5 DEF ReceiveAccount
    <3> QED
      BY <1>3, <3>1 DEF Sent
  <2>6. CASE SessionIsValid
    BY <1>3, <2>6 DEF Sent, SessionIsValid
  <2> QED
    BY <1>3, <2>1, <2>2, <2>3, <2>4, <2>5, <2>6
       DEF SessionStep, validate_session, list_open_positions,
           list_active_orders, cancel_order, RefuseLogin, Refused, Sent
<1>4. ASSUME MarketStep, Sent PROVE RequestOK'
  <2>1. ASSUME NEW c, AskMarket(c) PROVE RequestOK'
    BY <2>1 DEF AskMarket, Ask, MarketRequest
  <2>2. ASSUME NEW c, NEW req, req.url \notin {"Session", "validate", "none"} \cup OrderUrls,
               Ask(c, "direct", req)
        PROVE  RequestOK'
    BY <2>2 DEF Ask
  <2>3. ReceiveMarket => RequestOK'
    BY <1>4, DataUrl DEF ReceiveMarket, Return, Sent
  <2> QED
    BY <1>4, <2>1, <2>2, <2>3, DataUrl
       DEF MarketStep, get_account_info, get_margin_info, get_market_info,
           get_market_id, return_market_id, get_prices, get_ohlc, AskPrices,
           Reject, Refused, Return, Sent, MarketMissing, MarketRequest
<1>5. ASSUME TradeStep, Sent PROVE RequestOK'
  <2> USE DEF CheckOrder, PriceRequest, TickRequest
  <2>1. ASSUME NEW c, AskMarket(c) PROVE RequestOK'
    BY <2>1 DEF AskMarket, Ask, MarketRequest
  <2>2. CASE trade_order
    BY <1>5, <2>1, <2>2 DEF trade_order, TradeFor, Refused, Reject, Return, Sent
  <2>3. CASE ReceiveTradeMarket \/ ReceiveBid \/ Retry
    BY <1>5, <2>3 DEF ReceiveTradeMarket, LearnMarket, ReceiveBid, Retry,
                      Return, Sent
  <2>4. CASE PlaceOrder
    BY <2>4 DEF PlaceOrder, OrderRequest
  <2> QED
    BY <1>2, <1>5, <2>2, <2>3, <2>4
       DEF TradeStep, PricesFail, PricesThrow, PricesMissing, OrderTaken,
           TimeExpired, Return, Sent
<1>6. CASE (CallFails \/ CallThrows \/ ReceiveDirect) /\ Sent
  BY <1>6 DEF CallFails, CallThrows, ReceiveDirect, Return, Sent
<1> QED
  BY <1>1, <1>2, <1>3, <1>4, <1>5, <1>6, StepShape DEF ClientStep

LEMMA RequestStep ==
  ASSUME TypeInv, Next
  PROVE  RequestOK'
<1>1. CASE ClientStep
  BY <1>1, ClientRequest, TypedShape DEF TypeInv, TypeOK
<1>2. CASE ServerStep
  BY <1>2, ServerStepFrame
     DEF TypeInv, RequestOK, clientVars, accountVars, ValidateRequest,
         MarketRequest
<1> QED
  BY <1>1, <1>2 DEF Next
LEMMA AnswerStep ==
  ASSUME TypeInv, Next
  PROVE  AnswerOK'
<1>1. CallTypeOK /\ RequestOK /\ AnswerOK
  BY DEF TypeInv, TypeOK
<1>2. CASE ClientStep
  BY <1>1, <1>2, ClientStepShape DEF Ended, Sent, PauseBeforeRetry, AnswerOK
<1>3. CASE ServerStep
  <2>1. UNCHANGED <<pc, request>>
    BY <1>3, ServerStepFrame
  <2> USE DEF AnswerOK, RequestOK
  <2>2. CASE ServeLogin
    BY <1>1, <2>1, <2>2 DEF ServeLogin, Serve, Reply
  <2>3. CASE ServeAccount
    BY <1>1, <2>1, <2>3 DEF ServeAccount, Serve, Fields, Reply
  <2>4. CASE ServeValidate \/ ServeMarket \/ ServeTick \/ ServeOther \/ ServeOrder
    BY <1>1, <2>1, <2>4
       DEF ServeValidate, ServeMarket, ServeTick, ServeOther, ServeOrder,
           Serve, OrderUrls
  <2>5. CASE Unauthorised \/ FailExchange \/ SpoilAnswer
    BY <1>1, <2>1, <2>5 DEF Unauthorised, FailExchange, SpoilAnswer
  <2>6. CASE Expire
    BY <1>1, <2>1, <2>6 DEF Expire, callVars
  <2> QED
    BY <1>3, <2>2, <2>3, <2>4, <2>5, <2>6 DEF ServerStep, Exchange
<1> QED
  BY <1>2, <1>3 DEF Next

LEMMA TypeStutter == ASSUME TypeInv, UNCHANGED vars PROVE TypeInv'
BY DEF TypeInv, TypeOK, ClientTypeOK, CallTypeOK, LoopTypeOK, WorldTypeOK,
       RequestOK, AnswerOK, ValidateRequest, MarketRequest, vars, clientVars,
       accountVars, callVars, loopVars, serverVars, historyVars, IsAnswer

LEMMA TypeStep == ASSUME TypeInv, Next PROVE TypeInv'
<1>1. ClientTypeOK' /\ WorldTypeOK'
  BY ClientTypeStep, WorldTypeStep
<1>2. CallTypeOK' /\ LoopTypeOK'
  BY CallTypeStep, LoopTypeStep DEF TypeInv, TypeOK
<1>3. RequestOK' /\ AnswerOK'
  BY RequestStep, AnswerStep
<1> QED
  BY <1>1, <1>2, <1>3 DEF TypeInv, TypeOK

LEMMA TypeInvariant == Spec => []TypeInv
<1>1. TypeInv /\ [Next]_vars => TypeInv'
  BY TypeStep, TypeStutter
<1> QED
  BY TypeInit, <1>1, PTL DEF Spec

(* Every variable of the client, of its calls and of the server keeps its  *)
(* type, whatever the server answers and whatever fails.                   *)
THEOREM TypeCorrect == Spec => []TypeOK
<1>1. TypeInv => TypeOK
  BY DEF TypeInv
<1> QED
  BY TypeInvariant, <1>1, PTL
(***************************************************************************)
(* Orders.                                                                 *)
(***************************************************************************)

(* Only an answer that refuses the order leads to another attempt. *)
LEMMA OrderAnswered ==
  ASSUME ClientStep, pc = "order"
  PROVE  OrderTaken \/ PauseBeforeRetry \/ CallFails \/ CallThrows
<1>1. ~SessionStep
  BY DEF SessionStep, authenticate_session, PostLogin, validate_session,
         list_open_positions, list_active_orders, cancel_order, BeginValidate,
         Refused, Begin, BeginLogin, RefuseLogin, ReceiveLogin, LoginReceived,
         ReceiveAccount, SessionIsValid
<1>2. ~MarketStep
  BY DEF MarketStep, get_account_info, get_margin_info, get_market_info,
         get_market_id, return_market_id, get_prices, get_ohlc, AskPrices,
         AskMarket, Ask, Reject, Refused, Begin, MarketMissing, ReceiveMarket,
         LearnMarket
<1>3. TradeStep => OrderTaken \/ PauseBeforeRetry
  BY DEF TradeStep, trade_order, TradeFor, ReceiveTradeMarket, LearnMarket, AskMarket,
         Ask, Reject, Refused, Begin, ReceiveBid, PricesFail, HavePrices,
         PricesThrow, PricesMissing, PlaceOrder, Retry, TimeExpired
<1> QED
  BY <1>1, <1>2, <1>3 DEF ClientStep, ReceiveDirect

(* Only trade_order reaches its loop. *)
LEMMA OutsideLoop ==
  ASSUME SessionStep \/ MarketStep \/ CallFails \/ CallThrows \/ ReceiveDirect
  PROVE  pc' \notin LoopPlaces
<1> USE DEF LoopPlaces, Post, Send, Return
<1>1. SessionStep => pc' \notin LoopPlaces
  BY DEF SessionStep, authenticate_session, PostLogin, validate_session,
         list_open_positions, list_active_orders, cancel_order, BeginValidate,
         Refused, BeginLogin, RefuseLogin, ReceiveLogin, LoginReceived,
         ReceiveAccount, SessionIsValid, Proceed
<1>2. MarketStep => pc' \notin LoopPlaces
  BY DEF MarketStep, get_account_info, get_margin_info, get_market_info,
         get_market_id, return_market_id, get_prices, get_ohlc, AskPrices,
         AskMarket, Ask, Reject, Refused, MarketMissing, ReceiveMarket
<1>3. CallFails \/ CallThrows \/ ReceiveDirect => pc' \notin LoopPlaces
  BY DEF CallFails, CallThrows, ReceiveDirect
<1> QED
  BY <1>1, <1>2, <1>3

LEMMA LoopCall ==
  ASSUME TypeInv, ClientStep, pc \in LoopPlaces => call.op = "trade_order"
  PROVE  pc' \in LoopPlaces => call'.op = "trade_order"
<1> USE DEF LoopPlaces, Post, Send, Return
<1>1. trade_order => (pc' \in LoopPlaces => call'.op = "trade_order")
  BY DEF trade_order, TradeFor, CheckOrder, AskMarket, Ask, Reject, Refused
<1>2. ReceiveTradeMarket => (pc' \in LoopPlaces => call'.op = "trade_order")
  BY DEF ReceiveTradeMarket, CheckOrder
<1>3. TradeStep /\ ~trade_order /\ ~ReceiveTradeMarket
        => (pc' \in LoopPlaces => call'.op = "trade_order")
  BY DEF TradeStep, ReceiveBid, PricesFail, PricesThrow, PricesMissing,
         HavePrices, PlaceOrder, OrderTaken, PauseBeforeRetry, Retry,
         TimeExpired
<1> QED
  BY <1>1, <1>2, <1>3, OutsideLoop DEF ClientStep

LEMMA TradeClient ==
  ASSUME TypeInv, TradeInv, ClientStep
  PROVE  TradeInv'
<1> USE DEF TradeInv, Executed
<1>1. CallTypeOK
  BY DEF TypeInv, TypeOK
<1>2. pc' \in LoopPlaces => call'.op = "trade_order"
  BY LoopCall DEF LoopPlaces
<1>3. Begun \/ (pc # "idle" /\ UNCHANGED historyVars)
  BY <1>1, ClientStepFrame DEF ClientFrame
<1>4. CASE Begun
  <2>1. ~Executed' /\ placed' = 0
    BY <1>1, <1>4, ClientStepShape
       DEF Begun, Ended, Sent, PauseBeforeRetry
  <2> QED
    BY <1>2, <2>1 DEF ErrorMeansNotPlaced, LoopPlaces
<1>5. CASE pc # "idle" /\ UNCHANGED historyVars
  <2> USE DEF historyVars
  <2>1. CASE ~Executed
    <3>1. placed' = 0 /\ ~Executed'
      BY <1>1, <1>5, <2>1, ClientStepShape DEF Ended, Sent, PauseBeforeRetry
    <3> QED
      BY <1>2, <3>1 DEF ErrorMeansNotPlaced, LoopPlaces
  <2>2. CASE Executed
    <3>1. CASE OrderTaken
      BY <1>5, <2>2, <3>1 DEF OrderTaken, Return, ErrorMeansNotPlaced
    <3>2. CASE PauseBeforeRetry
      BY <1>2, <1>5, <2>2, <3>2
         DEF PauseBeforeRetry, ErrorMeansNotPlaced, LoopPlaces
    <3>3. CASE CallFails \/ CallThrows
      <4>1. placed' = 0 \/ lost'
        BY <1>5, <2>2, <3>3 DEF CallFails, CallThrows
      <4>2. pc' = "idle" /\ placed' \in {0, 1}
        BY <1>5, <3>3 DEF CallFails, CallThrows, Return
      <4> QED
        BY <4>1, <4>2 DEF ErrorMeansNotPlaced, Finished
    <3> QED
      BY <2>2, <3>1, <3>2, <3>3, OrderAnswered
  <2> QED
    BY <2>1, <2>2
<1> QED
  BY <1>3, <1>4, <1>5

(* A request to place an order is what the client waits for at "order". *)
LEMMA OrderUrl ==
  ASSUME TypeInv
  PROVE  request.url \in OrderUrls => pc = "order"
BY DEF TypeInv, TypeOK, CallTypeOK, RequestOK, Places, OrderUrls,
       ValidateRequest, MarketRequest

LEMMA ServerKinds ==
  ASSUME ServerStep
  PROVE  Pending \/ SpoilAnswer \/ Expire
BY DEF ServerStep, Exchange, ServeLogin, ServeValidate, Unauthorised,
       ServeAccount, ServeMarket, ServeTick, ServeOther, ServeOrder, Serve,
       FailExchange

LEMMA TradeServer ==
  ASSUME TypeInv, TradeInv, ServerStep
  PROVE  TradeInv'
<1> USE DEF TradeInv, Executed
<1>1. UNCHANGED <<call, pc, request, result>>
  BY ServerStepFrame
<1>2. CallTypeOK /\ WorldTypeOK
  BY DEF TypeInv, TypeOK
<1>3. CASE ServeOrder
  <2>1. pc = "order" /\ response = NoAnswer /\ placed = 0
    BY <1>3, OrderUrl DEF ServeOrder, Serve, Pending
  <2>2. \/ placed' = 1 /\ response' = Answer([OrderId |-> [type |-> "integer", num |-> 1]])
        \/ placed' = 0
    BY <1>3, <2>1 DEF ServeOrder, Reply
  <2> QED
    BY <1>1, <2>1, <2>2 DEF OrderDone, ErrorMeansNotPlaced, Finished
<1>4. CASE UNCHANGED placed /\ ~ServeOrder
  <2>1. CASE pc # "order"
    <3>1. pc = "idle" => UNCHANGED lost
      BY <1>2, ServerKinds DEF CallTypeOK, Pending, SpoilAnswer, Expire
    <3> QED
      BY <1>1, <1>4, <2>1, <3>1 DEF ErrorMeansNotPlaced, Finished
  <2>2. CASE pc = "order"
    <3>1. CASE Pending
      <4>1. placed' = 0
        BY <1>4, <2>2, <3>1 DEF Pending
      <4> QED
        BY <1>1, <2>2, <4>1 DEF ErrorMeansNotPlaced, Finished
    <3>2. CASE SpoilAnswer
      BY <1>1, <1>4, <2>2, <3>2 DEF SpoilAnswer, ErrorMeansNotPlaced, Finished
    <3>3. CASE Expire
      BY <1>1, <1>4, <2>2, <3>3 DEF Expire, callVars, ErrorMeansNotPlaced,
                                    Finished
    <3> QED
      BY <3>1, <3>2, <3>3, ServerKinds
  <2> QED
    BY <2>1, <2>2
<1> QED
  BY <1>3, <1>4, ServerPlaced

LEMMA TradeInvariant == Spec => []TradeInv
<1>1. Init => TradeInv
  BY DEF Init, TradeInv, Executed, ErrorMeansNotPlaced, Finished
<1>2. TypeInv /\ TradeInv /\ [Next]_vars => TradeInv'
  <2> SUFFICES ASSUME TypeInv, TradeInv, [Next]_vars PROVE TradeInv'
    OBVIOUS
  <2>1. CASE Next
    BY <2>1, TradeClient, TradeServer DEF Next
  <2>2. CASE UNCHANGED vars
    BY <2>2 DEF vars, TradeInv, Executed, ErrorMeansNotPlaced, Finished,
                callVars, historyVars
  <2> QED
    BY <2>1, <2>2
<1> QED
  BY TypeInvariant, <1>1, <1>2, PTL DEF Spec

(* However often it tries, a call of trade_order executes one order at     *)
(* most.                                                                   *)
THEOREM TradeAtMostOnce == Spec => []AtMostOnce
<1>1. TradeInv => AtMostOnce
  BY DEF TradeInv, AtMostOnce
<1> QED
  BY TradeInvariant, <1>1, PTL

(* A call of trade_order that executed an order reports success, unless    *)
(* an answer of the server was spoilt on its way.                          *)
THEOREM TradeErrorTruthful == Spec => []ErrorMeansNotPlaced
<1>1. TradeInv => ErrorMeansNotPlaced
  BY DEF TradeInv
<1> QED
  BY TradeInvariant, <1>1, PTL

(***************************************************************************)
(* The number of attempts.                                                 *)
(***************************************************************************)
LEMMA AttemptsStep ==
  ASSUME TypeInv, AttemptsInv, Next
  PROVE  AttemptsInv'
<1> USE DEF AttemptsInv
<1>1. CallTypeOK /\ LoopTypeOK
  BY DEF TypeInv, TypeOK
<1>2. CASE ClientStep
  <2>1. CASE UNCHANGED loopVars /\ pc' \notin {"bid", "ask"}
    BY <2>1 DEF loopVars
  <2>2. CASE current_time' = 0 /\ attempts' = 0 /\ bid_response' = NoAnswer
    BY <2>2
  <2>3. CASE ReceiveBid
    BY <2>3 DEF ReceiveBid, Post
  <2>4. CASE PlaceOrder
    BY <1>1, <2>4 DEF PlaceOrder, HavePrices, Post, LoopTypeOK
  <2>5. CASE Retry
    BY <1>1, <2>5, ClockAssumption DEF Retry, Post, LoopTypeOK
  <2> QED
    BY <1>1, <1>2, <2>1, <2>2, <2>3, <2>4, <2>5, ClientStepFrame DEF ClientFrame
<1>3. CASE ServerStep
  BY <1>3, ServerStepFrame DEF loopVars
<1> QED
  BY <1>2, <1>3 DEF Next

LEMMA AttemptsInvariant == Spec => []AttemptsInv
<1>1. Init => AttemptsInv
  BY DEF Init, AttemptsInv
<1>2. TypeInv /\ AttemptsInv /\ [Next]_vars => AttemptsInv'
  <2> SUFFICES ASSUME TypeInv, AttemptsInv, [Next]_vars PROVE AttemptsInv'
    OBVIOUS
  <2>1. CASE Next
    BY <2>1, AttemptsStep
  <2>2. CASE UNCHANGED vars
    BY <2>2 DEF vars, AttemptsInv, callVars, loopVars
  <2> QED
    BY <2>1, <2>2
<1> QED
  BY TypeInvariant, <1>1, <1>2, PTL DEF Spec

(* trade_order posts at most RETRY_SECONDS + 1 orders: each pause takes a  *)
(* second of the clock that the loop watches.                              *)
THEOREM AttemptsAreBounded == Spec => []AttemptsBounded
<1>1. TypeInv /\ AttemptsInv => AttemptsBounded
  BY DEF TypeInv, TypeOK, LoopTypeOK, AttemptsInv, AttemptsBounded,
         RETRY_SECONDS
<1> QED
  BY TypeInvariant, AttemptsInvariant, <1>1, PTL

(***************************************************************************)
(* Sessions.                                                               *)
(***************************************************************************)

(* The steps after which the client waits for the account or for a         *)
(* resource.                                                               *)
LEMMA SessionSent ==
  ASSUME ClientStep, CallTypeOK
  PROVE  /\ pc' = "account" =>
              ReceiveLogin /\ ~HasAccounts /\ UNCHANGED <<vouched, accountVars>>
         /\ pc' = "direct" /\ call'.op \in Guarded =>
              /\ ReceiveLogin \/ ReceiveAccount \/ SessionIsValid
              /\ request'.session = session_header' /\ UNCHANGED vouched
<1> DEFINE P == /\ pc' = "account" =>
                     ReceiveLogin /\ ~HasAccounts /\ UNCHANGED <<vouched, accountVars>>
                /\ pc' = "direct" /\ call'.op \in Guarded =>
                     /\ ReceiveLogin \/ ReceiveAccount \/ SessionIsValid
                     /\ request'.session = session_header' /\ UNCHANGED vouched
<1> USE DEF Guarded, Post, Send, Return, Proceed
<1>1. SessionStep => P
  <2>1. authenticate_session \/ BeginLogin \/ RefuseLogin => P
    BY DEF authenticate_session, PostLogin, BeginLogin, RefuseLogin
  <2>2. validate_session \/ list_open_positions \/ list_active_orders
          \/ cancel_order => P
    BY DEF validate_session, list_open_positions, list_active_orders,
           cancel_order, BeginValidate, Refused
  <2>3. ReceiveLogin => P
    BY DEF ReceiveLogin, LoginReceived, GuardedRequest
  <2>4. ASSUME ReceiveAccount PROVE P
    <3>1. /\ Return(call, "error") \/ Proceed(session_header, trading_account_id')
          /\ UNCHANGED session_header
      BY <2>4 DEF ReceiveAccount
    <3> QED
      BY <2>4, <3>1 DEF GuardedRequest
  <2>5. SessionIsValid => P
    BY DEF SessionIsValid, GuardedRequest
  <2> QED
    BY <2>1, <2>2, <2>3, <2>4, <2>5 DEF SessionStep
<1>2. MarketStep => P
  <2>1. get_account_info \/ get_margin_info => P
    BY DEF get_account_info, get_margin_info, Ask, Refused
  <2>6. get_market_info => P
    BY DEF get_market_info, Ask, Refused
  <2>2. get_market_id \/ return_market_id \/ MarketMissing => P
    BY DEF get_market_id, return_market_id, AskMarket, Ask, Refused,
           MarketMissing
  <2>3. get_prices => P
    BY DEF get_prices, AskPrices, AskMarket, Ask, Reject, Refused
  <2>4. get_ohlc => P
    BY DEF get_ohlc, AskPrices, AskMarket, Ask, Reject, Refused
  <2>5. ReceiveMarket => P
    BY DEF ReceiveMarket
  <2> QED
    BY <2>1, <2>2, <2>3, <2>4, <2>5, <2>6 DEF MarketStep
<1>3. TradeStep => P
  <2>1. trade_order \/ ReceiveTradeMarket => P
    BY DEF trade_order, TradeFor, ReceiveTradeMarket, CheckOrder, AskMarket, Ask, Reject,
           Refused
  <2>2. TradeStep /\ ~trade_order /\ ~ReceiveTradeMarket => P
    BY DEF TradeStep, ReceiveBid, PricesFail, PricesThrow, PricesMissing,
           PlaceOrder, OrderTaken, PauseBeforeRetry, Retry, TimeExpired
  <2> QED
    BY <2>1, <2>2
<1>4. CallFails \/ CallThrows \/ ReceiveDirect => P
  BY DEF CallFails, CallThrows, ReceiveDirect
<1> QED
  BY <1>1, <1>2, <1>3, <1>4 DEF ClientStep

LEMMA SessionClient ==
  ASSUME TypeInv, SessionInv, ClientStep
  PROVE  SessionInv'
<1>1. CallTypeOK
  BY DEF TypeInv, TypeOK
<1>2. response' = NoAnswer
  BY <1>1, ClientStepShape DEF Ended, Sent, PauseBeforeRetry
<1>3. pc' = "account" => vouched' = session_header'
  BY <1>1, SessionSent DEF SessionInv, ReceiveLogin, LoginReceived
<1>4. ASSUME pc' = "direct", call'.op \in Guarded
      PROVE  vouched' = request'.session /\ request'.session = session_header'
  <2>1. UNCHANGED vouched /\ request'.session = session_header'
    BY <1>1, <1>4, SessionSent
  <2>2. vouched = session_header'
    BY <1>1, <1>4, SessionSent
       DEF SessionInv, ReceiveLogin, LoginReceived, ReceiveAccount,
           SessionIsValid
  <2> QED
    BY <2>1, <2>2
<1> QED
  BY <1>2, <1>3, <1>4 DEF SessionInv, GuardedFresh

LEMMA SessionServer ==
  ASSUME TypeInv, SessionInv, ServerStep
  PROVE  SessionInv'
<1> USE DEF SessionInv, GuardedFresh
<1>1. UNCHANGED <<call, pc, request, session_header>>
  BY ServerStepFrame DEF clientVars
<1>2. CallTypeOK /\ RequestOK
  BY DEF TypeInv, TypeOK
<1>3. CASE ServeLogin
  <2>1. pc = "login"
    BY <1>2, <1>3 DEF ServeLogin, Serve, Pending, CallTypeOK, RequestOK,
                      Places, ValidateRequest, MarketRequest, OrderUrls
  <2>2. Replied' /\ response'.json.statusCode = 0 =>
          vouched' = Dump(response'.json.session)
    BY <1>3 DEF ServeLogin, Reply
  <2> QED
    BY <1>1, <2>1, <2>2
<1>4. CASE ServeValidate
  <2>1. pc = "validate" /\ request.session = session_header
    BY <1>2, <1>4 DEF ServeValidate, Serve, Pending, CallTypeOK, RequestOK,
                      Places, ValidateRequest, MarketRequest, OrderUrls
  <2>2. response'.json.isAuthenticated = TRUE => vouched' = request.session
    <3>1. \/ vouched' = request.session
          \/ response' = Answer([isAuthenticated |-> FALSE])
          \/ response' = Answer([isAuthenticated |-> Null])
      BY <1>4 DEF ServeValidate, Reply
    <3>2. CASE response' = Answer([isAuthenticated |-> FALSE])
      <4>1. response'.json.isAuthenticated = FALSE
        BY <3>2
      <4> QED
        BY <4>1
    <3>3. CASE response' = Answer([isAuthenticated |-> Null])
      <4>1. response'.json.isAuthenticated = Null
        BY <3>3
      <4> QED
        BY <4>1, NullAssumption
    <3> QED
      BY <3>1, <3>2, <3>3
  <2> QED
    BY <1>1, <2>1, <2>2
<1>5. CASE ServerStep /\ ~ServeLogin /\ ~ServeValidate
  <2>1. UNCHANGED vouched
    BY <1>5 DEF ServerStep, Exchange, Unauthorised, ServeAccount, ServeMarket,
                ServeTick, ServeOther, ServeOrder, FailExchange, SpoilAnswer,
                Expire
  <2>2. pc \in {"login", "validate"} => UNCHANGED response \/ ~Replied'
    BY <1>2, <1>5
       DEF ServerStep, Exchange, Unauthorised, ServeAccount, ServeMarket,
           ServeTick, ServeOther, ServeOrder, FailExchange, SpoilAnswer,
           Expire, Serve, RequestOK, ValidateRequest, OrderUrls, callVars
  <2> QED
    BY <1>1, <2>1, <2>2
<1> QED
  BY <1>3, <1>4, <1>5

LEMMA SessionInvariant == Spec => []SessionInv
<1>1. Init => SessionInv
  BY DEF Init, SessionInv, GuardedFresh
<1>2. TypeInv /\ SessionInv /\ [Next]_vars => SessionInv'
  <2> SUFFICES ASSUME TypeInv, SessionInv, [Next]_vars PROVE SessionInv'
    OBVIOUS
  <2>1. CASE Next
    BY <2>1, SessionClient, SessionServer DEF Next
  <2>2. CASE UNCHANGED vars
    BY <2>2 DEF vars, SessionInv, GuardedFresh, callVars, clientVars
  <2> QED
    BY <2>1, <2>2
<1> QED
  BY TypeInvariant, <1>1, <1>2, PTL DEF Spec

(* The list and cancel operations send their request under a session that  *)
(* the server confirmed, or handed out, in the same call.                  *)
THEOREM GuardedRequestsAreFresh == Spec => []GuardedFresh
<1>1. SessionInv => GuardedFresh
  BY DEF SessionInv
<1> QED
  BY SessionInvariant, <1>1, PTL
(***************************************************************************)
(* Accounts.                                                               *)
(***************************************************************************)

LEMMA DumpIsText == ASSUME NEW v PROVE Dump(v) # Empty
BY DEF Dump, Empty

LEMMA AccountClient ==
  ASSUME TypeInv, AccountInv, ClientStep
  PROVE  AccountInv'
<1>1. CallTypeOK
  BY DEF TypeInv, TypeOK
<1>2. ReceiveLogin => HasHeader'
  BY DumpIsText DEF ReceiveLogin, LoginReceived, HasHeader
<1>3. pc' = "account" => ~HasAccounts' /\ HasHeader'
  BY <1>1, <1>2, SessionSent DEF HasAccounts, accountVars
<1> QED
  BY <1>3 DEF AccountInv

LEMMA AccountInvariant == Spec => []AccountInv
<1> USE DEF AccountInv, HasAccounts, HasHeader
<1>1. Init => AccountInv
  BY DEF Init
<1>2. TypeInv /\ AccountInv /\ [Next]_vars => AccountInv'
  <2> SUFFICES ASSUME TypeInv, AccountInv, [Next]_vars PROVE AccountInv'
    OBVIOUS
  <2>1. CASE ClientStep
    BY <2>1, AccountClient
  <2>2. CASE ServerStep
    BY <2>2, ServerStepFrame DEF clientVars, accountVars
  <2>3. CASE UNCHANGED vars
    BY <2>3 DEF vars, clientVars, accountVars, callVars
  <2> QED
    BY <2>1, <2>2, <2>3 DEF Next
<1> QED
  BY TypeInvariant, <1>1, <1>2, PTL DEF Spec

(* Only the two answers a login waits for can let it pass. *)
LEMMA PassingSteps ==
  ASSUME CallTypeOK, ClientStep, LoginPasses
  PROVE  (ReceiveLogin /\ HasAccounts) \/ ReceiveAccount
<1> USE DEF LoginPasses
<1>1. SessionStep => (ReceiveLogin /\ HasAccounts) \/ ReceiveAccount
  <2>1. ~authenticate_session /\ ~BeginLogin
    BY DEF authenticate_session, BeginLogin, Begin
  <2>2. ~RefuseLogin
    BY DEF RefuseLogin, Return
  <2>3. ASSUME NEW c PROVE ~(BeginValidate(c) \/ Refused(c))
    BY DEF BeginValidate, Refused, Begin
  <2>4. ~validate_session /\ ~list_open_positions
    BY <2>3 DEF validate_session, list_open_positions
  <2>5. ~list_active_orders /\ ~cancel_order /\ ~SessionIsValid
    BY <2>3 DEF list_active_orders, cancel_order, SessionIsValid
  <2>6. ReceiveLogin => HasAccounts
    BY DEF ReceiveLogin, LoginReceived, Send, Post
  <2> QED
    BY <2>1, <2>4, <2>5, <2>6, <2>2 DEF SessionStep
<1>2. ~MarketStep
  BY DEF MarketStep, get_account_info, get_margin_info, get_market_info,
         get_market_id, return_market_id, get_prices, get_ohlc, AskPrices,
         AskMarket, Ask, Reject, Refused, Begin, MarketMissing, ReceiveMarket,
         LearnMarket
<1>3. ~TradeStep
  BY DEF TradeStep, trade_order, TradeFor, AskMarket, Ask, Reject, Refused,
         Begin, ReceiveTradeMarket, LearnMarket, ReceiveBid, PricesFail,
         HavePrices, PricesThrow, PricesMissing, PlaceOrder, OrderTaken,
         PauseBeforeRetry, Retry, TimeExpired
<1>4. ~CallFails /\ ~CallThrows /\ ~ReceiveDirect
  BY DEF CallFails, CallThrows, ReceiveDirect, Return
<1> QED
  BY <1>1, <1>2, <1>3, <1>4 DEF ClientStep

(* No login passes without a header and two account numbers, and it passes *)
(* with the text null for a number only when an earlier call left it.      *)
THEOREM AuthenticationIsComplete == Spec => LoginHasAccounts
<1> DEFINE Complete ==
      /\ Empty \notin {session_header', trading_account_id',
                       client_account_id'}
      /\ Dump(Null) \in {trading_account_id', client_account_id'} =>
           UNCHANGED accountVars
<1>1. TypeInv /\ AccountInv /\ [Next]_vars => [LoginPasses => Complete]_vars
  <2> SUFFICES ASSUME TypeInv, AccountInv, Next, LoginPasses
               PROVE  Complete
    OBVIOUS
  <2>1. ~ServerStep
    BY ServerStepFrame DEF LoginPasses
  <2>2. (ReceiveLogin /\ HasAccounts) \/ ReceiveAccount
    BY <2>1, PassingSteps DEF Next, TypeInv, TypeOK
  <2>3. CASE ReceiveLogin /\ HasAccounts
    BY <2>3, DumpIsText
       DEF ReceiveLogin, LoginReceived, HasAccounts, accountVars
  <2>4. CASE ReceiveAccount
    <3>1. session_header' # Empty
      BY <2>4 DEF ReceiveAccount, AccountInv, HasHeader
    <3>2. trading_account_id' # Empty /\ client_account_id' # Empty
      BY <2>4, DumpIsText DEF ReceiveAccount
    <3>3. Dump(Null) \notin {trading_account_id', client_account_id'}
      BY <2>4 DEF ReceiveAccount, Return, LoginPasses
    <3> QED
      BY <3>1, <3>2, <3>3
  <2> QED
    BY <2>2, <2>3, <2>4
<1> QED
  BY TypeInvariant, AccountInvariant, <1>1, PTL DEF Spec, LoginHasAccounts

(* The account numbers, once there, never change.                          *)
THEOREM AccountsNeverChange == Spec => AccountsStable
<1>1. TypeInv /\ AccountInv /\ [Next]_vars =>
        [Empty \notin {trading_account_id, client_account_id} =>
           UNCHANGED accountVars]_vars
  <2> SUFFICES ASSUME TypeInv, AccountInv, Next,
                      Empty \notin {trading_account_id, client_account_id}
               PROVE  UNCHANGED accountVars
    OBVIOUS
  <2>1. CallTypeOK
    BY DEF TypeInv, TypeOK
  <2>2. ~ReceiveAccount
    BY DEF ReceiveAccount, AccountInv, HasAccounts
  <2>3. CASE ClientStep
    BY <2>1, <2>2, <2>3, ClientStepFrame DEF ClientFrame
  <2>4. CASE ServerStep
    BY <2>4, ServerStepFrame DEF clientVars
  <2> QED
    BY <2>3, <2>4 DEF Next
<1> QED
  BY TypeInvariant, AccountInvariant, <1>1, PTL DEF Spec, AccountsStable
============================================================================
