--------------------------- MODULE GCBenchProofs ---------------------------
(***************************************************************************)
(* Proofs about the programs that call a GCClient, and about the bench of  *)
(* the mock servers, for every set of calls that a bench may make.         *)
(***************************************************************************)
EXTENDS GCProgramsInduction, GCOrderProofs

USE DEF NoCall, NoRequest, NoAnswer, Answer, Failure, Unusable,
        Arrived, Replied, Ok

(***************************************************************************)
(* A call that a program makes is turned away, or sends its first request. *)
(***************************************************************************)
Checks == {"validate_auth_payload", "validate_session_header"}

TurnedAway(c) ==
  /\ call' = NoCall /\ pc' = "idle"
  /\ request' = NoRequest /\ response' = NoAnswer
  /\ result'.op = c.op /\ result'.status \in {"ok", "error", "throw"}
  /\ result'.status = "ok" => c.op \in Checks
  /\ result'.status = "throw" =>
       c.op = "trade_order" /\ DOMAIN c.args.trade_map = {}
  /\ result'.status = "error" =>
       \/ ~HasCredentials /\ c.op \in {"authenticate_session", "validate_auth_payload"}
       \/ ~HasHeader /\ c.op \notin {"authenticate_session", "validate_auth_payload"}
       \/ HasHeader /\ ~ValidCall(c)

Asked(c) ==
  /\ IF c.op \in {"authenticate_session", "get_account_info", "get_margin_info"}
       THEN call' = Op(c.op) ELSE call' = c
  /\ c.op # "none" /\ call' # NoCall
  /\ pc' \in PlacesOf(c.op) \cap {"login", "validate", "market", "direct", "bid"}
  /\ IF pc' = "login" THEN HasCredentials ELSE HasHeader
  /\ c.op \in Guarded => pc' = "validate"
  /\ request' # NoRequest /\ response' = NoAnswer /\ result' = result
  /\ request'.url \in AsksByNumber =>
       /\ c.op \in MarketCalls \cup {"trade_order"}
       /\ Cached(MarketOf(c))
       /\ request'.market_id = market_id_map[MarketOf(c)]
  /\ RequestOK'

Entered(c) ==
  /\ Begun
  /\ UNCHANGED <<auth_payload, session_header, accountVars, market_id_map,
                 serverVars>>
  /\ \/ UNCHANGED loopVars
     \/ current_time' = 0 /\ attempts' = 0 /\ bid_response' = NoAnswer
  /\ vouched' \in {Empty, vouched}
  /\ TurnedAway(c) \/ Asked(c)

LEMMA EnterCheck ==
  ASSUME NEW c, Enter(c), c.op \in Checks
  PROVE  Entered(c)
<1>1. \/ c.op = "validate_auth_payload" /\ Check(c, HasCredentials)
      \/ c.op = "validate_session_header" /\ Check(c, HasHeader)
  BY DEF Enter, Checks, Guarded
<1> QED
  BY <1>1 DEF Check, Begin, Return, Entered, Begun, TurnedAway, Checks

LEMMA EnterLogin ==
  ASSUME NEW c, Enter(c), c.op = "authenticate_session"
  PROVE  Entered(c)
<1> DEFINE d == [op |-> "authenticate_session", args |-> Empty]
<1>1. Begin(d) /\ PostLogin(d) /\ UNCHANGED <<session_header, accountVars, market_id_map>>
  BY DEF Enter, Guarded, authenticate_session
<1>2. d = Op(c.op)
  BY DEF Op
<1>3. Begun /\ UNCHANGED <<auth_payload, serverVars>>
  BY <1>1 DEF Begin, Begun, PostLogin, Return, Send, Post
<1>4. CASE auth_payload = Empty
  BY <1>1, <1>3, <1>4 DEF PostLogin, Return, Entered, TurnedAway, HasCredentials
<1>5. CASE auth_payload # Empty
  <2>1. Send(d, "login", LoginRequest) /\ UNCHANGED vouched
    BY <1>1, <1>5 DEF PostLogin
  <2>2. Asked(c)
    BY <1>2, <1>5, <2>1 DEF Asked, Send, Post, LoginRequest, PlacesOf, Guarded,
                            HasCredentials, RequestOK, OrderUrls, AsksByNumber
  <2> QED
    BY <1>1, <1>3, <2>1, <2>2 DEF Entered, Send
<1> QED
  BY <1>4, <1>5

(* The operations that need a header are refused without one. *)
LEMMA EnterRefused ==
  ASSUME NEW c, NEW d, Refused(d), d.op = c.op,
         c.op \notin {"authenticate_session", "validate_auth_payload"}
  PROVE  Entered(c)
BY DEF Refused, Begin, Return, Entered, Begun, TurnedAway

LEMMA EnterRejected ==
  ASSUME NEW c, ~ValidCall(c), Reject(c, "error")
  PROVE  Entered(c)
BY DEF Reject, Begin, Return, Entered, Begun, TurnedAway

LEMMA EnterGuarded ==
  ASSUME NEW c, Enter(c), c.op \in Guarded \cup {"validate_session"}
  PROVE  Entered(c)
<1>1. BeginValidate(c) \/ Refused(c)
  BY DEF Enter, Guarded
<1>2. CASE BeginValidate(c)
  <2>1. Asked(c)
    BY <1>2 DEF BeginValidate, Send, Post, ValidateRequest, Asked, PlacesOf,
                Guarded, RequestOK, OrderUrls, accountVars, AsksByNumber
  <2> QED
    BY <1>2, <2>1 DEF BeginValidate, Begin, Send, Post, Entered, Begun
<1>3. c.op \notin {"authenticate_session", "validate_auth_payload"}
  BY DEF Guarded
<1> QED
  BY <1>1, <1>2, <1>3, EnterRefused

DirectUrl(url) == url \notin {"Session", "validate", "none"} \cup OrderUrls

LEMMA EnterDirect ==
  ASSUME NEW c, NEW d, NEW req, Ask(d, "direct", req), DirectUrl(req.url),
         c.op = d.op, c.op # "none", PlacesOf(c.op) = {"market", "direct"},
         d = IF c.op \in {"authenticate_session", "get_account_info", "get_margin_info"}
               THEN Op(c.op) ELSE c,
         req.url \in AsksByNumber =>
           /\ c.op \in MarketCalls
           /\ Cached(MarketOf(c)) /\ req.market_id = market_id_map[MarketOf(c)]
  PROVE  Entered(c)
<1>1. c.op \notin Guarded
  BY DEF PlacesOf, Guarded
<1>2. Asked(c)
  BY <1>1 DEF Ask, Send, Post, Asked, RequestOK, DirectUrl
<1> QED
  BY <1>2 DEF Ask, Begin, Send, Post, Entered, Begun

LEMMA EnterMarket ==
  ASSUME NEW c, AskMarket(c), c.op \notin {"none", "authenticate_session",
                                           "get_account_info", "get_margin_info"},
         "market" \in PlacesOf(c.op)
  PROVE  Entered(c)
<1>1. c.op \notin Guarded
  BY DEF PlacesOf, Guarded
<1>2. Asked(c)
  BY <1>1 DEF AskMarket, Ask, Send, Post, Asked, RequestOK, MarketRequest,
              MarketOf, AsksByNumber
<1> QED
  BY <1>2 DEF AskMarket, Ask, Begin, Send, Post, Entered, Begun

LEMMA OtherPlaces ==
  ASSUME NEW op, op \in MarketCalls \cup {"get_account_info", "get_margin_info"}
  PROVE  PlacesOf(op) = {"market", "direct"}
BY DEF MarketCalls, PlacesOf, Guarded

LEMMA EnterRead ==
  ASSUME NEW c, Enter(c),
         c.op \in MarketCalls \cup {"get_account_info", "get_margin_info"}
  PROVE  Entered(c)
<1> USE DEF MarketCalls
<1>1. c.op \notin {"authenticate_session", "validate_auth_payload", "none"}
  OBVIOUS
<1>2. PlacesOf(c.op) = {"market", "direct"}
  BY OtherPlaces
<1>3. CASE c.op = "get_account_info"
  <2> DEFINE d == [op |-> "get_account_info", args |-> Empty]
             req == [url |-> "ClientAndTradingAccount", session |-> session_header]
  <2>1. Refused(d) \/ Ask(d, "direct", req)
    BY <1>3 DEF Enter, get_account_info, Guarded
  <2>2. /\ d.op = c.op /\ d = Op(c.op) /\ DirectUrl(req.url)
        /\ req.url \notin AsksByNumber
    BY <1>3 DEF Op, DirectUrl, OrderUrls, AsksByNumber
  <2> QED
    BY <1>1, <1>2, <1>3, <2>1, <2>2, EnterRefused, EnterDirect
<1>4. CASE c.op = "get_margin_info"
  <2> DEFINE d == [op |-> "get_margin_info", args |-> Empty]
             req == [url |-> "clientAccountMargin", session |-> session_header,
                     clientAccountId |-> client_account_id]
  <2>1. Refused(d) \/ Ask(d, "direct", req)
    BY <1>4 DEF Enter, get_margin_info, Guarded
  <2>2. /\ d.op = c.op /\ d = Op(c.op) /\ DirectUrl(req.url)
        /\ req.url \notin AsksByNumber
    BY <1>4 DEF Op, DirectUrl, OrderUrls, AsksByNumber
  <2> QED
    BY <1>1, <1>2, <1>4, <2>1, <2>2, EnterRefused, EnterDirect
<1>5. CASE c.op = "get_market_info"
  <2>1. Refused(c) \/ Ask(c, "direct", MarketRequest(c.args.market))
    BY <1>5 DEF Enter, Guarded
  <2>2. /\ DirectUrl(MarketRequest(c.args.market).url)
        /\ MarketRequest(c.args.market).url \notin AsksByNumber
    BY DEF DirectUrl, OrderUrls, MarketRequest, AsksByNumber
  <2> QED
    BY <1>1, <1>2, <1>5, <2>1, <2>2, EnterRefused, EnterDirect
<1>6. CASE c.op = "get_market_id"
  <2>1. Refused(c) \/ AskMarket(c)
    BY <1>6 DEF Enter, Guarded
  <2> QED
    BY <1>1, <1>2, <1>6, <2>1, EnterRefused, EnterMarket
<1>7. ASSUME NEW valid, AskPrices(c, valid), ~valid => ~ValidCall(c),
             c.op \in {"get_prices", "get_ohlc"}
      PROVE  Entered(c)
  <2> DEFINE req == DataRequest(c, market_id_map[MarketOf(c)])
  <2>1. \/ Refused(c) \/ (~ValidCall(c) /\ Reject(c, "error")) \/ AskMarket(c)
        \/ Cached(MarketOf(c)) /\ Ask(c, "direct", req)
    BY <1>7 DEF AskPrices
  <2>2. DirectUrl(req.url) /\ req.market_id = market_id_map[MarketOf(c)]
    BY DataUrl, DataNumber DEF DirectUrl, OrderUrls
  <2>3. c.op \notin {"get_account_info", "get_margin_info"}
    BY <1>7
  <2> HIDE DEF req
  <2>4. CASE Cached(MarketOf(c)) /\ Ask(c, "direct", req)
    BY <1>1, <1>2, <1>7, <2>2, <2>3, <2>4, EnterDirect
  <2> QED
    BY <1>1, <1>2, <2>1, <2>3, <2>4, EnterRefused, EnterRejected, EnterMarket
<1>8. CASE c.op = "get_prices"
  <2>1. AskPrices(c, PriceTypeOk(c.args.price_type))
    BY <1>8 DEF Enter, Guarded
  <2>2. ~PriceTypeOk(c.args.price_type) => ~ValidCall(c)
    BY <1>8 DEF ValidCall
  <2> QED
    BY <1>7, <1>8, <2>1, <2>2
<1>9. CASE c.op = "get_ohlc"
  <2>1. AskPrices(c, IntervalOk(c.args.interval, c.args.span))
    BY <1>9 DEF Enter, Guarded
  <2>2. ~IntervalOk(c.args.interval, c.args.span) => ~ValidCall(c)
    BY <1>9 DEF ValidCall
  <2> QED
    BY <1>7, <1>9, <2>1, <2>2
<1> QED
  BY <1>3, <1>4, <1>5, <1>6, <1>8, <1>9

LEMMA EnterTrade ==
  ASSUME NEW c, Enter(c), c.op = "trade_order"
  PROVE  Entered(c)
<1>1. TradeFor(c)
  BY DEF Enter, Guarded
<1>2. "market" \in PlacesOf(c.op) /\ "bid" \in PlacesOf(c.op)
  BY DEF PlacesOf, Guarded, LoopPlaces
<1>3. CASE Refused(c)
  BY <1>3, EnterRefused
<1>4. CASE ~OrderTypeOk(c.args.type) /\ Reject(c, "error")
  BY <1>4, EnterRejected DEF ValidCall
<1>5. CASE DOMAIN c.args.trade_map = {} /\ Reject(c, "throw")
  BY <1>5 DEF Reject, Begin, Return, Entered, Begun, TurnedAway
<1>6. CASE AskMarket(c)
  BY <1>2, <1>6, EnterMarket
<1>7. CASE /\ Cached(MarketOf(c)) /\ HasHeader /\ Begin(c)
           /\ CheckOrder(c, market_id_map[MarketOf(c)])
           /\ UNCHANGED <<session_header, accountVars, market_id_map>>
  <2>1. CASE FieldsMissing(c.args.type, Order(c)) /\ Return(c, "error")
    BY <1>7, <2>1 DEF ValidCall, Begin, Return, Entered, Begun, TurnedAway
  <2>2. CASE /\ Post(c, "bid", PriceRequest(market_id_map[MarketOf(c)], "BID"))
             /\ current_time' = 0 /\ attempts' = 0 /\ bid_response' = NoAnswer
             /\ UNCHANGED vouched
    <3> DEFINE req == PriceRequest(market_id_map[MarketOf(c)], "BID")
    <3>1. /\ req.url = "tickhistory"
          /\ req.market_id = market_id_map[MarketOf(c)]
      BY DEF PriceRequest, TickRequest
    <3> HIDE DEF req
    <3>2. Asked(c)
      <4>1. /\ call' = c /\ pc' = "bid" /\ request' = req
            /\ response' = NoAnswer /\ result' = result
        BY <2>2 DEF Post, req
      <4> QED
        BY <1>2, <1>7, <3>1, <4>1 DEF Asked, RequestOK, Guarded
    <3> QED
      BY <1>7, <2>2, <3>2 DEF Begin, Post, Entered, Begun
  <2> QED
    BY <1>7, <2>1, <2>2 DEF CheckOrder
<1> QED
  BY <1>1, <1>3, <1>4, <1>5, <1>6, <1>7 DEF TradeFor

LEMMA EnterCall ==
  ASSUME NEW c, Enter(c)
  PROVE  Entered(c)
<1>1. c.op \in Checks \cup {"authenticate_session", "validate_session", "trade_order"}
               \cup Guarded \cup MarketCalls \cup {"get_account_info", "get_margin_info"}
  BY DEF Enter, Checks, MarketCalls
<1> QED
  BY <1>1, EnterCheck, EnterLogin, EnterGuarded, EnterRead, EnterTrade

(***************************************************************************)
(* What a call does after its first request.                               *)
(***************************************************************************)
SessionGoesOn ==
  BeginLogin \/ RefuseLogin \/ ReceiveLogin \/ ReceiveAccount \/ SessionIsValid

LoopGoesOn ==
  \/ ReceiveBid \/ PricesFail \/ PricesThrow \/ PricesMissing
  \/ PlaceOrder \/ OrderTaken \/ PauseBeforeRetry \/ Retry \/ TimeExpired

LEMMA GoesOn ==
  ASSUME ClientStep, pc # "idle"
  PROVE  \/ SessionGoesOn \/ LoopGoesOn
         \/ MarketMissing \/ ReceiveMarket \/ ReceiveTradeMarket
         \/ CallFails \/ CallThrows \/ ReceiveDirect
<1> USE DEF Begin
<1>1. SessionStep => SessionGoesOn
  BY DEF SessionStep, SessionGoesOn, authenticate_session, validate_session,
         list_open_positions, list_active_orders, cancel_order, BeginValidate,
         Refused
<1>2. MarketStep => MarketMissing \/ ReceiveMarket
  BY DEF MarketStep, get_account_info, get_margin_info, get_market_info,
         get_market_id, return_market_id, get_prices, get_ohlc, AskPrices,
         AskMarket, Ask, Reject, Refused
<1>3. TradeStep => LoopGoesOn \/ ReceiveTradeMarket
  BY DEF TradeStep, LoopGoesOn, trade_order, TradeFor, AskMarket, Ask, Reject,
         Refused
<1> QED
  BY <1>1, <1>2, <1>3 DEF ClientStep

(* A call stays in the places of its operation. *)
LEMMA PlaceKept ==
  ASSUME ClientStep, pc # "idle", CallShape, pc \in PlacesOf(call.op),
         pc' # "idle"
  PROVE  pc' \in PlacesOf(call'.op)
<1> USE DEF PlacesOf, Guarded, LoopPlaces, Post, Send, Return
<1>1. call' = call
  BY StepShape DEF Ended, Sent, PauseBeforeRetry
<1>2. CASE SessionGoesOn
  <2>1. CASE BeginLogin
    BY <1>1, <2>1 DEF BeginLogin, PostLogin
  <2>2. ~RefuseLogin
    BY DEF RefuseLogin
  <2>3. CASE ReceiveLogin \/ SessionIsValid
    BY <1>1, <2>3 DEF ReceiveLogin, LoginReceived, SessionIsValid, Proceed
  <2>4. CASE ReceiveAccount
    <3>1. Return(call, "error") \/ Proceed(session_header, trading_account_id')
      BY <2>4 DEF ReceiveAccount
    <3> QED
      BY <1>1, <3>1 DEF Proceed
  <2> QED
    BY <1>2, <2>1, <2>2, <2>3, <2>4 DEF SessionGoesOn
<1>3. CASE MarketMissing \/ ReceiveMarket
  BY <1>1, <1>3 DEF MarketMissing, ReceiveMarket
<1>4. CASE ReceiveTradeMarket
  BY <1>1, <1>4 DEF ReceiveTradeMarket, CheckOrder
<1>5. CASE LoopGoesOn
  <2>1. pc \in LoopPlaces /\ pc' \in LoopPlaces
    BY <1>5 DEF LoopGoesOn, ReceiveBid, PricesFail, PricesThrow, PricesMissing,
                HavePrices, PlaceOrder, OrderTaken, PauseBeforeRetry, Retry,
                TimeExpired
  <2>2. call.op = "trade_order"
    BY <2>1
  <2> QED
    BY <1>1, <2>1, <2>2
<1>6. ~CallFails /\ ~CallThrows /\ ~ReceiveDirect
  BY DEF CallFails, CallThrows, ReceiveDirect
<1> QED
  BY <1>2, <1>3, <1>4, <1>5, <1>6, GoesOn

(***************************************************************************)
(* The invariant of every program.                                         *)
(***************************************************************************)
LEMMA CallEnter ==
  ASSUME CallInv, NEW c, Enter(c)
  PROVE  CallInv'
<1> USE DEF CallInv, CallShape
<1>1. Entered(c)
  BY EnterCall
<1>2. UNCHANGED <<auth_payload, session_header>>
  BY <1>1 DEF Entered
<1>3. CASE TurnedAway(c)
  BY <1>2, <1>3 DEF TurnedAway, RequestOK, HasHeader, HasCredentials
<1>4. CASE Asked(c)
  <2>1. call'.op = c.op
    BY <1>4 DEF Asked, Op
  <2>2. pc' \in PlacesOf(call'.op) /\ pc' \notin {"idle", "sleep"}
    BY <1>4, <2>1 DEF Asked
  <2>3. HasCredentials'
    BY <1>2, <1>4 DEF Asked, HasHeader, HasCredentials
  <2> QED
    BY <1>4, <2>2, <2>3 DEF Asked
<1> QED
  BY <1>1, <1>3, <1>4 DEF Entered

LEMMA CallContinue ==
  ASSUME CallInv, ClientStep, pc # "idle"
  PROVE  CallInv'
<1>1. CallShape /\ pc \in PlacesOf(call.op) /\ HasCredentials
  BY DEF CallInv
<1>2. CallShape'
  BY <1>1, StepShape DEF Ended, Sent, PauseBeforeRetry, CallShape
<1>3. RequestOK'
  BY <1>1, ClientRequest
<1>4. HasCredentials'
  BY <1>1, StepFrame DEF ClientFrame, HasCredentials
<1> QED
  BY <1>1, <1>2, <1>3, <1>4, PlaceKept DEF CallInv

(* What answers a request leaves the client and its call alone. *)
LEMMA CallAnswered ==
  ASSUME CallInv, UNCHANGED <<clientVars, call, pc, request>>,
         request = NoRequest => UNCHANGED response
  PROVE  CallInv'
BY DEF CallInv, CallShape, clientVars, accountVars, RequestOK, ValidateRequest,
       MarketRequest, HasHeader, HasCredentials

LEMMA CallServer ==
  ASSUME CallInv, ServerStep
  PROVE  CallInv'
<1>1. request = NoRequest => UNCHANGED response
  BY ServerNeedsRequest DEF CallInv, CallShape
<1> QED
  BY <1>1, ServerStepFrame, CallAnswered

LEMMA CallBetween ==
  ASSUME CallInv, Between,
         HasHeader' => HasCredentials'
  PROVE  CallInv'
BY DEF CallInv, CallShape, Between, RequestOK, ValidateRequest, MarketRequest

LEMMA CallBench ==
  ASSUME CallInv, BenchNext
  PROVE  CallInv'
<1>1. ASSUME NEW c, Calls(c) PROVE CallInv'
  BY <1>1, CallEnter DEF Calls
<1>2. CASE MockReply
  BY <1>2, CallAnswered DEF MockReply, Pending
<1>3. CASE Continue
  BY <1>3, CallContinue DEF Continue
<1>4. CASE set_testing_rest_urls \/ AssignIds
  <2>1. UNCHANGED <<auth_payload, session_header>> /\ Between
    BY <1>4 DEF set_testing_rest_urls, AssignIds, clientVars
  <2>2. HasHeader' => HasCredentials'
    BY <2>1 DEF CallInv, HasHeader, HasCredentials
  <2> QED
    BY <2>1, <2>2, CallBetween
<1>5. CASE MoveAway \/ MoveInto
  <2>1. session_header' = Empty /\ Between
    BY <1>5 DEF MoveAway, MoveInto, Blank
  <2> QED
    BY <2>1, CallBetween DEF HasHeader
<1> QED
  BY <1>1, <1>2, <1>3, <1>4, <1>5 DEF BenchNext, Working

LEMMA CallPrograms ==
  ASSUME CallInv, ProgramsNext
  PROVE  CallInv'
<1>1. CASE RunBench
  BY <1>1, CallBench DEF RunBench
<1>2. CASE RunTest
  <2>1. CASE Working \/ AssignIds
    <3>1. BenchNext
      BY <2>1 DEF BenchNext
    <3> QED
      BY <3>1, CallBench
  <2>2. CASE Calls(test.calls[made + 1])
    BY <2>2, CallEnter DEF Calls
  <2> QED
    BY <1>2, <2>1, <2>2 DEF RunTest, TestNext
<1>3. CASE RunExample
  <2>1. CASE Calls(CallAt)
    BY <2>1, CallEnter DEF Calls
  <2>2. CASE Continue
    BY <2>2, CallContinue DEF Continue
  <2> QED
    BY <1>3, <2>1, <2>2 DEF RunExample, ProgramStep
<1>4. CASE Service(ServerStep)
  BY <1>4, CallServer DEF Service, Serves
<1> QED
  BY <1>1, <1>2, <1>3, <1>4 DEF ProgramsNext

(* All programs start with a new client. *)
LEMMA ProgramsStart ==
  ASSUME ProgramsInit
  PROVE  Init
BY DEF ProgramsInit, BenchInit, TestInit, ExampleInit

LEMMA CallInvariant == ProgramsSpec => []CallInv
<1>1. ProgramsInit => CallInv
  BY ProgramsStart DEF Init, CallInv, CallShape, RequestOK, HasHeader
<1>2. CallInv /\ [ProgramsNext]_programsVars => CallInv'
  <2> SUFFICES ASSUME CallInv, [ProgramsNext]_programsVars PROVE CallInv'
    OBVIOUS
  <2>1. CASE ProgramsNext
    BY <2>1, CallPrograms
  <2>2. CASE UNCHANGED programsVars
    BY <2>2, CallAnswered DEF programsVars, testVars, benchVars, vars, callVars
  <2> QED
    BY <2>1, <2>2
<1> QED
  BY <1>1, <1>2, PTL DEF ProgramsSpec

(* Whatever a program calls, and however it moves clients about, nothing   *)
(* is sent for a client that has no credentials, and it has no header.     *)
THEOREM NothingIsSent == ProgramsSpec => []NothingWithoutCredentials
<1>1. CallInv => NothingWithoutCredentials
  BY DEF CallInv, CallShape, NothingWithoutCredentials
<1> QED
  BY CallInvariant, <1>1, PTL

(***************************************************************************)
(* The mock servers.                                                       *)
(***************************************************************************)

(* An answer that is no error comes from a resource that exists and works. *)
LEMMA MockOk ==
  ASSUME NEW s, Ok(MockAnswer(s))
  PROVE  MockFound /\ MockWorks(s) /\ MockAnswer(s) = Answer(MockBody(s))
BY DEF MockAnswer

LEMMA MockShape ==
  ASSUME NEW s
  PROVE  Ok(MockAnswer(s)) => MockAnswer(s).shape = "object"
BY DEF MockAnswer

(* The number of a market comes from the correct server. *)
LEMMA MockMarket ==
  ASSUME MockInv, RequestOK, LearnMarket
  PROVE  market_id_map' = [market_id_map EXCEPT ![MarketOf(call)] = OneNumber]
<1>1. response = MockAnswer(server) /\ Ok(response) /\ request.url = "markets"
  BY DEF MockInv, LearnMarket, RequestOK, MarketRequest
<1>2. response = Answer(MockBody(server))
  BY <1>1, MockOk
<1>3. MockBody(server) = Bodies.markets
  BY <1>1 DEF MockBody, OrderUrls, Bodies
<1>4. response.json.MarketId = 123
  BY <1>2, <1>3 DEF Bodies
<1> QED
  BY <1>4 DEF LearnMarket, OneNumber

LEMMA MockEnter ==
  ASSUME MockInv, NEW c, Enter(c), UNCHANGED server
  PROVE  MockInv'
BY EnterCall DEF Entered, TurnedAway, Asked, MockInv

LEMMA MockContinue ==
  ASSUME CallInv, MockInv, ClientStep, pc # "idle"
  PROVE  MockInv'
<1>1. CallShape /\ RequestOK
  BY DEF CallInv
<1>2. response' = NoAnswer
  BY <1>1, StepShape DEF Ended, Sent, PauseBeforeRetry
<1>3. CASE LearnMarket
  BY <1>1, <1>2, <1>3, MockMarket DEF MockInv
<1>4. CASE UNCHANGED market_id_map
  BY <1>2, <1>4 DEF MockInv
<1> QED
  BY <1>1, <1>3, <1>4, StepFrame DEF ClientFrame

LEMMA MockWorking ==
  ASSUME CallInv, MockInv, Working, UNCHANGED server
  PROVE  MockInv'
<1>1. CASE MockReply
  <2>1. MockAnswer(server)' = MockAnswer(server)
    BY <1>1 DEF MockReply, MockAnswer, MockFound, MockBody, MockWorks
  <2> QED
    BY <1>1, <2>1 DEF MockReply, MockInv, clientVars
<1>2. CASE Continue
  BY <1>2, MockContinue DEF Continue
<1> QED
  BY <1>1, <1>2 DEF Working

LEMMA MockBetween ==
  ASSUME CallInv, MockInv,
         set_testing_rest_urls \/ AssignIds \/ MoveAway \/ MoveInto
  PROVE  MockInv'
<1>1. Between
  BY DEF set_testing_rest_urls, AssignIds, MoveAway, MoveInto, Blank
<1>2. response' = NoAnswer
  BY <1>1 DEF Between, CallInv, CallShape
<1>3. UNCHANGED market_id_map \/ market_id_map' = [m \in Markets |-> Empty]
  BY DEF set_testing_rest_urls, AssignIds, MoveAway, MoveInto, Blank, clientVars
<1> QED
  BY <1>2, <1>3 DEF MockInv

(***************************************************************************)
(* The failed server.                                                      *)
(***************************************************************************)

(* It turns down everything but a login, a validation and an order. *)
LEMMA FailedWorks ==
  ASSUME CallInv, MockInv, server = "failed", Arrived, Ok(response)
  PROVE  pc \in {"login", "validate", "order"}
<1>1. request.url \in {"Session", "validate"} \cup OrderUrls
  BY MockOk DEF MockInv, MockWorks
<1>2. pc \in {"login", "account", "validate", "direct", "market"} \cup LoopPlaces
  BY DEF CallInv, CallShape, PlacesOf
<1> QED
  BY <1>1, <1>2 DEF CallInv, CallShape, RequestOK, LoopPlaces, MarketRequest,
                    OrderUrls

(* A call that does not look at the client's members only is refused.      *)
Usable(c) ==
  c.op \notin Checks /\ (c.op = "trade_order" => DOMAIN c.args.trade_map # {})

LEMMA FailedEnter ==
  ASSUME NEW c, Enter(c), UNCHANGED server, server = "failed" => Usable(c)
  PROVE  FailedInv'
<1>1. Entered(c)
  BY EnterCall
<1>2. CASE TurnedAway(c)
  BY <1>2 DEF TurnedAway, Usable, FailedInv, FailedServerFails
<1>3. CASE Asked(c)
  BY <1>3 DEF Asked, FailedInv, FailedServerFails
<1> QED
  BY <1>1, <1>2, <1>3 DEF Entered

LEMMA FailedContinue ==
  ASSUME CallInv, MockInv, FailedInv, ClientStep, pc # "idle", UNCHANGED server
  PROVE  FailedInv'
<1> SUFFICES ASSUME server = "failed" PROVE FailedInv'
  BY DEF FailedInv, FailedServerFails
<1> USE DEF FailedInv, FailedServerFails, Post, Send, Return
<1>1. /\ pc \in PlacesOf(call.op) /\ pc \notin {"order", "sleep"}
      /\ pc = "ask" => ~Ok(bid_response)
  BY DEF CallInv
<1>2. Arrived /\ Ok(response) =>
        pc \in {"login", "validate"} /\ response.shape = "object"
  BY <1>1, FailedWorks, MockShape DEF MockInv
<1>3. CASE BeginLogin \/ RefuseLogin
  <2>1. pc' = "login" \/ (pc' = "idle" /\ result'.status = "error")
    <3>1. RefuseLogin => Return(call, "error")
      BY DEF RefuseLogin
    <3>2. BeginLogin => Return(call, "error") \/ pc' = "login"
      BY DEF BeginLogin, PostLogin
    <3> QED
      BY <1>3, <3>1, <3>2
  <2> QED
    BY <2>1
<1>4. CASE ReceiveLogin
  <2>1. call.op \in Guarded \cup {"authenticate_session", "validate_session"}
    BY <1>1, <1>4 DEF ReceiveLogin, LoginReceived, PlacesOf, LoopPlaces
  <2> QED
    BY <1>4, <2>1 DEF ReceiveLogin, LoginReceived, Proceed, HasAccounts, accountVars
<1>5. CASE SessionIsValid
  <2>1. call.op \in Guarded \cup {"validate_session"}
    BY <1>1, <1>5 DEF SessionIsValid, PlacesOf, LoopPlaces
  <2> QED
    BY <1>5, <2>1 DEF SessionIsValid, Proceed
<1>6. ~ReceiveAccount /\ ~MarketMissing /\ ~LearnMarket /\ ~ReceiveDirect
  BY <1>2 DEF ReceiveAccount, MarketMissing, LearnMarket, ReceiveDirect
<1>7. ~CallThrows
  BY <1>2 DEF CallThrows
<1>8. CASE ReceiveBid
  BY <1>2, <1>8 DEF ReceiveBid
<1>9. CASE PricesFail \/ CallFails
  BY <1>9 DEF PricesFail, CallFails
<1>10. ~PricesThrow /\ ~PricesMissing /\ ~PlaceOrder
  BY <1>1 DEF PricesThrow, PricesMissing, PlaceOrder, HavePrices
<1>11. ~OrderTaken /\ ~PauseBeforeRetry /\ ~Retry /\ ~TimeExpired
  BY <1>1 DEF OrderTaken, PauseBeforeRetry, Retry, TimeExpired
<1> QED
  BY <1>3, <1>4, <1>5, <1>6, <1>7, <1>8, <1>9, <1>10, <1>11, GoesOn
     DEF SessionGoesOn, LoopGoesOn, ReceiveMarket, ReceiveTradeMarket

LEMMA FailedWorking ==
  ASSUME CallInv, MockInv, FailedInv, Working, UNCHANGED server
  PROVE  FailedInv'
<1>1. CASE MockReply
  BY <1>1 DEF MockReply, FailedInv, FailedServerFails, clientVars, accountVars,
              loopVars, HasAccounts
<1> QED
  BY <1>1, FailedContinue DEF Working, Continue

LEMMA FailedBetween ==
  ASSUME Between
  PROVE  FailedInv'
BY DEF Between, FailedInv, FailedServerFails

(***************************************************************************)
(* The correct server.                                                     *)
(***************************************************************************)
LEMMA ValidMarket ==
  ASSUME NEW c, ValidCall(c), c.op \in MarketCalls \cup {"trade_order"}
  PROVE  MarketOf(c) \in Markets
<1>1. CASE c.op \in MarketCalls
  BY <1>1 DEF ValidCall, MarketCalls, MarketOf
<1>2. CASE c.op = "trade_order"
  <2> DEFINE S == DOMAIN c.args.trade_map
  <2>1. S # {} /\ S \subseteq Markets /\ S \subseteq Nat
    BY <1>2, MarketsAssumption DEF ValidCall
  <2>2. \E m \in S : \A n \in S : m <= n
    BY <2>1, LeastNumber
  <2>3. FirstMarket(c.args.trade_map) \in S
    BY <2>2 DEF FirstMarket
  <2> QED
    BY <1>2, <2>1, <2>3 DEF MarketOf
<1> QED
  BY <1>1, <1>2

(* What it answers to each request. *)
LEMMA CorrectAnswer ==
  ASSUME CallInv, MockInv, server = "correct", Arrived, MockFound
  PROVE  /\ Replied
         /\ pc = "login" => response.json.statusCode = 0
         /\ pc = "validate" => response.json.isAuthenticated = TRUE
         /\ pc = "account" => Null \notin {response.json.tradingAccountId,
                                           response.json.clientAccountId}
         /\ pc = "market" => response.json.MarketId = 123
         /\ pc \in {"bid", "ask"} => response = Answer(Bodies.tickhistory)
         /\ pc = "order" => OrderDone(response.json)
<1>1. response = Answer(MockBody("correct"))
  BY DEF MockInv, MockAnswer, MockWorks
<1>2. response.json = MockBody("correct") /\ Replied
  BY <1>1
<1> USE DEF CallInv, RequestOK, MockBody, Bodies, OrderUrls
<1>3. pc = "login" => response.json.statusCode = 0
  BY <1>2
<1>4. pc = "validate" => response.json.isAuthenticated = TRUE
  <2>1. Bodies.validate.isAuthenticated = TRUE
    BY Zenon
  <2>2. pc = "validate" => response.json = Bodies["validate"]
    <3> HIDE DEF Bodies
    <3>1. "validate" \in DOMAIN Bodies
      BY DEF Bodies
    <3> QED
      BY <1>2, <3>1 DEF ValidateRequest
  <2> QED
    BY <2>1, <2>2, Zenon
<1>5. pc = "account" => Null \notin {response.json.tradingAccountId,
                                     response.json.clientAccountId}
  BY <1>2, MockAssumption
<1>6. pc = "market" => response.json.MarketId = 123
  BY <1>2 DEF MarketRequest
<1>7. pc \in {"bid", "ask"} => response = Answer(Bodies.tickhistory)
  BY <1>1
<1>8. pc = "order" => OrderDone(response.json)
  BY <1>2 DEF MockOrder, OrderDone
<1> QED
  BY <1>2, <1>3, <1>4, <1>5, <1>6, <1>7, <1>8

LEMMA CorrectEnter ==
  ASSUME CallInv, MockInv, NEW c, Calls(c),
         UNCHANGED <<server, program>>, program = "bench" => ValidCall(c)
  PROVE  CorrectInv'
<1> SUFFICES ASSUME program = "bench", server = "correct" PROVE CorrectInv'
  BY DEF CorrectInv, CorrectServerSucceeds
<1> USE DEF CorrectInv, CorrectServerSucceeds
<1>1. Entered(c) /\ Report(EntryError(c))
  BY EnterCall DEF Calls
<1>2. HasHeader <=> HasHeader'
  BY <1>1 DEF Entered, HasHeader
<1>3. CASE TurnedAway(c)
  <2>1. CASE result'.status = "ok"
    BY <1>3, <2>1 DEF TurnedAway
  <2>2. CASE result'.status = "error"
    <3>1. ~HasHeader
      BY <1>3, <2>2 DEF TurnedAway, CallInv
    <3>2. where' \in {"validate_auth_payload", "validate_session_header"}
      BY <1>1, <1>3, <2>2, <3>1 DEF TurnedAway, Report, EntryError
    <3> QED
      BY <1>2, <1>3, <2>2, <3>1, <3>2 DEF TurnedAway
  <2> QED
    BY <1>3, <2>1, <2>2 DEF TurnedAway, ValidCall
<1>4. CASE Asked(c)
  <2>1. HasHeader' \/ pc' = "login"
    BY <1>2, <1>4 DEF Asked
  <2>2. ValidCall(call')
    BY <1>4 DEF Asked, ValidCall, MarketCalls, Op
  <2>3. request'.url \in AsksByNumber => request'.market_id = OneNumber
    BY <1>4, ValidMarket DEF Asked, MockInv, Cached
  <2>4. pc' \in LoopPlaces => market_id_map'[MarketOf(call)'] = OneNumber
    <3> SUFFICES ASSUME pc' \in LoopPlaces
                 PROVE  market_id_map'[MarketOf(call)'] = OneNumber
      OBVIOUS
    <3>1. pc' = "bid" /\ request'.url \in AsksByNumber
      BY <1>4 DEF Asked, LoopPlaces, RequestOK, AsksByNumber
    <3>2. c.op \in MarketCalls \cup {"trade_order"} /\ Cached(MarketOf(c))
      BY <1>4, <3>1 DEF Asked
    <3>3. call' = c
      BY <1>4, <3>2 DEF Asked, MarketCalls
    <3>4. MarketOf(call)' = MarketOf(c)
      BY <3>3 DEF MarketOf
    <3> QED
      BY <1>1, <3>2, <3>4, ValidMarket DEF MockInv, Cached, Entered
  <2>5. MockFound'
    BY <2>3 DEF MockFound, OneNumber
  <2>6. pc' \notin {"idle", "ask", "sleep"}
    BY <1>4 DEF Asked
  <2> QED
    BY <2>1, <2>2, <2>4, <2>5, <2>6 DEF ValidCall, Order, MarketOf
<1> QED
  BY <1>1, <1>3, <1>4 DEF Entered

LEMMA CorrectContinue ==
  ASSUME CallInv, MockInv, CorrectInv, ClientStep, pc # "idle",
         UNCHANGED <<server, program>>
  PROVE  CorrectInv'
<1> SUFFICES ASSUME program = "bench", server = "correct" PROVE CorrectInv'
  BY DEF CorrectInv, CorrectServerSucceeds
<1> USE DEF Post, Send, Return, LoopPlaces
<1>1. /\ HasHeader \/ pc = "login"
      /\ ValidCall(call) /\ MockFound /\ pc # "sleep"
      /\ pc \in LoopPlaces => market_id_map[MarketOf(call)] = OneNumber
      /\ pc = "ask" => bid_response = Answer(Bodies.tickhistory)
  BY DEF CorrectInv
<1>2. /\ CallShape /\ RequestOK /\ pc \in PlacesOf(call.op)
      /\ DOMAIN market_id_map = Markets
  BY DEF CallInv, MockInv
<1>3. Ended \/ Sent \/ PauseBeforeRetry
  BY <1>2, StepShape
<1>4. /\ ReceiveLogin \/ UNCHANGED session_header
      /\ LearnMarket \/ UNCHANGED market_id_map
  BY <1>2, StepFrame DEF ClientFrame
<1> DEFINE Ends == pc' = "idle" /\ result'.status = "ok"
           Asks == /\ pc' \in {"account", "direct"}
                   /\ request'.url \notin AsksByNumber
           AsksNumber == /\ pc' \in {"direct", "bid", "ask"}
                         /\ request'.market_id = OneNumber
                         /\ pc' # "direct" => market_id_map'[MarketOf(call)] = OneNumber
                         /\ pc' = "ask" => bid_response' = Answer(Bodies.tickhistory)
           Orders == pc' = "order" /\ PlaceOrder
(* No answer of the correct server ends a call early. *)
<1>5. /\ ~RefuseLogin /\ ~BeginLogin /\ ~MarketMissing
      /\ ~PauseBeforeRetry /\ ~CallFails /\ ~CallThrows
  <2>1. Arrived => Replied
    BY <1>1, CorrectAnswer
  <2>2. ~CallFails /\ ~CallThrows
    BY <2>1 DEF CallFails, CallThrows
  <2>3. ~RefuseLogin /\ ~BeginLogin
    BY <1>1, CorrectAnswer DEF RefuseLogin, BeginLogin
  <2>4. ~MarketMissing /\ ~PauseBeforeRetry
    BY <1>1, CorrectAnswer, MockAssumption DEF MarketMissing, PauseBeforeRetry
  <2> QED
    BY <2>2, <2>3, <2>4
<1>6. ~PricesFail /\ ~PricesThrow /\ ~PricesMissing
  <2> SUFFICES ASSUME pc = "ask", Arrived PROVE ~PricesFail /\ ~PricesThrow /\ ~PricesMissing
    BY DEF PricesFail, PricesThrow, PricesMissing, HavePrices
  <2>1. /\ response = Answer(Bodies.tickhistory)
        /\ bid_response = Answer(Bodies.tickhistory)
    BY <1>1, CorrectAnswer
  <2>2. Bodies.tickhistory.Price # Null
    BY MockAssumption DEF Bodies
  <2> QED
    BY <2>1, <2>2 DEF PricesFail, PricesThrow, PricesMissing
<1>7. ~Retry /\ ~TimeExpired
  BY <1>1 DEF Retry, TimeExpired
(* What is left. *)
<1>8. ReceiveDirect \/ OrderTaken => Ends
  BY DEF ReceiveDirect, OrderTaken
<1>9. ASSUME NEW session, NEW default, Proceed(session, default)
      PROVE  Ends \/ Asks
  BY <1>9 DEF Proceed, GuardedRequest, Guarded, AsksByNumber
<1>10. ReceiveLogin => Ends \/ Asks
  BY <1>9 DEF ReceiveLogin, LoginReceived, AccountRequest, AsksByNumber
<1>11. SessionIsValid => Ends \/ Asks
  BY <1>9 DEF SessionIsValid
<1>12. ASSUME ReceiveAccount PROVE Ends \/ Asks
  <2>1. Null \notin {response.json.tradingAccountId, response.json.clientAccountId}
    BY <1>1, <1>12, CorrectAnswer DEF ReceiveAccount
  <2>2. Dump(Null) \notin {Dump(response.json.tradingAccountId),
                           Dump(response.json.clientAccountId)}
    BY <2>1 DEF Dump
  <2>3. Proceed(session_header, trading_account_id')
    BY <1>12, <2>2 DEF ReceiveAccount
  <2> QED
    BY <1>9, <2>3
<1>13. ASSUME LearnMarket, call.op \in MarketCalls \cup {"trade_order"}
       PROVE  market_id_map'[MarketOf(call)] = OneNumber
  BY <1>1, <1>2, <1>13, MockMarket, ValidMarket
<1>14. ReceiveMarket => Ends \/ AsksNumber
  BY <1>13, DataNumber DEF ReceiveMarket, MarketCalls
<1>15. ReceiveTradeMarket => AsksNumber
  BY <1>1, <1>13 DEF ReceiveTradeMarket, CheckOrder, ValidCall, PriceRequest, TickRequest
<1>16. ASSUME ReceiveBid PROVE AsksNumber
  BY <1>1, <1>16, CorrectAnswer DEF ReceiveBid, InLoop, PriceRequest, TickRequest
<1>17. PlaceOrder => Orders
  BY DEF PlaceOrder
<1>18. Ends \/ Asks \/ AsksNumber \/ Orders
  BY <1>5, <1>6, <1>7, <1>8, <1>10, <1>11, <1>12, <1>14, <1>15, <1>16, <1>17,
     GoesOn DEF SessionGoesOn, LoopGoesOn
<1>19. CASE Ends
  BY <1>19 DEF CorrectInv, CorrectServerSucceeds
<1>20. CASE ~Ends
  <2>1. Sent
    BY <1>3, <1>5, <1>18, <1>20 DEF Ended
  <2>2. call' = call /\ ValidCall(call')
    BY <1>1, <2>1 DEF Sent
  <2>3. HasHeader'
    <3>1. CASE ReceiveLogin
      BY <3>1, DumpIsText DEF ReceiveLogin, LoginReceived, HasHeader
    <3>2. CASE pc # "login"
      BY <1>1, <1>4, <3>2 DEF ReceiveLogin, LoginReceived, HasHeader
    <3>3. CASE pc = "login" /\ ~ReceiveLogin
      BY <1>5, <1>6, <1>7, <3>3, GoesOn
         DEF SessionGoesOn, LoopGoesOn, SessionIsValid, ReceiveAccount,
             ReceiveMarket, ReceiveTradeMarket, LearnMarket, ReceiveBid,
             PlaceOrder, HavePrices, OrderTaken, ReceiveDirect
    <3> QED
      BY <3>1, <3>2, <3>3
  <2>4. CASE Asks
    BY <2>2, <2>3, <2>4 DEF CorrectInv, CorrectServerSucceeds, MockFound
  <2>5. CASE AsksNumber
    BY <2>2, <2>3, <2>5
       DEF CorrectInv, CorrectServerSucceeds, MockFound, OneNumber, MarketOf
  <2>6. CASE Orders
    <3>1. request'.url \notin AsksByNumber
      BY <2>6 DEF PlaceOrder, OrderRequest, AsksByNumber
    <3>2. market_id_map'[MarketOf(call)] = OneNumber
      BY <1>1, <2>6 DEF PlaceOrder, HavePrices, InLoop
    <3> QED
      BY <2>2, <2>3, <2>6, <3>1, <3>2
         DEF CorrectInv, CorrectServerSucceeds, MockFound, MarketOf
  <2> QED
    BY <1>18, <1>20, <2>4, <2>5, <2>6
<1> QED
  BY <1>19, <1>20

LEMMA CorrectWorking ==
  ASSUME CallInv, MockInv, CorrectInv, Working, UNCHANGED <<server, program>>
  PROVE  CorrectInv'
<1>1. CASE MockReply
  <2>1. UNCHANGED <<session_header, market_id_map, call, pc, request, result,
                    bid_response, where>>
    BY <1>1 DEF MockReply, clientVars, loopVars
  <2> QED
    BY <2>1 DEF CorrectInv, CorrectServerSucceeds, HasHeader, ValidCall,
                MockFound, MarketOf, Order
<1> QED
  BY <1>1, CorrectContinue DEF Working, Continue

LEMMA CorrectBetween ==
  ASSUME Between
  PROVE  CorrectInv'
BY DEF Between, CorrectInv, CorrectServerSucceeds

(***************************************************************************)
(* The bench and the tests.                                                *)
(***************************************************************************)

(* The calls that the tests make of the failed server. *)
AllUsable(calls) ==
  Len(calls) \in Nat /\ \A i \in 1 .. Len(calls) : Usable(calls[i])

LEMMA TestsUsable ==
  ASSUME NEW t \in UnitTests \cup CorrectTests \cup FailedTests,
         t.server = "failed"
  PROVE  AllUsable(t.calls)
<1>1. t \notin UnitTests
  <2>1. \A c : Early(c).server # "failed"
    BY DEF Early, Test
  <2>2. t \notin PayloadTests
    <3>1. ASSUME NEW calls, NEW status, NEW location,
                 \/ t = Test("unreachable", calls, status, location)
                 \/ t = [Test("unreachable", calls, status, location)
                           EXCEPT !.credentials = FALSE]
          PROVE  FALSE
      BY <3>1 DEF Test
    <3> QED
      BY <3>1, Zenon DEF PayloadTests
  <2>3. t \notin LoginTests
    BY <2>1 DEF LoginTests, Test
  <2>4. t \notin ReadTests
    BY <2>1 DEF ReadTests
  <2>5. t \notin OrderTests
    BY <2>1 DEF OrderTests
  <2> QED
    BY <2>2, <2>3, <2>4, <2>5 DEF UnitTests
<1>2. t \notin CorrectTests
  <2>1. ASSUME NEW c
        PROVE  Works(c).server # "failed" /\ Rejected(c).server # "failed"
    <3>1. Works(c).server = "correct" /\ Rejected(c).server = "correct"
      BY DEF Works, Rejected, Test
    <3> QED
      BY <3>1
  <2>2. t \notin SingleTests
    <3>1. ASSUME NEW calls
          PROVE  Test("correct", calls, "ok", "").server # "failed"
      BY DEF Test
    <3> QED
      BY <2>1, <3>1 DEF SingleTests
  <2>3. t \notin PricesTests
    BY <2>1 DEF PricesTests
  <2>4. t \notin OhlcTests
    BY <2>1 DEF OhlcTests
  <2>5. t \notin TradeTests
    BY <2>1 DEF TradeTests
  <2>6. t \notin ListTests
    BY <2>1 DEF ListTests
  <2> QED
    BY <2>2, <2>3, <2>4, <2>5, <2>6 DEF CorrectTests
<1> USE DEF Usable, Checks, Login, Op, Test
<1>3. ASSUME NEW c, NEW l, Usable(c), t = Breaks(c, l) PROVE AllUsable(t.calls)
  <2>1. t.calls = <<Login, c>>
    BY <1>3 DEF Breaks
  <2>2. Usable(Login)
    OBVIOUS
  <2> HIDE DEF Login, Usable
  <2> QED
    BY <1>3, <2>1, <2>2 DEF AllUsable
<1>4. CASE t = Test("failed", <<Login>>, "error", "set_trading_account_id")
  <2>1. t.calls = <<Login>>
    BY <1>4
  <2>2. Usable(Login)
    OBVIOUS
  <2> HIDE DEF Login, Usable
  <2> QED
    BY <2>1, <2>2 DEF AllUsable
<1>5. CASE t = Test("failed", <<Login, Op("validate_session")>>, "ok", "")
  <2>1. t.calls = <<Login, Op("validate_session")>>
    BY <1>5
  <2>2. Usable(Login) /\ Usable(Op("validate_session"))
    OBVIOUS
  <2> HIDE DEF Login, Usable, Op
  <2> QED
    BY <2>1, <2>2 DEF AllUsable
<1>6. ASSUME NEW op \in Guarded \cup {"get_account_info", "get_margin_info"},
             t = Breaks(Op(op), op)
      PROVE  AllUsable(t.calls)
  <2>1. Usable(Op(op))
    BY <1>6 DEF Guarded
  <2> QED
    BY <1>3, <1>6, <2>1
<1>7. ASSUME NEW op \in {"get_market_id", "get_market_info"},
             t = Breaks(Named(op, 1), op)
      PROVE  AllUsable(t.calls)
  <2>1. Usable(Named(op, 1))
    BY <1>7 DEF Named
  <2> QED
    BY <1>3, <1>7, <2>1
<1>8. ASSUME NEW c \in {Prices(1, "mid", 0, 0), Ohlc(1, "minute", 1, 0, 0),
                        Trade("market", One(Simple))},
             t = Breaks(c, "return_market_id")
      PROVE  AllUsable(t.calls)
  <2>1. Usable(Prices(1, "mid", 0, 0)) /\ Usable(Ohlc(1, "minute", 1, 0, 0))
    BY DEF Prices, Ohlc
  <2>2. Usable(Trade("market", One(Simple)))
    <3>1. 1 \in DOMAIN One(Simple)
      BY DEF One
    <3> QED
      BY <3>1 DEF Trade
  <2> QED
    BY <1>3, <1>8, <2>1, <2>2
<1>9. t \in FailedTests
  BY <1>1, <1>2
<1> HIDE DEF Usable, Checks, Login, Op, Test
<1> QED
  BY <1>4, <1>5, <1>6, <1>7, <1>8, <1>9 DEF FailedTests

(* Which program runs; the example has no mock server.                     *)
ProgramInv ==
  /\ program \in {"bench", "test", "example"}
  /\ program = "test" =>
       /\ made \in Nat /\ server = test.server
       /\ test.server = "failed" => AllUsable(test.calls)
  /\ program = "example" => server = "unreachable"

ServerInv ==
  /\ ProgramInv
  /\ program # "example" => MockInv
  /\ FailedInv /\ CorrectInv

LEMMA ServerStart == ASSUME ProgramsInit PROVE ServerInv
<1>1. FailedInv /\ CorrectInv
  BY ProgramsStart DEF Init, FailedInv, CorrectInv, FailedServerFails,
                       CorrectServerSucceeds
<1>2. MockInv
  BY ProgramsStart DEF Init, MockInv
<1>3. ProgramInv
  <2>1. CASE program = "bench" \/ (program = "example" /\ NoTest)
    BY <2>1 DEF ProgramInv, NoTest
  <2>2. CASE program = "test" /\ TestInit
    BY <2>2, TestsUsable DEF ProgramInv, TestInit
  <2> QED
    BY <2>1, <2>2 DEF ProgramsInit
<1> QED
  BY <1>1, <1>2, <1>3 DEF ServerInv

LEMMA ServerBench ==
  ASSUME CallInv, ServerInv, RunBench
  PROVE  ServerInv'
<1>1. /\ program = "bench" /\ UNCHANGED program /\ BenchNext
      /\ MockInv /\ FailedInv /\ CorrectInv
  BY DEF ServerInv, RunBench
<1>2. ProgramInv'
  BY <1>1 DEF ProgramInv
<1>3. ASSUME NEW c \in Program, Calls(c), UNCHANGED server
      PROVE  MockInv' /\ FailedInv' /\ CorrectInv'
  <2>1. ValidCall(c) /\ c.op \notin Checks
    BY ProgramAssumption DEF Checks
  <2>2. Usable(c)
    BY <2>1 DEF ValidCall, Usable
  <2> QED
    BY <1>1, <1>3, <2>1, <2>2, MockEnter, FailedEnter, CorrectEnter DEF Calls
<1>4. CASE Working
  <2>1. UNCHANGED server
    BY <1>4 DEF Working, MockReply
  <2> QED
    BY <1>1, <1>2, <1>4, <2>1, MockWorking, FailedWorking, CorrectWorking
       DEF ServerInv
<1>5. CASE set_testing_rest_urls \/ AssignIds \/ MoveAway \/ MoveInto
  <2>1. Between
    BY <1>5 DEF set_testing_rest_urls, AssignIds, MoveAway, MoveInto, Blank
  <2> QED
    BY <1>1, <1>2, <1>5, <2>1, MockBetween, FailedBetween, CorrectBetween
       DEF ServerInv
<1> QED
  BY <1>1, <1>2, <1>3, <1>4, <1>5 DEF BenchNext, ServerInv

LEMMA ServerTest ==
  ASSUME CallInv, ServerInv, RunTest
  PROVE  ServerInv'
<1>1. /\ program = "test" /\ UNCHANGED <<program, test>> /\ TestNext
      /\ MockInv /\ FailedInv /\ CorrectInv /\ ProgramInv
  BY DEF ServerInv, RunTest, TestNext
<1>2. UNCHANGED server /\ made' \in {made, made + 1}
  BY <1>1 DEF TestNext, Working, MockReply, AssignIds
<1>3. ProgramInv'
  BY <1>1, <1>2 DEF ProgramInv
<1>4. CASE Working
  BY <1>1, <1>2, <1>3, <1>4, MockWorking, FailedWorking, CorrectWorking
     DEF ServerInv
<1>5. CASE made < Len(test.calls) /\ Calls(test.calls[made + 1])
  <2> DEFINE c == test.calls[made + 1]
  <2>1. server = "failed" => Usable(c)
    BY <1>1, <1>5 DEF ProgramInv, AllUsable
  <2> QED
    BY <1>1, <1>2, <1>3, <1>5, <2>1, MockEnter, FailedEnter, CorrectEnter
       DEF Calls, ServerInv
<1>6. CASE AssignIds
  <2>1. Between
    BY <1>6 DEF AssignIds
  <2> QED
    BY <1>1, <1>3, <1>6, <2>1, MockBetween, FailedBetween, CorrectBetween
       DEF ServerInv
<1> QED
  BY <1>1, <1>4, <1>5, <1>6 DEF TestNext

LEMMA ServerStutter ==
  ASSUME ServerInv, UNCHANGED programsVars
  PROVE  ServerInv'
<1> USE DEF programsVars, testVars, benchVars, vars, callVars
<1>1. ProgramInv'
  BY DEF ServerInv, ProgramInv, AllUsable, Usable
<1>2. program # "example" => MockInv'
  BY DEF ServerInv, MockInv, MockAnswer, MockFound, MockBody, MockWorks,
         clientVars
<1>3. FailedInv'
  BY DEF ServerInv, FailedInv, FailedServerFails, loopVars, clientVars,
         accountVars, HasAccounts
<1>4. CorrectInv'
  BY DEF ServerInv, CorrectInv, CorrectServerSucceeds, HasHeader, ValidCall,
         MockFound, MarketOf, Order, loopVars, clientVars
<1> QED
  BY <1>1, <1>2, <1>3, <1>4 DEF ServerInv

LEMMA ServerInvariant == ProgramsSpec => []ServerInv
<1>1. CallInv /\ ServerInv /\ [ProgramsNext]_programsVars => ServerInv'
  <2> SUFFICES ASSUME CallInv, ServerInv, ProgramsNext PROVE ServerInv'
    BY ServerStutter
  <2>1. CASE RunExample \/ Service(ServerStep)
    <3>1. program' = "example" /\ server' = "unreachable"
      BY <2>1 DEF RunExample, Service, ServerInv, ProgramInv, testingVars
    <3> QED
      BY <3>1 DEF ServerInv, ProgramInv, FailedInv, FailedServerFails,
                  CorrectInv, CorrectServerSucceeds
  <2> QED
    BY <2>1, ServerBench, ServerTest DEF ProgramsNext
<1> QED
  BY CallInvariant, ServerStart, <1>1, PTL DEF ProgramsSpec

(* With the failed server of the tests nothing succeeds that needs more    *)
(* than a session, and nothing throws, whatever the client has been        *)
(* through before.                                                         *)
THEOREM FailedServerAlwaysFails == ProgramsSpec => []FailedServerFails
<1>1. ServerInv => FailedServerFails
  BY DEF ServerInv, FailedInv
<1> QED
  BY ServerInvariant, <1>1, PTL

(* With the correct one every valid call of a client that has a header     *)
(* succeeds, whatever the client has been through before.                  *)
THEOREM CorrectServerAlwaysSucceeds == ProgramsSpec => []CorrectServerSucceeds
<1>1. ServerInv => CorrectServerSucceeds
  BY DEF ServerInv, CorrectInv
<1> QED
  BY ServerInvariant, <1>1, PTL
============================================================================
