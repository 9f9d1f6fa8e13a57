-------------------------- MODULE GCExampleProofs --------------------------
(***************************************************************************)
(* Proofs about the example: what its end says of the orders the server    *)
(* has executed and of those it has still, for every list of pairs and     *)
(* every fault.                                                            *)
(***************************************************************************)
EXTENDS GCBenchProofs, FiniteSetTheorems

USE DEF NoCall, NoRequest, NoAnswer, Answer, Failure, Unusable,
        Arrived, Replied, Ok

(***************************************************************************)
(* A call that the example makes keeps the invariants of the client.       *)
(***************************************************************************)
LEMMA EnterTypes ==
  ASSUME TypeInv, CallInv, NEW c, Enter(c)
  PROVE  TypeInv'
<1>1. Entered(c) /\ TypeOK
  BY EnterCall DEF TypeInv
<1>2. CallShape' /\ RequestOK'
  BY CallEnter DEF CallInv
<1>3. response' = NoAnswer /\ pc' \in Places /\ result'.status \in Statuses
  BY <1>1 DEF Entered, TurnedAway, Asked, Places, Statuses, TypeOK, CallTypeOK
<1>4. ClientTypeOK'
  BY <1>1 DEF Entered, TypeOK, ClientTypeOK, accountVars
<1>5. CallTypeOK'
  BY <1>2, <1>3 DEF CallTypeOK, CallShape, IsAnswer
<1>6. LoopTypeOK'
  BY <1>1 DEF Entered, TypeOK, LoopTypeOK, loopVars, IsAnswer, RETRY_SECONDS
<1>7. WorldTypeOK'
  <2>1. disturbed' \in BOOLEAN /\ lost' \in BOOLEAN
    BY <1>1 DEF Entered, Begun
  <2> QED
    BY <1>1, <2>1 DEF Entered, Begun, TypeOK, WorldTypeOK, serverVars,
                      SessionTexts
<1> QED
  BY <1>2, <1>3, <1>4, <1>5, <1>6, <1>7 DEF TypeInv, TypeOK, AnswerOK

LEMMA EnterTrades ==
  ASSUME NEW c, Entered(c)
  PROVE  TradeInv'
<1>1. placed' = 0 /\ response' = NoAnswer
  BY DEF Entered, Begun, TurnedAway, Asked
<1>2. pc' \in LoopPlaces => call'.op = "trade_order"
  <2>1. CASE TurnedAway(c)
    BY <2>1 DEF TurnedAway, LoopPlaces
  <2>2. CASE Asked(c)
    <3> SUFFICES ASSUME pc' \in LoopPlaces PROVE call'.op = "trade_order"
      OBVIOUS
    <3>1. c.op = "trade_order"
      BY <2>2 DEF Asked, LoopPlaces, PlacesOf, Guarded
    <3> QED
      BY <2>2, <3>1 DEF Asked
  <2> QED
    BY <2>1, <2>2 DEF Entered
<1> QED
  BY <1>1, <1>2 DEF TradeInv, Executed, ErrorMeansNotPlaced, LoopPlaces

(***************************************************************************)
(* How a call ends.                                                        *)
(***************************************************************************)
Ending == pc # "idle" /\ pc' = "idle"

(* An order succeeds when the loop takes its answer for an order number.   *)
LEMMA TradeSucceeds ==
  ASSUME CallInv, ClientStep, Ending, call.op = "trade_order",
         result'.status = "ok"
  PROVE  OrderTaken
<1> USE DEF Ending, Return, Post, Send
<1>1. pc \in {"market"} \cup LoopPlaces
  BY DEF CallInv, PlacesOf, Guarded
<1>2. ~SessionGoesOn
  BY <1>1 DEF SessionGoesOn, BeginLogin, RefuseLogin, ReceiveLogin,
              LoginReceived, ReceiveAccount, SessionIsValid, LoopPlaces
<1>3. ~MarketMissing /\ ~ReceiveMarket /\ ~CallFails /\ ~CallThrows
  BY DEF MarketMissing, ReceiveMarket, CallFails, CallThrows
<1>4. ~ReceiveDirect
  BY <1>1 DEF ReceiveDirect, LoopPlaces
<1>5. ~ReceiveTradeMarket
  BY DEF ReceiveTradeMarket, CheckOrder
<1>6. LoopGoesOn => OrderTaken
  BY DEF LoopGoesOn, ReceiveBid, PricesFail, PricesThrow, PricesMissing,
         PlaceOrder, PauseBeforeRetry, Retry, TimeExpired
<1> QED
  BY <1>2, <1>3, <1>4, <1>5, <1>6, GoesOn

(* A list or a cancellation succeeds when its own answer has come.         *)
LEMMA GuardedSucceeds ==
  ASSUME CallInv, ClientStep, Ending, call.op \in Guarded,
         result'.status = "ok"
  PROVE  ReceiveDirect
<1> USE DEF Ending, Return, Post, Send
<1>1. pc \in {"validate", "login", "account", "direct"}
  BY DEF CallInv, PlacesOf, Guarded
<1>2. ~SessionGoesOn
  <2>1. ~BeginLogin /\ ~RefuseLogin
    <3>1. BeginLogin => Return(call, "error") \/ pc' = "login"
      BY DEF BeginLogin, PostLogin
    <3>2. RefuseLogin => Return(call, "error")
      BY DEF RefuseLogin
    <3> QED
      BY <3>1, <3>2
  <2>2. ~ReceiveLogin /\ ~SessionIsValid
    BY DEF ReceiveLogin, LoginReceived, SessionIsValid, Proceed
  <2>3. ~ReceiveAccount
    <3>1. ReceiveAccount =>
            Return(call, "error") \/ Proceed(session_header, trading_account_id')
      BY DEF ReceiveAccount
    <3> QED
      BY <3>1 DEF Proceed
  <2> QED
    BY <2>1, <2>2, <2>3 DEF SessionGoesOn
<1>3. ~MarketMissing /\ ~ReceiveMarket /\ ~ReceiveTradeMarket
  BY <1>1 DEF MarketMissing, ReceiveMarket, ReceiveTradeMarket, LearnMarket
<1>4. ~LoopGoesOn
  BY <1>1 DEF LoopGoesOn, ReceiveBid, PricesFail, PricesThrow, PricesMissing,
              HavePrices, PlaceOrder, OrderTaken, PauseBeforeRetry, Retry,
              TimeExpired
<1>5. ~CallFails /\ ~CallThrows
  BY DEF CallFails, CallThrows
<1> QED
  BY <1>2, <1>3, <1>4, <1>5, GoesOn

(* The request of a list or a cancellation is its own. *)
LEMMA GuardedRequestSent ==
  ASSUME CallInv, CallTypeOK, ClientStep, pc # "idle",
         pc' = "direct", call'.op \in Guarded
  PROVE  request'.url = call'.op
<1>1. ReceiveLogin \/ ReceiveAccount \/ SessionIsValid
  BY SessionSent
<1>2. ASSUME NEW session, NEW default, Proceed(session, default)
      PROVE  request'.url = call'.op
  BY <1>2 DEF Proceed, Return, Send, Post, GuardedRequest
<1>3. CASE ReceiveLogin
  BY <1>2, <1>3 DEF ReceiveLogin, LoginReceived, Send, Post
<1>4. CASE ReceiveAccount
  <2>1. Return(call, "error") \/ Proceed(session_header, trading_account_id')
    BY <1>4 DEF ReceiveAccount
  <2> QED
    BY <1>2, <2>1 DEF Return
<1>5. CASE SessionIsValid
  BY <1>2, <1>5 DEF SessionIsValid
<1> QED
  BY <1>1, <1>3, <1>4, <1>5

(***************************************************************************)
(* The lines of the program.                                               *)
(***************************************************************************)
LEMMA NextLine ==
  /\ After(23) = 33 /\ After(33) = 46 /\ After(46) = 62 /\ After(62) = 72
  /\ After(88) = 105 /\ After(129) = 143 /\ After(143) = 156
<1>1. DOMAIN Lines = 1 .. 10
  BY DEF Lines
<1>2. \A i, j \in 1 .. 10 : Lines[i] = Lines[j] => i = j
  BY DEF Lines
<1>3. ASSUME NEW i \in 1 .. 9 PROVE After(Lines[i]) = Lines[i + 1]
  BY <1>1, <1>2 DEF After
<1>4. /\ Lines[1] = 23 /\ Lines[2] = 33 /\ Lines[3] = 46 /\ Lines[4] = 62
      /\ Lines[5] = 72 /\ Lines[6] = 88 /\ Lines[7] = 105 /\ Lines[8] = 129
      /\ Lines[9] = 143 /\ Lines[10] = 156
  BY DEF Lines
<1> HIDE DEF Lines, After
<1>5. After(23) = 33 /\ After(33) = 46 /\ After(46) = 62 /\ After(62) = 72
  BY <1>3, <1>4
<1>6. After(88) = 105 /\ After(129) = 143 /\ After(143) = 156
  BY <1>3, <1>4
<1> QED
  BY <1>5, <1>6

LEMMA RoundsType == Rounds \in Nat /\ Rounds > 0
BY PairsAssumption DEF Rounds

(* The orders of the line, should its call succeed. *)
OrdersOfLine == IF line \in {105, 129} THEN 1 ELSE 0

Failed ==
  exit' \in {"failure", "exception"} /\ UNCHANGED <<line, round, cancels>>

Passed ==
  /\ TradesDone' = TradesDone + OrdersOfLine
  /\ line' \in {169, 175} => line \in {156, 175} /\ Succeed

(* The program goes on to its next line, or ends. *)
LEMMA LineStep ==
  ASSUME LineInv, exit = "none", CallEnds, pc' = "idle",
         result'.status \in {"ok", "error", "throw"}
  PROVE  /\ LineInv'
         /\ IF result'.status = "ok" THEN Passed ELSE Failed
<1> DEFINE Goal == LineInv' /\ Passed
<1> USE RoundsType DEF LineInv, TradesDone, OrdersOfLine, AfterLoop, GoTo, Passed
<1>1. CASE result'.status # "ok"
  <2>1. Failed
    BY <1>1 DEF CallEnds, Stop, Failed
  <2> QED
    BY <1>1, <2>1 DEF Failed
<1>2. ASSUME result'.status = "ok" PROVE Goal
  <2>1. Succeed
    BY <1>2 DEF CallEnds
  <2>2. CASE line \in {23, 33, 46, 62, 88, 143}
    <3>1. line' = After(line) /\ UNCHANGED <<round, exit>>
      BY <2>1, <2>2 DEF Succeed
    <3> QED
      BY <2>2, <3>1, NextLine
  <2>3. CASE line = 72
    BY <2>1, <2>3 DEF Succeed
  <2>4. CASE line = 105
    <3>1. \/ line' = 129 /\ UNCHANGED <<round, exit>>
          \/ line' = 122 /\ exit' = "exception" /\ UNCHANGED round
      BY <2>1, <2>4 DEF Succeed
    <3> QED
      BY <2>4, <3>1
  <2>5. CASE line = 129 /\ round < Rounds
    <3>1. line' = 62 /\ round' = round + 1 /\ UNCHANGED exit
      BY <2>1, <2>5 DEF Succeed
    <3> QED
      BY <2>5, <3>1
  <2>6. CASE line = 129 /\ round = Rounds
    <3>1. line' = After(line) /\ UNCHANGED <<round, exit>>
      BY <2>1, <2>6 DEF Succeed
    <3> QED
      BY <2>6, <3>1, NextLine
  <2>7. CASE line \in {156, 175}
    <3>1. ASSUME NEW ids, CancelNext(ids) PROVE Goal
      <4>1. \/ line' = 169 /\ exit' = "success" /\ UNCHANGED round
            \/ line' = 175 /\ UNCHANGED <<round, exit>>
        BY <3>1 DEF CancelNext
      <4> QED
        BY <2>1, <2>7, <4>1
    <3>2. line = 175 => CancelNext(Tail(cancels))
      BY <2>1 DEF Succeed
    <3>3. line = 156 => ListReceived
      BY <2>1 DEF Succeed
    <3>4. ASSUME ListReceived PROVE Goal
      <4>1. CASE response.shape # "object"
        BY <3>1, <3>4, <4>1 DEF ListReceived
      <4>2. CASE response.shape = "object"
        <5>1. \E ids \in Orderings(IdsToCancel(ListOf(active))) : CancelNext(ids)
          BY <3>4, <4>2 DEF ListReceived
        <5> HIDE DEF Goal
        <5> QED
          BY <3>1, <5>1
      <4> QED
        BY <4>1, <4>2
    <3> QED
      BY <2>7, <3>1, <3>2, <3>3, <3>4
  <2> QED
    BY <2>2, <2>3, <2>4, <2>5, <2>6, <2>7
<1> QED
  BY <1>1, <1>2

(***************************************************************************)
(* The calls of the program.                                               *)
(***************************************************************************)
LEMMA CallOfLine ==
  ASSUME LineInv, exit = "none"
  PROVE  /\ CallAt.op \notin Checks
         /\ CallAt.op \in {"authenticate_session", "get_account_info",
                           "get_margin_info"} => CallAt = Op(CallAt.op)
         /\ CallAt.op = "trade_order" <=> line \in {105, 129}
         /\ line = 156 => CallAt.op = "list_active_orders"
         /\ line = 175 =>
              CallAt.op = "cancel_order" /\ CallAt.order_id = Head(cancels)
<1> USE DEF Checks
<1>1. line \in {23, 33, 46, 62, 72, 88, 105, 129, 143, 156, 175}
  BY DEF LineInv, AfterLoop
<1>2. CASE line \in {23, 33, 46}
  BY <1>2 DEF CallAt, Op
<1>3. CASE line \in {62, 72, 88}
  BY <1>3 DEF CallAt, Named, Prices, Ohlc
<1>4. CASE line = 105
  BY <1>4 DEF CallAt, Trade
<1>5. CASE line = 129
  BY <1>5 DEF CallAt, Trade
<1>6. CASE line \in {143, 156, 175}
  BY <1>6 DEF CallAt, Op
<1> QED
  BY <1>1, <1>2, <1>3, <1>4, <1>5, <1>6

LEMMA SameCall == ASSUME UNCHANGED programVars PROVE CallAt' = CallAt
BY DEF programVars, CallAt, Pair, LimitOrders, MarketOrders, Times, Op, Named,
       Prices, Ohlc, Trade, NoFields

(* A call that has not begun fails. *)
LEMMA CallStarts ==
  ASSUME LineInv, exit = "none", Calls(CallAt)
  PROVE  /\ Entered(CallAt)
         /\ \/ pc' = "idle" /\ result'.status \in {"error", "throw"}
            \/ pc' # "idle" /\ call' = CallAt
<1>1. Entered(CallAt)
  BY EnterCall DEF Calls
<1>2. CASE TurnedAway(CallAt)
  BY <1>1, <1>2, CallOfLine DEF TurnedAway
<1>3. CASE Asked(CallAt)
  BY <1>1, <1>3, CallOfLine DEF Asked
<1> QED
  BY <1>1, <1>2, <1>3 DEF Entered

LEMMA CallGoesOn ==
  ASSUME CallInv, Continue
  PROVE  /\ ClientStep /\ pc # "idle" /\ UNCHANGED historyVars
         /\ \/ pc' = "idle" /\ result'.status \in {"ok", "error", "throw"}
            \/ pc' # "idle" /\ call' = call
<1>1. CallShape /\ ClientStep /\ pc # "idle"
  BY DEF CallInv, Continue
<1>2. UNCHANGED historyVars
  BY <1>1, StepFrame DEF ClientFrame, Begun
<1> QED
  BY <1>1, <1>2, StepShape DEF Ended, Sent, PauseBeforeRetry

LEMMA LineRun ==
  ASSUME CallInv, LineInv, ProgramStep
  PROVE  LineInv'
<1>1. exit = "none" /\ CallEnds
  BY DEF ProgramStep
<1>2. \/ pc' = "idle" /\ result'.status \in {"ok", "error", "throw"}
      \/ pc' # "idle" /\ call' = CallAt
  <2>1. CASE pc = "idle" /\ Calls(CallAt)
    BY <1>1, <2>1, CallStarts
  <2>2. CASE Continue
    BY <2>2, CallGoesOn DEF LineInv
  <2> QED
    BY <2>1, <2>2 DEF ProgramStep
<1>3. CASE pc' = "idle"
  BY <1>1, <1>2, <1>3, LineStep
<1>4. CASE pc' # "idle"
  <2>1. UNCHANGED programVars
    BY <1>1, <1>4 DEF CallEnds
  <2>2. call' = CallAt'
    BY <1>2, <1>4, <2>1, SameCall
  <2> QED
    BY <1>1, <2>1, <2>2 DEF LineInv, programVars
<1> QED
  BY <1>3, <1>4

LEMMA ClientRun ==
  ASSUME CallInv, TypeInv, TradeInv, ProgramStep
  PROVE  TypeInv' /\ TradeInv'
<1>1. CASE Calls(CallAt)
  BY <1>1, EnterTypes, EnterTrades, EnterCall DEF Calls
<1>2. CASE Continue
  BY <1>2, TypeStep, TradeClient DEF Continue, Next
<1> QED
  BY <1>1, <1>2 DEF ProgramStep

LEMMA LineServer ==
  ASSUME LineInv, Serves(ServerStep)
  PROVE  LineInv'
<1>1. UNCHANGED <<call, pc>> /\ UNCHANGED programVars
  BY ServerStepFrame DEF Serves
<1> QED
  BY <1>1, SameCall DEF LineInv, programVars

LEMMA RunStutter ==
  ASSUME RunInv, UNCHANGED programsVars
  PROVE  RunInv'
<1>1. UNCHANGED <<vars, programVars, program, accountingVars>>
  BY DEF programsVars, testVars, benchVars, exampleOnly
<1>2. CASE program = "example"
  <2>1. TypeInv'
    BY <1>1, <1>2, TypeStutter DEF RunInv
  <2>2. TradeInv'
    BY <1>1, <1>2 DEF RunInv, vars, TradeInv, Executed, ErrorMeansNotPlaced,
                      Finished, callVars, historyVars
  <2>3. LineInv'
    BY <1>1, <1>2, SameCall DEF RunInv, vars, callVars, LineInv, programVars
  <2>4. program' = "example"
    BY <1>1, <1>2
  <2> QED
    BY <2>1, <2>2, <2>3, <2>4, Zenon DEF RunInv
<1>3. CASE program # "example"
  BY <1>1, <1>3 DEF RunInv, NoExample, programVars, accountingVars
<1> QED
  BY <1>2, <1>3

LEMMA RunInvariant == ProgramsSpec => []RunInv
<1>1. ProgramsInit => RunInv
  <2> SUFFICES ASSUME ProgramsInit PROVE RunInv
    OBVIOUS
  <2>1. CASE program = "example" /\ ExampleInit
    <3>1. TypeInv
      BY <2>1, TypeInit DEF ExampleInit
    <3>2. TradeInv
      BY <2>1 DEF ExampleInit, Init, TradeInv, Executed, ErrorMeansNotPlaced, Finished
    <3>3. LineInv
      <4>1. line = 23 /\ round = 1 /\ exit = "none" /\ pc = "idle"
        BY <2>1 DEF ExampleInit, Init
      <4> QED
        BY <4>1, RoundsType DEF LineInv, AfterLoop
    <3> QED
      BY <2>1, <3>1, <3>2, <3>3 DEF RunInv
  <2> QED
    BY <2>1 DEF ProgramsInit, RunInv
<1>2. CallInv /\ RunInv /\ [ProgramsNext]_programsVars => RunInv'
  <2> SUFFICES ASSUME CallInv, RunInv, ProgramsNext PROVE RunInv'
    BY RunStutter
  <2>1. CASE RunBench \/ RunTest
    BY <2>1 DEF RunBench, RunTest, RunInv, NoExample, exampleOnly, programVars,
                accountingVars
  <2>2. CASE RunExample
    BY <2>2, LineRun, ClientRun DEF RunExample, RunInv
  <2>3. CASE Service(ServerStep)
    <3>1. TypeInv' /\ TradeInv'
      BY <2>3, TypeStep, TradeServer DEF Service, Serves, RunInv, Next
    <3> QED
      BY <2>3, <3>1, LineServer DEF Service, RunInv
  <2> QED
    BY <2>1, <2>2, <2>3 DEF ProgramsNext
<1> QED
  BY CallInvariant, <1>1, <1>2, PTL DEF ProgramsSpec

(***************************************************************************)
(* The server's answers and its books.                                     *)
(***************************************************************************)
LEMMA AnswerShapes ==
  ASSUME ServerStep
  PROVE  \/ UNCHANGED <<response, lost>>
         \/ /\ Pending /\ UNCHANGED lost
            /\ response'.shape = "object" <=> response'.status = 200
         \/ response.shape = "object" /\ lost' /\ response'.shape # "object"
<1> USE DEF Serve, Reply, Fields, Disturb, historyVars
<1>1. CASE ServeLogin \/ ServeValidate \/ ServeOther
  BY <1>1 DEF ServeLogin, ServeValidate, ServeOther
<1>2. CASE ServeAccount
  BY <1>2 DEF ServeAccount
<1>3. CASE ServeMarket \/ ServeTick
  BY <1>3 DEF ServeMarket, ServeTick
<1>4. CASE ServeOrder
  BY <1>4 DEF ServeOrder
<1>5. CASE Unauthorised \/ FailExchange
  BY <1>5 DEF Unauthorised, FailExchange
<1>6. CASE SpoilAnswer
  <2>1. response.shape = "object" /\ response'.shape # "object"
    BY <1>6 DEF SpoilAnswer
  <2>2. lost'
    BY <1>6, Zenon DEF SpoilAnswer
  <2> QED
    BY <2>1, <2>2
<1>7. CASE Expire
  BY <1>7 DEF Expire, callVars
<1> QED
  BY <1>1, <1>2, <1>3, <1>4, <1>5, <1>6, <1>7 DEF ServerStep, Exchange

(* What a step of the server does to its orders. *)
Booked ==
  \/ /\ placed' = placed + 1 /\ executed' = executed + 1 /\ pc = "order"
     /\ \/ UNCHANGED active
        \/ \E kind \in OrderKinds :
             active' = active \cup {[kind |-> kind, id |-> executed']}
  \/ /\ UNCHANGED <<placed, executed>>
     /\ \/ /\ request.url = "cancel_order" /\ Pending /\ response'.status = 200
           /\ active' = {o \in active : o.id # call.order_id}
        \/ /\ ~(request.url = "cancel_order" /\ Pending /\ response'.status = 200)
           /\ UNCHANGED active

LEMMA ServerBooks ==
  ASSUME TypeInv, executed \in Nat, Serves(ServerStep)
  PROVE  Booked
<1>1. placed \in Nat
  BY DEF TypeInv, TypeOK, WorldTypeOK
<1>2. CASE placed' = placed + 1 /\ ServeOrder
  <2>1. pc = "order"
    BY <1>2, OrderUrl DEF ServeOrder, Serve
  <2>2. executed' = executed + 1 /\ placed' > placed
    BY <1>1, <1>2 DEF Serves, Bookkeeping
  <2> DEFINE new == [kind |-> KindOf(request.url), id |-> executed']
  <2>3. active' = active \/ active' = active \cup {new}
    <3>1. request.url # "cancel_order"
      BY <1>2 DEF ServeOrder, Serve, OrderUrls
    <3> QED
      BY <2>2, <3>1 DEF Serves, Bookkeeping
  <2>4. KindOf(request.url) \in OrderKinds
    BY DEF KindOf, OrderKinds
  <2> QED
    BY <1>2, <2>1, <2>2, <2>3, <2>4 DEF Booked
<1>3. CASE UNCHANGED placed
  <2>1. UNCHANGED executed /\ ~(placed' > placed)
    BY <1>1, <1>3 DEF Serves, Bookkeeping
  <2>2. \/ /\ request.url = "cancel_order" /\ Pending /\ response'.status = 200
           /\ active' = {o \in active : o.id # call.order_id}
        \/ /\ ~(request.url = "cancel_order" /\ Pending /\ response'.status = 200)
           /\ UNCHANGED active
    BY <2>1 DEF Serves, Bookkeeping
  <2> QED
    BY <1>3, <2>1, <2>2 DEF Booked
<1> QED
  BY <1>2, <1>3, ServerPlaced DEF Serves

(* The books stay finite, and are numbered by the orders executed. *)
LEMMA BooksType ==
  ASSUME Booked, executed \in Nat, IsFiniteSet(active),
         active \subseteq [kind : OrderKinds, id : Nat]
  PROVE  /\ executed' \in Nat /\ IsFiniteSet(active')
         /\ active' \subseteq [kind : OrderKinds, id : Nat]
<1>1. ASSUME NEW kind \in OrderKinds, executed' = executed + 1,
             active' = active \cup {[kind |-> kind, id |-> executed']}
      PROVE  IsFiniteSet(active') /\ active' \subseteq [kind : OrderKinds, id : Nat]
  <2>1. IsFiniteSet(active')
    BY <1>1, FS_AddElement
  <2> QED
    BY <1>1, <2>1
<1>2. ASSUME active' = {o \in active : o.id # call.order_id}
      PROVE  IsFiniteSet(active') /\ active' \subseteq [kind : OrderKinds, id : Nat]
  <2>1. active' \subseteq active
    BY <1>2
  <2> QED
    BY <2>1, FS_Subset
<1>3. CASE UNCHANGED active
  BY <1>3 DEF Booked
<1> QED
  BY <1>1, <1>2, <1>3 DEF Booked

LEMMA CancelsServer ==
  ASSUME TypeInv, TradeInv, LineInv, CancelsInv, Serves(ServerStep)
  PROVE  CancelsInv'
<1>1. /\ UNCHANGED <<call, pc, request>>
      /\ UNCHANGED <<programVars, form>>
  BY ServerStepFrame DEF Serves, Bookkeeping
<1> USE DEF programVars
<1>2. Booked
  BY ServerBooks DEF CancelsInv
<1>3. CallTypeOK /\ ServerStep
  BY DEF TypeInv, TypeOK, Serves
<1>4. /\ response'.shape = "object" => response'.status = 200
      /\ response'.status = 200 => response'.shape = "object" \/ lost'
  BY <1>3, AnswerShapes DEF CancelsInv
<1>5. /\ executed' \in Nat /\ IsFiniteSet(active')
      /\ active' \subseteq [kind : OrderKinds, id : Nat]
  BY <1>2, BooksType DEF CancelsInv
<1>6. ASSUME line = 175
      PROVE  /\ pc' = "direct" => request'.url = "cancel_order"
             /\ form = "array" =>
                  /\ active' \subseteq active
                  /\ pc = "direct" /\ response'.status = 200 =>
                       \A o \in active' : o.id # Head(cancels)
  <2>1. pc # "idle" => /\ call.op = "cancel_order"
                       /\ call.order_id = Head(cancels)
    BY <1>6, CallOfLine DEF LineInv
  <2>2. pc # "order"
    BY <2>1 DEF TradeInv
  <2>3. active' \subseteq active
    BY <1>2, <2>2 DEF Booked
  <2>4. pc = "direct" => request.url = "cancel_order"
    BY <1>6 DEF CancelsInv
  <2>5. ASSUME form = "array", pc = "direct", response'.status = 200
        PROVE  \A o \in active' : o.id # Head(cancels)
    <3>1. CASE Pending
      <4>1. active' = {o \in active : o.id # call.order_id}
        BY <1>2, <2>2, <2>4, <2>5, <3>1 DEF Booked
      <4> QED
        BY <2>1, <2>5, <4>1
    <3>2. CASE ~Pending
      <4>1. response.status = 200
        BY <1>3, <2>5, <3>2, AnswerShapes DEF CancelsInv
      <4> QED
        BY <1>6, <2>3, <2>5, <4>1 DEF CancelsInv
    <3> QED
      BY <3>1, <3>2
  <2> QED
    BY <1>1, <2>3, <2>4, <2>5
<1>7. ListedOrdersCancelled'
  <2> SUFFICES ASSUME exit = "success", form = "array", ~lost' PROVE active' = {}
    BY <1>1 DEF ListedOrdersCancelled
  <2>1. pc = "idle" /\ request = NoRequest /\ response = NoAnswer
    BY <1>3 DEF LineInv, CallTypeOK
  <2>2. UNCHANGED <<active, lost>>
    BY <1>2, <1>3, <2>1, AnswerShapes DEF Booked, Pending
  <2> QED
    BY <2>2 DEF CancelsInv, ListedOrdersCancelled
<1> QED
  BY <1>1, <1>4, <1>5, <1>6, <1>7 DEF CancelsInv

(***************************************************************************)
(* The list of the active orders.                                          *)
(***************************************************************************)
LEMMA ListedIds ==
  ASSUME form = "array", active \subseteq [kind : OrderKinds, id : Nat]
  PROVE  IdsToCancel(ListOf(active)) = {o.id : o \in active}
<1> DEFINE Picked(kind) == {x \in Elements(ListOf(active)) : Contains(x, kind)}
<1>1. Elements(ListOf(active)) = {Entry(o) : o \in active}
  BY DEF Elements, ListOf
<1>2. ASSUME NEW o \in active, NEW kind
      PROVE  /\ Contains(Entry(o), kind) <=> kind = o.kind
             /\ Entry(o).member[o.kind] = o.id
  BY DEF Contains, Entry
<1>3. ASSUME NEW kind \in OrderKinds, NEW x \in Picked(kind)
      PROVE  x.member[kind] \in {o.id : o \in active}
  <2>1. PICK o \in active : x = Entry(o)
    BY <1>1
  <2> QED
    BY <1>2, <2>1
<1>4. ASSUME NEW o \in active
      PROVE  \E kind \in OrderKinds : \E x \in Picked(kind) : o.id = x.member[kind]
  <2>1. o.kind \in OrderKinds /\ Entry(o) \in Picked(o.kind)
    BY <1>1, <1>2
  <2> QED
    BY <1>2, <2>1
<1> HIDE DEF Picked
<1>5. IdsToCancel(ListOf(active)) =
        UNION {{x.member[kind] : x \in Picked(kind)} : kind \in OrderKinds}
  BY DEF IdsToCancel, Picked
<1> QED
  BY <1>3, <1>4, <1>5

LEMMA OrderingCovers ==
  ASSUME NEW S, IsFiniteSet(S), S \subseteq Nat, NEW s \in Orderings(S)
  PROVE  /\ s \in Seq(Nat)
         /\ \A x \in S : \E i \in 1 .. Len(s) : s[i] = x
<1>1. Cardinality(S) \in Nat
  BY FS_CardinalityType
<1>2. s \in [1 .. Cardinality(S) -> S] /\ {s[i] : i \in DOMAIN s} = S
  BY DEF Orderings
<1>3. s \in Seq(Nat) /\ DOMAIN s = 1 .. Len(s)
  <2> DEFINE n == Cardinality(S)
  <2>1. n \in Nat /\ s \in [1 .. n -> Nat]
    BY <1>1, <1>2
  <2> HIDE DEF n
  <2> QED
    BY <2>1
<1> QED
  BY <1>2, <1>3

LEMMA ActiveOrdering ==
  ASSUME CancelsInv, form = "array",
         NEW s \in Orderings(IdsToCancel(ListOf(active)))
  PROVE  /\ s \in Seq(Nat)
         /\ \A o \in active : \E i \in 1 .. Len(s) : s[i] = o.id
<1> DEFINE S == {o.id : o \in active}
<1>1. IsFiniteSet(active) /\ active \subseteq [kind : OrderKinds, id : Nat]
  BY DEF CancelsInv
<1>2. IsFiniteSet(S)
  <2> DEFINE f == [o \in active |-> o.id]
  <2>1. f \in Surjection(active, S)
    BY DEF Surjection
  <2> QED
    BY <1>1, <2>1, FS_Surjection
<1>3. S \subseteq Nat
  BY <1>1
<1>4. s \in Orderings(S)
  BY <1>1, ListedIds
<1>5. \A o \in active : o.id \in S
  OBVIOUS
<1> HIDE DEF S
<1> QED
  BY <1>2, <1>3, <1>4, <1>5, OrderingCovers

(* The numbers left to cancel cover what is active: with none left nothing *)
(* is.                                                                     *)
CancelsLeft(ids) ==
  ids \in Seq(Nat) /\ \A o \in active : \E i \in 1 .. Len(ids) : ids[i] = o.id

LEMMA CancelsStep ==
  ASSUME CallInv, TypeInv, LineInv, CancelsInv, Continue, exit = "none",
         pc' = "idle", result'.status = "ok", Succeed, form = "array",
         line \in {156, 175}
  PROVE  \E ids : CancelNext(ids) /\ (CancelsLeft(ids) \/ (ids = <<>> /\ lost))
<1>1. call = CallAt /\ ClientStep /\ pc # "idle"
  BY CallGoesOn DEF LineInv
<1>2. call.op \in Guarded
  BY <1>1, CallOfLine DEF Guarded
<1>3. pc = "direct" /\ response.status = 200
  BY <1>1, <1>2, GuardedSucceeds DEF Ending, ReceiveDirect
<1>4. CASE line = 156
  <2>1. ListReceived
    BY <1>4 DEF Succeed
  <2>2. CASE response.shape # "object"
    <3>1. CancelNext(<<>>)
      BY <2>1, <2>2 DEF ListReceived
    <3>2. lost
      BY <1>3, <2>2 DEF CancelsInv
    <3> QED
      BY <3>1, <3>2
  <2>3. CASE response.shape = "object"
    <3>1. PICK ids \in Orderings(IdsToCancel(ListOf(active))) : CancelNext(ids)
      BY <2>1, <2>3 DEF ListReceived
    <3>2. CancelsLeft(ids)
      BY <3>1, ActiveOrdering DEF CancelsLeft
    <3> QED
      BY <3>1, <3>2
  <2> QED
    BY <2>2, <2>3
<1>5. CASE line = 175
  <2>1. CancelNext(Tail(cancels))
    BY <1>5 DEF Succeed
  <2>2. /\ cancels \in Seq(Nat) /\ cancels # <<>>
        /\ \A o \in active : \E i \in 1 .. Len(cancels) : cancels[i] = o.id
        /\ \A o \in active : o.id # Head(cancels)
    BY <1>3, <1>5 DEF CancelsInv
  <2>3. ASSUME NEW o \in active
        PROVE  \E i \in 1 .. Len(Tail(cancels)) : Tail(cancels)[i] = o.id
    <3>1. PICK i \in 1 .. Len(cancels) : cancels[i] = o.id
      BY <2>2
    <3>2. i # 1
      BY <2>2, <3>1
    <3>3. i - 1 \in 1 .. Len(Tail(cancels)) /\ Tail(cancels)[i - 1] = cancels[i]
      BY <2>2, <3>2
    <3> QED
      BY <3>1, <3>3
  <2>4. Tail(cancels) \in Seq(Nat)
    BY <2>2
  <2>5. CancelsLeft(Tail(cancels))
    BY <2>3, <2>4 DEF CancelsLeft
  <2> QED
    BY <2>1, <2>5
<1> QED
  BY <1>4, <1>5

LEMMA CancelsRun ==
  ASSUME CallInv, TypeInv, LineInv, CancelsInv, ProgramStep
  PROVE  CancelsInv'
<1>1. exit = "none" /\ CallEnds /\ UNCHANGED <<form, active, executed>>
  BY DEF ProgramStep
<1>2. response' = NoAnswer
  <2>1. CASE Calls(CallAt)
    BY <1>1, <2>1, CallStarts DEF Entered, TurnedAway, Asked
  <2>2. CASE Continue
    BY <2>2, CallGoesOn, StepShape DEF CallInv, Ended, Sent, PauseBeforeRetry
  <2> QED
    BY <2>1, <2>2 DEF ProgramStep
<1> DEFINE Cancels ==
             form = "array" /\ line = 175 =>
               /\ cancels \in Seq(Nat) /\ cancels # <<>>
               /\ \A o \in active : \E i \in 1 .. Len(cancels) : cancels[i] = o.id
<1>3. Cancels
  BY DEF CancelsInv
<1>4. ASSUME Cancels', ListedOrdersCancelled',
             line' = 175 /\ pc' = "direct" => request'.url = "cancel_order"
      PROVE  CancelsInv'
  BY <1>1, <1>2, <1>4 DEF CancelsInv, accountingVars
<1>5. ASSUME pc' # "idle" PROVE CancelsInv'
  <2>1. UNCHANGED programVars
    BY <1>1, <1>5 DEF CallEnds
  <2>2. Cancels' /\ ListedOrdersCancelled'
    BY <1>1, <1>3, <2>1 DEF programVars, accountingVars, ListedOrdersCancelled
  <2>3. ASSUME line' = 175, pc' = "direct" PROVE request'.url = "cancel_order"
    <3>1. line = 175 /\ CallAt.op = "cancel_order"
      BY <1>1, <2>1, <2>3, CallOfLine DEF programVars
    <3>2. CASE Calls(CallAt)
      BY <1>1, <2>3, <3>1, <3>2, CallStarts
         DEF Entered, TurnedAway, Asked, Guarded
    <3>3. CASE Continue
      <4>1. call' = call /\ call = CallAt /\ ClientStep /\ pc # "idle"
        BY <1>5, <3>3, CallGoesOn DEF LineInv
      <4> QED
        BY <2>3, <3>1, <4>1, GuardedRequestSent DEF TypeInv, TypeOK, Guarded
    <3> QED
      BY <3>2, <3>3 DEF ProgramStep
  <2> QED
    BY <1>4, <2>2, <2>3
<1>6. ASSUME pc' = "idle" PROVE CancelsInv'
  <2>1. \/ Calls(CallAt) /\ result'.status \in {"error", "throw"}
        \/ Continue /\ result'.status \in {"ok", "error", "throw"}
    BY <1>1, <1>6, CallStarts, CallGoesOn DEF ProgramStep
  <2>2. /\ LineInv'
        /\ IF result'.status = "ok" THEN Passed ELSE Failed
    BY <1>1, <1>6, <2>1, LineStep
  <2>3. CASE line' \notin {169, 175}
    BY <1>4, <1>6, <2>2, <2>3 DEF LineInv, ListedOrdersCancelled
  <2>4. CASE Failed
    BY <1>1, <1>3, <1>4, <1>6, <2>4
       DEF Failed, ListedOrdersCancelled, accountingVars
  <2>5. CASE ~Failed /\ line' \in {169, 175} /\ form = "array"
    <3>1. /\ Continue /\ result'.status = "ok"
          /\ line \in {156, 175} /\ Succeed
      BY <2>1, <2>2, <2>5 DEF Passed
    <3>2. PICK ids : CancelNext(ids) /\ (CancelsLeft(ids) \/ (ids = <<>> /\ lost))
      BY <1>1, <1>6, <2>5, <3>1, CancelsStep
    <3>3. lost' = lost
      BY <3>1, CallGoesOn DEF historyVars
    <3>4. CASE ids = <<>>
      <4>1. active = {} \/ lost'
        BY <3>2, <3>3, <3>4 DEF CancelsLeft
      <4>2. line' = 169
        BY <3>2, <3>4 DEF CancelNext
      <4> QED
        BY <1>1, <1>4, <1>6, <4>1, <4>2 DEF ListedOrdersCancelled, accountingVars
    <3>5. CASE ids # <<>>
      <4>1. line' = 175 /\ cancels' = ids /\ exit' = "none" /\ CancelsLeft(ids)
        BY <1>1, <3>2, <3>5 DEF CancelNext, GoTo
      <4> QED
        BY <1>1, <1>4, <1>6, <3>5, <4>1
           DEF ListedOrdersCancelled, accountingVars, CancelsLeft
    <3> QED
      BY <3>4, <3>5
  <2>6. CASE form # "array"
    BY <1>1, <1>4, <1>6, <2>6 DEF ListedOrdersCancelled, accountingVars
  <2> QED
    BY <2>3, <2>4, <2>5, <2>6
<1> QED
  BY <1>5, <1>6

(***************************************************************************)
(* The orders executed.  A refusal that is not misleading has an OrderId   *)
(* that is the number 0 and no integer, which makes the loop go on.        *)
(***************************************************************************)
LEMMA RefusalRead ==
  ASSUME NEW id \in RefusalIds, OrderDone([OrderId |-> id])
  PROVE  id.type = "absent" \/ id = [type |-> "integer", num |-> 0]
<1>1. CASE id \in [type : {"integer", "float"}, num : {0}]
  <2>1. id.num = 0 /\ id.type \in {"integer", "float"}
    BY <1>1
  <2>2. id.type = "integer"
    BY <2>1 DEF OrderDone, IsZero
  <2> QED
    BY <1>1, <2>1, <2>2
<1>2. CASE id \in [type : {"absent"}]
  BY <1>2
<1> QED
  BY <1>1, <1>2, RefusalAssumption

LEMMA OrderReply ==
  ASSUME TypeInv, TradeInv, ServerStep, pc = "order",
         ~(UNCHANGED <<response, placed>>)
  PROVE  Replied' /\ OrderDone(response'.json) =>
           placed' = IF Misleading' THEN 0 ELSE 1
<1>1. /\ request.url \in OrderUrls /\ CallTypeOK /\ pc' = "order"
  BY ServerStepFrame DEF TypeInv, TypeOK, RequestOK
<1>2. CASE ServeOrder
  <2>1. placed = 0
    BY <1>2 DEF ServeOrder, Serve, Pending, TradeInv, Executed
  <2>2. CASE /\ Reply([OrderId |-> [type |-> "integer", num |-> 1]])
             /\ placed' = placed + 1
    <3>1. response'.json.OrderId = [type |-> "integer", num |-> 1]
      BY <2>2 DEF Reply, Answer
    <3>2. ~Misleading'
      BY <3>1 DEF Misleading
    <3> QED
      BY <2>1, <2>2, <3>2
  <2>3. CASE (\E id \in RefusalIds : Reply([OrderId |-> id])) /\ UNCHANGED placed
    <3>1. PICK id \in RefusalIds : Reply([OrderId |-> id])
      BY <2>3
    <3>2. response'.json = [OrderId |-> id] /\ response'.json.OrderId = id
      BY <3>1 DEF Reply, Answer
    <3>3. Replied' /\ OrderDone(response'.json) => Misleading'
      BY <1>1, <3>2, RefusalRead DEF Misleading
    <3> QED
      BY <2>1, <2>3, <3>3
  <2> QED
    BY <1>2, <2>2, <2>3 DEF ServeOrder
<1>3. CASE Unauthorised \/ FailExchange
  BY <1>3 DEF Unauthorised, FailExchange
<1>4. CASE SpoilAnswer
  BY <1>4 DEF SpoilAnswer
<1>5. ~Expire
  BY DEF Expire, callVars
<1>6. ~ServeLogin /\ ~ServeValidate /\ ~ServeOther
  BY <1>1 DEF ServeLogin, ServeValidate, ServeOther, Serve, OrderUrls
<1>7. ~ServeAccount /\ ~ServeMarket /\ ~ServeTick
  BY <1>1 DEF ServeAccount, ServeMarket, ServeTick, Serve, OrderUrls
<1> QED
  BY <1>2, <1>3, <1>4, <1>5, <1>6, <1>7 DEF ServerStep, Exchange

LEMMA TradesCount ==
  ASSUME LineInv
  PROVE  TradesDone \in Nat /\ (line = 169 => TradesDone = 2 * Rounds)
BY RoundsType DEF LineInv, AfterLoop, TradesDone

LEMMA OrdersServer ==
  ASSUME TypeInv, TradeInv, LineInv, OrdersInv, executed \in Nat,
         Serves(ServerStep)
  PROVE  OrdersInv'
<1>1. /\ UNCHANGED <<call, pc, request>> /\ UNCHANGED programVars /\ ServerStep
      /\ UNCHANGED misled
  BY ServerStepFrame DEF Serves, Bookkeeping
<1>2. CallTypeOK /\ placed \in Nat /\ TradesDone \in Nat /\ misled \in Nat
  BY TradesCount DEF TypeInv, TypeOK, WorldTypeOK, OrdersInv
<1>3. Booked
  BY ServerBooks
<1>4. TradesDone' = TradesDone
  BY <1>1 DEF TradesDone, programVars
<1>5. pc # "idle" => executed' + misled = TradesDone + placed'
  BY <1>2, <1>3 DEF OrdersInv, Booked
<1>6. Executed' /\ Replied' /\ OrderDone(response'.json) =>
        placed' = IF Misleading' THEN 0 ELSE 1
  <2>1. CASE UNCHANGED <<response, placed>>
    <3>1. (Misleading' <=> Misleading) /\ (Replied' <=> Replied) /\ (Executed' <=> Executed)
      BY <1>1, <2>1 DEF Misleading, Replied, Executed, Arrived
    <3> QED
      BY <2>1, <3>1 DEF OrdersInv
  <2>2. CASE ~(UNCHANGED <<response, placed>>)
    BY <1>1, <2>2, OrderReply DEF Executed
  <2> QED
    BY <2>1, <2>2
<1>7. pc = "idle" => UNCHANGED <<executed, lost>>
  BY <1>1, <1>2, <1>3, AnswerShapes DEF CallTypeOK, Pending, Booked
<1>8. line = 169 \/ exit = "success" => pc = "idle"
  BY DEF LineInv
<1> QED
  BY <1>1, <1>4, <1>5, <1>6, <1>7, <1>8 DEF OrdersInv, ExitTellsOrders, programVars

(* A misleading refusal makes the call succeed. *)
LEMMA MisledSucceeds ==
  ASSUME CallInv, Continue, Misleading
  PROVE  OrderTaken /\ pc' = "idle" /\ result'.status = "ok"
<1>1. /\ ClientStep /\ pc = "order" /\ OrderDone(response.json)
      /\ Ok(response) /\ response.shape = "object" /\ CallShape
  BY DEF Continue, CallInv, Misleading, Replied, OrderDone, IsZero
<1>2. ~SessionGoesOn
  BY <1>1 DEF SessionGoesOn, BeginLogin, RefuseLogin, ReceiveLogin,
              LoginReceived, ReceiveAccount, SessionIsValid, CallInv, PlacesOf, Guarded
<1>3. /\ ~MarketMissing /\ ~ReceiveMarket /\ ~CallFails /\ ~CallThrows
      /\ ~ReceiveDirect /\ ~ReceiveTradeMarket
  BY <1>1 DEF MarketMissing, ReceiveMarket, CallFails, CallThrows, ReceiveDirect,
              ReceiveTradeMarket, LearnMarket
<1>4. LoopGoesOn => OrderTaken
  BY <1>1 DEF LoopGoesOn, ReceiveBid, PricesFail, PricesThrow, PricesMissing,
              HavePrices, PlaceOrder, PauseBeforeRetry, Retry, TimeExpired
<1>5. OrderTaken
  BY <1>1, <1>2, <1>3, <1>4, GoesOn
<1> QED
  BY <1>5 DEF OrderTaken, Return

(* An order succeeds when it was executed, or the refusal misled, and     *)
(* nothing else executes one.                                             *)
LEMMA OrdersSucceed ==
  ASSUME CallInv, TradeInv, LineInv, OrdersInv, Continue, exit = "none",
         pc' = "idle", result'.status = "ok"
  PROVE  placed + (IF Misleading THEN 1 ELSE 0) = OrdersOfLine
<1>1. ClientStep /\ Ending /\ call = CallAt
  BY CallGoesOn DEF Ending, LineInv
<1>2. CASE line \in {105, 129}
  <2>1. OrderTaken
    BY <1>1, <1>2, CallOfLine, TradeSucceeds
  <2> QED
    BY <1>2, <2>1 DEF OrderTaken, OrdersInv, Executed, OrdersOfLine
<1>3. CASE line \notin {105, 129}
  <2>1. pc # "order" /\ pc # "idle"
    BY <1>1, <1>3, CallOfLine DEF TradeInv, Ending
  <2> QED
    BY <1>3, <2>1 DEF TradeInv, Executed, OrdersOfLine, Misleading
<1> QED
  BY <1>2, <1>3

LEMMA OrdersRun ==
  ASSUME CallInv, TypeInv, TradeInv, LineInv, OrdersInv, executed \in Nat,
         ProgramStep
  PROVE  OrdersInv'
<1>1. /\ exit = "none" /\ CallEnds /\ UNCHANGED executed
      /\ misled' = misled + (IF Misleading THEN 1 ELSE 0)
      /\ misled \in Nat /\ misled' \in Nat
  BY DEF ProgramStep, OrdersInv
<1>2. line # 169 /\ TradesDone \in Nat /\ LineInv' /\ TradeInv'
  BY <1>1, TradesCount, LineRun, ClientRun DEF LineInv
<1>3. response' = NoAnswer
  <2>1. CASE Calls(CallAt)
    BY <1>1, <2>1, CallStarts DEF Entered, TurnedAway, Asked
  <2>2. CASE Continue
    BY <2>2, CallGoesOn, StepShape DEF CallInv, Ended, Sent, PauseBeforeRetry
  <2> QED
    BY <2>1, <2>2 DEF ProgramStep
<1>4. CASE pc' # "idle"
  <2>1. UNCHANGED programVars /\ TradesDone' = TradesDone
    BY <1>1, <1>4 DEF CallEnds, programVars, TradesDone
  <2>2. ~Misleading /\ misled' = misled
    BY <1>1, <1>4, MisledSucceeds DEF ProgramStep, Misleading
  <2>3. executed + misled' = TradesDone + placed'
    <3>1. CASE pc = "idle" /\ Calls(CallAt)
      <4>1. placed' = 0
        BY <1>1, <3>1, CallStarts DEF Entered, Begun
      <4> QED
        BY <1>1, <1>2, <2>2, <3>1, <4>1 DEF OrdersInv, ExitTellsOrders
    <3>2. CASE Continue
      BY <2>2, <3>2, CallGoesOn DEF OrdersInv, historyVars
    <3> QED
      BY <3>1, <3>2 DEF ProgramStep
  <2> QED
    BY <1>1, <1>2, <1>3, <1>4, <2>1, <2>3
       DEF OrdersInv, Executed, ExitTellsOrders, programVars
<1>5. ASSUME pc' = "idle", executed + misled' = TradesDone', line' # 169 => exit' # "success"
      PROVE  OrdersInv'
  <2>1. line' = 169 => TradesDone' = 2 * Rounds
    BY <1>2, RoundsType DEF LineInv, AfterLoop, TradesDone
  <2>2. executed' = executed /\ (exit' = "success" <=> line' = 169)
    BY <1>1, <1>2 DEF LineInv
  <2>3. ExitTellsOrders'
    BY <1>5, <2>1, <2>2 DEF ExitTellsOrders
  <2> QED
    BY <1>1, <1>3, <1>5, <2>2, <2>3 DEF OrdersInv, Executed
<1>6. CASE pc' = "idle" /\ pc = "idle" /\ Calls(CallAt)
  <2>1. result'.status \in {"error", "throw"}
    BY <1>1, <1>6, CallStarts
  <2>2. Failed
    BY <1>1, <1>6, <2>1, LineStep
  <2>3. TradesDone' = TradesDone /\ executed + misled' = TradesDone
    BY <1>1, <1>6, <2>2 DEF Failed, TradesDone, OrdersInv, ExitTellsOrders, Misleading
  <2> QED
    BY <1>5, <1>6, <2>2, <2>3 DEF Failed
<1>7. CASE pc' = "idle" /\ Continue
  <2>1. /\ result'.status \in {"ok", "error", "throw"} /\ pc # "idle"
        /\ executed + misled = TradesDone + placed /\ UNCHANGED historyVars
    BY <1>7, CallGoesOn DEF OrdersInv
  <2>2. IF result'.status = "ok" THEN Passed ELSE Failed
    BY <1>1, <1>7, <2>1, LineStep
  <2>3. CASE result'.status = "ok"
    <3>1. executed + misled' = TradesDone'
      <4>1. placed + (IF Misleading THEN 1 ELSE 0) = OrdersOfLine
        BY <1>1, <1>7, <2>3, OrdersSucceed
      <4>2. TradesDone' = TradesDone + OrdersOfLine
        BY <2>2, <2>3 DEF Passed
      <4>3. placed \in Nat /\ executed \in Nat
        BY DEF TypeInv, TypeOK, WorldTypeOK
      <4> QED
        BY <1>1, <1>2, <2>1, <4>1, <4>2, <4>3
    <3> QED
      BY <1>2, <1>5, <1>7, <3>1 DEF LineInv
  <2>4. CASE result'.status # "ok"
    <3>1. Failed /\ TradesDone' = TradesDone /\ misled' = misled
      BY <1>1, <1>7, <2>2, <2>4, MisledSucceeds DEF Failed, TradesDone
    <3>2. placed = 0 \/ (placed = 1 /\ lost')
      <4>1. pc # "order" => placed = 0
        BY <2>1 DEF TradeInv, Executed
      <4>2. pc = "order" => result'.op = "trade_order"
        BY <1>7, <2>1, CallGoesOn, StepShape
           DEF TradeInv, CallInv, Ended, Sent, PauseBeforeRetry
      <4> QED
        BY <1>2, <1>7, <2>1, <2>4, <4>1, <4>2
           DEF TradeInv, ErrorMeansNotPlaced, Finished, historyVars
    <3> QED
      BY <1>1, <1>2, <1>3, <1>7, <2>1, <3>1, <3>2
         DEF OrdersInv, Executed, ExitTellsOrders, Failed
  <2> QED
    BY <2>3, <2>4
<1> QED
  BY <1>4, <1>6, <1>7 DEF ProgramStep

(***************************************************************************)
(* What a run of the example leaves behind.                                *)
(***************************************************************************)
LEMMA CancelsStart == ASSUME ExampleInit PROVE CancelsInv
<1>1. /\ response = NoAnswer /\ executed = 0 /\ active = {}
      /\ line = 23 /\ exit = "none"
  BY DEF ExampleInit, Init
<1>2. IsFiniteSet({})
  BY FS_EmptySet
<1> QED
  BY <1>1, <1>2 DEF CancelsInv, ListedOrdersCancelled

LEMMA OrdersStart == ASSUME ExampleInit PROVE OrdersInv
<1>1. /\ response = NoAnswer /\ pc = "idle" /\ executed = 0 /\ misled = 0
      /\ line = 23 /\ round = 1 /\ exit = "none"
  BY DEF ExampleInit, Init
<1>2. TradesDone = 0
  BY <1>1 DEF TradesDone
<1> QED
  BY <1>1, <1>2 DEF OrdersInv, ExitTellsOrders

LEMMA CancelsInvariant ==
  ProgramsSpec => [](program = "example" => CancelsInv)
<1> DEFINE I == program = "example" => CancelsInv
<1>1. ProgramsInit => I
  BY CancelsStart DEF ProgramsInit
<1>2. CallInv /\ RunInv /\ I /\ [ProgramsNext]_programsVars => I'
  <2> SUFFICES ASSUME CallInv, RunInv, I, [ProgramsNext]_programsVars,
                      program' = "example"
               PROVE  CancelsInv'
    OBVIOUS
  <2>1. CASE RunExample
    BY <2>1, CancelsRun DEF RunExample, RunInv
  <2>2. CASE Service(ServerStep)
    BY <2>2, CancelsServer DEF Service, RunInv
  <2>3. CASE UNCHANGED programsVars
    <3>1. /\ UNCHANGED <<response, lost, pc, request>> /\ program = "example"
          /\ UNCHANGED <<line, exit, cancels, form, active, executed>>
      BY <2>3 DEF programsVars, testVars, benchVars, vars, callVars, historyVars,
                  exampleOnly, programVars, accountingVars
    <3> QED
      BY <3>1 DEF CancelsInv, ListedOrdersCancelled
  <2> QED
    BY <2>1, <2>2, <2>3 DEF ProgramsNext, RunBench, RunTest
<1> HIDE DEF I
<1>3. ProgramsSpec => []I
  BY CallInvariant, RunInvariant, <1>1, <1>2, PTL DEF ProgramsSpec
<1> QED
  BY <1>3 DEF I

LEMMA OrdersInvariant ==
  ProgramsSpec => [](program = "example" => OrdersInv)
<1> DEFINE I == program = "example" => OrdersInv
<1> DEFINE C == program = "example" => CancelsInv
<1>1. ProgramsInit => I
  BY OrdersStart DEF ProgramsInit
<1>2. CallInv /\ RunInv /\ C /\ I /\ [ProgramsNext]_programsVars => I'
  <2> SUFFICES ASSUME CallInv, RunInv, C, I, [ProgramsNext]_programsVars,
                      program' = "example"
               PROVE  OrdersInv'
    OBVIOUS
  <2>1. CASE RunExample
    BY <2>1, OrdersRun DEF RunExample, RunInv, CancelsInv
  <2>2. CASE Service(ServerStep)
    BY <2>2, OrdersServer DEF Service, RunInv, CancelsInv
  <2>3. CASE UNCHANGED programsVars
    <3>1. /\ UNCHANGED <<response, lost, pc, call, request, placed>> /\ program = "example"
          /\ UNCHANGED <<line, round, exit, executed, misled>>
      BY <2>3 DEF programsVars, testVars, benchVars, vars, callVars, serverVars,
                  historyVars, exampleOnly, programVars, accountingVars
    <3> QED
      BY <3>1 DEF OrdersInv, ExitTellsOrders, TradesDone, Executed, Arrived, Replied, Misleading
  <2> QED
    BY <2>1, <2>2, <2>3 DEF ProgramsNext, RunBench, RunTest
<1>3. ProgramsSpec => []C
  BY CancelsInvariant
<1> HIDE DEF I, C
<1>4. ProgramsSpec => []I
  BY CallInvariant, RunInvariant, <1>1, <1>2, <1>3, PTL DEF ProgramsSpec
<1> QED
  BY <1>4 DEF I

(* When the example ends with success and the server lists the orders as   *)
(* an array, none is left active unless the list was spoilt on its way:    *)
(* for every list of pairs, whichever orders are filled at once, and in    *)
(* whatever order the loop of example.cpp:168 meets the others.            *)
THEOREM ExampleCancelsOrders == ProgramsSpec => []ListedOrdersCancelled
<1>1. RunInv /\ (program = "example" => CancelsInv) => ListedOrdersCancelled
  BY DEF RunInv, NoExample, CancelsInv, ListedOrdersCancelled
<1> QED
  BY RunInvariant, CancelsInvariant, <1>1, PTL

(* Between two calls and at its end, each trade that the example takes for *)
(* done was executed once or refused in a form that reads as success, and  *)
(* at most one order more was executed, whose answer was lost: for every   *)
(* list of pairs, and whichever of the forms of RefusalAssumption the     *)
(* refusals of the server have.                                            *)
THEOREM ExampleTellsOrders == ProgramsSpec => []ExitTellsOrders
<1>1. RunInv /\ (program = "example" => OrdersInv) => ExitTellsOrders
  <2> SUFFICES ASSUME NoExample PROVE ExitTellsOrders
    BY DEF RunInv, OrdersInv
  <2>1. TradesDone = 0 /\ executed = 0 /\ misled = 0 /\ exit = "none"
    BY DEF NoExample, TradesDone
  <2> QED
    BY <2>1 DEF ExitTellsOrders
<1> QED
  BY RunInvariant, OrdersInvariant, <1>1, PTL
============================================================================
