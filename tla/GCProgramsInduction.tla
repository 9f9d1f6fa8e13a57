------------------------ MODULE GCProgramsInduction ------------------------
(***************************************************************************)
(* The inductive invariants behind the properties of the programs, which   *)
(* are their last conjuncts.  GCBenchProofs and GCExampleProofs prove them *)
(* for all instances; those properties TLC checks on one.                  *)
(***************************************************************************)
EXTENDS GCPrograms, GCInduction

(***************************************************************************)
(* What any program may rely on: only a client with credentials has a call *)
(* under way or a header, and what a call waits for is on its way.         *)
(***************************************************************************)
PlacesOf(op) ==
  CASE op = "authenticate_session" -> {"login", "account"}
    [] op = "validate_session" -> {"validate", "login", "account"}
    [] op \in Guarded -> {"validate", "login", "account", "direct"}
    [] op = "trade_order" -> {"market"} \cup LoopPlaces
    [] OTHER -> {"market", "direct"}

CallInv ==
  /\ CallShape /\ RequestOK
  /\ pc # "idle" => pc \in PlacesOf(call.op)
  /\ pc # "idle" \/ HasHeader => HasCredentials

(***************************************************************************)
(* The bench: an answer is that of the server the client points to, which  *)
(* does not change during a call; a number in the cache is the mock        *)
(* servers' only one, and so is that of every request for prices.          *)
(***************************************************************************)
OneNumber == Dump(123)

MockInv ==
  /\ Arrived => response = MockAnswer(server)
  /\ DOMAIN market_id_map = Markets
  /\ \A m \in Markets : market_id_map[m] \in {Empty, OneNumber}

(* With the failed server no call gets as far as an order. *)
FailedInv ==
  /\ server = "failed" /\ pc # "idle" =>
       /\ pc \notin {"order", "sleep"}
       /\ pc = "ask" => ~Ok(bid_response)
  /\ FailedServerFails

(* With the correct server every request gets what it asks for.            *)
CorrectInv ==
  /\ program = "bench" /\ server = "correct" /\ pc # "idle" =>
       /\ HasHeader \/ pc = "login"
       /\ ValidCall(call)
       /\ MockFound
       /\ pc \in LoopPlaces => market_id_map[MarketOf(call)] = OneNumber
       /\ pc = "ask" => bid_response = Answer(Bodies.tickhistory)
       /\ pc # "sleep"
  /\ CorrectServerSucceeds

BenchInv == MockInv /\ FailedInv /\ CorrectInv

(***************************************************************************)
(* The example: the call in progress is the one of the line, the server    *)
(* has executed the orders of the lines passed and the one under way, less *)
(* those it refused in a form that reads as success, and what is still to  *)
(* cancel covers what is active.                                           *)
(***************************************************************************)
AfterLoop == {143, 156, 169, 175}

LineInv ==
  /\ line \in {23, 33, 46, 62, 72, 88, 105, 122, 129} \cup AfterLoop
  /\ round \in 1 .. Rounds /\ (line \in AfterLoop => round = Rounds)
  /\ exit \in {"none", "success", "failure", "exception"}
  /\ line = 122 => exit = "exception"
  /\ line = 169 <=> exit = "success"
  /\ exit # "none" => pc = "idle"
  /\ pc # "idle" => call = CallAt

OrdersInv ==
  /\ misled \in Nat
  /\ pc # "idle" => executed + misled = TradesDone + placed
  /\ Executed /\ Replied /\ OrderDone(response.json) =>
       placed = IF Misleading THEN 0 ELSE 1
  /\ line = 169 => executed + misled = TradesDone
  /\ ExitTellsOrders

CancelsInv ==
  /\ response.shape = "object" => response.status = 200
  /\ response.status = 200 => response.shape = "object" \/ lost
  /\ executed \in Nat
  /\ IsFiniteSet(active) /\ active \subseteq [kind : OrderKinds, id : Nat]
  /\ line = 175 =>
       /\ pc = "direct" => request.url = "cancel_order"
       /\ form = "array" =>
            /\ cancels \in Seq(Nat) /\ cancels # <<>>
            /\ \A o \in active : \E i \in 1 .. Len(cancels) : cancels[i] = o.id
            /\ pc = "direct" /\ response.status = 200 =>
                 \A o \in active : o.id # Head(cancels)
  /\ ListedOrdersCancelled

RunInv ==
  IF program = "example" THEN TypeInv /\ TradeInv /\ LineInv ELSE NoExample

ExampleInv == RunInv /\ (program = "example" => OrdersInv /\ CancelsInv)
============================================================================
