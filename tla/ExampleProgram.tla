--------------------------- MODULE ExampleProgram -------------------------
(***************************************************************************)
(* The program of src/examples/example.cpp: it logs in, and for each pair  *)
(* of currencies reads its prices and places a market and a limit order;   *)
(* then it lists what is open and cancels it.  The first call that fails   *)
(* ends it with failure; an exception ends it too, for nothing catches one. *)
(***************************************************************************)
EXTENDS GCCalls

CONSTANTS
  currency_pairs,   \* the markets in the order of the program's list
  ListForms         \* "object" and "array": what a list of orders comes in

ASSUME PairsAssumption ==
  /\ currency_pairs \in Seq(Markets) /\ currency_pairs # <<>>
  /\ {currency_pairs[i] : i \in DOMAIN currency_pairs} = Markets

VARIABLES
  line,         \* the line of the program's next call, or of the one it is in
  round,        \* the turn of the loop over the pairs
  price_json,   \* the answer to get_prices
  cancels,      \* the orders still to cancel
  exit,         \* how the program ended, "none" while it runs
  form,         \* the form in which the server lists orders
  active,       \* the server's active orders
  executed,     \* how many orders the server has executed in all
  misled        \* how many refusals the program was given that read as success

programVars == <<line, round, price_json, cancels, exit>>
accountingVars == <<form, active, executed, misled>>

Rounds == Len(currency_pairs)
Pair == currency_pairs[round]

(***************************************************************************)
(* The orders.  Every pair gets the price of the pair of the round.        *)
(***************************************************************************)
MarketOrders ==
  [m \in Markets |-> [NoFields EXCEPT !.Direction = "sell", !.Quantity = 1000]]

Times(tenths, price) == [price |-> price, tenths |-> tenths]

LimitOrders ==
  LET mid_price == price_json.json.Price IN
  [m \in Markets |->
     [NoFields EXCEPT !.Direction = "buy", !.Quantity = 1000,
                      !.TriggerPrice = Times(11, mid_price),
                      !.StopPrice = Times(9, mid_price)]]

(***************************************************************************)
(* The calls, by their lines.                                              *)
(***************************************************************************)
CallAt ==
  CASE line = 23 -> Op("authenticate_session")
    [] line = 33 -> Op("get_account_info")
    [] line = 46 -> Op("get_margin_info")
    [] line = 62 -> Named("get_market_id", Pair)
    [] line = 72 -> Prices(Pair, "MID", 0, 0)
    [] line = 88 -> Ohlc(Pair, "MINUTE", 1, 0, 0)
    [] line = 105 -> Trade("MARKET", MarketOrders)
    [] line = 129 -> Trade("LIMIT", LimitOrders)
    [] line = 143 -> Op("list_open_positions")
    [] line = 156 -> Op("list_active_orders")
    [] line = 175 -> [op |-> "cancel_order", args |-> Empty, order_id |-> Head(cancels)]

Lines == <<23, 33, 46, 62, 72, 88, 105, 129, 143, 156>>
After(l) == Lines[(CHOOSE i \in DOMAIN Lines : Lines[i] = l) + 1]

(***************************************************************************)
(* A list of orders, as the comment at src/src/gain_capital_client.cpp:591 *)
(* has it, is an object whose member ActiveOrders is the array; the loop   *)
(* that cancels runs over the members of what it is given, and contains()  *)
(* is false of everything but an object with that key.                     *)
(***************************************************************************)
OrderKinds == {"TradeOrder", "StopLimitOrder"}

Entry(order) == [type |-> "object", member |-> [k \in {order.kind} |-> order.id]]

ListOf(orders) ==
  LET array == [type |-> "array", items |-> {Entry(o) : o \in orders}] IN
  IF form = "array" THEN array
  ELSE [type |-> "object", member |-> [ActiveOrders |-> array]]

Elements(json) ==
  IF json.type = "array" THEN json.items
  ELSE {json.member[k] : k \in DOMAIN json.member}

Contains(json, key) == json.type = "object" /\ key \in DOMAIN json.member

(* Mutant: only one of the two kinds is cancelled.                         *)
IdsToCancelMarket(json) ==
  {e.member["TradeOrder"] : e \in {x \in Elements(json) : Contains(x, "TradeOrder")}}

IdsToCancel(json) ==
  UNION {{e.member[kind] : e \in {x \in Elements(json) : Contains(x, kind)}} :
           kind \in OrderKinds}

(***************************************************************************)
(* What the program does with the end of a call.                           *)
(***************************************************************************)
Stop(code) == exit' = code /\ UNCHANGED <<line, round, price_json, cancels>>

GoTo(l) == line' = l /\ UNCHANGED exit

(* The conversion of the price to a float throws when there is none.       *)
HasPrice == price_json.shape = "object" /\ price_json.json.Price # Null

CancelNext(ids) ==
  /\ cancels' = ids
  /\ IF ids = <<>> THEN exit' = "success" /\ line' = 169 ELSE GoTo(175)
  /\ UNCHANGED <<round, price_json>>

Orderings(ids) ==
  {s \in [1 .. Cardinality(ids) -> ids] : {s[i] : i \in DOMAIN s} = ids}

ListReceived ==
  IF response.shape # "object" THEN CancelNext(<<>>)
  ELSE \E ids \in Orderings(IdsToCancel(ListOf(active))) : CancelNext(ids)

Succeed ==
  CASE line = 72 ->
         price_json' = response /\ GoTo(88) /\ UNCHANGED <<round, cancels>>
    [] line = 105 ->
         /\ IF HasPrice THEN GoTo(129) ELSE exit' = "exception" /\ line' = 122
         /\ UNCHANGED <<round, price_json, cancels>>
    [] line = 129 /\ round < Rounds ->
         GoTo(62) /\ round' = round + 1 /\ UNCHANGED <<price_json, cancels>>
    [] line = 156 -> ListReceived
    [] line = 175 -> CancelNext(Tail(cancels))
    [] OTHER -> GoTo(After(line)) /\ UNCHANGED <<round, price_json, cancels>>

CallEnds ==
  IF pc' # "idle" THEN UNCHANGED programVars
  ELSE CASE result'.status = "ok" -> Succeed
         [] result'.status = "error" -> Stop("failure")
         [] result'.status = "throw" -> Stop("exception")

(***************************************************************************)
(* A refusal whose OrderId is the integer 0, as that of the failed server  *)
(* (src/test/functional_failed_server_test.cpp:73), or absent, ends        *)
(* trade_order with success (src/src/gain_capital_client.cpp:532).         *)
(***************************************************************************)
Misleading ==
  /\ pc = "order" /\ Replied
  /\ \/ response.json.OrderId.type = "absent"
     \/ response.json.OrderId = [type |-> "integer", num |-> 0]

ProgramStep ==
  /\ exit = "none"
  /\ \/ pc = "idle" /\ Calls(CallAt)
     \/ Continue
  /\ CallEnds
  /\ misled' = misled + (IF Misleading THEN 1 ELSE 0)
  /\ UNCHANGED <<form, active, executed>>

(***************************************************************************)
(* The server keeps its orders.  An order it executes may be filled at     *)
(* once, or is active until it is cancelled.                               *)
(***************************************************************************)
KindOf(url) == IF url = "newtradeorder" THEN "TradeOrder" ELSE "StopLimitOrder"

Bookkeeping ==
  /\ executed' = executed + (placed' - placed)
  /\ CASE placed' > placed ->
            active' \in {active, active \cup {[kind |-> KindOf(request.url),
                                               id |-> executed']}}
       [] request.url = "cancel_order" /\ Pending /\ response'.status = 200 ->
            active' = {o \in active : o.id # call.order_id}
       [] OTHER -> UNCHANGED active
  /\ UNCHANGED <<form, misled>>

Serves(step) == step /\ Bookkeeping /\ UNCHANGED <<where, programVars>>

ExampleInit ==
  /\ Init /\ HasCredentials /\ where = ""
  /\ line = 23 /\ round = 1 /\ price_json = NoAnswer /\ cancels = <<>>
  /\ exit = "none" /\ form \in ListForms /\ active = {} /\ executed = 0 /\ misled = 0

ExampleNext == ProgramStep \/ Serves(ServerStep)

(* The trades of which the program knows that they succeeded. *)
TradesDone ==
  2 * (round - 1) + CASE line \in {143, 156, 169, 175} -> 2
                      [] line \in {122, 129} -> 1
                      [] OTHER -> 0

(* Between two calls, and when the program has ended, every trade that it  *)
(* takes for done was executed once, or was refused in a form that reads as *)
(* success; one order more was executed only when a call ended the program *)
(* whose answer was spoilt.  So success means two orders for every pair,   *)
(* less these refusals, and none of them hides an order that was executed. *)
ExitTellsOrders ==
  /\ pc = "idle" =>
       \/ executed + misled = TradesDone
       \/ exit # "none" /\ lost /\ executed + misled = TradesDone + 1
  /\ exit = "success" => executed + misled = 2 * Rounds

(* If the server lists the orders as an array, a program that ends with    *)
(* success leaves none active (example.cpp:168), unless the list was       *)
(* spoilt on its way.                                                      *)
ListedOrdersCancelled ==
  exit = "success" /\ form = "array" /\ ~lost => active = {}

(* "Cancel Active Orders" (src/examples/example.cpp:168): a program that   *)
(* ends with success leaves none active.                                   *)
ActiveOrdersCancelled == exit = "success" /\ ~lost => active = {}
=============================================================================
