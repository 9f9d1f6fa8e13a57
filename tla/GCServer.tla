---------------------------- MODULE GCServer -----------------------------
(***************************************************************************)
(* The Gain Capital server and the network, as GCClient sees them: the     *)
(* service is not part of the repository, and this is what the client's    *)
(* code and the replies of the mock servers in src/test take it to be.     *)
(***************************************************************************)
EXTENDS GCState

Pending == request # NoRequest /\ response = NoAnswer

Authorised == \E t \in sessions : request.session = Dump(t)

Serve(urls) ==
  /\ Pending
  /\ request.url \in urls
  /\ UNCHANGED <<clientVars, call, pc, request, result, loopVars>>

Reply(json) == response' = Answer(json)

(* The server did not do what was asked of it, and says so. *)
Disturb == disturbed' = TRUE /\ UNCHANGED <<placed, lost>>

ServeLogin ==
  /\ Serve({"Session"})
  /\ UNCHANGED tick
  /\ \/ \E t \in Tokens :
          /\ sessions' = sessions \cup {t}
          /\ Reply([statusCode |-> 0, session |-> t])
          /\ vouched' = Dump(t)
          /\ UNCHANGED historyVars
     \/ /\ "null" \in Faults
        /\ Reply([statusCode |-> 0, session |-> Null])
        /\ vouched' = Dump(Null)
        /\ Disturb
        /\ UNCHANGED sessions
     \/ /\ "refusal" \in Faults
        /\ Reply([statusCode |-> 1, session |-> Null])
        /\ Disturb
        /\ UNCHANGED <<sessions, vouched>>

ServeValidate ==
  /\ Serve({"validate"})
  /\ \/ /\ Authorised
        /\ Reply([isAuthenticated |-> TRUE])
        /\ vouched' = request.session
        /\ UNCHANGED historyVars
     \/ /\ ~Authorised
        /\ Reply([isAuthenticated |-> FALSE])
        /\ UNCHANGED <<vouched, historyVars>>
     \/ /\ "null" \in Faults
        /\ Reply([isAuthenticated |-> Null])
        /\ Disturb
        /\ UNCHANGED vouched
  /\ UNCHANGED serverVars

Unauthorised ==
  /\ Serve({request.url} \ {"Session", "validate"})
  /\ ~Authorised
  /\ response' = Failure(401)
  /\ UNCHANGED <<serverVars, vouched, historyVars>>

(***************************************************************************)
(* Reads.  A field the client wants may be missing from the answer.        *)
(***************************************************************************)
Fields(fault, json, json_without) ==
  \/ Reply(json) /\ UNCHANGED historyVars
  \/ fault \in Faults /\ Reply(json_without) /\ Disturb

ServeAccount ==
  /\ Serve({"ClientAndTradingAccount"}) /\ Authorised
  /\ UNCHANGED <<serverVars, vouched>>
  /\ \E t, c \in AccountIds :
       \/ Fields("null", [tradingAccountId |-> t, clientAccountId |-> c],
                         [tradingAccountId |-> Null, clientAccountId |-> c])
       \/ Fields("null", [tradingAccountId |-> t, clientAccountId |-> c],
                         [tradingAccountId |-> t, clientAccountId |-> Null])

ServeMarket ==
  /\ Serve({"markets"}) /\ Authorised
  /\ UNCHANGED <<serverVars, vouched>>
  /\ Fields("null", [MarketId |-> MarketIdOf[request.market]],
                    [MarketId |-> Null])

ServeTick ==
  /\ Serve({"tickhistory"}) /\ Authorised
  /\ UNCHANGED <<serverVars, vouched>>
  /\ Fields("null", [Price |-> [market_id |-> request.market_id,
                               side |-> request.price_type, tick |-> tick]],
                    [Price |-> Null])

ServeOther ==
  /\ Serve({"clientAccountMargin", "barhistory", "list_open_positions",
            "list_active_orders", "cancel_order"})
  /\ Authorised
  /\ Reply(Empty)
  /\ UNCHANGED <<serverVars, vouched, historyVars>>

(***************************************************************************)
(* Orders.  Prices have moved by the time the next ones are asked for.     *)
(***************************************************************************)
ServeOrder ==
  /\ Serve(OrderUrls) /\ Authorised
  /\ tick' = 1 - tick
  /\ UNCHANGED <<sessions, vouched, disturbed, lost>>
  /\ \/ /\ Reply([OrderId |-> [type |-> "integer", num |-> 1]])
        /\ placed' = placed + 1
     \/ /\ \E id \in RefusalIds : Reply([OrderId |-> id])
        /\ UNCHANGED placed

(***************************************************************************)
(* Faults.  An exchange fails before the server acts (no connection, or a  *)
(* status other than 200), or its answer is lost or unusable afterwards.   *)
(* A session ends at any time.                                             *)
(***************************************************************************)
FailExchange ==
  /\ Pending
  /\ \/ "no_connection" \in Faults /\ response' = Failure(0)
     \/ "http_error" \in Faults /\ response' = Failure(500)
  /\ Disturb
  /\ UNCHANGED <<clientVars, call, pc, request, result, loopVars, serverVars,
                 vouched>>

SpoilAnswer ==
  /\ Arrived /\ response.shape = "object"
  /\ \/ "lost_reply" \in Faults /\ response' = Failure(0)
     \/ \E shape \in {"garbage", "not_object"} \cap Faults :
          response' = Unusable(shape)
  /\ disturbed' = TRUE /\ lost' = TRUE
  /\ UNCHANGED <<clientVars, call, pc, request, result, loopVars, serverVars,
                 vouched, placed>>

Expire ==
  /\ "expiry" \in Faults
  /\ \E t \in sessions : sessions' = sessions \ {t}
  /\ disturbed' = (disturbed \/ pc # "idle")
  /\ UNCHANGED <<clientVars, callVars, loopVars, tick, vouched, placed, lost>>

Exchange ==
  \/ ServeLogin \/ ServeValidate \/ Unauthorised \/ ServeAccount
  \/ ServeMarket \/ ServeTick \/ ServeOther \/ ServeOrder \/ FailExchange
============================================================================
