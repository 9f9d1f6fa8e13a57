------------------------------ MODULE GCTests -----------------------------
(***************************************************************************)
(* The tests of src/test, run on the model: each constructs a client,      *)
(* points it to a server, may log in, makes one call and compares how it   *)
(* ends, the function its error names and the client's members.  One test  *)
(* writes the account's members before its call.                           *)
(***************************************************************************)
EXTENDS MockServers

VARIABLES test, made   \* the test that runs, and how many calls it has made

testVars == <<benchVars, test, made>>

Simple == [NoFields EXCEPT !.Direction = "buy", !.Quantity = 1000]
Priced == [Simple EXCEPT !.TriggerPrice = 10, !.StopPrice = 12]
One(order) == [m \in {1} |-> order]

(* A test: the server, the calls, and what the last one is expected to do. *)
Test(s, calls, status, location) ==
  [credentials |-> TRUE, server |-> s, calls |-> calls,
   status |-> status, where |-> location]

Login == Op("authenticate_session")
Assignment == Op("assign_ids")   \* not a call: the members are set to TEST
Works(c) == Test("correct", <<Login, c>>, "ok", "")
Rejected(c) == Test("correct", <<Login, c>>, "error", c.op)
Breaks(c, location) == Test("failed", <<Login, c>>, "error", location)
Early(c) == Test("unreachable", <<c>>, "error", "validate_session_header")

(***************************************************************************)
(* unit_test.cpp: nothing listens.                                         *)
(***************************************************************************)
PayloadTests ==
  {Test("unreachable", <<Op("validate_auth_payload")>>, "ok", ""),
   [Test("unreachable", <<Op("validate_auth_payload")>>, "error",
         "validate_auth_payload") EXCEPT !.credentials = FALSE]}

LoginTests ==
  {Early(Op("validate_session_header")), Early(Op("validate_session")),
   Test("unreachable", <<Login>>, "error", "authenticate_session")}

ReadTests ==
  {Early(c) : c \in {Op("get_account_info"), Op("get_margin_info"),
                     Named("get_market_id", 1), Named("get_market_info", 1),
                     Prices(1, "mid", 0, 0), Ohlc(1, "minute", 1, 0, 0)}}

OrderTests ==
  {Early(c) : c \in {Trade("limit", One(Priced))} \cup {Op(op) : op \in Guarded}}

UnitTests == PayloadTests \cup LoginTests \cup ReadTests \cup OrderTests

(***************************************************************************)
(* functional_correct_server_test.cpp                                      *)
(***************************************************************************)
SingleTests ==
  {Test("correct", <<Login>>, "ok", ""),
   Test("correct", <<Login, Assignment, Op("get_margin_info")>>, "ok", "")}
  \cup {Works(c) : c \in {Op("validate_session"), Op("get_account_info"),
                          Named("get_market_id", 1), Named("get_market_info", 1)}}

PricesTests ==
  {Works(Prices(1, "mid", 0, 0)), Works(Prices(1, "bid", 0, 100)),
   Works(Prices(1, "ask", 1000, 0)), Rejected(Prices(1, "x", 1000, 0))}

OhlcTests ==
  {Works(Ohlc(1, "minute", 1, 0, 0)), Works(Ohlc(1, "minute", 1, 0, 100)),
   Works(Ohlc(1, "hour", 1, 1000, 0)), Rejected(Ohlc(1, "minute", 1000, 0, 0)),
   Rejected(Ohlc(1, "min", 1, 0, 100)), Rejected(Ohlc(1, "hour", 10, 1000, 0))}

TradeTests ==
  {Works(Trade("market", One(Simple))),
   Works(Trade("limit", One([Priced EXCEPT !.LimitPrice = 20]))),
   Rejected(Trade("none", One(Priced))),
   Rejected(Trade("market", One([Simple EXCEPT !.Quantity = Null]))),
   Rejected(Trade("market", One([Simple EXCEPT !.Direction = Null]))),
   Rejected(Trade("limit", One([Simple EXCEPT !.StopPrice = 12])))}

ListTests == {Works(Op(op)) : op \in Guarded}

CorrectTests ==
  SingleTests \cup PricesTests \cup OhlcTests \cup TradeTests \cup ListTests

(***************************************************************************)
(* functional_failed_server_test.cpp: the login fails half way, and its    *)
(* error is dropped.                                                       *)
(***************************************************************************)
FailedTests ==
  {Test("failed", <<Login>>, "error", "set_trading_account_id"),
   Test("failed", <<Login, Op("validate_session")>>, "ok", "")}
  \cup {Breaks(Op(op), op) :
          op \in Guarded \cup {"get_account_info", "get_margin_info"}}
  \cup {Breaks(Named(op, 1), op) : op \in {"get_market_id", "get_market_info"}}
  \cup {Breaks(c, "return_market_id") :
          c \in {Prices(1, "mid", 0, 0), Ohlc(1, "minute", 1, 0, 0),
                 Trade("market", One(Simple))}}

(***************************************************************************)
(* The test program.                                                       *)
(***************************************************************************)
TestInit ==
  /\ test \in UnitTests \cup CorrectTests \cup FailedTests
  /\ made = 0
  /\ Init /\ (HasCredentials <=> test.credentials)
  /\ where = "" /\ server = test.server

TestNext ==
  \/ /\ made < Len(test.calls)
     /\ \/ Calls(test.calls[made + 1]) /\ UNCHANGED server
        \/ test.calls[made + 1].op = "assign_ids" /\ AssignIds
     /\ made' = made + 1
     /\ UNCHANGED test
  \/ Working /\ UNCHANGED <<test, made>>

TestDone == pc = "idle" /\ made = Len(test.calls)

(* The account's numbers when a test ends: what it has set them to itself  *)
(* (functional_correct_server_test.cpp:182-183), those of the correct      *)
(* server, which a login has fetched (:127-130), or none (unit_test.cpp:23-25). *)
AccountExpected ==
  IF \E i \in DOMAIN test.calls : test.calls[i].op = "assign_ids"
  THEN <<<<"TEST">>, <<"TEST">>>>
  ELSE IF test.server = "correct" THEN <<Dump("TradingTestID"), Dump("ClientTestID")>>
  ELSE <<Empty, Empty>>

(* Each test of src/test passes: its last call ends as it expects, the     *)
(* error names the function that the test names, and the client has the    *)
(* account's numbers and the number of the market that it expects (:209-211). *)
TestsPass ==
  TestDone =>
    /\ result.status = test.status /\ where = test.where
    /\ <<trading_account_id, client_account_id>> = AccountExpected
    /\ result = [op |-> "get_market_id", status |-> "ok"] =>
         market_id_map[1] = Dump(123)
    /\ ~HasHeader => market_id_map[1] = Empty
============================================================================
