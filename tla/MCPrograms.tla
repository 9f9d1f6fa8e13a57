----------------------------- MODULE MCPrograms ----------------------------
(***************************************************************************)
(* The bench has one market that it asks for, and makes each call once     *)
(* with a fixed argument; the example has two pairs, which its list does   *)
(* not name in the order of the keys of a trade map, and one session token.*)
(***************************************************************************)
EXTENDS GCProgramsInduction

CONSTANTS t1, a1

MCMarketIdOf == [m \in Markets |-> 100 + m]
MCPairs == <<2, 1>>

MCOrder == [NoFields EXCEPT !.Direction = "buy", !.Quantity = 1000,
                            !.TriggerPrice = 1, !.StopPrice = 2]

MCProgram ==
  {Op(op) : op \in Guarded \cup {"authenticate_session", "validate_session",
                                 "get_account_info", "get_margin_info"}}
  \cup {Named("get_market_id", 1), Named("get_market_info", 1),
        Prices(1, "mid", 0, 0), Ohlc(1, "hour", 2, 0, 0),
        Trade("limit", [m \in {1} |-> MCOrder])}

(* No program of the repository calls return_market_id. *)
MCOps == {c.op : c \in MCProgram} \cup {"validate_auth_payload", "validate_session_header"}

AllFaults == {"refusal", "null", "no_connection", "http_error", "lost_reply",
              "garbage", "not_object", "expiry"}
ZeroIds == {[type |-> "float", num |-> 0]}
AnyRefusal == ZeroIds \cup {[type |-> "integer", num |-> 0], [type |-> "absent"]}
============================================================================
