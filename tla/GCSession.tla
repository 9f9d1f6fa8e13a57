---------------------------- MODULE GCSession ----------------------------
(***************************************************************************)
(* The operations of GCClient that log in, check the session and renew it: *)
(* authenticate_session, validate_session, and the three that run          *)
(* validate_session before they ask for anything                           *)
(* (src/src/gain_capital_client.cpp).                                      *)
(***************************************************************************)
EXTENDS GCState

Guarded == {"list_open_positions", "list_active_orders", "cancel_order"}

LoginRequest == [url |-> "Session", session |-> Empty]

AccountRequest(session) ==
  [url |-> "ClientAndTradingAccount", session |-> session]

ValidateRequest ==
  [url |-> "validate", session |-> session_header,
   ClientAccountId |-> client_account_id,
   TradingAccountId |-> trading_account_id]

(* The request of an operation in Guarded, with its account by default.    *)
GuardedRequest(c, session, default) ==
  [url |-> c.op, session |-> session,
   TradingAccountId |-> IF c.args = Empty THEN default ELSE c.args]

(***************************************************************************)
(* authenticate_session, called by the program ...                         *)
(***************************************************************************)
PostLogin(c) ==
  \/ auth_payload = Empty /\ Return(c, "error")
  \/ /\ auth_payload # Empty
     /\ Send(c, "login", LoginRequest)
     /\ UNCHANGED vouched

authenticate_session ==
  LET c == [op |-> "authenticate_session", args |-> Empty] IN
  /\ Begin(c)
  /\ PostLogin(c)
  /\ UNCHANGED <<session_header, accountVars, market_id_map>>

(* ... and by validate_session, for a session that is not authenticated.   *)
BeginLogin ==
  /\ pc = "validate"
  /\ Replied /\ response.json.isAuthenticated # TRUE
  /\ Ongoing
  /\ PostLogin(call)
  /\ UNCHANGED <<session_header, accountVars, market_id_map>>

(***************************************************************************)
(* What follows once the session is good: the two operations whose whole   *)
(* purpose that was are done, the others send their own request.           *)
(***************************************************************************)
Proceed(session, default) ==
  \/ /\ call.op \notin Guarded
     /\ Return(call, "ok")
  \/ /\ call.op \in Guarded
     /\ Send(call, "direct", GuardedRequest(call, session, default))
     /\ UNCHANGED vouched

(* Mutant: log in again for as long as the server refuses. *)
RefuseLoginRetries ==
  /\ pc = "login"
  /\ Replied /\ response.json.statusCode # 0
  /\ Send(call, "login", LoginRequest)
  /\ Ongoing
  /\ UNCHANGED <<session_header, accountVars, market_id_map, vouched>>

RefuseLogin ==
  /\ pc = "login"
  /\ Replied /\ response.json.statusCode # 0
  /\ Return(call, "error")
  /\ Ongoing
  /\ UNCHANGED <<session_header, accountVars, market_id_map>>

(* Are both account numbers there, so that they need not be fetched? *)
HasAccounts == client_account_id # Empty /\ trading_account_id # Empty

(* What ReceiveLogin does but for the session it stores, the one it goes   *)
(* on with, and the test that spares it fetching the account.              *)
LoginReceived(stored, used, known) ==
  /\ pc = "login"
  /\ Replied /\ response.json.statusCode = 0
  /\ session_header' = stored
  /\ Ongoing
  /\ \/ known /\ Proceed(used, trading_account_id)
     \/ /\ ~known
        /\ Send(call, "account", AccountRequest(used))
        /\ UNCHANGED vouched
  /\ UNCHANGED <<accountVars, market_id_map>>

(* Mutant: a client that has a session does not fetch its account.         *)
ReceiveLoginBySession ==
  LET new == Dump(response.json.session) IN
  LoginReceived(new, new, session_header # Empty)

(* Mutant: every login fetches the account anew.                           *)
ReceiveLoginFetches ==
  LET new == Dump(response.json.session) IN LoginReceived(new, new, FALSE)

(* Mutant: the request goes out under the header read before the login.    *)
ReceiveLoginStale ==
  LoginReceived(Dump(response.json.session), session_header, HasAccounts)

(* Mutant: a client that knows its account keeps its session.              *)
ReceiveLoginKeeps ==
  LET kept == IF HasAccounts THEN session_header
                             ELSE Dump(response.json.session)
  IN  LoginReceived(kept, kept, HasAccounts)

ReceiveLogin ==
  LET new == Dump(response.json.session) IN
  LoginReceived(new, new, HasAccounts)

(* Mutant: the default account is the one from before the fetch.           *)
ReceiveAccountStale ==
  /\ pc = "account"
  /\ Replied
  /\ trading_account_id' = Dump(response.json.tradingAccountId)
  /\ client_account_id' = Dump(response.json.clientAccountId)
  /\ Ongoing
  /\ LET missing == Dump(Null) \in {trading_account_id', client_account_id'} IN
       \/ missing /\ Return(call, "error")
       \/ ~missing /\ Proceed(session_header, trading_account_id)
  /\ UNCHANGED <<session_header, market_id_map>>

(* set_trading_account_id: both numbers are stored before either is checked *)
ReceiveAccount ==
  /\ pc = "account"
  /\ Replied
  /\ trading_account_id' = Dump(response.json.tradingAccountId)
  /\ client_account_id' = Dump(response.json.clientAccountId)
  /\ Ongoing
  /\ LET missing == Dump(Null) \in {trading_account_id', client_account_id'} IN
       \/ missing /\ Return(call, "error")
       \/ ~missing /\ Proceed(session_header, trading_account_id')
  /\ UNCHANGED <<session_header, market_id_map>>

(***************************************************************************)
(* validate_session, on its own and before a request                       *)
(***************************************************************************)
BeginValidate(c) ==
  /\ HasHeader
  /\ Begin(c)
  /\ Send(c, "validate", ValidateRequest)
  /\ UNCHANGED <<session_header, accountVars, market_id_map, vouched>>

SessionIsValid ==
  /\ pc = "validate"
  /\ Replied /\ response.json.isAuthenticated = TRUE
  /\ Ongoing
  /\ Proceed(session_header, trading_account_id)
  /\ UNCHANGED <<session_header, accountVars, market_id_map>>

validate_session ==
  LET c == [op |-> "validate_session", args |-> Empty] IN
  BeginValidate(c) \/ Refused(c)

list_open_positions ==
  \E a \in AccountArgs :
    LET c == [op |-> "list_open_positions", args |-> a] IN
    BeginValidate(c) \/ Refused(c)

list_active_orders ==
  \E a \in AccountArgs :
    LET c == [op |-> "list_active_orders", args |-> a] IN
    BeginValidate(c) \/ Refused(c)

cancel_order ==
  \E a \in AccountArgs :
    LET c == [op |-> "cancel_order", args |-> a] IN
    BeginValidate(c) \/ Refused(c)

SessionStep ==
  \/ authenticate_session \/ validate_session
  \/ list_open_positions \/ list_active_orders \/ cancel_order
  \/ BeginLogin \/ RefuseLogin \/ ReceiveLogin \/ ReceiveAccount
  \/ SessionIsValid
============================================================================
