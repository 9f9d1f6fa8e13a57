---------------------------- MODULE TradeOnce ----------------------------
(***************************************************************************)
(* What a caller may rely on when it asks GCClient for a trade, with no    *)
(* prices, sessions or retries in sight: one call executes at most one     *)
(* order, and a call that executed one reports success, unless the answer  *)
(* that said so was spoilt on its way.                                     *)
(***************************************************************************)
EXTENDS Naturals

VARIABLES
  phase,    \* is a call for a trade in progress?
  placed,   \* orders the call has executed
  spoilt,   \* has an answer of the server been spoilt during the call?
  outcome   \* what the last call returned, "none" when it has been forgotten

tvars == <<phase, placed, spoilt, outcome>>

Init == phase = "idle" /\ placed = 0 /\ spoilt = FALSE /\ outcome = "none"

Start ==
  /\ phase = "idle" /\ phase' = "working"
  /\ placed' = 0 /\ spoilt' = FALSE /\ outcome' = "none"

(* Turned down before anything was sent. *)
TurnDown ==
  /\ phase = "idle" /\ phase' = "idle"
  /\ placed' = 0 /\ spoilt' = FALSE /\ outcome' \in {"error", "throw"}

Execute ==
  /\ phase = "working" /\ placed = 0
  /\ placed' = 1
  /\ UNCHANGED <<phase, spoilt, outcome>>

Spoil ==
  /\ phase = "working"
  /\ spoilt' = TRUE
  /\ UNCHANGED <<phase, placed, outcome>>

Finish ==
  /\ phase = "working" /\ phase' = "idle"
  /\ outcome' \in {"ok", "error", "throw"}
  /\ placed = 1 /\ ~spoilt => outcome' = "ok"
  /\ UNCHANGED <<placed, spoilt>>

(* The caller goes on to something else. *)
Forget ==
  /\ phase = "idle" /\ phase' = "idle"
  /\ placed' = 0 /\ spoilt' = FALSE /\ outcome' = "none"

Next == Start \/ TurnDown \/ Execute \/ Spoil \/ Finish \/ Forget

Spec == Init /\ [][Next]_tvars
============================================================================
