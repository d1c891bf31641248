--------------------------- MODULE TradeLifecycle ---------------------------
(***************************************************************************)
(* What the PAPER engine promises, whatever its steps, faults and races:   *)
(* the documented state machine of a trade,                                *)
(*                                                                         *)
(*   RECEIVED -> ENTRY_PENDING -> PROTECTING -> ACTIVE -> EXITING_* -> FLAT *)
(*                                                                         *)
(* and, joined to it, when money may be at risk at the venue: a trade is   *)
(* engaged at most once, while it is pending and while no other trade is   *)
(* owned, and it ends only when nothing of it is at risk any more.         *)
(***************************************************************************)
EXTENDS Naturals

CONSTANTS
  Trades,  \* trade identities
  Q        \* approved quantity of a trade

VARIABLES
  state,    \* durable lifecycle state of each trade
  filled,   \* durable filled quantity
  exit,     \* durable exit reason
  engaged,  \* trades whose entry was ever sent to the venue
  risk      \* trades with an entry request, an entry order or a position

vars == <<state, filled, exit, engaged, risk>>

Ended   == {"FLAT", "CANCELLED"}
Reasons == {"stop", "target", "timeout", "emergency"}
StateOf(r) == CASE r = "stop"    -> "EXITING_STOP"
                [] r = "target"  -> "EXITING_TARGET"
                [] r = "timeout" -> "EXITING_TIMEOUT"
                [] OTHER         -> "EXITING_EMERGENCY"
Leaving == {"EXITING_STOP", "EXITING_TARGET", "EXITING_TIMEOUT", "EXITING_EMERGENCY"}
States  == {"none", "RECEIVED", "ENTRY_PENDING", "PROTECTING", "ACTIVE", "FAILED_BLOCKED"}
           \cup Leaving \cup Ended

Init ==
  /\ state = [t \in Trades |-> "none"]
  /\ filled = [t \in Trades |-> 0]
  /\ exit = [t \in Trades |-> "none"]
  /\ engaged = {}
  /\ risk = {}

\* Transitions that move neither money nor quantity.
Advance(t, from, to) ==
  /\ state[t] = from
  /\ state' = [state EXCEPT ![t] = to]
  /\ UNCHANGED <<filled, exit, engaged, risk>>

Receive(t)  == Advance(t, "none", "RECEIVED")
Pend(t)     == Advance(t, "RECEIVED", "ENTRY_PENDING")
Activate(t) == Advance(t, "PROTECTING", "ACTIVE")
Block(t)    == \E s \in Leaving : Advance(t, s, "FAILED_BLOCKED")

\* An entry that bought nothing.
Cancel(t) ==
  /\ t \notin risk /\ filled[t] = 0
  /\ Advance(t, "RECEIVED", "CANCELLED") \/ Advance(t, "ENTRY_PENDING", "CANCELLED")

\* An exit that left nothing behind.
Flatten(t) ==
  /\ t \in engaged \ risk /\ filled[t] > 0
  /\ \E r \in Reasons : exit[t] = r /\ Advance(t, StateOf(r), "FLAT")

\* The one entry request of the trade.
Engage(t) ==
  /\ state[t] = "ENTRY_PENDING" /\ t \notin engaged
  /\ \A u \in Trades \ {t} : state[u] \in {"none"} \cup Ended
  /\ engaged' = engaged \cup {t}
  /\ risk' = {t}
  /\ UNCHANGED <<state, filled, exit>>

\* The order died unfilled, or the position was closed.
Release(t) ==
  /\ risk' = risk \ {t}
  /\ UNCHANGED <<state, filled, exit, engaged>>

\* The first fill, and each later one, enters the durable lifecycle.
Fill(t, q) ==
  /\ t \in engaged
  /\ \/ state[t] = "ENTRY_PENDING" /\ state' = [state EXCEPT ![t] = "PROTECTING"]
     \/ state[t] \in {"PROTECTING", "ACTIVE"} /\ UNCHANGED state
  /\ q > filled[t]
  /\ filled' = [filled EXCEPT ![t] = q]
  /\ UNCHANGED <<exit, engaged, risk>>

\* Only an active trade times out; only a protecting one is an emergency.
Leave(t, r) ==
  /\ CASE r = "timeout"   -> state[t] = "ACTIVE"
       [] r = "emergency" -> state[t] = "PROTECTING"
       [] OTHER           -> state[t] \in {"PROTECTING", "ACTIVE"}
  /\ state' = [state EXCEPT ![t] = StateOf(r)]
  /\ exit' = [exit EXCEPT ![t] = r]
  /\ UNCHANGED <<filled, engaged, risk>>

Next == \E t \in Trades :
  \/ Receive(t) \/ Pend(t) \/ Activate(t) \/ Block(t)
  \/ Cancel(t) \/ Flatten(t) \/ Engage(t) \/ Release(t)
  \/ \E q \in 1..Q : Fill(t, q)
  \/ \E r \in Reasons : Leave(t, r)

Spec == Init /\ [][Next]_vars

-----------------------------------------------------------------------------

TypeOK ==
  /\ state \in [Trades -> States]
  /\ filled \in [Trades -> 0..Q]
  /\ exit \in [Trades -> {"none"} \cup Reasons]
  /\ engaged \subseteq Trades
  /\ risk \subseteq engaged

\* At most one trade has money at risk, and it is not over.
OneRisk ==
  \A t \in risk : state[t] \notin {"none"} \cup Ended /\ risk = {t}

=============================================================================
