--------------------------- MODULE LegacyExecution ---------------------------
(***************************************************************************)
(* The legacy route: validated orders from an at-least-once bus, handled   *)
(* one after the other by ExecutionEngine over JournaledExchangeAdapter,   *)
(* beside the journal recovery of ExecutionService.                        *)
(*                                                                         *)
(*   OPEN:  place -> protective stop -> publish -> ack                     *)
(*          (anything in between fails: cancel, verify, close, verify)     *)
(*   CLOSE: flat? -> close -> flat? -> publish -> ack                      *)
(*                                                                         *)
(* Every mutation is a journal effect, prepared before the call and        *)
(* confirmed after it.  Calls and reads may fail, a lost call may land     *)
(* late, and the process may die at every await.  An effect is <<kind,     *)
(* order>>: an order of the venue, the protective stop of an entry, or the *)
(* cancellation of an order.  Lots are not told apart: an entry fills      *)
(* whole or not at all.                                                    *)
(***************************************************************************)
EXTENDS Integers, Sequences

CONSTANTS
  Opens, Closes,   \* validated orders of the one symbol
  CacheSize,       \* idempotency_cache_size
  MaxFaults,       \* bound of failed and late calls, crashes and mode changes,
                   \* for each set of orders the bus may hold
  None

ASSUME LegacyAssumption ==
  /\ Opens \cap Closes = {} /\ None \notin Opens \cup Closes /\ CacheSize \in Nat \ {0}
  /\ MaxFaults \in [SUBSET (Opens \cup Closes) -> Nat]

Orders == Opens \cup Closes

\* The exit of an OPEN is its emergency close, that of a CLOSE the close itself.
Places  == {"place"} \X Opens
Exits   == {"exit"} \X Orders
Stops   == {"stop"} \X Opens
Cancels == {"cancel"} \X (Places \cup Exits)
Effects == Places \cup Exits \cup Stops \cup Cancels

ASSUME EffectAssumption == None \notin Effects

Tasks == {"orders", "recovery"}

VARIABLES
  \* the venue
  held,     \* OPENs whose lot is in the position
  working,  \* active orders of Places and Exits
  stops,    \* [Opens -> live protective stops]
  late,     \* lost calls that may still land
  \* the journal
  status,   \* [Effects -> NONE, PREPARED, SETTLED: CONFIRMED or RECONCILED]
  answer,   \* [Effects -> the stored response]
  fresh,    \* prepared effects inside their two minutes of grace
  \* the bus
  queue, acked,   \* orders published, and acknowledged
  \* the process
  up,       \* startup recovery is over
  cache,    \* completed orders, the next to evict first
  blocked,  \* recovery blockers
  quant,    \* LOCAL_QUANT_MODE
  at,       \* [Tasks -> where the task is]
  doing,    \* [Tasks -> the effect it is about]
  lock,     \* [Tasks -> the effect whose recovery_lock it holds]
  order,    \* the order being handled
  report,   \* what is known of its entry
  reply,    \* the last answer of the venue to it
  scan, failed,   \* what recovery has still to do; something stays unresolved
  \* history
  sent, resent,   \* effects sent to the venue, and those sent again
  slipped,        \* the venue did what no reading of it could have told
  faults,         \* failed and late calls, crashes and mode changes so far
  dropped         \* OPENs skipped by LOCAL_QUANT_MODE after an attempt to place them

venue   == <<held, working, stops, late, slipped>>
journal == <<status, answer, fresh>>
bus     == <<queue, acked>>
engine  == <<cache, order, report, reply>>
control == <<up, blocked, quant>>
recovery == <<scan, failed>>
tasks   == <<at, doing, lock>>
wire    == <<sent, resent, dropped>>
vars == <<venue, journal, bus, engine, control, recovery, tasks, wire, faults>>

Init ==
  /\ held = {} /\ working = {} /\ stops = [o \in Opens |-> 0] /\ late = {} /\ slipped = FALSE
  /\ status = [e \in Effects |-> "NONE"] /\ answer = [e \in Effects |-> "none"]
  /\ acked = {} /\ queue \in SUBSET Orders /\ faults = 0
  /\ up = FALSE /\ cache = <<>> /\ blocked = FALSE /\ quant = FALSE
  /\ at = [p \in Tasks |-> "idle"] /\ doing = [p \in Tasks |-> None] /\ lock = [p \in Tasks |-> None]
  /\ order = None /\ report = "none" /\ reply = "none" /\ fresh = {} /\ scan = {} /\ failed = FALSE
  /\ sent = {} /\ resent = {} /\ dropped = {}

-----------------------------------------------------------------------------
(* Vocabulary *)

Opening == order \in Opens
Mine(kind) == <<kind, order>>
PositionFlat == held = {}

Go(p, a) == at' = [at EXCEPT ![p] = a]
\* Mutant: the recovery lock excludes nobody.
LockShared(p, e) == lock' = [lock EXCEPT ![p] = e]
Lock(p, e) ==
  /\ \A q \in Tasks : lock[q] # e
  /\ lock' = [lock EXCEPT ![p] = e]

\* Mutant: an effect that is only prepared counts as new.
IsNewOrPrepared(e) == status[e] \in {"NONE", "PREPARED"}
IsNew(e) == status[e] = "NONE"
Known(e) == status[e] = "SETTLED"

\* A settled row keeps what it was settled with.
Settle(e, a) ==
  IF Known(e) THEN UNCHANGED journal
  ELSE /\ status' = [status EXCEPT ![e] = "SETTLED"]
       /\ answer' = [answer EXCEPT ![e] = a]
       /\ UNCHANGED fresh

\* journal.prepare of an effect nobody prepared before.
Prepare(e) ==
  /\ status' = [status EXCEPT ![e] = "PREPARED"] /\ fresh' = fresh \cup {e}
  /\ UNCHANGED answer

\* Task p leaves a procedure: recovery goes on scanning, a handler where a says.
Leave(p, a) ==
  /\ at' = [at EXCEPT ![p] = IF p = "recovery" THEN "scan" ELSE a]
  /\ lock' = [lock EXCEPT ![p] = None]
  /\ doing' = [doing EXCEPT ![p] = IF p = "orders" /\ a = "cancelled" THEN @ ELSE None]

Fault == faults < MaxFaults[queue] /\ faults' = faults + 1

\* Where an exception leads a handler: an entry is compensated, an exit looked
\* at, anything else leaves the delivery pending.
OnError(a) ==
  CASE a \in {"place", "send place", "confirm place", "rplace", "rplace flat"} -> "ambiguous"
    [] a \in {"protect", "send stop", "confirm stop", "rstop", "rstop send"} -> "compensate"
    [] a \in {"exit", "send exit", "confirm exit", "rclose"} -> "lost"
    [] OTHER -> "idle"

Pending(p) == p = "orders" /\ OnError(at[p]) = "idle"

Raise(p) ==
  /\ Leave(p, OnError(at[p]))
  /\ report' = IF Pending(p) THEN "none"
               ELSE IF p = "orders" /\ OnError(at[p]) = "ambiguous" THEN "ambiguous" ELSE report
  /\ order' = IF Pending(p) THEN None ELSE order
  /\ reply' = IF Pending(p) THEN "none" ELSE reply
  /\ failed' = (failed \/ p = "recovery")
  /\ UNCHANGED <<venue, journal, bus, cache, control, scan, wire>>

-----------------------------------------------------------------------------
(* The venue *)

\* The order e reaches the venue: it rests or fills, a stop goes live.
Land(e) ==
  CASE e[1] = "place" ->
         /\ \/ working' = working \cup {e} /\ UNCHANGED held
            \/ held' = held \cup {e[2]} /\ UNCHANGED working
         /\ UNCHANGED stops
    [] e[1] = "exit" ->
         /\ \/ held # {} /\ working' = working \cup {e} /\ UNCHANGED held
            \/ held' = {} /\ UNCHANGED working
         /\ UNCHANGED stops
    [] e[1] = "stop" -> stops' = [stops EXCEPT ![e[2]] = @ + 1] /\ UNCHANGED <<held, working>>

Fill(e) ==
  /\ e \in working /\ working' = working \ {e}
  /\ held' = IF e[1] = "place" THEN held \cup {e[2]} ELSE {}
  /\ UNCHANGED <<stops, late, slipped, journal, bus, engine, control, recovery, tasks, wire>>

Die(e) ==
  /\ e \in working /\ working' = working \ {e}
  /\ UNCHANGED <<held, stops, late, slipped, journal, bus, engine, control, recovery, tasks, wire>>

Trigger(o) ==
  /\ o \in held /\ stops[o] > 0
  /\ held' = held \ {o} /\ stops' = [stops EXCEPT ![o] = @ - 1]
  /\ UNCHANGED <<working, late, slipped, journal, bus, engine, control, recovery, tasks, wire>>

\* A lost call lands after all.  Once its effect is settled or sent again, or
\* while somebody settles it, no reading of the venue could have told.
LandLate(e) ==
  /\ e \in late /\ late' = late \ {e} /\ Land(e) /\ Fault
  /\ slipped' = (slipped \/ status[e] # "PREPARED" \/ e \in resent \/ \E p \in Tasks : lock[p] = e)
  /\ UNCHANGED <<journal, bus, engine, control, recovery, tasks, wire>>

Sent(e) ==
  /\ sent' = sent \cup {e}
  /\ resent' = IF e \in sent THEN resent \cup {e} ELSE resent
  /\ UNCHANGED dropped

-----------------------------------------------------------------------------
(* Calls of the journaled adapter *)

\* What the engine makes of an acknowledgement: an exit's is good or bad
\* (malformed; REJECTED, when an entry is compensated).
Answers(e) == CASE e[1] = "place" -> {"open", "filled", "bad"}
                [] e[1] = "exit" -> {"ok", "bad"}
                [] OTHER -> {"ok"}
Refusals(e) == CASE e[1] = "place" -> {"dead"}
                 [] e[1] = "exit" -> {IF e[2] \in Opens THEN "bad" ELSE "ok"}
                 [] OTHER -> {}

Answered(e) == Go("orders", CASE e[1] = "place" -> "confirm place"
                              [] e[1] = "exit" -> "confirm exit"
                              [] e[1] = "stop" -> "confirm stop")

\* The wrapped adapter's call: answered; refused; or lost, and then it landed,
\* or it may land later.
Call(e) ==
  /\ Sent(e)
  /\ \/ /\ Land(e) /\ \E a \in Answers(e) :
             /\ reply' = a
             /\ (a = "filled" => e \notin working') /\ (a = "open" => e \in working')
        /\ Answered(e) /\ UNCHANGED <<late, report, faults>>
     \/ /\ reply' \in Refusals(e)
        /\ Answered(e) /\ UNCHANGED <<held, working, stops, late, report, faults>>
     \/ /\ Fault
        /\ \/ Land(e) /\ UNCHANGED late
           \/ late' = late \cup {e} /\ UNCHANGED <<held, working, stops>>
        /\ Go("orders", OnError(at["orders"]))
        /\ report' = IF e[1] = "place" THEN "ambiguous" ELSE report
        /\ UNCHANGED reply
  /\ UNCHANGED <<slipped, journal, bus, cache, order, control, recovery, doing, lock>>

\* place_order, set_protective_stop, close_position: prepare and send, or
\* answer from the journal, or recover what is only prepared.
Mutate(a, e, sending, known, recover) ==
  /\ at["orders"] = a
  /\ \/ IsNew(e) /\ Prepare(e) /\ Go("orders", sending) /\ UNCHANGED <<reply, doing>>
     \/ Known(e) /\ reply' = answer[e] /\ Go("orders", known) /\ UNCHANGED <<journal, doing>>
     \/ /\ status[e] = "PREPARED" /\ Go("orders", recover)
        /\ doing' = [doing EXCEPT !["orders"] = e] /\ UNCHANGED <<journal, reply>>
  /\ UNCHANGED <<venue, bus, cache, order, report, control, recovery, lock, wire>>

PlaceOrder == Mutate("place", Mine("place"), "send place", "classify", "rplace")
SetStop == Opening /\ Mutate("protect", Mine("stop"), "send stop", "stopped", "rstop")
ClosePosition == Mutate("exit", Mine("exit"), "send exit", "exited", "rclose")

SendPlace == at["orders"] = "send place" /\ Call(Mine("place"))
SendStop == at["orders"] = "send stop" /\ Call(Mine("stop"))
SendExit == at["orders"] = "send exit" /\ Call(Mine("exit"))

\* journal.confirm of the answer in hand.
Confirm(a, e, next) ==
  /\ at["orders"] = a /\ Settle(e, reply) /\ Go("orders", next)
  /\ UNCHANGED <<venue, bus, engine, control, recovery, doing, lock, wire>>
ConfirmPlace == Confirm("confirm place", Mine("place"), "classify")
ConfirmStop == Confirm("confirm stop", Mine("stop"), "stopped")
ConfirmExit == Confirm("confirm exit", Mine("exit"), "exited")

-----------------------------------------------------------------------------
(* Recovery procedures: of a redelivery, or of the recovery scan *)

Locking(p, a) ==
  /\ at[p] = a /\ lock[p] = None /\ Lock(p, doing[p])
  /\ UNCHANGED <<venue, journal, bus, engine, control, recovery, at, doing, wire>>
Owned(p, a) == at[p] = a /\ lock[p] = doing[p]

\* Settle the effect in hand and answer a.
Reconcile(p, a, next) ==
  /\ Settle(doing[p], a) /\ Leave(p, next)
  /\ reply' = IF p = "orders" THEN a ELSE reply
  /\ UNCHANGED <<venue, bus, cache, order, report, control, recovery, wire>>

\* The raw cancellation takes the order off, or the call is lost.
Withdraw(p, e, next) ==
  /\ working' = working \ {e} /\ Go(p, next)
  /\ UNCHANGED <<held, stops, late, slipped, journal, bus, engine, control, recovery, doing, lock, wire>>

RecoverPlace(p) ==
  \/ Locking(p, "rplace")
  \/ /\ Owned(p, "rplace") /\ doing[p] \in working /\ Withdraw(p, doing[p], "rplace")
  \/ /\ Owned(p, "rplace") /\ doing[p] \notin working /\ Go(p, "rplace flat")
     /\ UNCHANGED <<venue, journal, bus, engine, control, recovery, doing, lock, wire>>
  \/ Owned(p, "rplace flat") /\ PositionFlat /\ Reconcile(p, "dead", "classify")
  \/ Owned(p, "rplace flat") /\ ~PositionFlat /\ Raise(p)

RecoverClose(p) ==
  \/ Locking(p, "rclose")
  \/ Owned(p, "rclose") /\ PositionFlat /\ Reconcile(p, IF doing[p][2] \in Opens THEN "bad" ELSE "ok", "exited")
  \/ Owned(p, "rclose") /\ ~PositionFlat /\ Raise(p)

\* Both EVEDEX adapters declare their lookup of protective stops authoritative;
\* the branch for one that does not is left out.
RecoverStop(p) ==
  \/ Locking(p, "rstop")
  \/ /\ Owned(p, "rstop") /\ stops[doing[p][2]] > 0 /\ Reconcile(p, "ok", "stopped")
  \/ /\ Owned(p, "rstop") /\ stops[doing[p][2]] = 0 /\ PositionFlat
     /\ Reconcile(p, "flat", "compensate")
  \/ /\ Owned(p, "rstop") /\ stops[doing[p][2]] = 0 /\ ~PositionFlat /\ Go(p, "rstop send")
     /\ UNCHANGED <<venue, journal, bus, engine, control, recovery, doing, lock, wire>>
  \/ /\ Owned(p, "rstop send") /\ Land(doing[p]) /\ Sent(doing[p]) /\ Go(p, "rstop confirm")
     /\ UNCHANGED <<late, slipped, journal, bus, engine, control, recovery, doing, lock>>
  \/ Owned(p, "rstop confirm") /\ Reconcile(p, "ok", "stopped")

\* cancel_order_by_client_id, from inside the lock on.
Cancel(p) ==
  \/ Locking(p, "cancelling")
  \/ /\ Owned(p, "cancelling") /\ doing[p][2] \notin working
     /\ Reconcile(p, "ok", "cancelled")
  \/ /\ Owned(p, "cancelling") /\ doing[p][2] \in working
     /\ Withdraw(p, doing[p][2], "cancel verify")
  \/ /\ Owned(p, "cancel verify") /\ doing[p][2] \notin working
     /\ Reconcile(p, "ok", "cancelled")

\* The stop that recovery sends again is lost.
StopLost(p) ==
  /\ Owned(p, "rstop send") /\ Fault /\ Sent(doing[p]) /\ late' = late \cup {doing[p]}
  /\ Leave(p, "compensate") /\ failed' = (failed \/ p = "recovery")
  /\ UNCHANGED <<held, working, stops, slipped, journal, bus, engine, control, scan>>

-----------------------------------------------------------------------------
(* ExecutionEngine *)

Engine == <<venue, journal, bus, control, recovery, lock, wire>>

Cached(o) == \E i \in 1..Len(cache) : cache[i] = o

\* An order answered from the cache becomes the last to be evicted.
Refreshed(o) ==
  LET i == CHOOSE i \in 1..Len(cache) : cache[i] = o IN
  [j \in 1..Len(cache) |-> IF j = Len(cache) THEN o ELSE cache[IF j < i THEN j ELSE j + 1]]

\* The bus delivers a pending order; a completed one is answered by the cache.
Take(o) ==
  /\ at["orders"] = "idle" /\ up /\ o \in queue \ acked
  /\ ~(o \in Opens /\ blocked /\ ~Cached(o))
  /\ order' = o /\ reply' = "none"
  /\ \/ /\ Cached(o) /\ report' = "cached" /\ Go("orders", "publish")
     \/ /\ ~Cached(o) /\ o \in Opens /\ quant /\ report' = "none" /\ Go("orders", "result")
     \/ /\ ~Cached(o) /\ o \in Opens /\ ~quant /\ report' = "none" /\ Go("orders", "place")
     \/ /\ ~Cached(o) /\ o \in Closes /\ report' = "none" /\ Go("orders", "flat")
  /\ cache' = IF Cached(o) THEN Refreshed(o) ELSE cache
  /\ dropped' = IF o \in Opens /\ quant /\ ~Cached(o) /\ status[<<"place", o>>] # "NONE"
                THEN dropped \cup {o} ELSE dropped
  /\ UNCHANGED <<venue, journal, bus, control, recovery, lock, sent, resent, doing>>

\* The acknowledgement of the entry, and the price its stop is computed from.
Classify ==
  /\ at["orders"] = "classify" /\ report' = reply
  /\ \/ reply = "dead" /\ Go("orders", "result")
     \/ reply = "bad" /\ Go("orders", "compensate")
     \/ reply \in {"open", "filled"} /\ \E a \in {"protect", "compensate"} : Go("orders", a)
  /\ UNCHANGED <<Engine, cache, order, reply, doing>>

\* Mutant: any stop row answers for a stop.
ProtectedByRow ==
  /\ at["orders"] = "stopped" /\ Go("orders", "result")
  /\ UNCHANGED <<Engine, cache, order, report, reply, doing>>

\* A stop answered from the journal may be one the journal found not required.
Protected ==
  /\ at["orders"] = "stopped"
  /\ Go("orders", IF reply = "flat" THEN "compensate" ELSE "result")
  /\ UNCHANGED <<Engine, cache, order, report, reply, doing>>

\* Compensation starts: what may still be active is cancelled first.
Compensating == at["orders"] \in {"compensate", "ambiguous"}
MayBeActive == report \in {"open", "bad", "ambiguous"}

\* Cancel the entry, or an exit that outlived its position.
CancelOrder ==
  /\ (Compensating /\ MayBeActive) \/ at["orders"] = "cancel exit"
  /\ LET e == <<"cancel", Mine(IF Compensating THEN "place" ELSE "exit")>> IN
       /\ doing' = [doing EXCEPT !["orders"] = e]
       /\ \/ IsNew(e) /\ Prepare(e) /\ Go("orders", "cancelling")
          \/ status[e] = "PREPARED" /\ Go("orders", "cancelling") /\ UNCHANGED journal
          \/ Known(e) /\ Go("orders", "cancelled") /\ UNCHANGED journal
  /\ UNCHANGED <<venue, bus, engine, control, recovery, lock, wire>>

\* Read again: inactive is what a cancellation promised.
Cancelled ==
  /\ at["orders"] = "cancelled"
  /\ LET e == doing["orders"][2] IN
       \/ e \in working /\ Raise("orders")
       \/ /\ e \notin working /\ Go("orders", IF e[1] = "place" THEN "flat" ELSE "finish")
          /\ UNCHANGED <<Engine, engine, doing>>

\* is_position_flat, before the exit.
Flat ==
  /\ at["orders"] = "flat" \/ (Compensating /\ ~MayBeActive)
  /\ Go("orders", IF ~PositionFlat THEN "active" ELSE IF Opening THEN "finish" ELSE "tidy")
  /\ UNCHANGED <<Engine, engine, doing>>

\* The exit must not be active already.
Active ==
  /\ at["orders"] = "active"
  /\ \/ Mine("exit") \in working /\ Raise("orders")
     \/ Mine("exit") \notin working /\ Go("orders", "exit") /\ UNCHANGED <<Engine, engine, doing>>

\* is_position_flat after the exit: an acknowledgement alone proves nothing.
Exited ==
  /\ at["orders"] \in {"exited", "lost"}
  /\ LET flat == PositionFlat /\ (at["orders"] = "exited" => reply # "bad")
     IN \/ ~flat /\ Raise("orders")
        \/ flat /\ Go("orders", "tidy") /\ UNCHANGED <<Engine, engine, doing>>

\* cancel_if_active of the exit.
Tidy ==
  /\ at["orders"] = "tidy"
  /\ Go("orders", IF Mine("exit") \in working THEN "cancel exit" ELSE "finish")
  /\ UNCHANGED <<Engine, engine, doing>>

\* A compensated ambiguous entry stays pending; any other order has its report.
Finish ==
  /\ at["orders"] = "finish"
  /\ \/ report = "ambiguous" /\ Raise("orders")
     \/ /\ report # "ambiguous" /\ report' = "canceled" /\ Go("orders", "result")
        /\ UNCHANGED <<Engine, cache, order, reply, doing>>

\* handle: complete the order in the cache, evict the one used longest ago.
Complete ==
  /\ at["orders"] = "result"
  /\ cache' = IF Len(cache) < CacheSize THEN Append(cache, order) ELSE Append(Tail(cache), order)
  /\ Go("orders", IF report = "none" THEN "ack" ELSE "publish")
  /\ reply' = "none" /\ doing' = [doing EXCEPT !["orders"] = None]
  /\ UNCHANGED <<Engine, order, report>>

-----------------------------------------------------------------------------
(* ExecutionService *)

Publish ==
  /\ at["orders"] = "publish" /\ Go("orders", "ack")
  /\ UNCHANGED <<venue, journal, bus, engine, control, recovery, doing, lock, wire>>

Ack ==
  /\ at["orders"] = "ack" /\ acked' = acked \cup {order}
  /\ Go("orders", "idle") /\ order' = None /\ report' = "none"
  /\ UNCHANGED <<queue, venue, journal, cache, reply, control, recovery, doing, lock, wire>>

\* Only a delivery reads the mode.
SetMode ==
  /\ Fault /\ up /\ at["orders"] = "idle" /\ quant' = ~quant
  /\ UNCHANGED <<venue, journal, bus, engine, up, blocked, recovery, tasks, wire>>

\* The grace of what no handling is about any more runs out.
Ripen ==
  /\ at["orders"] = "idle" /\ fresh # {} /\ fresh' = {}
  /\ UNCHANGED <<venue, status, answer, bus, engine, control, recovery, tasks, wire>>

\* set_recovery_blockers; at startup, the consumers start.
Unblock(f) == blocked' = f /\ up' = TRUE /\ Go("recovery", "idle") /\ UNCHANGED quant

\* recover_pending: the rows prepared before, each on its own.
Scan ==
  /\ at["recovery"] = "idle" /\ failed' = FALSE
  /\ scan' = {e \in Effects : status[e] = "PREPARED"} \ fresh
  /\ IF scan' = {} THEN Unblock(FALSE) ELSE Go("recovery", "scan") /\ UNCHANGED control
  /\ UNCHANGED <<venue, journal, bus, engine, doing, lock, wire>>

\* The rows cannot be listed: openings are blocked until the next scan.
ScanFails ==
  /\ Fault /\ up /\ at["recovery"] = "idle" /\ blocked' = TRUE
  /\ UNCHANGED <<venue, journal, bus, engine, up, quant, recovery, tasks, wire>>

RecoverEffect(e) ==
  /\ at["recovery"] = "scan" /\ e \in scan /\ scan' = scan \ {e}
  /\ doing' = [doing EXCEPT !["recovery"] = e]
  /\ Go("recovery", CASE e[1] = "place" -> "rplace" [] e[1] = "stop" -> "rstop"
                      [] e[1] = "exit" -> "rclose" [] e[1] = "cancel" -> "cancelling")
  /\ UNCHANGED <<venue, journal, bus, engine, control, failed, lock, wire>>

Scanned ==
  /\ at["recovery"] = "scan" /\ scan = {} /\ Unblock(failed) /\ failed' = FALSE
  /\ UNCHANGED <<venue, journal, bus, engine, scan, doing, lock, wire>>

\* A read, a journal write or a publication fails, wherever the task does one.
Local == {"idle", "scan", "classify", "stopped", "finish", "result",
          "send place", "send stop", "send exit", "rstop send"}
Fail(p) == at[p] \notin Local /\ Raise(p) /\ Fault

Crash ==
  /\ Fault /\ up' = FALSE /\ blocked' = FALSE /\ quant' = FALSE
  /\ cache' = <<>> /\ order' = None /\ report' = "none" /\ reply' = "none"
  /\ at' = [p \in Tasks |-> "idle"] /\ lock' = [p \in Tasks |-> None]
  /\ doing' = [p \in Tasks |-> None] /\ scan' = {} /\ failed' = FALSE
  /\ UNCHANGED <<venue, journal, bus, wire>>

Venue ==
  \/ \E e \in Places \cup Exits : Fill(e) \/ Die(e)
  \/ \E o \in Opens : Trigger(o)

Handling ==
  \/ \E o \in Orders : Take(o)
  \/ PlaceOrder \/ ConfirmPlace \/ Classify
  \/ SetStop \/ ConfirmStop \/ Protected
  \/ CancelOrder \/ Cancelled \/ Flat \/ Active
  \/ ClosePosition \/ ConfirmExit \/ Exited \/ Tidy \/ Finish
  \/ Complete \/ Publish \/ Ack

Recovering ==
  \/ Scan \/ (\E e \in Effects : RecoverEffect(e)) \/ Scanned
  \/ \E p \in Tasks : RecoverPlace(p) \/ RecoverClose(p) \/ RecoverStop(p) \/ Cancel(p)

Next ==
  \/ (Venue \/ Handling \/ Recovering \/ Ripen) /\ UNCHANGED faults
  \/ SendPlace \/ SendStop \/ SendExit \/ SetMode \/ ScanFails \/ Crash
  \/ \E e \in Effects : LandLate(e)
  \/ \E p \in Tasks : StopLost(p) \/ Fail(p)

Spec == Init /\ [][Next]_vars

-----------------------------------------------------------------------------
(* Properties *)

\* An entry, a close or an emergency close reaches the venue at most once,
\* across redelivery, eviction from the cache, a restart and recovery: a row
\* that is only prepared is looked up (_recover_prepared_place, _close), never
\* sent again.
SentOnce == resent \cap (Places \cup Exits) = {}

\* The lot of an acknowledged OPEN has its protective stop: whatever failed on
\* the way, the engine protected the entry or proved it gone before its report
\* was published (handle_once, compensate_unprotected).  An OPEN whose first
\* attempt failed and whose redelivery LOCAL_QUANT_MODE skipped is excepted.
AckedOpenIsSafe == \A o \in (acked \ dropped) \cap held : stops[o] > 0 \/ slipped

\* A redelivery and the recovery scan that recover one prepared stop leave one:
\* each looks before it sends, under the recovery lock of the effect.
OneStop == \A o \in Opens : stops[o] <= 1 \/ slipped
=============================================================================
