----------------------------- MODULE PaperEngine -----------------------------
(***************************************************************************)
(* The PAPER execution engine (kairos_execution/paper_engine.py) composed  *)
(* with what it acts on: the durable trade lifecycle and effect journal,   *)
(* the EVEDEX venue behind the sidecar, the clock, and crashes.            *)
(*                                                                         *)
(* Every public operation of the engine holds the process lifecycle lock   *)
(* and the account advisory lock, so at most one operation of one process  *)
(* runs at a time: eng is that operation.  It is cut into one step per     *)
(* venue read, per durable commit and per mutation sent; between two steps *)
(* the venue may fill, trigger, answer, lose or delay, the clock may pass  *)
(* a deadline, and the process may die.                                    *)
(***************************************************************************)
EXTENDS Naturals, Integers, FiniteSets

CONSTANTS
  Procs,    \* engine processes that share the account
  Trades,   \* trade identities, each on a symbol of its own
  Q,        \* approved quantity of a trade, in lots
  None,     \* no process, no trade
  Resting,  \* the venue keeps the unfilled remainder of an entry working
  Lag,      \* projections that lag: accepted "orders", filled "positions"
  Faults    \* how many times a process may die, a call fail, a request be lost

ASSUME QAssumption == Q \in Nat \ {0}
ASSUME NoneAssumption == None \notin Procs /\ None \notin Trades
ASSUME VenueAssumption == Resting \in BOOLEAN /\ Lag \subseteq {"orders", "positions"}
ASSUME FaultsAssumption == Faults \in Nat

VARIABLES
  \* durable: TradeLifecycleRepository, ExecutionJournalRepository
  state, filled, exit, prot, eff, closeQty, ripe, allowed,
  \* one flag each per process
  blocked, revoke,
  \* the operation that holds the account lock
  eng,
  \* the venue
  ord, pos, shown, tp, trig, clo,
  \* the calls: requests on the wire, answer to the caller, history of sends
  wire, answered, sends,
  \* the clock, and the faults so far
  expired, timedOut, faults

journal == <<eff, closeQty, ripe>>
trade   == <<state, filled, exit, prot>>
durable == <<trade, journal, allowed>>
proc    == <<blocked, revoke>>
market  == <<ord, pos, shown, tp, trig, clo>>
venue   == <<market, wire, answered, sends>>
clock   == <<expired, timedOut>>
vars    == <<durable, proc, eng, venue, clock, faults>>

-----------------------------------------------------------------------------
(* Types *)

Roles   == {"stop", "target"}
Closes  == {"timeout", "emergency"}
Effects == {"place", "cancel", "stop", "target", "stopX", "targetX"} \cup Closes

CancelOf(r) == IF r = "stop" THEN "stopX" ELSE "targetX"
RoleOf(e)   == IF e = "stopX" THEN "stop" ELSE "target"

Terminal == {"FLAT", "CANCELLED"}
ExitingOf(r) == CASE r = "stop"    -> "EXITING_STOP"
                  [] r = "target"  -> "EXITING_TARGET"
                  [] r = "timeout" -> "EXITING_TIMEOUT"
                  [] OTHER         -> "EXITING_EMERGENCY"
Exiting == {"EXITING_STOP", "EXITING_TARGET", "EXITING_TIMEOUT", "EXITING_EMERGENCY"}
TradeStates == {"none", "RECEIVED", "ENTRY_PENDING", "PROTECTING", "ACTIVE",
                "FAILED_BLOCKED"} \cup Exiting \cup Terminal

\* "ABSENT": reconciled with response {"reconciled_absent_and_flat": True}.
EffectStates == {"none", "PREPARED", "CONFIRMED", "RECONCILED", "ABSENT"}
TpslStates   == {"none", "live", "triggered", "cancelled"}

\* Places of the operation in progress.  The first row runs inside the try
\* block of the entry, the second inside the two try blocks of _protect.
Places == {"settle", "settled",
           "record", "verify", "activate",
           "idle", "received", "admit", "prepare", "send", "await", "fill",
           "dead", "ambiguous", "exposure", "measure", "measured", "trigger",
           "closed", "finish", "cleanup", "clean", "cleaned", "flat",
           "loop", "effect", "reconcile", "expiry"}

Engine == [p : Procs \cup {None}, op : {"none", "handle", "redeliver", "reconcile", "recover"},
           t : Trades \cup {None}, pc : Places, e : Effects, ret : Places,
           r : Roles, qty : 0..Q, flag : BOOLEAN, snap : [Roles -> TpslStates],
           bad : BOOLEAN, todoE : SUBSET (Trades \X Effects), todoT : SUBSET Trades]

Idle == [p |-> None, op |-> "none", t |-> None, pc |-> "idle", e |-> "place",
         ret |-> "idle", r |-> "stop", qty |-> 0, flag |-> FALSE,
         snap |-> [r \in Roles |-> "none"], bad |-> FALSE, todoE |-> {}, todoT |-> {}]

\* Where the venue projects an entry order: in the open orders, in the order
\* history, or (accepted or terminal) in neither of them yet.
Order == [at : {"none", "open", "gone", "hist"}, alive : BOOLEAN, filled : 0..Q]

TypeOK ==
  /\ state \in [Trades -> TradeStates]
  /\ filled \in [Trades -> 0..Q]
  /\ exit \in [Trades -> {"none"} \cup Roles \cup Closes]
  /\ prot \in [Trades -> SUBSET Roles]
  /\ eff \in [Trades -> [Effects -> EffectStates]]
  /\ closeQty \in [Trades -> 0..Q]
  /\ ripe \subseteq Trades \X Effects
  /\ allowed \in BOOLEAN
  /\ blocked \in [Procs -> BOOLEAN]
  /\ revoke \in [Procs -> BOOLEAN]
  /\ eng \in Engine
  /\ ord \in [Trades -> Order]
  /\ pos \in [Trades -> 0..Q]
  /\ shown \in [Trades -> 0..Q]
  /\ tp \in [Trades -> [Roles -> TpslStates]]
  /\ trig \in [Trades -> 0..Q]
  /\ clo \in [Trades -> -1..Q]
  /\ wire \subseteq Trades \X Effects
  /\ answered \in BOOLEAN
  /\ sends \in [Trades -> [Effects -> Nat]]
  /\ expired \subseteq Trades
  /\ timedOut \subseteq Trades
  /\ faults \in 0..Faults

Init ==
  /\ state = [t \in Trades |-> "none"]
  /\ filled = [t \in Trades |-> 0]
  /\ exit = [t \in Trades |-> "none"]
  /\ prot = [t \in Trades |-> {}]
  /\ eff = [t \in Trades |-> [e \in Effects |-> "none"]]
  /\ closeQty = [t \in Trades |-> 0]
  /\ ripe = {}
  /\ allowed = FALSE
  /\ blocked = [p \in Procs |-> TRUE]
  /\ revoke = [p \in Procs |-> FALSE]
  /\ eng = Idle
  /\ ord = [t \in Trades |-> [at |-> "none", alive |-> FALSE, filled |-> 0]]
  /\ pos = [t \in Trades |-> 0]
  /\ shown = [t \in Trades |-> 0]
  /\ tp = [t \in Trades |-> [r \in Roles |-> "none"]]
  /\ trig = [t \in Trades |-> 0]
  /\ clo = [t \in Trades |-> -1]
  /\ wire = {}
  /\ answered = FALSE
  /\ sends = [t \in Trades |-> [e \in Effects |-> 0]]
  /\ expired = {}
  /\ timedOut = {}
  /\ faults = 0

Fault == faults < Faults /\ faults' = faults + 1

-----------------------------------------------------------------------------
(* What the engine reads *)

Owned(t)   == state[t] \notin Terminal \cup {"none"}
OwnedTrades == {t \in Trades : Owned(t)}
Open(t)    == ord[t].at = "open"
Visible(t) == ord[t].at \in {"open", "hist"}

\* _settled_entry_projection: the exposure has its exact entry fill projection.
Matched(t) == Visible(t) /\ ord[t].filled >= shown[t]
FillSeen(t) == Visible(t) /\ ord[t].filled > 0
DeadInHistory(t) == ord[t].at = "hist" /\ ord[t].filled = 0

\* _authoritative_account_blockers with ignore_trade_id = x is empty.
AccountClean(x) ==
  \A t \in Trades :
    LET own == Owned(t) /\ t # x IN
    /\ shown[t] > 0 => /\ own
                       /\ state[t] # "ENTRY_PENDING"
                       /\ state[t] \in {"PROTECTING", "ACTIVE"} => shown[t] = filled[t]
    /\ Open(t) => own /\ state[t] \in {"ENTRY_PENDING", "PROTECTING", "ACTIVE"}
    /\ \A r \in Roles : tp[t][r] = "live" => own /\ r \in prot[t]
    /\ own /\ state[t] = "ACTIVE" => shown[t] > 0 /\ tp[t]["target"] = "live"
    /\ own /\ state[t] \in {"PROTECTING", "ACTIVE"} /\ shown[t] > 0 =>
         "stop" \in prot[t] /\ tp[t]["stop"] = "live"

\* _assert_fresh_entry_market and _assert_live_entry_book.
FreshMarket(t) == t \notin expired

\* Mutant: admission does not ask whether the account owns another trade.
AdmissibleBesideOthers(t) == allowed /\ FreshMarket(t) /\ AccountClean(t)

\* _assert_entry_admission, before the entry is prepared and before it is sent.
Admissible(t) ==
  /\ allowed
  /\ FreshMarket(t)
  /\ \A u \in Trades \ {t} : ~Owned(u)
  /\ AccountClean(t)

\* _unripe_effects: ambiguous effects outside the recovery set of this pass.
Unripe(t) == \E e \in Effects : eff[t][e] = "PREPARED" /\ <<t, e>> \notin ripe

\* _proven_venue_trigger: the protections whose trigger is proven.
Proven(t) == {r \in prot[t] : tp[t][r] = "triggered"}
\* _classify_flat_exit attributes the flat position to r alone.
FlatBy(t, r) == Proven(t) = {r} /\ trig[t] = filled[t]

CloseOf(t) == IF state[t] = "EXITING_TIMEOUT" THEN "timeout" ELSE "emergency"
\* Mutant: the close is believed without looking at what it filled.
ManualCloseBelieved(t) == eff[t][CloseOf(t)] # "none"

\* _assert_manual_close_won: full close fill, and no triggered protection.
ManualCloseWon(t) ==
  /\ eff[t][CloseOf(t)] # "none"
  /\ clo[t] = closeQty[t]
  /\ Proven(t) = {}

\* _reconcile_effect has a rule that resolves effect e from the venue state.
Resolvable(t, e) ==
  CASE e = "place"   -> Visible(t) \/ shown[t] = 0
    [] e \in Roles   -> tp[t][e] # "none" /\ (shown[t] > 0 => tp[t][e] = "live")
    [] e = "cancel"  -> ~Open(t)
    [] e \in Closes  -> shown[t] = 0
    [] OTHER         -> tp[t][RoleOf(e)] # "live"

-----------------------------------------------------------------------------
(* Moving the operation on *)

At(l)   == eng.pc = l
Goto(l) == eng' = [eng EXCEPT !.pc = l]
\* Prepare, send and confirm effect e, then continue at l.
Mutate(e, l) == eng' = [eng EXCEPT !.pc = "prepare", !.e = e, !.ret = l]
\* The work on the current trade is over: handle returns, the others loop.
Done == IF eng.op = "handle" THEN Idle
        ELSE [Idle EXCEPT !.p = eng.p, !.op = eng.op, !.pc = "loop", !.bad = eng.bad,
                          !.todoE = eng.todoE, !.todoT = eng.todoT]
Finish == eng' = Done

Move(t, s) == state' = [state EXCEPT ![t] = s]
-----------------------------------------------------------------------------
(* Operations.  Each takes the process and account locks: eng = Idle. *)

Begin(p, op, l) == [Idle EXCEPT !.p = p, !.op = op, !.pc = l]
EntryOpen(p) == eng = Idle /\ ~blocked[p] /\ ~revoke[p] /\ allowed

\* handle: the first delivery of a decision creates its trade.
DeliverNew(p, t) ==
  /\ EntryOpen(p) /\ state[t] = "none"
  /\ Move(t, "RECEIVED")
  /\ eng' = [Begin(p, "handle", "received") EXCEPT !.t = t, !.flag = t \in expired]
  /\ UNCHANGED <<filled, exit, prot, journal, allowed, proc, venue, clock>>

\* handle: a redelivery that finds the trade RECEIVED resumes the entry.
DeliverReceived(p, t) ==
  /\ EntryOpen(p) /\ state[t] = "RECEIVED"
  /\ eng' = [Begin(p, "handle", "received") EXCEPT !.t = t, !.flag = t \in expired]
  /\ UNCHANGED <<durable, proc, venue, clock>>

\* handle: any other redelivery only reconciles (_reconcile_redelivery_locked).
Redeliver(p, t) ==
  /\ EntryOpen(p) /\ Owned(t) /\ state[t] # "RECEIVED"
  /\ eng' = [Begin(p, "redeliver", "loop") EXCEPT
                !.todoE = ripe \cap ({t} \X Effects), !.todoT = {t}]
  /\ UNCHANGED <<durable, proc, venue, clock>>

Block(p) == allowed' = FALSE /\ blocked' = [blocked EXCEPT ![p] = TRUE]

BeginReconcile(p) ==
  /\ eng = Idle /\ ~blocked[p]
  /\ CASE ~allowed -> blocked' = [blocked EXCEPT ![p] = TRUE] /\ UNCHANGED <<allowed, eng>>
       [] allowed /\ ripe # {} -> Block(p) /\ UNCHANGED eng
       [] OTHER -> /\ eng' = [Begin(p, "reconcile", "loop") EXCEPT
                                 !.todoT = OwnedTrades]
                   /\ UNCHANGED <<allowed, blocked>>
  /\ UNCHANGED <<trade, journal, revoke, venue, clock>>

\* Mutant: recovery resolves the effects of requests that are still under way.
BeginRecoveryOfAll(p) ==
  /\ eng = Idle /\ blocked[p]
  /\ allowed' = FALSE
  /\ eng' = [Begin(p, "recover", "loop") EXCEPT
                !.todoE = {x \in Trades \X Effects : eff[x[1]][x[2]] = "PREPARED"},
                !.todoT = OwnedTrades]
  /\ UNCHANGED <<trade, journal, proc, venue, clock>>

\* initialize_recovery, at startup and whenever the process finds itself blocked.
BeginRecovery(p) ==
  /\ eng = Idle /\ blocked[p]
  /\ allowed' = FALSE
  /\ eng' = [Begin(p, "recover", "loop") EXCEPT
                !.todoE = ripe, !.todoT = OwnedTrades]
  /\ UNCHANGED <<trade, journal, proc, venue, clock>>

\* account_snapshot revokes entries when the account projection is not clean.
AccountSnapshot(p) ==
  /\ eng = Idle
  /\ IF blocked[p] \/ ~AccountClean(None) THEN UNCHANGED faults ELSE Fault
  /\ Block(p)
  /\ UNCHANGED <<trade, journal, revoke, eng, venue, clock>>

\* block_entries after a failed handle takes the locks afresh.
BlockEntries(p) ==
  /\ eng = Idle /\ revoke[p]
  /\ Block(p)
  /\ revoke' = [revoke EXCEPT ![p] = FALSE]
  /\ UNCHANGED <<trade, journal, eng, venue, clock>>

-----------------------------------------------------------------------------
(* One effect: prepare it, reserve and send it, confirm its answer *)

\* Mutant: an effect whose outcome is unknown is sent again.
PrepareEffectAgain ==
  LET t == eng.t  e == eng.e IN
  /\ At("prepare") /\ eff[t][e] \in {"none", "PREPARED"}
  /\ eff' = [eff EXCEPT ![t][e] = "PREPARED"]
  /\ closeQty' = IF e \in Closes THEN [closeQty EXCEPT ![t] = eng.qty] ELSE closeQty
  /\ Goto("send")
  /\ UNCHANGED <<trade, ripe, allowed, proc, venue, clock>>

PrepareEffect ==
  LET t == eng.t  e == eng.e IN
  /\ At("prepare") /\ eff[t][e] = "none"
  /\ eff' = [eff EXCEPT ![t][e] = "PREPARED"]
  /\ closeQty' = IF e \in Closes THEN [closeQty EXCEPT ![t] = eng.qty] ELSE closeQty
  /\ Goto("send")
  /\ UNCHANGED <<trade, ripe, allowed, proc, venue, clock>>

\* _cached_effect: a settled effect is never sent again.
ReplayEffect ==
  LET t == eng.t  e == eng.e IN
  /\ At("prepare") /\ eff[t][e] \in {"CONFIRMED", "RECONCILED"}
  /\ e \in Closes => closeQty[t] = eng.qty
  /\ Goto(eng.ret)
  /\ UNCHANGED <<durable, proc, venue, clock>>

SendEffect ==
  LET t == eng.t  e == eng.e IN
  /\ At("send") /\ (e = "place" => Admissible(t))
  /\ wire' = wire \cup {<<t, e>>}
  /\ sends' = [sends EXCEPT ![t][e] = @ + 1]
  /\ Goto("await")
  /\ UNCHANGED <<durable, proc, market, answered, clock>>

Confirm(t, e) == eff' = [eff EXCEPT ![t][e] = "CONFIRMED"]
\* The call is over: a later answer finds no reader.
HangUp == answered' = FALSE /\ UNCHANGED <<market, wire, sends>>

AckEffect ==
  LET t == eng.t  e == eng.e IN
  /\ At("await") /\ e # "place" /\ answered
  /\ Confirm(t, e)
  /\ Goto(eng.ret) /\ HangUp
  /\ UNCHANGED <<trade, closeQty, ripe, allowed, proc, clock>>

-----------------------------------------------------------------------------
(* handle: the entry *)

Received ==
  LET t == eng.t IN
  /\ At("received")
  /\ IF eng.flag THEN Move(t, "CANCELLED") /\ Finish
                 ELSE Move(t, "ENTRY_PENDING") /\ Goto("admit")
  /\ UNCHANGED <<filled, exit, prot, journal, allowed, proc, venue, clock>>

AdmitEntry ==
  LET t == eng.t IN
  /\ At("admit") /\ Admissible(t) /\ eff[t]["place"] = "none"
  /\ eff' = [eff EXCEPT ![t]["place"] = "PREPARED"]
  /\ eng' = [eng EXCEPT !.pc = "send", !.e = "place", !.ret = "settle"]
  /\ UNCHANGED <<trade, closeQty, ripe, allowed, proc, venue, clock>>

\* The response was produced at some moment since the order was accepted.
AckEntry ==
  LET t == eng.t IN
  /\ At("await") /\ eng.e = "place" /\ answered
  /\ Confirm(t, "place") /\ HangUp
  /\ \/ \E f \in 1..ord[t].filled :
          /\ Resting \/ f = ord[t].filled
          /\ eng' = [eng EXCEPT !.pc = "fill", !.qty = f]
     \/ ~ord[t].alive /\ ord[t].filled = 0 /\ Goto("dead")
     \/ eng' = [eng EXCEPT !.pc = "settle", !.flag = FALSE]
  /\ UNCHANGED <<trade, closeQty, ripe, allowed, proc, clock>>

\* _settled_entry_projection returns a fill, or a terminal order without one.
SettledAs(t) ==
  \/ /\ shown[t] > 0 /\ Matched(t)
     /\ eng' = [eng EXCEPT !.pc = "fill", !.qty = ord[t].filled, !.flag = FALSE]
  \/ shown[t] = 0 /\ DeadInHistory(t) /\ Goto("dead")

Settle ==
  LET t == eng.t IN
  /\ At("settle")
  /\ \/ SettledAs(t)
     \/ shown[t] = 0 /\ FillSeen(t) /\ ~eng.flag /\ eng' = [eng EXCEPT !.flag = TRUE]
     \/ /\ shown[t] = 0 /\ ~FillSeen(t) /\ ~DeadInHistory(t) /\ ~eng.flag
        /\ Mutate("cancel", "settled")
  /\ UNCHANGED <<durable, proc, venue, clock>>

Settled ==
  LET t == eng.t IN
  /\ At("settled")
  /\ \/ SettledAs(t)
     \/ shown[t] = 0 /\ ~Visible(t) /\ Goto("dead")
  /\ UNCHANGED <<durable, proc, venue, clock>>

\* Mutants: the target goes first; the requested quantity is taken as filled.
FirstFillTargetFirst ==
  /\ At("fill")
  /\ Move(eng.t, "PROTECTING") /\ filled' = [filled EXCEPT ![eng.t] = eng.qty]
  /\ Mutate("target", "record")
  /\ UNCHANGED <<exit, prot, journal, allowed, proc, venue, clock>>
FirstFillAsRequested ==
  /\ At("fill")
  /\ Move(eng.t, "PROTECTING") /\ filled' = [filled EXCEPT ![eng.t] = Q]
  /\ Mutate("stop", "record")
  /\ UNCHANGED <<exit, prot, journal, allowed, proc, venue, clock>>

FirstFill ==
  LET t == eng.t IN
  /\ At("fill")
  /\ Move(t, "PROTECTING") /\ filled' = [filled EXCEPT ![t] = eng.qty]
  /\ Mutate("stop", "record")
  /\ UNCHANGED <<exit, prot, journal, allowed, proc, venue, clock>>

EntryDead ==
  /\ At("dead")
  /\ Move(eng.t, "CANCELLED") /\ Finish
  /\ UNCHANGED <<filled, exit, prot, journal, allowed, proc, venue, clock>>

\* The except branch: revoke entries under the same locks, then look for exposure.
Ambiguous ==
  /\ At("ambiguous")
  /\ Block(eng.p) /\ eng' = [eng EXCEPT !.pc = "exposure", !.flag = FALSE]
  /\ UNCHANGED <<trade, journal, revoke, venue, clock>>

AmbiguousExposure ==
  LET t == eng.t IN
  /\ At("exposure") /\ shown[t] > 0
  /\ Move(t, "PROTECTING") /\ filled' = [filled EXCEPT ![t] = shown[t]]
  /\ Goto("measure")
  /\ UNCHANGED <<exit, prot, journal, allowed, proc, venue, clock>>

-----------------------------------------------------------------------------
(* _protect: the stop, then the target, then ACTIVE *)

RecordProtection ==
  LET t == eng.t IN
  /\ At("record")
  /\ prot' = [prot EXCEPT ![t] = @ \cup {eng.e}]
  /\ Goto("verify")
  /\ UNCHANGED <<state, filled, exit, journal, allowed, proc, venue, clock>>

\* find_tpsl_record must show the protection live.
VerifyProtection ==
  LET t == eng.t IN
  /\ At("verify") /\ tp[t][eng.e] = "live"
  /\ eff' = [eff EXCEPT ![t][eng.e] = "RECONCILED"]
  /\ IF eng.e = "stop" THEN Mutate("target", "record") ELSE Goto("activate")
  /\ UNCHANGED <<trade, closeQty, ripe, allowed, proc, venue, clock>>

Activate ==
  /\ At("activate")
  /\ Move(eng.t, "ACTIVE") /\ Finish
  /\ UNCHANGED <<filled, exit, prot, journal, allowed, proc, venue, clock>>

-----------------------------------------------------------------------------
(* _emergency_close, _timeout_close, _resume_close_exit: cancel the entry,   *)
(* measure the position, close it                                            *)

CancelRemainder ==
  /\ At("measure") /\ Open(eng.t)
  /\ Mutate("cancel", "measured")
  /\ UNCHANGED <<durable, proc, venue, clock>>

MeasurePosition ==
  LET t == eng.t
      q == shown[t]
      exiting == state[t] \in Exiting IN
  /\ eng.pc \in {"measure", "measured"} /\ ~Open(t)
  /\ filled' = [filled EXCEPT ![t] = IF ~exiting /\ q > @ THEN q ELSE @]
  /\ eng' = IF exiting /\ q > 0
            THEN [eng EXCEPT !.qty = q, !.pc = "prepare", !.e = CloseOf(t), !.ret = "closed"]
            ELSE [eng EXCEPT !.qty = q, !.pc = IF exiting THEN "finish" ELSE "trigger"]
  /\ UNCHANGED <<state, exit, prot, journal, allowed, proc, venue, clock>>

TriggerEmergency ==
  LET t == eng.t IN
  /\ At("trigger")
  /\ Move(t, "EXITING_EMERGENCY") /\ exit' = [exit EXCEPT ![t] = "emergency"]
  /\ IF eng.qty > 0 THEN Mutate("emergency", "closed") ELSE Goto("closed")
  /\ UNCHANGED <<filled, prot, journal, allowed, proc, venue, clock>>

NotFlat(t) == shown[t] > 0 \/ Open(t)

CloseFailed ==
  /\ At("closed") /\ state[eng.t] # "FAILED_BLOCKED" /\ NotFlat(eng.t)
  /\ Move(eng.t, "FAILED_BLOCKED")
  /\ UNCHANGED <<filled, exit, prot, journal, allowed, proc, eng, venue, clock>>

\* An emergency that measured no position skips _assert_manual_close_won.
ClosedFlat ==
  /\ At("closed") /\ state[eng.t] # "FAILED_BLOCKED" /\ ~NotFlat(eng.t)
  /\ Goto(IF eng.qty > 0 THEN "finish" ELSE "cleanup")
  /\ UNCHANGED <<durable, proc, venue, clock>>

\* _finish_venue_exit up to the cleanup.
Won(t) == CASE state[t] = "EXITING_STOP"   -> FlatBy(t, "stop")
            [] state[t] = "EXITING_TARGET" -> FlatBy(t, "target")
            [] OTHER                       -> ManualCloseWon(t)

FinishExit ==
  /\ At("finish") /\ Won(eng.t)
  /\ Goto("cleanup")
  /\ UNCHANGED <<durable, proc, venue, clock>>

-----------------------------------------------------------------------------
(* _cancel_remaining_protection: one read of the venue, then stop and target *)

BeginCleanup ==
  /\ At("cleanup")
  /\ eng' = [eng EXCEPT !.pc = "clean", !.r = "stop", !.snap = tp[eng.t]]
  /\ UNCHANGED <<durable, proc, venue, clock>>

\* Mutant: the target is left behind.
NextRoleStopOnly == eng' = IF eng.flag THEN Done ELSE [eng EXCEPT !.pc = "flat"]

\* After the target: back to the recovery of effects, or on to FLAT.
NextRole == eng' = CASE eng.r = "stop" -> [eng EXCEPT !.r = "target", !.pc = "clean"]
                     [] eng.r = "target" /\ eng.flag -> Done
                     [] OTHER -> [eng EXCEPT !.pc = "flat"]

AdoptProtection ==
  LET t == eng.t  r == eng.r IN
  /\ At("clean") /\ eff[t][r] = "PREPARED" /\ eng.snap[r] # "none"
  /\ eff' = [eff EXCEPT ![t][r] = "RECONCILED"]
  /\ ripe' = ripe \ {<<t, r>>}
  /\ UNCHANGED <<trade, closeQty, allowed, proc, eng, venue, clock>>

SkipProtection ==
  LET t == eng.t  r == eng.r IN
  /\ At("clean")
  /\ \/ eff[t][r] = "none"
     \/ eff[t][r] # "PREPARED" /\ eng.snap[r] \in {"triggered", "cancelled"}
  /\ NextRole
  /\ UNCHANGED <<durable, proc, venue, clock>>

CancelProtection ==
  LET t == eng.t  r == eng.r IN
  /\ At("clean") /\ eff[t][r] # "PREPARED" /\ eng.snap[r] = "live"
  /\ Mutate(CancelOf(r), "cleaned")
  /\ UNCHANGED <<durable, proc, venue, clock>>

ProtectionCancelled ==
  /\ At("cleaned") /\ tp[eng.t][eng.r] # "live"
  /\ NextRole
  /\ UNCHANGED <<durable, proc, venue, clock>>

Flatten ==
  /\ At("flat")
  /\ Move(eng.t, "FLAT") /\ Finish
  /\ UNCHANGED <<filled, exit, prot, journal, allowed, proc, venue, clock>>

-----------------------------------------------------------------------------
(* The loops of recovery, reconciliation and redelivery *)

\* Mutant: an effect that is already settled stays on the list.
PickEffectForever ==
  /\ At("loop")
  /\ \E x \in eng.todoE :
       eng' = IF eff[x[1]][x[2]] = "PREPARED"
              THEN [eng EXCEPT !.t = x[1], !.e = x[2], !.pc = "effect"] ELSE eng
  /\ UNCHANGED <<durable, proc, venue, clock>>

\* _recover_effect_locked re-reads the effect under its lock.
PickEffect ==
  /\ At("loop")
  /\ \E x \in eng.todoE :
       eng' = IF eff[x[1]][x[2]] = "PREPARED"
              THEN [eng EXCEPT !.todoE = @ \ {x}, !.t = x[1], !.e = x[2], !.pc = "effect"]
              ELSE [eng EXCEPT !.todoE = @ \ {x}]
  /\ UNCHANGED <<durable, proc, venue, clock>>

\* _reconcile_effect: a protection found while flat is cleaned up at once.
ResolveEffect ==
  LET t == eng.t  e == eng.e
      absent == e = "place" /\ ~Visible(t) IN
  /\ At("effect") /\ Resolvable(t, e)
  /\ eff' = [eff EXCEPT ![t][e] = IF absent THEN "ABSENT" ELSE "RECONCILED"]
  /\ ripe' = ripe \ {<<t, e>>}
  /\ eng' = IF e \in Roles /\ shown[t] = 0
            THEN [eng EXCEPT !.pc = "cleanup", !.flag = TRUE] ELSE Done
  /\ UNCHANGED <<trade, closeQty, allowed, proc, venue, clock>>

PickTrade ==
  /\ At("loop") /\ eng.todoE = {}
  /\ \E t \in eng.todoT :
       eng' = IF Owned(t) THEN [eng EXCEPT !.todoT = @ \ {t}, !.t = t, !.pc = "reconcile"]
                          ELSE [eng EXCEPT !.todoT = @ \ {t}]
  /\ UNCHANGED <<durable, proc, venue, clock>>

LoopOver == At("loop") /\ eng.todoE = {} /\ eng.todoT = {}

PassDone ==
  /\ LoopOver /\ eng.op # "recover"
  /\ eng' = Idle
  /\ UNCHANGED <<durable, proc, venue, clock>>

\* Mutant: recovery forgets that a trade could not be reconciled.
RecoveryDoneRegardless ==
  /\ LoopOver /\ eng.op = "recover"
  /\ allowed' = AccountClean(None)
  /\ blocked' = [blocked EXCEPT ![eng.p] = ~AccountClean(None)]
  /\ eng' = Idle
  /\ UNCHANGED <<trade, journal, revoke, venue, clock>>

\* complete_recovery, or the blockers that remain.
RecoveryDone ==
  LET clean == ~eng.bad /\ AccountClean(None) IN
  /\ LoopOver /\ eng.op = "recover"
  /\ allowed' = clean /\ blocked' = [blocked EXCEPT ![eng.p] = ~clean]
  /\ eng' = Idle
  /\ UNCHANGED <<trade, journal, revoke, venue, clock>>

-----------------------------------------------------------------------------
(* _reconcile_trade *)

\* The trade as its reconciliation reads it; "expiry" is the second read,
\* after the expired entry has been cancelled.
Reading(t, s) == t = eng.t /\ eng.pc \in {"reconcile", "expiry"} /\ state[t] = s
                 /\ ~Unripe(t) /\ ~(At("expiry") /\ Open(t))
Unfilled(t) == Reading(t, "ENTRY_PENDING") /\ shown[t] = 0
Protected(t) == \A r \in Roles : tp[t][r] = "live"

\* _recover_pre_mutation_gap: no PREPARED entry effect, so no venue mutation.
RecoverGap ==
  \E t \in Trades :
    /\ \/ Reading(t, "RECEIVED")
       \/ Unfilled(t) /\ eff[t]["place"] = "none" /\ ~Visible(t)
    /\ Move(t, "CANCELLED") /\ Finish
    /\ UNCHANGED <<filled, exit, prot, journal, allowed, proc, venue, clock>>

ReconcileFirstFill ==
  \E t \in Trades :
    /\ Reading(t, "ENTRY_PENDING") /\ shown[t] > 0 /\ eff[t]["place"] # "none"
    /\ Move(t, "PROTECTING") /\ filled' = [filled EXCEPT ![t] = shown[t]]
    /\ Mutate("stop", "record")
    /\ UNCHANGED <<exit, prot, journal, allowed, proc, venue, clock>>

\* _record_cumulative_fill
RecordFill ==
  \E t \in Trades :
    /\ Reading(t, "PROTECTING") \/ Reading(t, "ACTIVE")
    /\ shown[t] > filled[t]
    /\ filled' = [filled EXCEPT ![t] = shown[t]]
    /\ UNCHANGED <<state, exit, prot, journal, allowed, proc, eng, venue, clock>>

CancelExpiredEntry ==
  \E t \in Trades :
    /\ At("reconcile") /\ Open(t) /\ t \in expired
    /\ \/ Unfilled(t) /\ eff[t]["place"] # "none"
       \/ Reading(t, "ACTIVE") /\ shown[t] \in {0, filled[t]}
    /\ Mutate("cancel", "expiry")
    /\ UNCHANGED <<durable, proc, venue, clock>>

\* Mutants: absence from the open orders is taken as the end of the entry;
\* the order history is not consulted.
ReconcileAbsentAsDead ==
  \E t \in Trades :
    /\ Unfilled(t) /\ ~Open(t) /\ eff[t]["place"] # "none"
    /\ Move(t, "CANCELLED") /\ Finish
    /\ UNCHANGED <<filled, exit, prot, journal, allowed, proc, venue, clock>>
ReconcileDeadWithoutHistory ==
  \E t \in Trades :
    /\ Unfilled(t) /\ ~Open(t) /\ eff[t]["place"] = "ABSENT"
    /\ Move(t, "CANCELLED") /\ Finish
    /\ UNCHANGED <<filled, exit, prot, journal, allowed, proc, venue, clock>>

\* The entry is absent from the open orders, and provably dead and unfilled.
ReconcileDead ==
  \E t \in Trades :
    /\ Unfilled(t) /\ ~Open(t)
    /\ eff[t]["place"] = "ABSENT" \/ (eff[t]["place"] # "none" /\ DeadInHistory(t))
    /\ Move(t, "CANCELLED") /\ Finish
    /\ UNCHANGED <<filled, exit, prot, journal, allowed, proc, venue, clock>>

\* mark_reconciled: nothing to do until the next pass.
StillPending(t) == /\ Unfilled(t) /\ eff[t]["place"] \notin {"none", "ABSENT"}
                   /\ IF Open(t) THEN t \notin expired ELSE ~Visible(t)
StillActive(t) == /\ Reading(t, "ACTIVE") /\ shown[t] = filled[t] /\ Protected(t)
                  /\ Open(t) => t \notin expired
StillExiting(t) == /\ Reading(t, "EXITING_STOP") \/ Reading(t, "EXITING_TARGET")
                   /\ shown[t] > 0

\* Mutant: the holding deadline is not looked at.
MarkReconciledUntimed ==
  \E t \in Trades :
    /\ StillPending(t) \/ StillActive(t) \/ StillExiting(t)
    /\ Finish
    /\ UNCHANGED <<durable, proc, venue, clock>>

MarkReconciled ==
  \E t \in Trades :
    /\ \/ StillPending(t)
       \/ StillActive(t) /\ t \notin timedOut
       \/ StillExiting(t)
    /\ Finish
    /\ UNCHANGED <<durable, proc, venue, clock>>

\* Mutant: an interrupted protection resumes at the target.
ReconcileProtectingTarget ==
  \E t \in Trades :
    /\ Reading(t, "PROTECTING") /\ shown[t] > 0 /\ shown[t] = filled[t]
    /\ Mutate("target", "record")
    /\ UNCHANGED <<durable, proc, venue, clock>>

ReconcileProtecting ==
  \E t \in Trades :
    /\ Reading(t, "PROTECTING") /\ shown[t] > 0 /\ shown[t] = filled[t]
    /\ Mutate("stop", "record")
    /\ UNCHANGED <<durable, proc, venue, clock>>

ReadFlat(t) ==
  /\ \/ Reading(t, "PROTECTING")
     \/ Reading(t, "ACTIVE") /\ (Open(t) => t \notin expired)
  /\ shown[t] = 0

\* A flat position, attributed to the one protection that triggered.
VenueExit ==
  \E t \in Trades : \E r \in Roles :
    /\ ReadFlat(t) /\ FlatBy(t, r)
    /\ Move(t, ExitingOf(r)) /\ exit' = [exit EXCEPT ![t] = r]
    /\ Goto("cleanup")
    /\ UNCHANGED <<filled, prot, journal, allowed, proc, venue, clock>>

\* Mutant: a trade that is still being protected times out too.
TimeoutCloseEarly ==
  \E t \in Trades :
    /\ Reading(t, "PROTECTING") \/ StillActive(t)
    /\ t \in timedOut
    /\ Move(t, "EXITING_TIMEOUT") /\ exit' = [exit EXCEPT ![t] = "timeout"]
    /\ Goto("measure")
    /\ UNCHANGED <<filled, prot, journal, allowed, proc, venue, clock>>

TimeoutClose ==
  \E t \in Trades :
    /\ StillActive(t) /\ t \in timedOut
    /\ Move(t, "EXITING_TIMEOUT") /\ exit' = [exit EXCEPT ![t] = "timeout"]
    /\ Goto("measure")
    /\ UNCHANGED <<filled, prot, journal, allowed, proc, venue, clock>>

ResumeExit ==
  \E t \in Trades :
    /\ \E s \in Exiting : Reading(t, s)
    /\ shown[t] = 0 \/ state[t] \in {"EXITING_TIMEOUT", "EXITING_EMERGENCY"}
    /\ Goto(IF shown[t] = 0 THEN "finish" ELSE "measure")
    /\ UNCHANGED <<durable, proc, venue, clock>>

-----------------------------------------------------------------------------
(* Exceptions *)

\* What the operation cannot accept in a trade it reconciles.
Unreconcilable(t) ==
  \/ Unripe(t)
  \/ At("expiry") /\ Open(t)
  \/ state[t] = "FAILED_BLOCKED"
  \/ /\ state[t] = "ENTRY_PENDING"
     /\ IF eff[t]["place"] = "none" THEN Visible(t) \/ shown[t] > 0
        ELSE shown[t] = 0 /\ ord[t].at = "hist" /\ ord[t].filled > 0
  \/ /\ state[t] \in {"PROTECTING", "ACTIVE"}
     /\ \/ 0 < shown[t] /\ shown[t] < filled[t]
        \/ shown[t] = 0 /\ \A r \in Roles : ~FlatBy(t, r)
        \/ state[t] = "ACTIVE" /\ shown[t] > 0 /\ ~Protected(t)

\* The explicit raises of the code, and the call that comes back refused.
Refused ==
  LET t == eng.t  e == eng.e IN
  CASE At("admit")    -> ~Admissible(t)
    [] At("prepare")  -> \/ eff[t][e] \in {"PREPARED", "ABSENT"}
                         \/ e \in Closes /\ eff[t][e] # "none" /\ closeQty[t] # eng.qty
    [] At("send")     -> e = "place" /\ ~Admissible(t)
    [] At("await")    -> <<t, e>> \notin wire /\ ~answered
    [] At("settle")   -> IF shown[t] > 0 THEN ~Matched(t) ELSE eng.flag /\ ~DeadInHistory(t)
    [] At("settled")  -> IF shown[t] > 0 THEN ~Matched(t) ELSE Open(t) \/ FillSeen(t)
    [] At("exposure") -> shown[t] = 0
    [] At("verify")   -> tp[t][e] # "live"
    [] At("measured") -> Open(t)
    [] At("closed")   -> state[t] = "FAILED_BLOCKED"
    [] At("finish")   -> ~Won(t)
    [] At("clean")    -> eff[t][eng.r] = "PREPARED" /\ eng.snap[eng.r] = "none"
    [] At("cleaned")  -> tp[t][eng.r] = "live"
    [] At("effect")   -> ~Resolvable(t, e)
    [] eng.pc \in {"reconcile", "expiry"} -> Unreconcilable(t)
    [] OTHER -> FALSE

InEntryTry == /\ eng.op = "handle"
              /\ \/ eng.pc \in {"settle", "settled"}
                 \/ /\ eng.pc \in {"prepare", "send", "await"}
                    /\ eng.e = "place" \/ eng.ret = "settled"
InProtectTry == \/ eng.pc \in {"record", "verify", "activate"}
                \/ eng.pc \in {"prepare", "send", "await"} /\ eng.e \in Roles

Unwind ==
  CASE eng.op \in {"handle", "redeliver"} ->
         revoke' = [revoke EXCEPT ![eng.p] = TRUE] /\ eng' = Idle
         /\ UNCHANGED <<allowed, blocked>>
    [] eng.op = "reconcile" -> Block(eng.p) /\ eng' = Idle /\ UNCHANGED revoke
    [] OTHER -> \* recover
         /\ eng' = IF At("loop") THEN [eng EXCEPT !.bad = TRUE, !.todoE = {}, !.todoT = {}]
                                 ELSE [Done EXCEPT !.bad = TRUE]
         /\ UNCHANGED <<allowed, proc>>

\* A call of the step fails, or a check refuses what the model does not carry:
\* the instrument's rule, the health of the sidecar, the shape of an answer.
Fails == Fault

\* An explicit raise, or a failure.
Raise ==
  /\ eng # Idle /\ IF Refused THEN UNCHANGED faults ELSE Fails
  /\ CASE InEntryTry   -> Goto("ambiguous") /\ UNCHANGED <<allowed, proc>>
       [] InProtectTry -> Goto("measure") /\ UNCHANGED <<allowed, proc>>
       [] OTHER        -> Unwind
  /\ HangUp
  /\ UNCHANGED <<trade, journal, clock>>

\* The process dies: its locks go with it, and it restarts blocked.
Crash(p) ==
  /\ Fault /\ (eng.p = p \/ ~blocked[p] \/ revoke[p])
  /\ IF eng.p = p THEN eng' = Idle /\ HangUp ELSE UNCHANGED <<eng, venue>>
  /\ blocked' = [blocked EXCEPT ![p] = TRUE]
  /\ revoke' = [revoke EXCEPT ![p] = FALSE]
  /\ UNCHANGED <<durable, clock>>

-----------------------------------------------------------------------------
(* The clock *)

\* Two minutes of grace: the request has been served or lost, and the venue's
\* projections of the entry have caught up.
Quiet(t, e) == /\ <<t, e>> \notin wire
               /\ e = "place" => ord[t].at # "gone" /\ shown[t] = pos[t]

Grace(t, e) ==
  /\ eng = Idle /\ eff[t][e] = "PREPARED" /\ Quiet(t, e)
  /\ ripe' = ripe \cup {<<t, e>>}
  /\ UNCHANGED <<trade, eff, closeQty, allowed, proc, eng, venue, clock>>

Expire(t) ==
  /\ expired' = expired \cup {t}
  /\ UNCHANGED <<durable, proc, eng, venue, timedOut>>

\* The holding clock starts at the first fill.
TimeOut(t) ==
  /\ filled[t] > 0
  /\ timedOut' = timedOut \cup {t}
  /\ UNCHANGED <<durable, proc, eng, venue, expired>>

-----------------------------------------------------------------------------
(* The venue.  It serves the requests on the wire in any order.  A refused   *)
(* request leaves the wire without an answer.                                *)

Serve(t, e)  == <<t, e>> \in wire /\ wire' = wire \ {<<t, e>>}
Answer(t, e) == Serve(t, e) /\ answered' = (At("await") /\ eng.t = t /\ eng.e = e)
Refuse(t, e) == Serve(t, e) /\ UNCHANGED answered

\* Unless positions lag, a change is projected at once.
Reposition(t, q) == /\ pos' = [pos EXCEPT ![t] = q]
                    /\ shown' = IF "positions" \in Lag THEN shown ELSE [shown EXCEPT ![t] = q]

\* Accepted, listed or not yet, and possibly dead on arrival.
VenuePlace(t) ==
  /\ Answer(t, "place")
  /\ \E listed, dead \in BOOLEAN :
       /\ ~listed => dead \/ "orders" \in Lag
       /\ ord' = [ord EXCEPT ![t] = [at |-> IF listed /\ ~dead THEN "open" ELSE "gone",
                                    alive |-> ~dead, filled |-> 0]]
  /\ UNCHANGED <<durable, proc, eng, pos, shown, tp, trig, clo, sends, clock>>

\* An IOC entry matches once, and what it does not fill dies.
VenueFill(t) ==
  /\ ord[t].alive
  /\ \E q \in 1..(Q - ord[t].filled) :
       LET n == ord[t].filled + q
           alive == Resting /\ n < Q IN
       /\ ord' = [ord EXCEPT ![t] = [at |-> IF alive THEN @.at ELSE "gone",
                                     alive |-> alive, filled |-> n]]
       /\ Reposition(t, pos[t] + q)
  /\ UNCHANGED <<durable, proc, eng, tp, trig, clo, wire, answered, sends, clock>>

\* An IOC entry dies unmatched.
VenueDie(t) ==
  /\ ord[t].alive /\ ~Resting
  /\ ord' = [ord EXCEPT ![t].alive = FALSE, ![t].at = "gone"]
  /\ UNCHANGED <<durable, proc, eng, pos, shown, tp, trig, clo, wire, answered, sends, clock>>

\* The projections catch up with an accepted or a dead order, and the position.
VenueProject(t) ==
  /\ \/ /\ ord[t].at = "gone"
        /\ ord' = [ord EXCEPT ![t].at = IF ord[t].alive THEN "open" ELSE "hist"]
        /\ UNCHANGED shown
     \/ /\ shown[t] # pos[t]
        /\ shown' = [shown EXCEPT ![t] = pos[t]]
        /\ UNCHANGED ord
  /\ UNCHANGED <<durable, proc, eng, pos, tp, trig, clo, wire, answered, sends, clock>>

VenueCancel(t) ==
  /\ IF ord[t].alive THEN Answer(t, "cancel") ELSE Refuse(t, "cancel")
  /\ ord' = IF ord[t].alive
            THEN [ord EXCEPT ![t].alive = FALSE, ![t].at = "gone"] ELSE ord
  /\ UNCHANGED <<durable, proc, eng, pos, shown, tp, trig, clo, sends, clock>>

VenueCreate(t, r) ==
  /\ Answer(t, r)
  /\ tp' = [tp EXCEPT ![t][r] = "live"]
  /\ UNCHANGED <<durable, proc, eng, ord, pos, shown, trig, clo, sends, clock>>

\* A protection closes the whole position (its quantity is 0).
VenueTrigger(t, r) ==
  /\ tp[t][r] = "live" /\ pos[t] > 0
  /\ tp' = [tp EXCEPT ![t][r] = "triggered"]
  /\ trig' = [trig EXCEPT ![t] = pos[t]]
  /\ Reposition(t, 0)
  /\ UNCHANGED <<durable, proc, eng, ord, clo, wire, answered, sends, clock>>

VenueCancelTpsl(t, r) ==
  LET live == tp[t][r] = "live" IN
  /\ IF live THEN Answer(t, CancelOf(r)) ELSE Refuse(t, CancelOf(r))
  /\ tp' = IF live THEN [tp EXCEPT ![t][r] = "cancelled"] ELSE tp
  /\ UNCHANGED <<durable, proc, eng, ord, pos, shown, trig, clo, sends, clock>>

Lesser(m, n) == IF m < n THEN m ELSE n

\* Reduce-only: it never closes more than the position.
VenueClose(t, e) ==
  LET all == Lesser(closeQty[t], pos[t]) IN
  /\ Answer(t, e)
  /\ \E q \in 0..all : /\ IF q = all THEN UNCHANGED faults ELSE Fault
                       /\ Reposition(t, pos[t] - q)
                       /\ clo' = [clo EXCEPT ![t] = q]
  /\ UNCHANGED <<durable, proc, eng, ord, tp, trig, sends, clock>>

\* An entry or a protection is refused; losing another request is a fault.
VenueRefuse(t, e) ==
  /\ IF e \in {"place"} \cup Roles THEN UNCHANGED faults ELSE Fault
  /\ Refuse(t, e)
  /\ UNCHANGED <<durable, proc, eng, ord, pos, shown, tp, trig, clo, sends, clock>>

-----------------------------------------------------------------------------

Start == \E p \in Procs :
  \/ \E t \in Trades : DeliverNew(p, t) \/ DeliverReceived(p, t) \/ Redeliver(p, t)
  \/ BeginReconcile(p) \/ BeginRecovery(p) \/ BlockEntries(p)

Effect  == PrepareEffect \/ ReplayEffect \/ SendEffect \/ AckEffect
Handle  == \/ Received \/ AdmitEntry \/ AckEntry \/ Settle \/ Settled
           \/ FirstFill \/ EntryDead \/ Ambiguous \/ AmbiguousExposure
Protect == RecordProtection \/ VerifyProtection \/ Activate
Close   == \/ CancelRemainder \/ MeasurePosition \/ TriggerEmergency
           \/ CloseFailed \/ ClosedFlat \/ FinishExit
Cleanup == \/ BeginCleanup \/ AdoptProtection \/ SkipProtection \/ CancelProtection
           \/ ProtectionCancelled \/ Flatten
Loop    == PickEffect \/ ResolveEffect \/ PickTrade \/ PassDone \/ RecoveryDone
Reconcile == \/ RecoverGap \/ ReconcileFirstFill \/ RecordFill \/ CancelExpiredEntry
             \/ ReconcileDead \/ MarkReconciled \/ ReconcileProtecting \/ VenueExit
             \/ TimeoutClose \/ ResumeExit

\* The steps of the operation in progress.
Work == Effect \/ Handle \/ Protect \/ Close \/ Cleanup \/ Loop \/ Reconcile

Serving == \E t \in Trades :
  \/ VenuePlace(t) \/ VenueProject(t) \/ VenueCancel(t) \/ VenueDie(t)
  \/ \E r \in Roles : VenueCreate(t, r) \/ VenueCancelTpsl(t, r)
Market == \E t \in Trades : VenueFill(t) \/ \E r \in Roles : VenueTrigger(t, r)
Clock  == \E t \in Trades :
  Expire(t) \/ TimeOut(t) \/ \E e \in Effects : Grace(t, e)

\* The steps that may be, or may hold, a fault.
Faulty == \/ Raise
          \/ \E p \in Procs : Crash(p) \/ AccountSnapshot(p)
          \/ \E t \in Trades : \/ \E e \in Effects : VenueRefuse(t, e)
                             \/ \E e \in Closes : VenueClose(t, e)

Next == \/ (Start \/ Work \/ Serving \/ Market \/ Clock) /\ UNCHANGED faults
        \/ Faulty

Spec == Init /\ [][Next]_vars

\* Fairness.  A running operation goes on; the venue serves what it is sent;
\* the service loop of each process and the grace period come round again and
\* again, and the locks are granted in turn.  Deliveries, the market, the
\* deadlines and the faults owe nothing.
Operate == UNCHANGED faults /\ (Work \/ (Refused /\ Raise))
Service == UNCHANGED faults /\ (Serving \/ \E t \in Trades, e \in Closes : VenueClose(t, e))
Periodic(p) == UNCHANGED faults /\ (BeginReconcile(p) \/ BeginRecovery(p))
Ripen == UNCHANGED faults /\ \E t \in Trades, e \in Effects : Grace(t, e)

FairSpec == /\ Spec
            /\ WF_vars(Operate) /\ WF_vars(Service)
            /\ \A p \in Procs : SF_vars(Periodic(p))
            /\ SF_vars(Ripen)

-----------------------------------------------------------------------------
(* Properties *)

\* Every effect reaches the venue at most once, through crashes, failed
\* calls, redeliveries and recoveries: the journal row is written before the
\* call and an unresolved one is reconciled, never resubmitted.
AtMostOnceSend == \A t \in Trades, e \in Effects : sends[t][e] <= 1

\* Money at risk: a request, an order that may fill, or a position.
AtRisk(t) == <<t, "place">> \in wire \/ ord[t].alive \/ pos[t] > 0

\* A trade that ended left nothing at the venue: no request, order or
\* position, and no protection that could open or hold anything later.
TerminalIsClean == \A t \in Trades : state[t] \in Terminal =>
  ~AtRisk(t) /\ \A r \in Roles : tp[t][r] # "live" /\ <<t, r>> \notin wire

\* The account is in one trade at a time, across processes and restarts.
SingleExposure == \A t, u \in Trades : AtRisk(t) /\ AtRisk(u) => t = u

\* An ACTIVE trade never holds a position without its live stop.
ActiveIsProtected == \A t \in Trades :
  state[t] = "ACTIVE" /\ pos[t] > 0 => tp[t]["stop"] = "live"

\* A FLAT trade names the exit that closed it: the one protection that
\* triggered for the whole fill, or a close filled for all it asked with no
\* protection competing.  An emergency that found no position has no close.
ExitIsAttributed == \A t \in Trades : state[t] = "FLAT" =>
  CASE exit[t] \in Roles     -> FlatBy(t, exit[t]) /\ clo[t] = -1
    [] eff[t][exit[t]] = "none" -> exit[t] = "emergency" /\ clo[t] = -1
    [] OTHER -> clo[t] = closeQty[t] /\ Proven(t) = {}

\* A CANCELLED trade bought nothing, whatever the venue answered or failed to.
CancelledBoughtNothing == \A t \in Trades : state[t] = "CANCELLED" => ord[t].filled = 0

\* The durable fill is never more than the entry has filled.
FilledIsReal == \A t \in Trades : filled[t] <= ord[t].filled

\* While a remainder may still fill, a position that no protection has touched
\* keeps its stop once the trade is ACTIVE.
StopOutlivesEntry == \A t \in Trades :
  state[t] = "ACTIVE" /\ pos[t] > 0 /\ Proven(t) = {} => tp[t]["stop"] = "live"

\* A request on the wire always has its unresolved journal row: recovery never
\* settles an effect that can still happen.
WireIsJournaled == \A x \in wire : eff[x[1]][x[2]] = "PREPARED"

\* Every operation ends, and with it the locks it holds.
OperationEnds == eng # Idle ~> eng = Idle

\* No trade stays in its entry: it is cancelled, protected or closed.
EntryEnds == \A t \in Trades :
  state[t] \in {"RECEIVED", "ENTRY_PENDING"} ~> state[t] \notin {"RECEIVED", "ENTRY_PENDING"}

\* A position does not stay without its live stop for ever, unless the account
\* takes no entry any more and waits for an operator.
ExposureIsCovered == \A t \in Trades :
  []<>(pos[t] = 0 \/ tp[t]["stop"] = "live") \/ <>[]~allowed

\* A position does not outlive its holding time for ever, with the same way out.
TimeoutCloses == \A t \in Trades :
  []<>(pos[t] = 0 \/ t \notin timedOut) \/ <>[]~allowed

\* Comment: an order-history fill "is authoritative exposure evidence even
\* while the positions projection is lagging".
FlatIsFlat == \A t \in Trades : state[t] = "FLAT" => pos[t] = 0

\* The detailed engine implements the documented lifecycle.
Lifecycle == INSTANCE TradeLifecycle WITH
  engaged <- {t \in Trades : sends[t]["place"] > 0},
  risk    <- {t \in Trades : AtRisk(t)}
Refinement == Lifecycle!Spec

=============================================================================
