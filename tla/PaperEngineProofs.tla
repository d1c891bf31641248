------------------------- MODULE PaperEngineProofs -------------------------
(***************************************************************************)
(* Theorems about the PAPER engine, for any set of processes, trades and   *)
(* faults, any approved quantity, and a venue that keeps remainders and    *)
(* lags or not.                                                            *)
(*                                                                         *)
(* The argument: an effect is sent only between its own PrepareEffect and  *)
(* the end of its call, by the one operation that holds the account lock,  *)
(* and PREPARED is never written twice.  So a row without an effect means  *)
(* that nothing was sent (Journaled), and while a request is on the wire   *)
(* nobody can settle its row: not the operation that waits for it, not a   *)
(* recovery, which only picks effects whose grace is over (InFlight).  The *)
(* quantities are bounded by what the single entry filled (Bought).        *)
(***************************************************************************)
EXTENDS PaperEngine, TLAPS

-----------------------------------------------------------------------------
(* The inductive invariant *)

Working == eng.pc \notin {"idle", "loop"}
Calling == eng.pc \in {"prepare", "send", "await"}

\* The places that a mutation returns to.
Returns == {"idle", "settle", "record", "settled", "measured", "closed", "cleaned", "expiry"}

\* An operation that works has a trade, and _protect works on a protection.
Grounded ==
  /\ Working => eng.t \in Trades
  /\ eng.ret \in Returns
  /\ eng.pc \in {"record", "verify"} => eng.e \in Roles
  /\ Calling => eng.ret # "idle"
  /\ Calling /\ eng.ret = "record" => eng.e \in Roles

\* An entry that is not served yet has bought nothing, and nothing durable or
\* projected exceeds what the entry has bought.
Bought == \A t \in Trades :
  /\ pos[t] <= ord[t].filled /\ shown[t] <= ord[t].filled /\ filled[t] <= ord[t].filled
  /\ sends[t]["place"] = 0 \/ <<t, "place">> \in wire =>
       ord[t].filled = 0 /\ ~ord[t].alive
Filling == eng.pc = "fill" => eng.qty <= ord[eng.t].filled

\* The journal row of an effect tells what may have happened to it.
Journaled == \A t \in Trades, e \in Effects :
  /\ sends[t][e] <= 1
  /\ eff[t][e] = "none" => sends[t][e] = 0 /\ <<t, e>> \notin ripe
  /\ <<t, e>> \in wire =>
       sends[t][e] = 1 /\ eff[t][e] = "PREPARED" /\ <<t, e>> \notin ripe
  /\ e \in Roles /\ (sends[t][e] = 0 \/ <<t, e>> \in wire) => tp[t][e] = "none"

\* What the operation in progress knows of the effects it works on.
InFlight ==
  /\ eng.pc = "send" => /\ eff[eng.t][eng.e] = "PREPARED"
                        /\ sends[eng.t][eng.e] = 0
                        /\ <<eng.t, eng.e>> \notin ripe \cup eng.todoE
  /\ answered => eng.pc = "await" /\ <<eng.t, eng.e>> \notin wire
  /\ eng.pc \in {"record", "verify"} => eff[eng.t][eng.e] # "PREPARED"
  /\ eng.pc = "effect" => <<eng.t, eng.e>> \notin wire
  /\ \A t \in Trades, e \in Effects :
       <<t, e>> \in eng.todoE => <<t, e>> \notin wire /\ eff[t][e] # "none"
  /\ \A r \in Roles :
       eng.snap[r] # "none" => Working /\ tp[eng.t][r] # "none"

IInv == TypeOK /\ Grounded /\ Bought /\ Filling /\ Journaled /\ InFlight

-----------------------------------------------------------------------------
(* Control: the record of the operation in progress *)

NoSnap == [r \in Roles |-> "none"]

\* The resting engine: no trade, no effect, no snapshot.
LEMMA IdleEngine ==
  /\ Idle \in Engine /\ Idle.pc = "idle" /\ Idle.ret = "idle" /\ Idle.e = "place"
  /\ Idle.snap = NoSnap /\ Idle.todoE = {} /\ Idle.todoT = {} /\ Idle.flag = FALSE
<1>1. NoSnap \in [Roles -> TpslStates]
  BY DEF NoSnap, TpslStates
<1>2. "stop" \in Roles /\ "place" \in Effects
  BY DEF Roles, Effects
<1> QED
  BY <1>1, <1>2, QAssumption DEF Idle, Engine, Places, NoSnap

\* An operation that begins.
LEMMA BeginEngine ==
  ASSUME NEW p \in Procs, NEW l \in Places,
         NEW op \in {"handle", "redeliver", "reconcile", "recover"}
  PROVE  /\ Begin(p, op, l) \in Engine
         /\ Begin(p, op, l).pc = l /\ Begin(p, op, l).ret = "idle"
         /\ Begin(p, op, l).snap = NoSnap /\ Begin(p, op, l).todoE = {}
  BY IdleEngine DEF Begin, Engine

\* The work on a trade that ends.
LEMMA DoneEngine ==
  ASSUME eng \in Engine
  PROVE  /\ Done \in Engine
         /\ Done.pc \in {"idle", "loop"} /\ Done.ret = "idle"
         /\ Done.snap = NoSnap /\ Done.todoE \subseteq eng.todoE /\ Done.flag = FALSE
<1>1. CASE eng.op = "handle"
  BY <1>1, IdleEngine DEF Done
<1>2. CASE eng.op # "handle"
  <2> DEFINE x == [Idle EXCEPT !.p = eng.p, !.op = eng.op, !.pc = "loop",
                               !.bad = eng.bad, !.todoE = eng.todoE, !.todoT = eng.todoT]
  <2>1. Done = x
    BY <1>2 DEF Done
  <2>2. /\ x \in Engine /\ x.pc = "loop" /\ x.snap = NoSnap /\ x.todoE = eng.todoE
        /\ x.ret = "idle" /\ x.flag = FALSE
    BY IdleEngine DEF Engine, Places
  <2> QED
    BY <2>1, <2>2
<1> QED
  BY <1>1, <1>2

\* Goto moves the operation and keeps all it holds.
LEMMA GotoEngine ==
  ASSUME eng \in Engine, NEW l \in Places, Goto(l)
  PROVE  /\ eng' \in Engine /\ eng'.pc = l /\ eng'.ret = eng.ret
         /\ eng'.t = eng.t /\ eng'.e = eng.e /\ eng'.qty = eng.qty
         /\ eng'.r = eng.r /\ eng'.flag = eng.flag
         /\ eng'.snap = eng.snap /\ eng'.todoE = eng.todoE
  BY DEF Goto, Engine

\* Mutate turns to an effect and notes where to return.
LEMMA MutateEngine ==
  ASSUME eng \in Engine, NEW e \in Effects, NEW l \in Places, Mutate(e, l)
  PROVE  /\ eng' \in Engine /\ eng'.pc = "prepare" /\ eng'.e = e /\ eng'.ret = l
         /\ eng'.t = eng.t /\ eng'.qty = eng.qty
         /\ eng'.r = eng.r /\ eng'.flag = eng.flag
         /\ eng'.snap = eng.snap /\ eng'.todoE = eng.todoE
<1>1. "prepare" \in Places
  BY DEF Places
<1> QED
  BY <1>1 DEF Mutate, Engine

Controlled == eng \in Engine /\ Grounded

\* Goto a place that carries no obligation.
LEMMA GotoControlled ==
  ASSUME Controlled, Working, NEW l \in Places, l \notin {"record", "verify"},
         l \in {"prepare", "send", "await"} => Calling, Goto(l)
  PROVE  Controlled'
  BY GotoEngine DEF Controlled, Grounded, Working, Calling

\* The return from a mutation.
LEMMA ReturnControlled ==
  ASSUME Controlled, Working, Calling, Goto(eng.ret)
  PROVE  Controlled'
<1>1. eng.ret \in Places
  BY DEF Controlled, Engine
<1> QED
  BY <1>1, GotoEngine DEF Controlled, Grounded, Working, Calling, Returns

\* The start of a mutation.
LEMMA MutateControlled ==
  ASSUME Controlled, Working, NEW e \in Effects, NEW l \in Returns \ {"idle"},
         l = "record" => e \in Roles, Mutate(e, l)
  PROVE  Controlled'
<1>1. l \in Places
  BY DEF Returns, Places
<1> QED
  BY <1>1, MutateEngine DEF Controlled, Grounded, Working, Calling

\* The end of the work on a trade, and of the operation.
LEMMA FinishControlled ==
  ASSUME Controlled, Finish \/ eng' = Idle \/ UNCHANGED eng
  PROVE  Controlled'
  BY IdleEngine, DoneEngine DEF Finish, Controlled, Grounded, Working, Calling, Returns

\* Any other change that leaves the place unobliging.
LEMMA PlainControlled ==
  ASSUME eng' \in Engine, eng'.t \in Trades, eng'.ret \in Returns,
         eng'.pc \notin {"record", "verify", "prepare", "send", "await"}
  PROVE  Controlled'
  BY DEF Controlled, Grounded, Working, Calling

LEMMA OwnedTradesType == OwnedTrades \subseteq Trades
  BY DEF OwnedTrades

\* A pass over effects and trades that begins.
LEMMA PassEngine ==
  ASSUME NEW b \in Engine, NEW x \in SUBSET (Trades \X Effects), NEW y \in SUBSET Trades,
         eng' = [b EXCEPT !.todoE = x, !.todoT = y]
  PROVE  /\ eng' \in Engine /\ eng'.pc = b.pc /\ eng'.ret = b.ret
         /\ eng'.snap = b.snap /\ eng'.todoE = x /\ eng'.flag = b.flag
  BY DEF Engine

\* A delivery that begins.
LEMMA DeliveryEngine ==
  ASSUME NEW b \in Engine, NEW t \in Trades, NEW f \in BOOLEAN,
         eng' = [b EXCEPT !.t = t, !.flag = f]
  PROVE  /\ eng' \in Engine /\ eng'.pc = b.pc /\ eng'.ret = b.ret
         /\ eng'.t = t /\ eng'.snap = b.snap /\ eng'.todoE = b.todoE
  BY DEF Engine

\* The operations that start.
LEMMA StartControl ==
  ASSUME TypeOK, Grounded, Start
  PROVE  Controlled'
<1>1. Controlled
  BY DEF TypeOK, Controlled
<1>2. /\ "loop" \in Places /\ "received" \in Places /\ "idle" \in Returns
  BY DEF Places, Returns
<1>3. ASSUME NEW p \in Procs, NEW t \in Trades, DeliverNew(p, t) \/ DeliverReceived(p, t)
      PROVE  Controlled'
  <2>1. eng' = [Begin(p, "handle", "received") EXCEPT !.t = t, !.flag = t \in expired]
    BY <1>3 DEF DeliverNew, DeliverReceived
  <2>2. (t \in expired) \in BOOLEAN
    OBVIOUS
  <2>3. Begin(p, "handle", "received") \in Engine /\ Begin(p, "handle", "received").ret = "idle"
    BY <1>2, BeginEngine
  <2>4. /\ eng' \in Engine /\ eng'.t = t
        /\ eng'.pc = "received" /\ eng'.ret = "idle"
    BY <2>1, <2>2, <2>3, <1>2, BeginEngine, DeliveryEngine
  <2> QED
    BY <2>4, <1>2, PlainControlled
<1>4. ASSUME NEW p \in Procs, NEW t \in Trades, Redeliver(p, t)
      PROVE  Controlled'
  <2>1. eng' = [Begin(p, "redeliver", "loop") EXCEPT
                  !.todoE = ripe \cap ({t} \X Effects), !.todoT = {t}]
    BY <1>4 DEF Redeliver
  <2>2. ripe \cap ({t} \X Effects) \in SUBSET (Trades \X Effects) /\ {t} \in SUBSET Trades
    BY DEF TypeOK
  <2>3. /\ Begin(p, "redeliver", "loop") \in Engine /\ Begin(p, "redeliver", "loop").pc = "loop"
        /\ Begin(p, "redeliver", "loop").ret = "idle"
    BY <1>2, BeginEngine
  <2>4. eng' \in Engine /\ eng'.pc = "loop" /\ eng'.ret = "idle"
    BY <2>1, <2>2, <2>3, PassEngine
  <2> QED
    BY <2>4, <1>2 DEF Controlled, Grounded, Working, Calling
<1>5. ASSUME NEW p \in Procs, BeginReconcile(p)
      PROVE  Controlled'
  <2>1. \/ UNCHANGED eng
        \/ eng' = [Begin(p, "reconcile", "loop") EXCEPT !.todoT = OwnedTrades]
    BY <1>5 DEF BeginReconcile
  <2>2. CASE eng' = [Begin(p, "reconcile", "loop") EXCEPT !.todoT = OwnedTrades]
    <3>1. eng' \in Engine /\ eng'.pc = "loop" /\ eng'.ret = "idle"
      BY <2>2, <1>2, BeginEngine, OwnedTradesType DEF Engine
    <3> QED
      BY <3>1, <1>2 DEF Controlled, Grounded, Working, Calling
  <2> QED
    BY <2>1, <2>2, <1>1, FinishControlled
<1>6. ASSUME NEW p \in Procs, BeginRecovery(p)
      PROVE  Controlled'
  <2>1. eng' = [Begin(p, "recover", "loop") EXCEPT !.todoE = ripe, !.todoT = OwnedTrades]
    BY <1>6 DEF BeginRecovery
  <2>2. ripe \in SUBSET (Trades \X Effects) /\ OwnedTrades \in SUBSET Trades
    BY OwnedTradesType DEF TypeOK
  <2>3. /\ Begin(p, "recover", "loop") \in Engine /\ Begin(p, "recover", "loop").pc = "loop"
        /\ Begin(p, "recover", "loop").ret = "idle"
    BY <1>2, BeginEngine
  <2>4. eng' \in Engine /\ eng'.pc = "loop" /\ eng'.ret = "idle"
    BY <2>1, <2>2, <2>3, PassEngine
  <2> QED
    BY <2>4, <1>2 DEF Controlled, Grounded, Working, Calling
<1>7. ASSUME NEW p \in Procs, BlockEntries(p)
      PROVE  Controlled'
  BY <1>7, <1>1, FinishControlled DEF BlockEntries
<1> QED
  BY <1>3, <1>4, <1>5, <1>6, <1>7 DEF Start

\* The steps of one effect, and of the entry.
LEMMA HandleControl ==
  ASSUME TypeOK, Grounded, Effect \/ Handle
  PROVE  Controlled'
<1>1. Controlled /\ eng \in Engine
  BY DEF TypeOK, Controlled
<1>2. /\ {"send", "await", "admit", "dead", "exposure", "fill", "settle", "settled"} \subseteq Places
      /\ {"settled", "record"} \subseteq Returns
      /\ {"cancel", "stop", "place"} \subseteq Effects /\ "stop" \in Roles
  BY DEF Places, Returns, Effects, Roles
<1>3. CASE PrepareEffect \/ SendEffect
  BY <1>3, <1>1, <1>2, GotoControlled DEF PrepareEffect, SendEffect, At, Working, Calling
<1>4. CASE ReplayEffect \/ AckEffect
  BY <1>4, <1>1, ReturnControlled DEF ReplayEffect, AckEffect, At, Working, Calling
<1>5. CASE Received
  <2>1. At("received") /\ (Finish \/ Goto("admit"))
    BY <1>5 DEF Received
  <2> QED
    BY <2>1, <1>1, <1>2, FinishControlled, GotoControlled DEF At, Working
<1>6. CASE AdmitEntry
  <2>1. At("admit") /\ eng' = [eng EXCEPT !.pc = "send", !.e = "place", !.ret = "settle"]
    BY <1>6 DEF AdmitEntry
  <2>2. /\ eng' \in Engine /\ eng'.pc = "send" /\ eng'.t = eng.t /\ eng'.ret = "settle"
    BY <2>1, <1>1, <1>2 DEF Engine
  <2>3. eng.t \in Trades
    BY <2>1 DEF At, Grounded, Working
  <2> QED
    BY <2>2, <2>3 DEF Controlled, Grounded, Working, Calling, Returns
<1>7. CASE AckEntry
  <2>1. eng.t \in Trades /\ eng.ret \in Returns /\ eng.pc = "await"
    BY <1>7 DEF AckEntry, At, Grounded, Working
  <2>2. \/ \E f \in 1..ord[eng.t].filled : eng' = [eng EXCEPT !.pc = "fill", !.qty = f]
        \/ Goto("dead") \/ eng' = [eng EXCEPT !.pc = "settle", !.flag = FALSE]
    BY <1>7 DEF AckEntry
  <2>3. ord[eng.t].filled \in 0..Q
    BY <2>1 DEF TypeOK, Order
  <2>4. CASE \E f \in 1..ord[eng.t].filled : eng' = [eng EXCEPT !.pc = "fill", !.qty = f]
    <3>1. PICK f \in 1..ord[eng.t].filled : eng' = [eng EXCEPT !.pc = "fill", !.qty = f]
      BY <2>4
    <3>2. f \in 0..Q
      BY <2>3, QAssumption
    <3>3. eng' \in Engine /\ eng'.pc = "fill" /\ eng'.t = eng.t /\ eng'.ret = eng.ret
      BY <3>1, <3>2, <1>1, <1>2 DEF Engine
    <3> QED
      BY <3>3, <2>1, PlainControlled
  <2>5. CASE eng' = [eng EXCEPT !.pc = "settle", !.flag = FALSE]
    <3>1. eng' \in Engine /\ eng'.pc = "settle" /\ eng'.t = eng.t /\ eng'.ret = eng.ret
      BY <2>5, <1>1, <1>2 DEF Engine
    <3> QED
      BY <3>1, <2>1, PlainControlled
  <2> QED
    BY <2>1, <2>2, <2>4, <2>5, <1>1, <1>2, GotoControlled DEF Working
<1>8. CASE Settle \/ Settled
  <2>1. eng.t \in Trades /\ eng.ret \in Returns /\ eng.pc \in {"settle", "settled"}
    BY <1>8 DEF Settle, Settled, At, Grounded, Working
  <2>2. \/ eng' = [eng EXCEPT !.pc = "fill", !.qty = ord[eng.t].filled, !.flag = FALSE]
        \/ Goto("dead") \/ (eng' = [eng EXCEPT !.flag = TRUE] /\ eng.pc = "settle")
        \/ Mutate("cancel", "settled")
    BY <1>8, Zenon DEF Settle, Settled, SettledAs, At
  <2>3. ord[eng.t].filled \in 0..Q
    BY <2>1 DEF TypeOK, Order
  <2>4. CASE eng' = [eng EXCEPT !.pc = "fill", !.qty = ord[eng.t].filled, !.flag = FALSE]
    <3>1. eng' \in Engine /\ eng'.pc = "fill" /\ eng'.t = eng.t /\ eng'.ret = eng.ret
      BY <2>4, <2>3, <1>1, <1>2 DEF Engine
    <3> QED
      BY <3>1, <2>1, PlainControlled
  <2>5. CASE eng' = [eng EXCEPT !.flag = TRUE] /\ eng.pc = "settle"
    <3>1. eng' \in Engine /\ eng'.pc = "settle" /\ eng'.t = eng.t /\ eng'.ret = eng.ret
      BY <2>5, <1>1, <1>2 DEF Engine
    <3> QED
      BY <3>1, <2>1, PlainControlled
  <2> QED
    BY <2>1, <2>2, <2>4, <2>5, <1>1, <1>2, GotoControlled, MutateControlled DEF Working
<1>9. CASE FirstFill
  BY <1>9, <1>1, <1>2, MutateControlled DEF FirstFill, At, Working
<1>10. CASE EntryDead
  BY <1>10, <1>1, FinishControlled DEF EntryDead
<1>11. CASE AmbiguousExposure
  <2>1. "measure" \in Places
    BY DEF Places
  <2> QED
    BY <2>1, <1>11, <1>1, GotoControlled DEF AmbiguousExposure, At, Working
<1>12. CASE Ambiguous
  <2>1. eng.t \in Trades /\ eng.ret \in Returns
    BY <1>12 DEF Ambiguous, At, Grounded, Working
  <2>2. eng' \in Engine /\ eng'.pc = "exposure" /\ eng'.t = eng.t /\ eng'.ret = eng.ret
    BY <1>12, <1>1, <1>2 DEF Ambiguous, Engine
  <2> QED
    BY <2>1, <2>2, PlainControlled
<1> QED
  BY <1>3, <1>4, <1>5, <1>6, <1>7, <1>8, <1>9, <1>10, <1>11, <1>12 DEF Effect, Handle

\* _protect, the close and the cleanup.
LEMMA ExitControl ==
  ASSUME TypeOK, Grounded, Protect \/ Close \/ Cleanup
  PROVE  Controlled'
<1>1. Controlled /\ eng \in Engine
  BY DEF TypeOK, Controlled
<1>2. /\ {"verify", "activate", "measure", "trigger", "closed", "finish", "cleanup",
          "prepare", "clean", "flat"} \subseteq Places
      /\ {"record", "measured", "closed", "cleaned"} \subseteq Returns
      /\ {"target", "cancel", "emergency", "timeout", "stopX", "targetX"} \subseteq Effects
      /\ Roles = {"stop", "target"}
  BY DEF Places, Returns, Effects, Roles, Closes
<1>3. CASE RecordProtection
  <2>1. At("record") /\ Goto("verify")
    BY <1>3 DEF RecordProtection
  <2> QED
    BY <2>1, <1>1, <1>2, GotoEngine DEF Controlled, Grounded, Working, Calling, At
<1>4. CASE VerifyProtection
  <2>1. At("verify") /\ (Mutate("target", "record") \/ Goto("activate"))
    BY <1>4 DEF VerifyProtection
  <2> QED
    BY <2>1, <1>1, <1>2, GotoControlled, MutateControlled DEF At, Working
<1>5. CASE Activate \/ Flatten
  BY <1>5, <1>1, FinishControlled DEF Activate, Flatten
<1>6. CASE CancelRemainder
  BY <1>6, <1>1, <1>2, MutateControlled DEF CancelRemainder, At, Working
<1>7. CASE MeasurePosition
  <2>1. eng.t \in Trades /\ eng.ret \in Returns
    BY <1>7 DEF MeasurePosition, Grounded, Working
  <2>2. shown[eng.t] \in 0..Q /\ CloseOf(eng.t) \in Effects
    BY <2>1, <1>2 DEF TypeOK, CloseOf
  <2>3. \/ eng' = [eng EXCEPT !.qty = shown[eng.t], !.pc = "prepare",
                              !.e = CloseOf(eng.t), !.ret = "closed"]
        \/ eng' = [eng EXCEPT !.qty = shown[eng.t], !.pc = "finish"]
        \/ eng' = [eng EXCEPT !.qty = shown[eng.t], !.pc = "trigger"]
    BY <1>7 DEF MeasurePosition
  <2>4. CASE eng' = [eng EXCEPT !.qty = shown[eng.t], !.pc = "prepare",
                                !.e = CloseOf(eng.t), !.ret = "closed"]
    <3>1. "closed" \in Places /\ "prepare" \in Places
      BY <1>2
    <3>2. /\ eng' \in Engine /\ eng'.pc = "prepare" /\ eng'.ret = "closed" /\ eng'.t = eng.t
      BY <2>4, <2>2, <3>1, <1>1 DEF Engine
    <3> QED
      BY <3>2, <2>1, <1>2 DEF Controlled, Grounded, Working, Calling
  <2>5. ASSUME NEW l \in {"finish", "trigger"},
               eng' = [eng EXCEPT !.qty = shown[eng.t], !.pc = l]
        PROVE  Controlled'
    <3>1. eng' \in Engine /\ eng'.pc = l /\ eng'.ret = eng.ret /\ eng'.t = eng.t
      BY <2>5, <2>2, <1>1, <1>2 DEF Engine
    <3> QED
      BY <3>1, <2>1, PlainControlled
  <2> QED
    BY <2>3, <2>4, <2>5
<1>8. CASE TriggerEmergency
  <2>1. At("trigger") /\ (Mutate("emergency", "closed") \/ Goto("closed"))
    BY <1>8 DEF TriggerEmergency
  <2> QED
    BY <2>1, <1>1, <1>2, GotoControlled, MutateControlled DEF At, Working
<1>9. CASE CloseFailed \/ AdoptProtection
  BY <1>9, <1>1, FinishControlled DEF CloseFailed, AdoptProtection
<1>10. CASE ClosedFlat \/ FinishExit
  <2>1. eng.pc \in {"closed", "finish"} /\ (Goto("finish") \/ Goto("cleanup"))
    BY <1>10 DEF ClosedFlat, FinishExit, At
  <2> QED
    BY <2>1, <1>1, <1>2, GotoControlled DEF Working
<1>11. CASE BeginCleanup
  <2>1. eng' = [eng EXCEPT !.pc = "clean", !.r = "stop", !.snap = tp[eng.t]]
    BY <1>11 DEF BeginCleanup
  <2>2. eng.t \in Trades /\ eng.ret \in Returns
    BY <1>11 DEF BeginCleanup, At, Grounded, Working
  <2>3. tp[eng.t] \in [Roles -> TpslStates]
    BY <2>2 DEF TypeOK
  <2>4. "clean" \in Places /\ "stop" \in Roles
    BY <1>2
  <2>5. eng' \in Engine /\ eng'.pc = "clean" /\ eng'.ret = eng.ret /\ eng'.t = eng.t
    BY <2>1, <2>3, <2>4, <1>1 DEF Engine
  <2> QED
    BY <2>5, <2>2, PlainControlled
<1>12. CASE SkipProtection \/ ProtectionCancelled
  <2>1. eng.t \in Trades /\ eng.ret \in Returns
    BY <1>12 DEF SkipProtection, ProtectionCancelled, At, Grounded, Working
  <2>2. \/ eng' = [eng EXCEPT !.r = "target", !.pc = "clean"]
        \/ eng' = Done \/ eng' = [eng EXCEPT !.pc = "flat"]
    <3>1. NextRole /\ eng.r \in {"stop", "target"}
      BY <1>12, <1>1, <1>2 DEF SkipProtection, ProtectionCancelled, Engine
    <3> QED
      BY <3>1 DEF NextRole
  <2>3. CASE eng' = [eng EXCEPT !.r = "target", !.pc = "clean"]
    <3>1. eng' \in Engine /\ eng'.pc = "clean" /\ eng'.ret = eng.ret /\ eng'.t = eng.t
      BY <2>3, <1>1, <1>2 DEF Engine
    <3> QED
      BY <3>1, <2>1, PlainControlled
  <2>4. CASE eng' = [eng EXCEPT !.pc = "flat"]
    <3>1. eng' \in Engine /\ eng'.pc = "flat" /\ eng'.ret = eng.ret /\ eng'.t = eng.t
      BY <2>4, <1>1, <1>2 DEF Engine
    <3> QED
      BY <3>1, <2>1, PlainControlled
  <2> QED
    BY <2>2, <2>3, <2>4, <1>1, FinishControlled DEF Finish
<1>13. CASE CancelProtection
  <2>1. CancelOf(eng.r) \in Effects
    BY <1>2 DEF CancelOf
  <2> QED
    BY <2>1, <1>13, <1>1, <1>2, MutateControlled DEF CancelProtection, At, Working
<1> QED
  BY <1>3, <1>4, <1>5, <1>6, <1>7, <1>8, <1>9, <1>10, <1>11, <1>12, <1>13
  DEF Protect, Close, Cleanup

\* The loops, and the reconciliation of a trade.
LEMMA LoopControl ==
  ASSUME TypeOK, Grounded, Loop \/ Reconcile
  PROVE  Controlled'
<1>1. Controlled /\ eng \in Engine
  BY DEF TypeOK, Controlled
<1>2. /\ {"effect", "cleanup", "reconcile", "measure", "finish"} \subseteq Places
      /\ {"record", "expiry"} \subseteq Returns
      /\ {"stop", "cancel"} \subseteq Effects /\ "stop" \in Roles
  BY DEF Places, Returns, Effects, Roles, Closes
<1>3. CASE PickEffect
  <2>1. PICK x \in eng.todoE :
          \/ eng' = [eng EXCEPT !.todoE = @ \ {x}, !.t = x[1], !.e = x[2], !.pc = "effect"]
          \/ eng' = [eng EXCEPT !.todoE = @ \ {x}]
    BY <1>3 DEF PickEffect
  <2>2. x[1] \in Trades /\ x[2] \in Effects /\ eng.todoE \ {x} \in SUBSET (Trades \X Effects)
    BY <1>1 DEF Engine
  <2>3. eng.pc = "loop" /\ eng.ret \in Returns
    BY <1>3 DEF PickEffect, At, Grounded
  <2>4. CASE eng' = [eng EXCEPT !.todoE = @ \ {x}, !.t = x[1], !.e = x[2], !.pc = "effect"]
    <3>1. eng' \in Engine /\ eng'.pc = "effect" /\ eng'.ret = eng.ret /\ eng'.t = x[1]
      BY <2>4, <2>2, <1>1, <1>2 DEF Engine
    <3> QED
      BY <3>1, <2>2, <2>3, PlainControlled
  <2>5. CASE eng' = [eng EXCEPT !.todoE = @ \ {x}]
    <3>1. eng' \in Engine /\ eng'.pc = eng.pc /\ eng'.ret = eng.ret
      BY <2>5, <2>2, <1>1 DEF Engine
    <3> QED
      BY <3>1, <2>3 DEF Controlled, Grounded, Working, Calling
  <2> QED
    BY <2>1, <2>4, <2>5
<1>4. CASE ResolveEffect
  <2>1. \/ eng' = [eng EXCEPT !.pc = "cleanup", !.flag = TRUE]
        \/ eng' = Done
    BY <1>4 DEF ResolveEffect
  <2>2. eng.t \in Trades /\ eng.ret \in Returns
    BY <1>4 DEF ResolveEffect, At, Grounded, Working
  <2>3. CASE eng' = [eng EXCEPT !.pc = "cleanup", !.flag = TRUE]
    <3>1. eng' \in Engine /\ eng'.pc = "cleanup" /\ eng'.ret = eng.ret /\ eng'.t = eng.t
      BY <2>3, <1>1, <1>2 DEF Engine
    <3> QED
      BY <3>1, <2>2, PlainControlled
  <2> QED
    BY <2>1, <2>3, <1>1, FinishControlled DEF Finish
<1>5. CASE PickTrade
  <2>1. PICK t \in eng.todoT :
          \/ eng' = [eng EXCEPT !.todoT = @ \ {t}, !.t = t, !.pc = "reconcile"]
          \/ eng' = [eng EXCEPT !.todoT = @ \ {t}]
    BY <1>5 DEF PickTrade
  <2>2. t \in Trades /\ eng.todoT \ {t} \in SUBSET Trades
    BY <1>1 DEF Engine
  <2>3. eng.pc = "loop" /\ eng.ret \in Returns
    BY <1>5 DEF PickTrade, At, Grounded
  <2>4. CASE eng' = [eng EXCEPT !.todoT = @ \ {t}, !.t = t, !.pc = "reconcile"]
    <3>1. eng' \in Engine /\ eng'.pc = "reconcile" /\ eng'.ret = eng.ret /\ eng'.t = t
      BY <2>4, <2>2, <1>1, <1>2 DEF Engine
    <3> QED
      BY <3>1, <2>2, <2>3, PlainControlled
  <2>5. CASE eng' = [eng EXCEPT !.todoT = @ \ {t}]
    <3>1. eng' \in Engine /\ eng'.pc = eng.pc /\ eng'.ret = eng.ret
      BY <2>5, <2>2, <1>1 DEF Engine
    <3> QED
      BY <3>1, <2>3 DEF Controlled, Grounded, Working, Calling
  <2> QED
    BY <2>1, <2>4, <2>5
<1>6. CASE PassDone \/ RecoveryDone
  BY <1>6, <1>1, FinishControlled DEF PassDone, RecoveryDone
<1>7. CASE RecoverGap \/ ReconcileDead \/ MarkReconciled \/ RecordFill
  BY <1>7, <1>1, FinishControlled DEF RecoverGap, ReconcileDead, MarkReconciled, RecordFill
<1>8. CASE ReconcileFirstFill \/ ReconcileProtecting \/ CancelExpiredEntry
  <2>1. /\ eng.pc \in {"reconcile", "expiry"}
        /\ Mutate("stop", "record") \/ Mutate("cancel", "expiry")
    BY <1>8 DEF ReconcileFirstFill, ReconcileProtecting, CancelExpiredEntry, Reading, At
  <2> QED
    BY <2>1, <1>1, <1>2, MutateControlled DEF Working
<1>9. CASE VenueExit \/ TimeoutClose \/ ResumeExit
  <2>1. /\ eng.pc \in {"reconcile", "expiry"}
        /\ Goto("cleanup") \/ Goto("measure") \/ Goto("finish")
    BY <1>9 DEF VenueExit, ReadFlat, TimeoutClose, ResumeExit, Reading, StillActive
  <2> QED
    BY <2>1, <1>1, <1>2, GotoControlled DEF Working
<1> QED
  BY <1>3, <1>4, <1>5, <1>6, <1>7, <1>8, <1>9 DEF Loop, Reconcile

\* Exceptions, crashes, the clock and the venue.
LEMMA OutsideControl ==
  ASSUME TypeOK, Grounded, Serving \/ Market \/ Clock \/ Faulty
  PROVE  Controlled'
<1>1. Controlled /\ eng \in Engine
  BY DEF TypeOK, Controlled
<1>2. CASE Raise
  <2>1. {"ambiguous", "measure"} \subseteq Places
    BY DEF Places
  <2>2. CASE InEntryTry /\ Goto("ambiguous")
    BY <2>1, <2>2, <1>1, GotoControlled DEF InEntryTry, Working
  <2>3. CASE InProtectTry /\ Goto("measure")
    BY <2>1, <2>3, <1>1, GotoControlled DEF InProtectTry, Working
  <2>4. CASE Unwind
    <3>1. \/ eng' = Idle
          \/ At("loop") /\ eng' = [eng EXCEPT !.bad = TRUE, !.todoE = {}, !.todoT = {}]
          \/ eng' = [Done EXCEPT !.bad = TRUE]
      BY <2>4 DEF Unwind
    <3>2. CASE At("loop") /\ eng' = [eng EXCEPT !.bad = TRUE, !.todoE = {}, !.todoT = {}]
      <4>1. eng' \in Engine /\ eng'.pc = "loop" /\ eng'.ret = eng.ret
        BY <3>2, <1>1 DEF Engine, At
      <4> QED
        BY <4>1, <1>1 DEF Controlled, Grounded, Working, Calling
    <3>3. CASE eng' = [Done EXCEPT !.bad = TRUE]
      <4>1. /\ eng' \in Engine /\ eng'.pc \in {"idle", "loop"} /\ eng'.ret = "idle"
        BY <3>3, <1>1, DoneEngine DEF Engine
      <4> QED
        BY <4>1 DEF Controlled, Grounded, Working, Calling, Returns
    <3> QED
      BY <3>1, <3>2, <3>3, <1>1, FinishControlled
  <2> QED
    BY <2>2, <2>3, <2>4, <1>2 DEF Raise
<1>3. ASSUME NEW p \in Procs, Crash(p) \/ AccountSnapshot(p)
      PROVE  Controlled'
  <2>1. eng' = Idle \/ UNCHANGED eng
    BY <1>3 DEF Crash, AccountSnapshot
  <2> QED
    BY <2>1, <1>1, FinishControlled
<1>4. ASSUME UNCHANGED eng PROVE Controlled'
  BY <1>4, <1>1, FinishControlled
<1>5. CASE Serving
  <2>1. UNCHANGED eng
    BY <1>5 DEF Serving, VenuePlace, VenueProject, VenueCancel, VenueDie, VenueCreate,
                VenueCancelTpsl
  <2> QED
    BY <2>1, <1>4
<1>6. CASE Market \/ Clock
  <2>1. UNCHANGED eng
    BY <1>6 DEF Market, Clock, VenueFill, VenueTrigger, Expire, TimeOut, Grace
  <2> QED
    BY <2>1, <1>4
<1>7. ASSUME NEW t \in Trades, NEW e, VenueRefuse(t, e) \/ VenueClose(t, e)
      PROVE  Controlled'
  <2>1. UNCHANGED eng
    BY <1>7 DEF VenueRefuse, VenueClose
  <2> QED
    BY <2>1, <1>4
<1> QED
  BY <1>2, <1>3, <1>5, <1>6, <1>7 DEF Faulty

\* The operation in progress stays well formed.
LEMMA ControlStep ==
  ASSUME TypeOK, Grounded, [Next]_vars
  PROVE  Controlled'
<1>1. CASE UNCHANGED vars
  BY <1>1, FinishControlled DEF TypeOK, Controlled, vars
<1> QED
  BY <1>1, StartControl, HandleControl, ExitControl, LoopControl, OutsideControl
  DEF Next, Work


-----------------------------------------------------------------------------
(* Types of the data *)

\* The initial state satisfies the invariant.
LEMMA InitIInv == Init => IInv
<1> SUFFICES ASSUME Init PROVE IInv
  OBVIOUS
<1>1. TypeOK
  <2>1. 0 \in 0..Q /\ 0 \in 0..Faults /\ -1 \in -1..Q /\ 0 \in Nat
    BY QAssumption, FaultsAssumption
  <2>2. /\ "none" \in TradeStates /\ "none" \in EffectStates /\ "none" \in TpslStates
        /\ [at |-> "none", alive |-> FALSE, filled |-> 0] \in Order
    BY <2>1 DEF TradeStates, EffectStates, TpslStates, Order
  <2>3. /\ state \in [Trades -> TradeStates]
        /\ exit \in [Trades -> {"none"} \cup Roles \cup Closes]
        /\ prot \in [Trades -> SUBSET Roles]
        /\ ord \in [Trades -> Order]
    BY <2>2 DEF Init
  <2>4. /\ eff \in [Trades -> [Effects -> EffectStates]]
        /\ tp \in [Trades -> [Roles -> TpslStates]]
        /\ sends \in [Trades -> [Effects -> Nat]]
    BY <2>1, <2>2 DEF Init
  <2> QED
    BY <2>1, <2>3, <2>4, IdleEngine DEF Init, TypeOK
<1>2. Grounded /\ Filling /\ InFlight
  <2>1. \A r \in Roles : eng.snap[r] = "none"
    BY IdleEngine DEF Init, NoSnap
  <2> QED
    BY <2>1, IdleEngine DEF Init, Grounded, Working, Calling, Returns, Filling, InFlight
<1>3. Bought
  BY DEF Init, Bought, Effects
<1>4. Journaled
  BY DEF Init, Journaled, Roles
<1> QED
  BY <1>1, <1>2, <1>3, <1>4 DEF IInv

\* Writing a row of the effect journal.
LEMMA EffTyped ==
  ASSUME eff \in [Trades -> [Effects -> EffectStates]],
         NEW t, NEW e, NEW s \in EffectStates, eff' = [eff EXCEPT ![t][e] = s]
  PROVE  (eff \in [Trades -> [Effects -> EffectStates]])'
<1>1. CASE t \in Trades
  <2>1. [eff[t] EXCEPT ![e] = s] \in [Effects -> EffectStates]
    BY <1>1
  <2> QED
    BY <2>1, <1>1
<1>2. CASE t \notin Trades
  BY <1>2
<1> QED
  BY <1>1, <1>2

\* Every change that the steps of the engine make to the lifecycle, the
\* journal and the flags keeps its type.
LEMMA WorkTyped ==
  ASSUME TypeOK, Grounded, Start \/ Work, UNCHANGED faults, eng' \in Engine
  PROVE  TypeOK'
<1> USE DEF TypeOK
<1>1. ASSUME NEW p \in Procs, NEW t \in Trades,
             DeliverNew(p, t) \/ DeliverReceived(p, t) \/ Redeliver(p, t)
      PROVE  TypeOK'
  BY <1>1 DEF DeliverNew, DeliverReceived, Redeliver, Move, TradeStates,
              durable, trade, journal, proc, venue, market, clock
<1>2. ASSUME NEW p \in Procs, BeginReconcile(p) \/ BeginRecovery(p) \/ BlockEntries(p)
      PROVE  TypeOK'
  BY <1>2 DEF BeginReconcile, BeginRecovery, BlockEntries, Block,
              trade, journal, proc, venue, market, clock
<1>3. CASE Effect
  <2>1. CASE PrepareEffect \/ ReplayEffect
    <3>1. /\ eng.qty \in 0..Q
          /\ \/ eff' = [eff EXCEPT ![eng.t][eng.e] = "PREPARED"]
             \/ UNCHANGED eff
          /\ \/ closeQty' = [closeQty EXCEPT ![eng.t] = eng.qty]
             \/ UNCHANGED closeQty
          /\ UNCHANGED <<trade, ripe, allowed, proc, venue, clock>>
      BY <2>1 DEF PrepareEffect, ReplayEffect, Engine, durable, journal
    <3>2. (eff \in [Trades -> [Effects -> EffectStates]])'
      BY <3>1, EffTyped DEF EffectStates
    <3> QED
      BY <3>1, <3>2 DEF trade, proc, venue, market, clock
  <2>2. CASE SendEffect
    <3>1. eng.t \in Trades /\ eng.e \in Effects
      BY <2>2 DEF SendEffect, At, Grounded, Working, Engine
    <3> QED
      BY <3>1, <2>2 DEF SendEffect, durable, trade, journal, proc, venue, market, clock
  <2>3. CASE AckEffect
    BY <2>3 DEF AckEffect, Confirm, HangUp, EffectStates,
                durable, trade, journal, proc, venue, market, clock
  <2> QED
    BY <1>3, <2>1, <2>2, <2>3 DEF Effect
<1>4. CASE Handle
  <2>1. CASE Received \/ EntryDead
    BY <2>1 DEF Received, EntryDead, Move, TradeStates, Terminal,
                durable, trade, journal, proc, venue, market, clock
  <2>2. CASE AdmitEntry \/ AckEntry \/ Settle \/ Settled
    <3>1. /\ \/ eff' = [eff EXCEPT ![eng.t]["place"] = "PREPARED"]
             \/ eff' = [eff EXCEPT ![eng.t]["place"] = "CONFIRMED"]
             \/ UNCHANGED eff
          /\ answered' \in BOOLEAN
          /\ UNCHANGED <<trade, closeQty, ripe, allowed, proc, market, wire, sends, clock>>
      BY <2>2 DEF AdmitEntry, AckEntry, Settle, Settled, Confirm, HangUp,
                  durable, journal, venue
    <3>2. (eff \in [Trades -> [Effects -> EffectStates]])'
      BY <3>1, EffTyped DEF EffectStates
    <3> QED
      BY <3>1, <3>2 DEF trade, proc, market, clock
  <2>3. CASE FirstFill \/ AmbiguousExposure
    <3>1. eng.t \in Trades /\ eng.qty \in 0..Q /\ shown[eng.t] \in 0..Q
      BY <2>3 DEF FirstFill, AmbiguousExposure, At, Grounded, Working, Engine
    <3> QED
      BY <3>1, <2>3 DEF FirstFill, AmbiguousExposure, Move, TradeStates,
                durable, trade, journal, proc, venue, market, clock
  <2>4. CASE Ambiguous
    BY <2>4 DEF Ambiguous, Block, durable, trade, journal, proc, venue, market, clock
  <2> QED
    BY <1>4, <2>1, <2>2, <2>3, <2>4 DEF Handle
<1>5. CASE Protect
  <2>1. CASE RecordProtection
    BY <2>1 DEF RecordProtection, At, Grounded, Roles,
                durable, trade, journal, proc, venue, market, clock
  <2>2. CASE VerifyProtection
    <3>1. /\ eff' = [eff EXCEPT ![eng.t][eng.e] = "RECONCILED"]
          /\ UNCHANGED <<trade, closeQty, ripe, allowed, proc, venue, clock>>
      BY <2>2 DEF VerifyProtection
    <3>2. (eff \in [Trades -> [Effects -> EffectStates]])'
      BY <3>1, EffTyped DEF EffectStates
    <3> QED
      BY <3>1, <3>2 DEF trade, proc, venue, market, clock
  <2>3. CASE Activate
    BY <2>3 DEF Activate, Move, TradeStates, durable, trade, journal, proc, venue, market, clock
  <2> QED
    BY <1>5, <2>1, <2>2, <2>3 DEF Protect
<1>6. CASE Close
  <2>1. CASE MeasurePosition
    BY <2>1 DEF MeasurePosition, durable, trade, journal, proc, venue, market, clock
  <2>2. CASE TriggerEmergency \/ CloseFailed
    BY <2>2 DEF TriggerEmergency, CloseFailed, Move, TradeStates, Exiting, Closes,
                durable, trade, journal, proc, venue, market, clock
  <2>3. CASE CancelRemainder \/ ClosedFlat \/ FinishExit
    BY <2>3 DEF CancelRemainder, ClosedFlat, FinishExit,
                durable, trade, journal, proc, venue, market, clock
  <2> QED
    BY <1>6, <2>1, <2>2, <2>3 DEF Close
<1>7. CASE Cleanup
  <2>1. CASE BeginCleanup \/ SkipProtection \/ CancelProtection \/ ProtectionCancelled
    <3>1. UNCHANGED <<durable, proc, venue, clock>>
      BY <2>1 DEF BeginCleanup, SkipProtection, CancelProtection, ProtectionCancelled
    <3> QED
      BY <3>1 DEF durable, trade, journal, proc, venue, market, clock
  <2>2. CASE AdoptProtection
    <3>1. /\ eff' = [eff EXCEPT ![eng.t][eng.r] = "RECONCILED"]
          /\ ripe' \subseteq ripe
          /\ UNCHANGED <<trade, closeQty, allowed, proc, venue, clock>>
      BY <2>2 DEF AdoptProtection
    <3>2. (eff \in [Trades -> [Effects -> EffectStates]])'
      BY <3>1, EffTyped DEF EffectStates
    <3> QED
      BY <3>1, <3>2 DEF trade, proc, venue, market, clock
  <2>3. CASE Flatten
    BY <2>3 DEF Flatten, Move, TradeStates, Terminal,
                trade, journal, proc, venue, market, clock
  <2> QED
    BY <1>7, <2>1, <2>2, <2>3 DEF Cleanup
<1>8. CASE Loop
  <2>1. CASE PickEffect \/ PickTrade \/ PassDone
    <3>1. UNCHANGED <<durable, proc, venue, clock>>
      BY <2>1 DEF PickEffect, PickTrade, PassDone
    <3> QED
      BY <3>1 DEF durable, trade, journal, proc, venue, market, clock
  <2>2. CASE ResolveEffect
    <3>1. /\ \E s \in {"ABSENT", "RECONCILED"} : eff' = [eff EXCEPT ![eng.t][eng.e] = s]
          /\ ripe' \subseteq ripe
          /\ UNCHANGED <<trade, closeQty, allowed, proc, venue, clock>>
      BY <2>2 DEF ResolveEffect
    <3>2. (eff \in [Trades -> [Effects -> EffectStates]])'
      BY <3>1, EffTyped DEF EffectStates
    <3> QED
      BY <3>1, <3>2 DEF trade, proc, venue, market, clock
  <2>3. CASE RecoveryDone
    <3>1. /\ \E b \in BOOLEAN : blocked' = [blocked EXCEPT ![eng.p] = b]
          /\ allowed' \in BOOLEAN
          /\ UNCHANGED <<trade, journal, revoke, venue, clock>>
      BY <2>3 DEF RecoveryDone
    <3> QED
      BY <3>1 DEF trade, journal, venue, market, clock
  <2> QED
    BY <1>8, <2>1, <2>2, <2>3 DEF Loop
<1>9. CASE Reconcile
  <2>1. CASE RecoverGap \/ ReconcileDead
    BY <2>1 DEF RecoverGap, ReconcileDead, Move, TradeStates, Terminal,
                durable, trade, journal, proc, venue, market, clock
  <2>2. CASE ReconcileFirstFill \/ RecordFill
    BY <2>2 DEF ReconcileFirstFill, RecordFill, Move, TradeStates,
                durable, trade, journal, proc, venue, market, clock
  <2>3. CASE CancelExpiredEntry \/ MarkReconciled \/ ReconcileProtecting \/ ResumeExit
    BY <2>3 DEF CancelExpiredEntry, MarkReconciled, ReconcileProtecting, ResumeExit,
                durable, trade, journal, proc, venue, market, clock
  <2>4. CASE VenueExit
    <3>1. PICK t \in Trades, r \in Roles :
            /\ Move(t, ExitingOf(r)) /\ exit' = [exit EXCEPT ![t] = r]
            /\ UNCHANGED <<filled, prot, journal, allowed, proc, venue, clock>>
      BY <2>4 DEF VenueExit, ReadFlat
    <3>2. ExitingOf(r) \in TradeStates
      BY DEF ExitingOf, Roles, TradeStates, Exiting
    <3> QED
      BY <3>1, <3>2 DEF Move, durable, trade, journal, proc, venue, market, clock
  <2>5. CASE TimeoutClose
    BY <2>5 DEF TimeoutClose, Move, TradeStates, Exiting, Closes,
                durable, trade, journal, proc, venue, market, clock
  <2> QED
    BY <1>9, <2>1, <2>2, <2>3, <2>4, <2>5 DEF Reconcile
<1> QED
  BY <1>1, <1>2, <1>3, <1>4, <1>5, <1>6, <1>7, <1>8, <1>9 DEF Start, Work


\* A change of the entry order.
LEMMA OrderTyped ==
  ASSUME ord \in [Trades -> Order], NEW t \in Trades, NEW a \in {"none", "open", "gone", "hist"},
         NEW b \in BOOLEAN, NEW f \in 0..Q
  PROVE  [ord EXCEPT ![t] = [at |-> a, alive |-> b, filled |-> f]] \in [Trades -> Order]
  BY DEF Order

\* The entry order dies, and is projected where a says.
LEMMA OrderListed ==
  ASSUME ord \in [Trades -> Order], NEW t \in Trades, NEW a \in {"none", "open", "gone", "hist"}
  PROVE  /\ [ord EXCEPT ![t].alive = FALSE, ![t].at = a] \in [Trades -> Order]
         /\ [ord EXCEPT ![t].at = a] \in [Trades -> Order]
<1>1. ord[t] \in Order
  OBVIOUS
<1>2. /\ [[ord[t] EXCEPT !.alive = FALSE] EXCEPT !.at = a] \in Order
      /\ [ord[t] EXCEPT !.at = a] \in Order /\ [ord[t] EXCEPT !.alive = FALSE] \in Order
  BY <1>1 DEF Order
<1> QED
  BY <1>2

\* A change of a protection at the venue.
LEMMA TpslTyped ==
  ASSUME tp \in [Trades -> [Roles -> TpslStates]],
         NEW t \in Trades, NEW r \in Roles, NEW s \in TpslStates, tp' = [tp EXCEPT ![t][r] = s]
  PROVE  (tp \in [Trades -> [Roles -> TpslStates]])'
<1>1. [tp[t] EXCEPT ![r] = s] \in [Roles -> TpslStates]
  OBVIOUS
<1> QED
  BY <1>1

\* A change of the position, projected at once or later.
LEMMA PositionTyped ==
  ASSUME pos \in [Trades -> 0..Q], shown \in [Trades -> 0..Q], NEW t \in Trades, NEW q \in 0..Q,
         Reposition(t, q)
  PROVE  (pos \in [Trades -> 0..Q])' /\ (shown \in [Trades -> 0..Q])'
  BY DEF Reposition

\* What the venue changes keeps its type.
LEMMA VenueTyped ==
  ASSUME TypeOK, Bought, (Serving \/ Market) /\ UNCHANGED faults
  PROVE  TypeOK'
<1> USE DEF TypeOK
<1>1. ASSUME NEW t \in Trades, VenuePlace(t)
      PROVE  TypeOK'
  <2>1. PICK listed \in BOOLEAN, dead \in BOOLEAN :
          ord' = [ord EXCEPT ![t] = [at |-> IF listed /\ ~dead THEN "open" ELSE "gone",
                                     alive |-> ~dead, filled |-> 0]]
    BY <1>1 DEF VenuePlace
  <2>2. (ord \in [Trades -> Order])'
    <3>1. (IF listed /\ ~dead THEN "open" ELSE "gone") \in {"none", "open", "gone", "hist"}
          /\ (~dead) \in BOOLEAN /\ 0 \in 0..Q
      BY QAssumption
    <3> QED
      BY <2>1, <3>1, OrderTyped
  <2>3. /\ answered' \in BOOLEAN /\ wire' \subseteq wire
        /\ UNCHANGED <<durable, proc, eng, pos, shown, tp, trig, clo, sends, clock, faults>>
    BY <1>1 DEF VenuePlace, Answer, Serve
  <2> QED
    BY <2>2, <2>3 DEF durable, trade, journal, proc, clock
<1>2. ASSUME NEW t \in Trades, VenueProject(t)
      PROVE  TypeOK'
  <2>1. /\ \/ UNCHANGED ord
           \/ \E a \in {"open", "hist"} : ord' = [ord EXCEPT ![t].at = a]
        /\ UNCHANGED shown \/ shown' = [shown EXCEPT ![t] = pos[t]]
        /\ UNCHANGED <<durable, proc, eng, pos, tp, trig, clo, wire, answered, sends, clock, faults>>
    BY <1>2 DEF VenueProject
  <2>2. (ord \in [Trades -> Order])'
    <3>1. ASSUME NEW a \in {"open", "hist"}, ord' = [ord EXCEPT ![t].at = a]
          PROVE  (ord \in [Trades -> Order])'
      <4>1. [ord EXCEPT ![t].at = a] \in [Trades -> Order]
        BY OrderListed
      <4> QED
        BY <4>1, <3>1
    <3> QED
      BY <2>1, <3>1
  <2> QED
    BY <2>1, <2>2 DEF durable, trade, journal, proc, clock
<1>3. ASSUME NEW t \in Trades, VenueCancel(t) \/ VenueDie(t)
      PROVE  TypeOK'
  <2>1. /\ \/ UNCHANGED ord
           \/ ord' = [ord EXCEPT ![t].alive = FALSE, ![t].at = "gone"]
        /\ answered' \in BOOLEAN /\ wire' \subseteq wire
        /\ UNCHANGED <<durable, proc, eng, pos, shown, tp, trig, clo, sends, clock, faults>>
    BY <1>3 DEF VenueCancel, VenueDie, Answer, Refuse, Serve
  <2>2. (ord \in [Trades -> Order])'
    <3>1. [ord EXCEPT ![t].alive = FALSE, ![t].at = "gone"] \in [Trades -> Order]
      BY OrderListed
    <3> QED
      BY <2>1, <3>1
  <2> QED
    BY <2>1, <2>2 DEF durable, trade, journal, proc, clock
<1>4. ASSUME NEW t \in Trades, NEW r \in Roles, VenueCreate(t, r) \/ VenueCancelTpsl(t, r)
      PROVE  TypeOK'
  <2>1. /\ UNCHANGED tp \/ \E s \in {"live", "cancelled"} : tp' = [tp EXCEPT ![t][r] = s]
        /\ answered' \in BOOLEAN /\ wire' \subseteq wire
        /\ UNCHANGED <<durable, proc, eng, ord, pos, shown, trig, clo, sends, clock, faults>>
    BY <1>4 DEF VenueCreate, VenueCancelTpsl, Answer, Refuse, Serve
  <2>2. (tp \in [Trades -> [Roles -> TpslStates]])'
    BY <2>1, TpslTyped DEF TpslStates
  <2> QED
    BY <2>1, <2>2 DEF durable, trade, journal, proc, clock
<1>5. ASSUME NEW t \in Trades, VenueFill(t)
      PROVE  TypeOK'
  <2>1. PICK q \in 1..(Q - ord[t].filled) :
          /\ ord' = [ord EXCEPT ![t] = [at |-> IF Resting /\ ord[t].filled + q < Q
                                               THEN @.at ELSE "gone",
                                        alive |-> Resting /\ ord[t].filled + q < Q,
                                        filled |-> ord[t].filled + q]]
          /\ Reposition(t, pos[t] + q)
    BY <1>5 DEF VenueFill
  <2>2. /\ ord[t].filled \in 0..Q /\ pos[t] \in 0..Q /\ pos[t] <= ord[t].filled
        /\ ord[t].at \in {"none", "open", "gone", "hist"}
    BY DEF Bought, Order
  <2>3. ord[t].filled + q \in 0..Q /\ pos[t] + q \in 0..Q
    BY <2>2, QAssumption
  <2>4. (ord \in [Trades -> Order])'
    <3>1. /\ (IF Resting /\ ord[t].filled + q < Q THEN ord[t].at ELSE "gone")
               \in {"none", "open", "gone", "hist"}
          /\ (Resting /\ ord[t].filled + q < Q) \in BOOLEAN
      BY <2>2
    <3> QED
      BY <2>1, <2>3, <3>1, OrderTyped
  <2>5. (pos \in [Trades -> 0..Q])' /\ (shown \in [Trades -> 0..Q])'
    BY <2>1, <2>3, PositionTyped
  <2>6. UNCHANGED <<durable, proc, eng, tp, trig, clo, wire, answered, sends, clock, faults>>
    BY <1>5 DEF VenueFill
  <2> QED
    BY <2>4, <2>5, <2>6 DEF durable, trade, journal, proc, clock
<1>6. ASSUME NEW t \in Trades, NEW r \in Roles, VenueTrigger(t, r)
      PROVE  TypeOK'
  <2>1. 0 \in 0..Q /\ Reposition(t, 0)
    BY <1>6, QAssumption DEF VenueTrigger
  <2>2. (pos \in [Trades -> 0..Q])' /\ (shown \in [Trades -> 0..Q])'
    BY <2>1, PositionTyped
  <2>3. (tp \in [Trades -> [Roles -> TpslStates]])'
    BY <1>6, TpslTyped DEF VenueTrigger, TpslStates
  <2>4. /\ trig' = [trig EXCEPT ![t] = pos[t]]
        /\ UNCHANGED <<durable, proc, eng, ord, clo, wire, answered, sends, clock, faults>>
    BY <1>6 DEF VenueTrigger
  <2> QED
    BY <2>2, <2>3, <2>4 DEF durable, trade, journal, proc, clock
<1> QED
  BY <1>1, <1>2, <1>3, <1>4, <1>5, <1>6 DEF Serving, Market

\* The clock, the exceptions, the crashes and the refusals keep the types.
LEMMA FaultTyped ==
  ASSUME TypeOK, (Clock /\ UNCHANGED faults) \/ Faulty, eng' \in Engine
  PROVE  TypeOK'
<1> USE DEF TypeOK
<1>1. ASSUME UNCHANGED faults \/ Fault
      PROVE  (faults \in 0..Faults)'
  BY <1>1, FaultsAssumption DEF Fault
<1>2. CASE Clock /\ UNCHANGED faults
  BY <1>2 DEF Clock, Grace, Expire, TimeOut, durable, trade, journal, proc, venue, market, clock
<1>3. CASE Raise
  <2>1. UNCHANGED <<trade, journal, clock, market, wire, sends>> /\ answered' = FALSE
    BY <1>3 DEF Raise, HangUp
  <2>2. UNCHANGED faults \/ Fault
    BY <1>3 DEF Raise, Fails
  <2>3. /\ (allowed \in BOOLEAN)' /\ (blocked \in [Procs -> BOOLEAN])'
        /\ (revoke \in [Procs -> BOOLEAN])'
    BY <1>3, Zenon DEF Raise, Unwind, Block, proc
  <2> QED
    BY <2>1, <2>2, <2>3, <1>1 DEF trade, journal, clock, market
<1>4. ASSUME NEW p \in Procs, Crash(p)
      PROVE  TypeOK'
  <2>1. /\ Fault
        /\ blocked' = [blocked EXCEPT ![p] = TRUE] /\ revoke' = [revoke EXCEPT ![p] = FALSE]
        /\ UNCHANGED <<durable, clock, market, wire, sends>> /\ answered' \in BOOLEAN
    BY <1>4 DEF Crash, HangUp, venue
  <2> QED
    BY <2>1, <1>1 DEF durable, trade, journal, clock, market
<1>5. ASSUME NEW p \in Procs, AccountSnapshot(p)
      PROVE  TypeOK'
  <2>1. /\ UNCHANGED faults \/ Fault
        /\ allowed' = FALSE /\ blocked' = [blocked EXCEPT ![p] = TRUE]
        /\ UNCHANGED <<trade, journal, revoke, venue, clock>>
    BY <1>5 DEF AccountSnapshot, Block
  <2> QED
    BY <2>1, <1>1 DEF trade, journal, venue, market, clock
<1>6. ASSUME NEW t \in Trades, NEW e \in Effects, VenueRefuse(t, e)
      PROVE  TypeOK'
  <2>1. /\ UNCHANGED faults \/ Fault
        /\ answered' \in BOOLEAN /\ wire' \subseteq wire
        /\ UNCHANGED <<durable, proc, ord, pos, shown, tp, trig, clo, sends, clock>>
    BY <1>6 DEF VenueRefuse, Refuse, Serve
  <2> QED
    BY <2>1, <1>1 DEF durable, trade, journal, proc, clock
<1>7. ASSUME NEW t \in Trades, NEW e \in Closes, VenueClose(t, e)
      PROVE  TypeOK'
  <2>1. PICK q \in 0..Lesser(closeQty[t], pos[t]) :
          /\ UNCHANGED faults \/ Fault
          /\ Reposition(t, pos[t] - q) /\ clo' = [clo EXCEPT ![t] = q]
    BY <1>7 DEF VenueClose
  <2>2. closeQty[t] \in 0..Q /\ pos[t] \in 0..Q
    OBVIOUS
  <2>3. q \in 0..Q /\ pos[t] - q \in 0..Q /\ q \in -1..Q
    BY <2>2, QAssumption DEF Lesser
  <2>4. (pos \in [Trades -> 0..Q])' /\ (shown \in [Trades -> 0..Q])'
    BY <2>1, <2>3, PositionTyped
  <2>5. /\ answered' \in BOOLEAN /\ wire' \subseteq wire
        /\ UNCHANGED <<durable, proc, ord, tp, trig, sends, clock>>
    BY <1>7 DEF VenueClose, Answer, Serve
  <2> QED
    BY <2>1, <2>3, <2>4, <2>5, <1>1 DEF durable, trade, journal, proc, clock
<1> QED
  BY <1>2, <1>3, <1>4, <1>5, <1>6, <1>7 DEF Faulty

\* The type invariant, strengthened with the bounds of the purchase, is kept.
LEMMA TypeStep ==
  ASSUME TypeOK, Grounded, Bought, [Next]_vars
  PROVE  TypeOK' /\ Grounded'
<1>1. eng' \in Engine /\ Grounded'
  BY ControlStep DEF Controlled
<1>2. CASE UNCHANGED vars
  <2>1. UNCHANGED <<durable, proc, venue, clock, faults>>
    BY <1>2 DEF vars
  <2>2. UNCHANGED <<trade, journal, allowed, market, wire, answered, sends>>
    BY <2>1 DEF durable, venue
  <2> QED
    BY <1>1, <2>1, <2>2 DEF TypeOK, trade, journal, proc, market, clock
<1> QED
  BY <1>1, <1>2, WorkTyped, VenueTyped, FaultTyped DEF Next


-----------------------------------------------------------------------------
(* The journal *)

\* A row is prepared, or is settled while its request is not on the wire.
LEMMA RowWritten ==
  ASSUME TypeOK, Journaled, NEW u \in Trades, NEW d \in Effects, NEW s \in EffectStates \ {"none"},
         s = "PREPARED" \/ <<u, d>> \notin wire,
         eff' = [eff EXCEPT ![u][d] = s],
         ripe' \subseteq ripe, UNCHANGED <<sends, wire, tp>>
  PROVE  /\ Journaled' /\ eff'[u][d] = s
         /\ \A t \in Trades, e \in Effects : eff[t][e] # "none" => eff'[t][e] # "none"
<1>1. \A t \in Trades, e \in Effects :
        eff'[t][e] = IF t = u /\ e = d THEN s ELSE eff[t][e]
  BY DEF TypeOK
<1> QED
  BY <1>1 DEF Journaled

\* Nothing that the journal speaks of changes but the calls that are over.
LEMMA JournalKept ==
  ASSUME Journaled, UNCHANGED <<eff, sends, wire, ripe, tp>>
  PROVE  Journaled'
  BY DEF Journaled

\* The operation moves to a place that promises nothing of an effect.
LEMMA PlainMove ==
  ASSUME TypeOK, InFlight,
         eng'.pc \notin {"send", "record", "verify", "effect"},
         answered' = FALSE \/ (eng.pc # "await" /\ UNCHANGED answered),
         eng'.todoE \subseteq eng.todoE,
         \/ eng'.snap = NoSnap
         \/ eng'.snap = eng.snap /\ eng'.t = eng.t /\ eng'.pc \notin {"idle", "loop"}
         \/ eng'.snap = eng.snap /\ ~Working,
         \A t \in Trades, e \in Effects : eff[t][e] # "none" => eff'[t][e] # "none",
         UNCHANGED <<wire, tp>>
  PROVE  InFlight'
<1>1. ~answered'
  BY DEF InFlight
<1>2. \A r \in Roles : eng'.snap[r] # "none" => Working' /\ tp'[eng'.t][r] # "none"
  BY DEF InFlight, NoSnap, Working
<1> QED
  BY <1>1, <1>2 DEF InFlight

\* An operation that begins takes up effects whose grace is over.
LEMMA StartJournal ==
  ASSUME TypeOK, Journaled, InFlight, Start
  PROVE  Journaled' /\ InFlight'
<1>1. UNCHANGED <<eff, sends, wire, ripe, tp, answered>>
  BY DEF Start, DeliverNew, DeliverReceived, Redeliver, BeginReconcile, BeginRecovery,
         BlockEntries, durable, journal, venue, market
<1>2. Journaled'
  BY <1>1, JournalKept
<1>3. eng = Idle /\ ~answered
  BY IdleEngine DEF Start, EntryOpen, DeliverNew, DeliverReceived, Redeliver, BeginReconcile,
                    BeginRecovery, BlockEntries, InFlight
<1>4. ASSUME NEW b \in Engine, b.pc \in {"loop", "received"}, b.snap = NoSnap, b.todoE = {},
             NEW x \in SUBSET ripe,
             eng'.pc = b.pc, eng'.snap = b.snap, eng'.todoE = x
      PROVE  InFlight'
  BY <1>1, <1>3, <1>4 DEF InFlight, Journaled, NoSnap, TypeOK, Working
<1>5. /\ "loop" \in Places /\ "received" \in Places
  BY DEF Places
<1>6. ASSUME NEW p \in Procs, NEW t \in Trades, DeliverNew(p, t) \/ DeliverReceived(p, t)
      PROVE  InFlight'
  <2>1. eng' = [Begin(p, "handle", "received") EXCEPT !.t = t, !.flag = t \in expired]
    BY <1>6 DEF DeliverNew, DeliverReceived
  <2>2. (t \in expired) \in BOOLEAN
    OBVIOUS
  <2>3. /\ Begin(p, "handle", "received") \in Engine
        /\ Begin(p, "handle", "received").pc = "received"
        /\ Begin(p, "handle", "received").snap = NoSnap
        /\ Begin(p, "handle", "received").todoE = {}
    BY <1>5, BeginEngine
  <2>4. /\ eng'.pc = "received" /\ eng'.snap = NoSnap /\ eng'.todoE = {}
    BY <2>1, <2>2, <2>3, DeliveryEngine
  <2> QED
    BY <2>3, <2>4, <1>4
<1>7. ASSUME NEW p \in Procs, NEW op \in {"redeliver", "reconcile", "recover"},
             NEW x \in SUBSET ripe, NEW y \in SUBSET Trades,
             eng' = [Begin(p, op, "loop") EXCEPT !.todoE = x, !.todoT = y]
      PROVE  InFlight'
  <2>1. /\ Begin(p, op, "loop") \in Engine /\ Begin(p, op, "loop").pc = "loop"
        /\ Begin(p, op, "loop").snap = NoSnap /\ Begin(p, op, "loop").todoE = {}
    BY <1>5, BeginEngine
  <2>2. x \in SUBSET (Trades \X Effects)
    BY DEF TypeOK
  <2>3. eng'.pc = "loop" /\ eng'.snap = NoSnap /\ eng'.todoE = x
    BY <2>1, <2>2, <1>7, PassEngine
  <2> QED
    BY <2>1, <2>3, <1>4
<1>8. ASSUME NEW p \in Procs, NEW t \in Trades, Redeliver(p, t)
      PROVE  InFlight'
  <2>1. ripe \cap ({t} \X Effects) \in SUBSET ripe /\ {t} \in SUBSET Trades
    OBVIOUS
  <2>2. eng' = [Begin(p, "redeliver", "loop") EXCEPT
                  !.todoE = ripe \cap ({t} \X Effects), !.todoT = {t}]
    BY <1>8 DEF Redeliver
  <2> QED
    BY <2>1, <2>2, <1>7
<1>9. ASSUME NEW p \in Procs, BeginRecovery(p)
      PROVE  InFlight'
  <2>1. ripe \in SUBSET ripe /\ OwnedTrades \in SUBSET Trades
    BY OwnedTradesType
  <2>2. eng' = [Begin(p, "recover", "loop") EXCEPT !.todoE = ripe, !.todoT = OwnedTrades]
    BY <1>9 DEF BeginRecovery
  <2> QED
    BY <2>1, <2>2, <1>7
<1>10. ASSUME UNCHANGED eng
       PROVE  InFlight'
  BY <1>10, <1>1 DEF InFlight, Working
<1>11. ASSUME NEW p \in Procs, BeginReconcile(p)
       PROVE  InFlight'
  <2>1. \/ UNCHANGED eng
        \/ eng' = [Begin(p, "reconcile", "loop") EXCEPT !.todoT = OwnedTrades]
    BY <1>11 DEF BeginReconcile
  <2>2. CASE eng' = [Begin(p, "reconcile", "loop") EXCEPT !.todoT = OwnedTrades]
    <3>1. /\ Begin(p, "reconcile", "loop") \in Engine /\ Begin(p, "reconcile", "loop").pc = "loop"
          /\ Begin(p, "reconcile", "loop").snap = NoSnap
          /\ Begin(p, "reconcile", "loop").todoE = {}
      BY <1>5, BeginEngine
    <3>2. eng'.pc = "loop" /\ eng'.snap = NoSnap /\ eng'.todoE = {}
      BY <2>2, <3>1 DEF Engine
    <3> QED
      BY <3>1, <3>2, <1>4
  <2> QED
    BY <2>1, <2>2, <1>10
<1>12. ASSUME NEW p \in Procs, BlockEntries(p)
       PROVE  InFlight'
  BY <1>12, <1>10 DEF BlockEntries
<1> QED
  BY <1>2, <1>6, <1>8, <1>9, <1>11, <1>12 DEF Start


\* A place that promises nothing of an effect.
Plain == Places \ {"idle", "loop", "send", "record", "verify", "effect"}

\* Moves that leave the journal and the venue alone.
LEMMA MoveJournal ==
  ASSUME TypeOK, Grounded, Journaled, InFlight, Working, eng.pc # "await",
         UNCHANGED <<eff, sends, wire, ripe, tp, answered>>,
         \/ \E l \in Plain : Goto(l)
         \/ \E e \in Effects, l \in Places : Mutate(e, l)
         \/ eng' = Done \/ eng' = Idle
  PROVE  Journaled' /\ InFlight'
<1>1. Journaled'
  BY JournalKept
<1>2. eng \in Engine
  BY DEF TypeOK
<1>3. \A t \in Trades, e \in Effects : eff[t][e] # "none" => eff'[t][e] # "none"
  OBVIOUS
<1>4. ASSUME NEW l \in Plain, Goto(l)
      PROVE  InFlight'
  <2>1. /\ eng'.pc = l /\ eng'.t = eng.t /\ eng'.todoE = eng.todoE /\ eng'.snap = eng.snap
    BY <1>2, <1>4, GotoEngine DEF Plain
  <2>2. l \notin {"send", "record", "verify", "effect", "idle", "loop"}
    BY DEF Plain
  <2> QED
    BY <1>3, <2>1, <2>2, PlainMove
<1>5. ASSUME NEW e \in Effects, NEW l \in Places, Mutate(e, l)
      PROVE  InFlight'
  <2>1. /\ eng'.pc = "prepare" /\ eng'.t = eng.t
        /\ eng'.todoE = eng.todoE /\ eng'.snap = eng.snap
    BY <1>2, <1>5, MutateEngine
  <2> QED
    BY <1>3, <2>1, PlainMove
<1>6. CASE eng' = Done \/ eng' = Idle
  <2>1. /\ eng'.pc \in {"idle", "loop"} /\ eng'.snap = NoSnap /\ eng'.todoE \subseteq eng.todoE
    BY <1>2, <1>6, DoneEngine, IdleEngine
  <2>2. ~answered'
    BY DEF InFlight
  <2>3. \A r \in Roles : eng'.snap[r] = "none"
    BY <2>1 DEF NoSnap
  <2>4. \A t \in Trades, e \in Effects :
          <<t, e>> \in eng'.todoE => <<t, e>> \notin wire' /\ eff'[t][e] # "none"
    BY <2>1 DEF InFlight
  <2> QED
    BY <1>1, <2>1, <2>2, <2>3, <2>4 DEF InFlight
<1> QED
  BY <1>1, <1>4, <1>5, <1>6

\* The steps of one effect, and of the entry: prepare, send, confirm.
LEMMA HandleJournal ==
  ASSUME TypeOK, Grounded, Journaled, InFlight, Effect \/ Handle
  PROVE  Journaled' /\ InFlight'
<1>1. eng \in Engine /\ eng.e \in Effects /\ eng.qty \in 0..Q /\ eng.todoE \subseteq Trades \X Effects
  BY DEF TypeOK, Engine
<1>2. /\ {"send", "await", "admit", "dead", "exposure", "fill", "settle", "settled", "measure"}
          \subseteq Places
      /\ {"settled", "record"} \subseteq Places
      /\ {"cancel", "stop", "place"} \subseteq Effects /\ "stop" \in Roles
  BY DEF Places, Effects, Roles
<1>3. ASSUME NEW d \in Effects, eff[eng.t][d] = "none", eng.t \in Trades, eng.pc # "await",
             eff' = [eff EXCEPT ![eng.t][d] = "PREPARED"],
             UNCHANGED <<sends, wire, ripe, tp, answered>>,
             eng'.pc = "send", eng'.t = eng.t, eng'.e = d,
             eng'.todoE = eng.todoE, eng'.snap = eng.snap, Working
      PROVE  Journaled' /\ InFlight'
  <2>1. "PREPARED" \in EffectStates \ {"none"}
    BY DEF EffectStates
  <2>2. /\ Journaled' /\ eff'[eng.t][d] = "PREPARED"
        /\ \A t \in Trades, e \in Effects : eff[t][e] # "none" => eff'[t][e] # "none"
    BY <2>1, <1>3, RowWritten
  <2>3. sends[eng.t][d] = 0 /\ <<eng.t, d>> \notin ripe \cup eng.todoE
    BY <1>3 DEF Journaled, InFlight
  <2>4. ~answered
    BY <1>3 DEF InFlight
  <2> QED
    BY <2>2, <2>3, <2>4, <1>3 DEF InFlight, Working
<1>4. CASE PrepareEffect
  <2>1. /\ eff[eng.t][eng.e] = "none" /\ eng.pc = "prepare" /\ Goto("send")
        /\ eff' = [eff EXCEPT ![eng.t][eng.e] = "PREPARED"]
        /\ UNCHANGED <<sends, wire, ripe, tp, answered>>
    BY <1>4 DEF PrepareEffect, At, venue, market
  <2> QED
    BY <2>1, <1>1, <1>2, <1>3, GotoEngine DEF Working, Grounded
<1>5. CASE AdmitEntry
  <2>1. /\ eff[eng.t]["place"] = "none" /\ eng.pc = "admit"
        /\ eng' = [eng EXCEPT !.pc = "send", !.e = "place", !.ret = "settle"]
        /\ eff' = [eff EXCEPT ![eng.t]["place"] = "PREPARED"]
        /\ UNCHANGED <<sends, wire, ripe, tp, answered>>
    BY <1>5 DEF AdmitEntry, At, venue, market
  <2>2. /\ eng'.pc = "send" /\ eng'.t = eng.t /\ eng'.e = "place"
        /\ eng'.todoE = eng.todoE /\ eng'.snap = eng.snap
    BY <2>1, <1>1, <1>2 DEF Engine
  <2> QED
    BY <2>1, <2>2, <1>2, <1>3 DEF Working, Grounded
<1>6. CASE ReplayEffect
  <2>1. /\ eff[eng.t][eng.e] \in {"CONFIRMED", "RECONCILED"} /\ eng.pc = "prepare"
        /\ Goto(eng.ret) /\ UNCHANGED <<eff, sends, wire, ripe, tp, answered>>
    BY <1>6 DEF ReplayEffect, At, durable, journal, venue, market
  <2>2. eng.ret \in Places /\ eng.ret \in Returns \ {"idle"}
    BY <2>1, <1>1 DEF Engine, Grounded, Calling
  <2>3. /\ eng'.pc = eng.ret /\ eng'.t = eng.t /\ eng'.e = eng.e
        /\ eng'.todoE = eng.todoE /\ eng'.snap = eng.snap
    BY <2>1, <2>2, <1>1, GotoEngine
  <2> QED
    <3>1. Journaled'
      BY <2>1, JournalKept
    <3>2. eng'.pc \in {"settle", "record", "settled", "measured", "closed", "cleaned", "expiry"}
      BY <2>2, <2>3 DEF Returns
    <3>3. ~answered' /\ Working'
      BY <2>1, <3>2 DEF InFlight, Working
    <3>4. \A r \in Roles : eng'.snap[r] # "none" => tp'[eng'.t][r] # "none"
      BY <2>1, <2>3 DEF InFlight
    <3> QED
      BY <2>1, <2>3, <3>1, <3>2, <3>3, <3>4 DEF InFlight
<1>7. CASE SendEffect
  <2>1. /\ eng.pc = "send" /\ Goto("await")
        /\ wire' = wire \cup {<<eng.t, eng.e>>}
        /\ sends' = [sends EXCEPT ![eng.t][eng.e] = @ + 1]
        /\ UNCHANGED <<eff, ripe, tp, answered>>
    BY <1>7 DEF SendEffect, At, durable, journal, market
  <2>2. /\ eng.t \in Trades /\ eff[eng.t][eng.e] = "PREPARED" /\ sends[eng.t][eng.e] = 0
        /\ <<eng.t, eng.e>> \notin ripe \cup eng.todoE /\ ~answered
    BY <2>1 DEF Grounded, Working, InFlight
  <2>3. /\ eng'.pc = "await" /\ eng'.t = eng.t /\ eng'.e = eng.e
        /\ eng'.todoE = eng.todoE /\ eng'.snap = eng.snap
    BY <2>1, <1>1, <1>2, GotoEngine
  <2>4. \A t \in Trades, e \in Effects :
          sends'[t][e] = IF t = eng.t /\ e = eng.e THEN 1 ELSE sends[t][e]
    BY <2>1, <2>2, <1>1 DEF TypeOK
  <2>5. Journaled'
    <3> SUFFICES ASSUME NEW t \in Trades, NEW e \in Effects
                 PROVE  /\ sends'[t][e] <= 1
                        /\ eff[t][e] = "none" => sends'[t][e] = 0 /\ <<t, e>> \notin ripe
                        /\ <<t, e>> \in wire' => /\ sends'[t][e] = 1 /\ eff[t][e] = "PREPARED"
                                                 /\ <<t, e>> \notin ripe
                        /\ e \in Roles /\ (sends'[t][e] = 0 \/ <<t, e>> \in wire') =>
                             tp[t][e] = "none"
      BY <2>1 DEF Journaled
    <3>1. CASE t = eng.t /\ e = eng.e
      BY <3>1, <2>1, <2>2, <2>4 DEF Journaled
    <3>2. CASE ~(t = eng.t /\ e = eng.e)
      <4>1. sends'[t][e] = sends[t][e] /\ (<<t, e>> \in wire' <=> <<t, e>> \in wire)
        BY <3>2, <2>1, <2>4
      <4> QED
        BY <4>1 DEF Journaled
    <3> QED
      BY <3>1, <3>2
  <2>6. InFlight'
    BY <2>1, <2>2, <2>3 DEF InFlight, Working
  <2> QED
    BY <2>5, <2>6
<1>8. CASE AckEffect \/ AckEntry
  <2>1. /\ eng.pc = "await" /\ eng.t \in Trades /\ <<eng.t, eng.e>> \notin wire
        /\ eff' = [eff EXCEPT ![eng.t][eng.e] = "CONFIRMED"]
        /\ UNCHANGED <<sends, wire, ripe, tp>> /\ answered' = FALSE
    BY <1>8 DEF AckEffect, AckEntry, At, Confirm, HangUp, Grounded, Working, InFlight, market
  <2>2. "CONFIRMED" \in EffectStates \ {"none"}
    BY DEF EffectStates
  <2>3. /\ Journaled' /\ eff'[eng.t][eng.e] = "CONFIRMED"
        /\ \A t \in Trades, e \in Effects : eff[t][e] # "none" => eff'[t][e] # "none"
    BY <2>1, <2>2, <1>1, RowWritten
  <2>4. /\ eng'.t = eng.t /\ eng'.todoE = eng.todoE /\ eng'.snap = eng.snap
        /\ eng'.pc \in (Returns \ {"idle"}) \cup {"fill", "dead", "settle"}
        /\ eng'.pc = "record" => eng'.e = eng.e
    <3>1. \/ Goto(eng.ret) \/ Goto("dead")
          \/ \E f \in 1..ord[eng.t].filled : eng' = [eng EXCEPT !.pc = "fill", !.qty = f]
          \/ eng' = [eng EXCEPT !.pc = "settle", !.flag = FALSE]
      BY <1>8 DEF AckEffect, AckEntry
    <3>2. eng.ret \in Places /\ eng.ret \in Returns \ {"idle"}
      BY <2>1, <1>1 DEF Engine, Grounded, Calling
    <3>3. CASE Goto(eng.ret) \/ Goto("dead")
      BY <3>2, <3>3, <1>1, <1>2, GotoEngine DEF Returns
    <3>4. CASE \E f \in 1..ord[eng.t].filled : eng' = [eng EXCEPT !.pc = "fill", !.qty = f]
      BY <3>4, <1>1 DEF Engine
    <3>5. CASE eng' = [eng EXCEPT !.pc = "settle", !.flag = FALSE]
      BY <3>5, <1>1 DEF Engine
    <3> QED
      BY <3>1, <3>3, <3>4, <3>5
  <2>5. eng'.pc \in {"settle", "record", "settled", "measured", "closed", "cleaned",
                     "expiry", "fill", "dead"}
    BY <2>4 DEF Returns
  <2> QED
    BY <2>1, <2>3, <2>4, <2>5 DEF InFlight, Working
<1>9. CASE Received \/ EntryDead \/ FirstFill \/ AmbiguousExposure
  <2>1. /\ eng.pc \in {"received", "dead", "fill", "exposure"}
        /\ UNCHANGED <<eff, sends, wire, ripe, tp, answered>>
        /\ \/ Goto("admit") \/ Goto("measure")
           \/ Mutate("stop", "record") \/ eng' = Done
    BY <1>9 DEF Received, EntryDead, FirstFill, AmbiguousExposure, At, Finish,
                journal, venue, market
  <2>2. {"admit", "measure"} \subseteq Plain
    BY DEF Plain, Places
  <2> QED
    BY <2>1, <2>2, <1>2, MoveJournal DEF Working
<1>10. CASE Settle \/ Settled
  <2>1. /\ eng.pc \in {"settle", "settled"}
        /\ UNCHANGED <<eff, sends, wire, ripe, tp, answered>>
    BY <1>10 DEF Settle, Settled, At, durable, journal, venue, market
  <2>2. \/ eng' = [eng EXCEPT !.pc = "fill", !.qty = ord[eng.t].filled, !.flag = FALSE]
        \/ Goto("dead") \/ eng' = [eng EXCEPT !.flag = TRUE]
        \/ Mutate("cancel", "settled")
    BY <1>10, Zenon DEF Settle, Settled, SettledAs
  <2>3. CASE Goto("dead") \/ Mutate("cancel", "settled")
    <3>1. "dead" \in Plain
      BY DEF Plain, Places
    <3> QED
      BY <2>1, <2>3, <3>1, <1>2, MoveJournal DEF Working
  <2>4. CASE \/ eng' = [eng EXCEPT !.pc = "fill", !.qty = ord[eng.t].filled, !.flag = FALSE]
             \/ eng' = [eng EXCEPT !.flag = TRUE]
    <3>1. /\ eng'.pc \in {"fill", "settle", "settled"} /\ eng'.t = eng.t
          /\ eng'.todoE = eng.todoE /\ eng'.snap = eng.snap
      BY <2>1, <2>4, <1>1 DEF Engine
    <3> QED
      BY <2>1, <3>1, JournalKept, PlainMove
  <2> QED
    BY <2>2, <2>3, <2>4
<1>11. CASE Ambiguous
  <2>1. /\ eng.pc = "ambiguous" /\ UNCHANGED <<eff, sends, wire, ripe, tp, answered>>
        /\ eng' = [eng EXCEPT !.pc = "exposure", !.flag = FALSE]
    BY <1>11 DEF Ambiguous, At, journal, venue, market
  <2>2. /\ eng'.pc = "exposure" /\ eng'.t = eng.t
        /\ eng'.todoE = eng.todoE /\ eng'.snap = eng.snap
    BY <2>1, <1>1 DEF Engine
  <2> QED
    BY <2>1, <2>2, JournalKept, PlainMove
<1> QED
  BY <1>4, <1>5, <1>6, <1>7, <1>8, <1>9, <1>10, <1>11 DEF Effect, Handle


\* The protection, the close and the cleanup.
LEMMA ExitJournal ==
  ASSUME TypeOK, Grounded, Journaled, InFlight, Protect \/ Close \/ Cleanup
  PROVE  Journaled' /\ InFlight'
<1>1. eng \in Engine /\ eng.e \in Effects /\ eng.r \in Roles
  BY DEF TypeOK, Engine
<1>2. /\ {"activate", "measure", "trigger", "closed", "finish", "cleanup", "clean", "flat"}
          \subseteq Plain
      /\ {"record", "measured", "closed", "cleaned", "verify"} \subseteq Places
      /\ {"target", "cancel", "emergency", "timeout", "stopX", "targetX"} \subseteq Effects
      /\ Roles = {"stop", "target"} /\ Roles \subseteq Effects
  BY DEF Plain, Places, Effects, Roles, Closes
<1>3. \A s \in {"RECONCILED", "ABSENT"} : s \in EffectStates \ {"none"}
  BY DEF EffectStates
<1>4. CASE RecordProtection
  <2>1. /\ eng.pc = "record" /\ Goto("verify")
        /\ UNCHANGED <<eff, sends, wire, ripe, tp, answered>>
    BY <1>4 DEF RecordProtection, At, journal, venue, market
  <2>2. /\ eng'.pc = "verify" /\ eng'.t = eng.t /\ eng'.e = eng.e
        /\ eng'.todoE = eng.todoE /\ eng'.snap = eng.snap
    BY <2>1, <1>1, <1>2, GotoEngine
  <2> QED
    BY <2>1, <2>2, JournalKept DEF InFlight, Working
<1>5. CASE VerifyProtection
  <2>1. /\ eng.pc = "verify" /\ eng.t \in Trades /\ eff[eng.t][eng.e] # "PREPARED"
        /\ eff' = [eff EXCEPT ![eng.t][eng.e] = "RECONCILED"]
        /\ UNCHANGED <<sends, wire, ripe, tp, answered>>
        /\ Mutate("target", "record") \/ Goto("activate")
    BY <1>5 DEF VerifyProtection, At, venue, market, Grounded, Working, InFlight
  <2>2. <<eng.t, eng.e>> \notin wire
    BY <2>1, <1>1 DEF Journaled
  <2>3. /\ Journaled'
        /\ \A t \in Trades, e \in Effects : eff[t][e] # "none" => eff'[t][e] # "none"
    BY <2>1, <2>2, <1>1, <1>3, RowWritten
  <2>4. /\ eng'.pc \in {"prepare", "activate"} /\ eng'.t = eng.t
        /\ eng'.todoE = eng.todoE /\ eng'.snap = eng.snap
    <3>1. "target" \in Effects /\ "record" \in Places /\ "activate" \in Places
      BY <1>2 DEF Plain
    <3> QED
      BY <2>1, <3>1, <1>1, GotoEngine, MutateEngine
  <2> QED
    BY <2>1, <2>3, <2>4, PlainMove
<1>6. CASE Activate \/ Flatten \/ CancelRemainder \/ TriggerEmergency \/ ClosedFlat
           \/ FinishExit \/ CancelProtection
  <2>1. /\ eng.pc \in {"activate", "flat", "measure", "trigger", "closed", "finish", "clean"}
        /\ UNCHANGED <<eff, sends, wire, ripe, tp, answered>>
    BY <1>6 DEF Activate, Flatten, CancelRemainder, TriggerEmergency, ClosedFlat, FinishExit,
                CancelProtection, At, durable, journal, venue, market
  <2>2. \/ eng' = Done \/ Goto("closed") \/ Goto("finish") \/ Goto("cleanup")
        \/ Mutate("cancel", "measured") \/ Mutate("emergency", "closed")
        \/ Mutate(CancelOf(eng.r), "cleaned")
    BY <1>6 DEF Activate, Flatten, CancelRemainder, TriggerEmergency, ClosedFlat, FinishExit,
                CancelProtection, Finish
  <2>3. CancelOf(eng.r) \in Effects
    BY <1>2 DEF CancelOf
  <2> QED
    BY <2>1, <2>2, <2>3, <1>2, MoveJournal DEF Working
<1>7. CASE MeasurePosition
  <2>1. /\ eng.pc \in {"measure", "measured"}
        /\ UNCHANGED <<eff, sends, wire, ripe, tp, answered>>
        /\ \/ eng' = [eng EXCEPT !.qty = shown[eng.t], !.pc = "prepare",
                                 !.e = CloseOf(eng.t), !.ret = "closed"]
           \/ eng' = [eng EXCEPT !.qty = shown[eng.t], !.pc = "finish"]
           \/ eng' = [eng EXCEPT !.qty = shown[eng.t], !.pc = "trigger"]
    BY <1>7 DEF MeasurePosition, journal, venue, market
  <2>2. /\ eng'.pc \in {"prepare", "finish", "trigger"} /\ eng'.t = eng.t
        /\ eng'.todoE = eng.todoE /\ eng'.snap = eng.snap
    BY <2>1, <1>1 DEF Engine
  <2> QED
    BY <2>1, <2>2, JournalKept, PlainMove
<1>8. CASE CloseFailed
  <2>1. UNCHANGED <<eff, sends, wire, ripe, tp, answered, eng>>
    BY <1>8 DEF CloseFailed, journal, venue, market
  <2> QED
    BY <2>1, JournalKept DEF InFlight, Working
<1>9. CASE BeginCleanup
  <2>1. /\ eng.pc = "cleanup" /\ UNCHANGED <<eff, sends, wire, ripe, tp, answered>>
        /\ eng' = [eng EXCEPT !.pc = "clean", !.r = "stop", !.snap = tp[eng.t]]
    BY <1>9 DEF BeginCleanup, At, durable, journal, venue, market
  <2>2. /\ eng'.pc = "clean" /\ eng'.t = eng.t
        /\ eng'.todoE = eng.todoE /\ eng'.snap = tp[eng.t]
    BY <2>1, <1>1 DEF Engine
  <2>3. ~answered
    BY <2>1 DEF InFlight
  <2> QED
    BY <2>1, <2>2, <2>3, JournalKept DEF InFlight, Working
<1>10. CASE AdoptProtection
  <2>1. /\ eng.pc = "clean" /\ eng.t \in Trades /\ eng.snap[eng.r] # "none"
        /\ eff' = [eff EXCEPT ![eng.t][eng.r] = "RECONCILED"]
        /\ ripe' \subseteq ripe /\ UNCHANGED <<sends, wire, tp, answered, eng>>
    BY <1>10 DEF AdoptProtection, At, venue, market, Grounded, Working
  <2>2. tp[eng.t][eng.r] # "none" /\ eng.r \in Effects
    BY <2>1, <1>1, <1>2 DEF InFlight
  <2>3. <<eng.t, eng.r>> \notin wire
    BY <2>1, <2>2, <1>1 DEF Journaled
  <2>4. /\ Journaled'
        /\ \A t \in Trades, e \in Effects : eff[t][e] # "none" => eff'[t][e] # "none"
    BY <2>1, <2>2, <2>3, <1>3, RowWritten
  <2> QED
    BY <2>1, <2>4, PlainMove DEF Working
<1>11. CASE SkipProtection \/ ProtectionCancelled
  <2>1. /\ eng.pc \in {"clean", "cleaned"} /\ NextRole
        /\ UNCHANGED <<eff, sends, wire, ripe, tp, answered>>
    BY <1>11 DEF SkipProtection, ProtectionCancelled, At, durable, journal, venue, market
  <2>2. \/ eng' = [eng EXCEPT !.r = "target", !.pc = "clean"]
        \/ eng' = Done \/ eng' = [eng EXCEPT !.pc = "flat"]
    BY <2>1, <1>1, <1>2 DEF NextRole
  <2>3. CASE eng' = Done
    BY <2>1, <2>3, MoveJournal DEF Working
  <2>4. CASE \/ eng' = [eng EXCEPT !.r = "target", !.pc = "clean"]
             \/ eng' = [eng EXCEPT !.pc = "flat"]
    <3>1. /\ eng'.pc \in {"clean", "flat"} /\ eng'.t = eng.t
          /\ eng'.todoE = eng.todoE /\ eng'.snap = eng.snap
      BY <2>4, <1>1 DEF Engine
    <3> QED
      BY <2>1, <3>1, JournalKept, PlainMove
  <2> QED
    BY <2>2, <2>3, <2>4
<1> QED
  BY <1>4, <1>5, <1>6, <1>7, <1>8, <1>9, <1>10, <1>11 DEF Protect, Close, Cleanup

\* The loops, and the reconciliation of a trade.
LEMMA LoopJournal ==
  ASSUME TypeOK, Grounded, Journaled, InFlight, Loop \/ Reconcile
  PROVE  Journaled' /\ InFlight'
<1>1. eng \in Engine /\ eng.e \in Effects /\ eng.todoE \subseteq Trades \X Effects
  BY DEF TypeOK, Engine
<1>2. /\ {"cleanup", "measure", "finish"} \subseteq Plain
      /\ {"record", "expiry"} \subseteq Places
      /\ {"stop", "cancel"} \subseteq Effects
  BY DEF Plain, Places, Effects, Roles, Closes
<1>3. CASE PickEffect
  <2>1. PICK x \in eng.todoE :
          \/ eng' = [eng EXCEPT !.todoE = @ \ {x}, !.t = x[1], !.e = x[2], !.pc = "effect"]
          \/ eng' = [eng EXCEPT !.todoE = @ \ {x}]
    BY <1>3 DEF PickEffect
  <2>2. eng.pc = "loop" /\ UNCHANGED <<eff, sends, wire, ripe, tp, answered>>
    BY <1>3 DEF PickEffect, At, durable, journal, venue, market
  <2>3. /\ eng'.todoE \subseteq eng.todoE /\ eng'.snap = eng.snap
        /\ \/ eng'.pc = "effect" /\ <<eng'.t, eng'.e>> = x
           \/ eng'.pc = "loop"
    <3>1. x = <<x[1], x[2]>>
      BY <1>1
    <3> QED
      BY <2>1, <2>2, <3>1, <1>1 DEF Engine
  <2>4. x[1] \in Trades /\ x[2] \in Effects /\ x = <<x[1], x[2]>>
    BY <1>1
  <2>5. x \notin wire
    BY <2>4, <1>1 DEF InFlight
  <2> QED
    BY <2>2, <2>3, <2>5, JournalKept DEF InFlight, Working
<1>4. CASE ResolveEffect
  <2>1. /\ eng.pc = "effect" /\ eng.t \in Trades /\ <<eng.t, eng.e>> \notin wire
        /\ \E s \in {"ABSENT", "RECONCILED"} : eff' = [eff EXCEPT ![eng.t][eng.e] = s]
        /\ ripe' \subseteq ripe /\ UNCHANGED <<sends, wire, tp, answered>>
    BY <1>4 DEF ResolveEffect, At, venue, market, Grounded, Working, InFlight
  <2>2. \A s \in {"RECONCILED", "ABSENT"} : s \in EffectStates \ {"none"}
    BY DEF EffectStates
  <2>3. /\ Journaled'
        /\ \A t \in Trades, e \in Effects : eff[t][e] # "none" => eff'[t][e] # "none"
    BY <2>1, <2>2, <1>1, RowWritten
  <2>4. \/ eng' = [eng EXCEPT !.pc = "cleanup", !.flag = TRUE]
        \/ eng' = Done
    BY <1>4 DEF ResolveEffect
  <2>5. CASE eng' = [eng EXCEPT !.pc = "cleanup", !.flag = TRUE]
    <3>1. /\ eng'.pc = "cleanup" /\ eng'.t = eng.t
          /\ eng'.todoE = eng.todoE /\ eng'.snap = eng.snap
      BY <2>5, <1>1 DEF Engine
    <3> QED
      BY <2>1, <2>3, <3>1, PlainMove
  <2>6. CASE eng' = Done
    <3>1. /\ eng'.pc \in {"idle", "loop"} /\ eng'.snap = NoSnap
          /\ eng'.todoE \subseteq eng.todoE
      BY <2>6, <1>1, DoneEngine
    <3> QED
      BY <2>1, <2>3, <3>1, PlainMove
  <2> QED
    BY <2>4, <2>5, <2>6
<1>5. CASE PickTrade
  <2>1. PICK t \in eng.todoT :
          \/ eng' = [eng EXCEPT !.todoT = @ \ {t}, !.t = t, !.pc = "reconcile"]
          \/ eng' = [eng EXCEPT !.todoT = @ \ {t}]
    BY <1>5 DEF PickTrade
  <2>2. eng.pc = "loop" /\ UNCHANGED <<eff, sends, wire, ripe, tp, answered>>
    BY <1>5 DEF PickTrade, At, durable, journal, venue, market
  <2>3. /\ eng'.todoE = eng.todoE /\ eng'.snap = eng.snap
        /\ eng'.pc \in {"reconcile", "loop"}
    BY <2>1, <2>2, <1>1 DEF Engine
  <2> QED
    BY <2>2, <2>3, JournalKept, PlainMove DEF Working
<1>6. CASE PassDone \/ RecoveryDone
  <2>1. /\ eng.pc = "loop" /\ UNCHANGED <<eff, sends, wire, ripe, tp, answered>> /\ eng' = Idle
    BY <1>6 DEF PassDone, RecoveryDone, LoopOver, At, durable, journal, venue, market
  <2>2. /\ eng'.pc = "idle" /\ eng'.snap = NoSnap /\ eng'.todoE = {}
    BY <2>1, IdleEngine
  <2> QED
    BY <2>1, <2>2, JournalKept, PlainMove
<1>7. CASE RecordFill
  <2>1. UNCHANGED <<eff, sends, wire, ripe, tp, answered, eng>>
    BY <1>7 DEF RecordFill, journal, venue, market
  <2> QED
    BY <2>1, JournalKept DEF InFlight, Working
<1>8. CASE \/ RecoverGap \/ ReconcileDead \/ MarkReconciled \/ ReconcileFirstFill
           \/ ReconcileProtecting \/ CancelExpiredEntry
           \/ VenueExit \/ TimeoutClose \/ ResumeExit
  <2>1. /\ eng.pc \in {"reconcile", "expiry"}
        /\ UNCHANGED <<eff, sends, wire, ripe, tp, answered>>
    BY <1>8 DEF RecoverGap, ReconcileDead, MarkReconciled, ReconcileFirstFill,
                ReconcileProtecting, CancelExpiredEntry, VenueExit, TimeoutClose, ResumeExit,
                Unfilled, StillPending, StillActive, StillExiting, ReadFlat, Reading, At,
                durable, journal, venue, market
  <2>2. \/ eng' = Done \/ Goto("cleanup") \/ Goto("measure") \/ Goto("finish")
        \/ Mutate("stop", "record") \/ Mutate("cancel", "expiry")
    BY <1>8 DEF RecoverGap, ReconcileDead, MarkReconciled, ReconcileFirstFill,
                ReconcileProtecting, CancelExpiredEntry, VenueExit, TimeoutClose, ResumeExit,
                Finish
  <2> QED
    BY <2>1, <2>2, <1>2, MoveJournal DEF Working
<1> QED
  BY <1>3, <1>4, <1>5, <1>6, <1>7, <1>8 DEF Loop, Reconcile


\* The venue serves a request, or a protection that exists changes its status.
LEMMA ServedJournal ==
  ASSUME TypeOK, Grounded, Journaled, InFlight, UNCHANGED <<eng, eff, sends, ripe>>,
         wire' \subseteq wire,
         answered' => answered \/ (eng.pc = "await" /\ <<eng.t, eng.e>> \notin wire'),
         \A t \in Trades, r \in Roles :
           \/ tp'[t][r] = tp[t][r]
           \/ tp[t][r] # "none" /\ tp'[t][r] # "none"
           \/ <<t, r>> \in wire /\ <<t, r>> \notin wire'
  PROVE  Journaled' /\ InFlight'
<1>1. Roles \subseteq Effects
  BY DEF Effects, Roles
<1>2. Journaled'
  <2>1. ASSUME NEW t \in Trades, NEW r \in Roles, sends[t][r] = 0 \/ <<t, r>> \in wire'
        PROVE  tp'[t][r] = "none"
    <3>1. r \in Effects /\ (<<t, r>> \in wire => sends[t][r] = 1)
      BY <1>1 DEF Journaled
    <3>2. tp[t][r] = "none"
      BY <2>1, <3>1 DEF Journaled
    <3> QED
      BY <2>1, <3>1, <3>2
  <2>2. ASSUME NEW t \in Trades, NEW e \in Effects
        PROVE  /\ sends'[t][e] <= 1
               /\ eff'[t][e] = "none" => sends'[t][e] = 0 /\ <<t, e>> \notin ripe'
               /\ <<t, e>> \in wire' =>
                    sends'[t][e] = 1 /\ eff'[t][e] = "PREPARED" /\ <<t, e>> \notin ripe'
    BY DEF Journaled
  <2> QED
    BY <2>1, <2>2 DEF Journaled
<1>3. ASSUME NEW r \in Roles, eng.snap[r] # "none"
      PROVE  Working /\ tp'[eng.t][r] # "none"
  <2>1. Working /\ tp[eng.t][r] # "none" /\ eng.t \in Trades /\ r \in Effects
    BY <1>1, <1>3 DEF InFlight, Grounded
  <2>2. <<eng.t, r>> \notin wire
    BY <2>1 DEF Journaled
  <2> QED
    BY <2>1, <2>2
<1>4. InFlight'
  BY <1>3 DEF InFlight, Working
<1> QED
  BY <1>2, <1>4

\* What happens outside the operation in progress, and its exceptions.
LEMMA OutsideJournal ==
  ASSUME TypeOK, Grounded, Journaled, InFlight, Serving \/ Market \/ Clock \/ Faulty
  PROVE  Journaled' /\ InFlight'
<1>1. eng \in Engine /\ tp \in [Trades -> [Roles -> TpslStates]]
  BY DEF TypeOK
<1>2. ASSUME UNCHANGED <<eff, sends, wire, ripe, tp>>,
             (eng' = eng /\ answered' = answered) \/ (eng' = Idle /\ answered' = FALSE)
      PROVE  Journaled' /\ InFlight'
  <2>1. Journaled'
    BY <1>2, JournalKept
  <2>2. CASE eng' = eng /\ answered' = answered
    BY <1>2, <2>1, <2>2 DEF InFlight, Working
  <2>3. CASE eng' = Idle /\ answered' = FALSE
    <3>1. eng'.pc = "idle" /\ eng'.snap = NoSnap /\ eng'.todoE = {}
      BY <2>3, IdleEngine
    <3> QED
      BY <1>2, <2>1, <2>3, <3>1, PlainMove
  <2> QED
    BY <1>2, <2>2, <2>3
<1>3. ASSUME NEW t \in Trades, NEW e, Answer(t, e) \/ Refuse(t, e)
      PROVE  /\ wire' \subseteq wire
             /\ answered' => answered \/ (eng.pc = "await" /\ <<eng.t, eng.e>> \notin wire')
  <2>1. CASE Answer(t, e)
    <3>1. wire' = wire \ {<<t, e>>}
      BY <2>1 DEF Answer, Serve
    <3>2. answered' => eng.pc = "await" /\ eng.t = t /\ eng.e = e
      BY <2>1, Zenon DEF Answer, At
    <3> QED
      BY <3>1, <3>2
  <2>2. CASE Refuse(t, e)
    BY <2>2 DEF Refuse, Serve
  <2> QED
    BY <1>3, <2>1, <2>2
<1>4. ASSUME NEW t \in Trades, VenuePlace(t) \/ VenueCancel(t)
      PROVE  Journaled' /\ InFlight'
  <2>1. UNCHANGED <<eng, eff, sends, ripe, tp>>
    BY <1>4 DEF VenuePlace, VenueCancel, durable, journal
  <2>2. \E e \in Effects : Answer(t, e) \/ Refuse(t, e)
    BY <1>4 DEF VenuePlace, VenueCancel, Effects
  <2> QED
    BY <2>1, <2>2, <1>3, ServedJournal
<1>5. ASSUME NEW t \in Trades, VenueProject(t) \/ VenueDie(t) \/ VenueFill(t)
      PROVE  Journaled' /\ InFlight'
  <2>1. UNCHANGED <<eng, eff, sends, ripe, tp, wire, answered>>
    BY <1>5 DEF VenueProject, VenueDie, VenueFill, durable, journal
  <2> QED
    BY <2>1, <1>2
<1>6. ASSUME NEW t \in Trades, NEW r \in Roles, VenueCreate(t, r)
      PROVE  Journaled' /\ InFlight'
  <2>1. /\ UNCHANGED <<eng, eff, sends, ripe>> /\ Answer(t, r)
        /\ tp' = [tp EXCEPT ![t][r] = "live"]
    BY <1>6 DEF VenueCreate, durable, journal
  <2>2. <<t, r>> \in wire /\ <<t, r>> \notin wire'
    BY <2>1 DEF Answer, Serve
  <2>3. \A u \in Trades, s \in Roles : tp'[u][s] = IF u = t /\ s = r THEN "live" ELSE tp[u][s]
    BY <2>1, <1>1
  <2> QED
    BY <2>1, <2>2, <2>3, <1>3, ServedJournal
<1>7. ASSUME NEW t \in Trades, NEW r \in Roles, VenueCancelTpsl(t, r) \/ VenueTrigger(t, r)
      PROVE  Journaled' /\ InFlight'
  <2>1. /\ UNCHANGED <<eng, eff, sends, ripe>>
        /\ (\E e \in Effects : Answer(t, e) \/ Refuse(t, e)) \/ UNCHANGED <<wire, answered>>
    BY <1>7 DEF VenueCancelTpsl, VenueTrigger, durable, journal, CancelOf, Effects
  <2>2. \/ UNCHANGED tp
        \/ tp[t][r] = "live" /\ \E s \in {"cancelled", "triggered"} : tp' = [tp EXCEPT ![t][r] = s]
    BY <1>7 DEF VenueCancelTpsl, VenueTrigger
  <2>3. \A u \in Trades, q \in Roles :
          \/ tp'[u][q] = tp[u][q]
          \/ tp[u][q] # "none" /\ tp'[u][q] # "none"
    BY <2>2, <1>1
  <2>4. /\ wire' \subseteq wire
        /\ answered' => answered \/ (eng.pc = "await" /\ <<eng.t, eng.e>> \notin wire')
    BY <2>1, <1>3
  <2> QED
    BY <2>1, <2>3, <2>4, ServedJournal
<1>8. ASSUME NEW t \in Trades, Expire(t) \/ TimeOut(t)
      PROVE  Journaled' /\ InFlight'
  <2>1. UNCHANGED <<eng, eff, sends, ripe, tp, wire, answered>>
    BY <1>8 DEF Expire, TimeOut, durable, journal, venue, market
  <2> QED
    BY <2>1, <1>2
<1>9. ASSUME NEW t \in Trades, NEW e \in Effects, Grace(t, e)
      PROVE  Journaled' /\ InFlight'
  <2>1. /\ eng = Idle /\ eff[t][e] = "PREPARED" /\ <<t, e>> \notin wire
        /\ ripe' = ripe \cup {<<t, e>>}
        /\ UNCHANGED <<eng, eff, sends, wire, answered, tp>>
    BY <1>9 DEF Grace, Quiet, venue, market
  <2>2. Journaled'
    BY <2>1 DEF Journaled
  <2>3. eng.pc = "idle"
    BY <2>1, IdleEngine
  <2> QED
    BY <2>1, <2>2, <2>3 DEF InFlight, Working
<1>10. CASE Raise
  <2>1. UNCHANGED <<eff, sends, wire, ripe, tp>> /\ answered' = FALSE
    BY <1>10 DEF Raise, HangUp, journal, market
  <2>2. \/ Working /\ \E l \in {"ambiguous", "measure"} : Goto(l)
        \/ eng' = Idle
        \/ eng.pc = "loop" /\ eng' = [eng EXCEPT !.bad = TRUE, !.todoE = {}, !.todoT = {}]
        \/ eng' = [Done EXCEPT !.bad = TRUE]
    BY <1>10, Zenon DEF Raise, Unwind, InEntryTry, InProtectTry, Working, At
  <2>3. /\ eng'.pc \notin {"send", "record", "verify", "effect"}
        /\ eng'.todoE \subseteq eng.todoE
        /\ \/ eng'.snap = NoSnap
           \/ eng'.snap = eng.snap /\ eng'.t = eng.t /\ eng'.pc \notin {"idle", "loop"}
           \/ eng'.snap = eng.snap /\ ~Working
    <3>1. ASSUME NEW l \in {"ambiguous", "measure"}, Goto(l)
          PROVE  /\ eng'.pc = l /\ eng'.todoE = eng.todoE
                 /\ eng'.snap = eng.snap /\ eng'.t = eng.t
      <4>1. l \in Places
        BY DEF Places
      <4> QED
        BY <4>1, <3>1, <1>1, GotoEngine
    <3>2. CASE eng' = Idle
      BY <3>2, IdleEngine
    <3>3. CASE eng.pc = "loop" /\ eng' = [eng EXCEPT !.bad = TRUE, !.todoE = {}, !.todoT = {}]
      <4>1. eng'.pc = "loop" /\ eng'.todoE = {} /\ eng'.snap = eng.snap
        BY <3>3, <1>1 DEF Engine
      <4> QED
        BY <4>1, <3>3 DEF Working
    <3>4. CASE eng' = [Done EXCEPT !.bad = TRUE]
      <4>1. Done \in Engine
        BY <1>1, DoneEngine
      <4>2. eng'.pc = Done.pc /\ eng'.todoE = Done.todoE /\ eng'.snap = Done.snap
        BY <3>4, <4>1 DEF Engine
      <4> QED
        BY <4>2, <1>1, DoneEngine
    <3> QED
      BY <2>2, <3>1, <3>2, <3>3, <3>4
  <2> QED
    BY <2>1, <2>3, JournalKept, PlainMove
<1>11. ASSUME NEW p \in Procs, Crash(p) \/ AccountSnapshot(p)
       PROVE  Journaled' /\ InFlight'
  <2>1. /\ UNCHANGED <<eff, sends, wire, ripe, tp>>
        /\ (eng' = eng /\ answered' = answered) \/ (eng' = Idle /\ answered' = FALSE)
    BY <1>11 DEF Crash, AccountSnapshot, HangUp, durable, journal, venue, market
  <2> QED
    BY <2>1, <1>2
<1>12. ASSUME NEW t \in Trades, NEW e \in Effects, VenueRefuse(t, e) \/ VenueClose(t, e)
       PROVE  Journaled' /\ InFlight'
  <2>1. UNCHANGED <<eng, eff, sends, ripe, tp>> /\ (Answer(t, e) \/ Refuse(t, e))
    BY <1>12 DEF VenueRefuse, VenueClose, durable, journal
  <2> QED
    BY <2>1, <1>3, ServedJournal
<1>13. Closes \subseteq Effects
  BY DEF Effects
<1> QED
  BY <1>4, <1>5, <1>6, <1>7, <1>8, <1>9, <1>10, <1>11, <1>12, <1>13
  DEF Serving, Market, Clock, Faulty

\* What the journal and the operation know of the requests stays true.
LEMMA JournalStep ==
  ASSUME TypeOK, Grounded, Journaled, InFlight, [Next]_vars
  PROVE  Journaled' /\ InFlight'
<1>1. CASE UNCHANGED vars
  <2>1. UNCHANGED <<eff, sends, wire, ripe, tp, answered, eng>>
    BY <1>1 DEF vars, durable, journal, venue, market
  <2> QED
    BY <2>1, JournalKept DEF InFlight, Working
<1> QED
  BY <1>1, StartJournal, HandleJournal, ExitJournal, LoopJournal, OutsideJournal DEF Next, Work


-----------------------------------------------------------------------------
(* The purchase *)

\* The venue does not change, and a durable fill is set to what was bought.
LEMMA BoughtKept ==
  ASSUME TypeOK, Bought, UNCHANGED <<ord, pos, shown, wire, sends>>,
         \/ UNCHANGED filled
         \/ \E u \in Trades, q \in 0..Q : /\ q <= ord[u].filled
                                          /\ filled' = [filled EXCEPT ![u] = q]
  PROVE  Bought'
<1>1. \A t \in Trades : filled'[t] <= ord[t].filled
  <2>1. filled \in [Trades -> 0..Q]
    BY DEF TypeOK
  <2> QED
    BY <2>1 DEF Bought
<1> QED
  BY <1>1 DEF Bought

\* An operation that does not move to "fill" promises nothing of a quantity.
LEMMA NotFilling ==
  ASSUME eng \in Engine,
         \/ \E l \in Places \ {"fill"} : Goto(l)
         \/ \E e \in Effects, l \in Places : Mutate(e, l)
         \/ eng' = Done \/ eng' = Idle
  PROVE  Filling'
<1>1. ASSUME NEW l \in Places \ {"fill"}, Goto(l)
      PROVE  eng'.pc # "fill"
  BY <1>1, GotoEngine
<1>2. ASSUME NEW e \in Effects, NEW l \in Places, Mutate(e, l)
      PROVE  eng'.pc # "fill"
  BY <1>2, MutateEngine
<1>3. CASE eng' = Done \/ eng' = Idle
  BY <1>3, IdleEngine, DoneEngine DEF Filling
<1> QED
  BY <1>1, <1>2, <1>3 DEF Filling

\* An operation that stands still keeps its promise while the entry fills.
LEMMA StillFilling ==
  ASSUME TypeOK, Grounded, Filling, UNCHANGED eng,
         \A t \in Trades : ord'[t].filled \in 0..Q /\ ord[t].filled <= ord'[t].filled
  PROVE  Filling'
<1>1. eng.pc = "fill" => eng.t \in Trades /\ eng.qty \in 0..Q /\ ord[eng.t].filled \in 0..Q
  BY DEF Grounded, Working, TypeOK, Engine, Order
<1> QED
  BY <1>1 DEF Filling

\* Operations begin at a place of their own.
LEMMA StartBought ==
  ASSUME TypeOK, Grounded, Bought, Filling, Start
  PROVE  Bought' /\ Filling'
<1>1. UNCHANGED <<ord, pos, shown, wire, sends, filled>>
  BY DEF Start, DeliverNew, DeliverReceived, Redeliver, BeginReconcile, BeginRecovery,
         BlockEntries, durable, trade, venue, market
<1>2. Bought'
  BY <1>1, BoughtKept
<1>3. /\ "loop" \in Places /\ "received" \in Places
  BY DEF Places
<1>4. ASSUME NEW p \in Procs, NEW t \in Trades, DeliverNew(p, t) \/ DeliverReceived(p, t)
      PROVE  eng'.pc # "fill"
  <2>1. eng' = [Begin(p, "handle", "received") EXCEPT !.t = t, !.flag = t \in expired]
    BY <1>4 DEF DeliverNew, DeliverReceived
  <2>2. (t \in expired) \in BOOLEAN
    OBVIOUS
  <2>3. /\ Begin(p, "handle", "received") \in Engine
        /\ Begin(p, "handle", "received").pc = "received"
    BY <1>3, BeginEngine
  <2> QED
    BY <2>1, <2>2, <2>3, DeliveryEngine
<1>5. ASSUME NEW p \in Procs, NEW op \in {"redeliver", "reconcile", "recover"}, NEW x, NEW y,
             \/ eng' = [Begin(p, op, "loop") EXCEPT !.todoE = x, !.todoT = y]
             \/ eng' = [Begin(p, op, "loop") EXCEPT !.todoT = y]
      PROVE  eng'.pc # "fill"
  <2>1. Begin(p, op, "loop") \in Engine /\ Begin(p, op, "loop").pc = "loop"
    BY <1>3, BeginEngine
  <2> QED
    BY <2>1, <1>5 DEF Engine
<1>6. ASSUME NEW p \in Procs,
             \/ \E t \in Trades : Redeliver(p, t)
             \/ BeginReconcile(p) \/ BeginRecovery(p) \/ BlockEntries(p)
      PROVE  eng'.pc # "fill" \/ UNCHANGED eng
  BY <1>5, <1>6 DEF Redeliver, BeginReconcile, BeginRecovery, BlockEntries
<1>7. CASE eng'.pc # "fill"
  BY <1>2, <1>7 DEF Filling
<1>8. CASE UNCHANGED eng
  BY <1>1, <1>2, <1>8 DEF Filling
<1> QED
  BY <1>4, <1>6, <1>7, <1>8 DEF Start

\* The entry: the quantity taken from the venue, and the durable fill.
LEMMA HandleBought ==
  ASSUME TypeOK, Grounded, Bought, Filling, InFlight, Effect \/ Handle
  PROVE  Bought' /\ Filling'
<1>1. /\ eng \in Engine /\ eng.e \in Effects /\ eng.qty \in 0..Q
      /\ ord \in [Trades -> Order] /\ shown \in [Trades -> 0..Q] /\ filled \in [Trades -> 0..Q]
      /\ sends \in [Trades -> [Effects -> Nat]]
  BY DEF TypeOK, Engine
<1>2. /\ {"send", "await", "admit", "dead", "exposure", "settle", "settled", "measure",
          "record"} \subseteq Places \ {"fill"}
      /\ {"cancel", "stop", "place"} \subseteq Effects
      /\ Returns \subseteq Places \ {"fill"}
  BY DEF Places, Effects, Roles, Returns
<1>3. eng.ret \in Returns
  BY DEF Grounded
<1>4. CASE PrepareEffect \/ ReplayEffect \/ AckEffect
  <2>1. /\ UNCHANGED <<ord, pos, shown, wire, sends, filled>>
        /\ Goto("send") \/ Goto(eng.ret)
    BY <1>4 DEF PrepareEffect, ReplayEffect, AckEffect, HangUp, durable, trade, venue, market
  <2> QED
    BY <2>1, <1>1, <1>2, <1>3, BoughtKept, NotFilling
<1>5. CASE SendEffect
  <2>1. /\ eng.t \in Trades /\ sends[eng.t][eng.e] = 0 /\ Goto("await")
        /\ UNCHANGED <<ord, pos, shown, filled>>
        /\ wire' = wire \cup {<<eng.t, eng.e>>}
        /\ sends' = [sends EXCEPT ![eng.t][eng.e] = @ + 1]
    BY <1>5 DEF SendEffect, At, Grounded, Working, InFlight, durable, trade, market
  <2>2. \A t \in Trades : sends'[t]["place"] = 0 => sends[t]["place"] = 0
    <3>1. sends[eng.t] \in [Effects -> Nat]
      BY <2>1, <1>1
    <3>2. sends'[eng.t] = [sends[eng.t] EXCEPT ![eng.e] = @ + 1]
      BY <2>1, <1>1
    <3>3. \A t \in Trades : t # eng.t => sends'[t] = sends[t]
      BY <2>1, <1>1
    <3>4. sends'[eng.t]["place"] = 0 => sends[eng.t]["place"] = 0
      BY <2>1, <3>1, <3>2, <1>1, <1>2
    <3> QED
      BY <3>3, <3>4
  <2>3. Bought'
    BY <2>1, <2>2 DEF Bought
  <2> QED
    BY <2>1, <2>3, <1>1, <1>2, NotFilling
<1>6. CASE AdmitEntry
  <2>1. /\ UNCHANGED <<ord, pos, shown, wire, sends, filled>>
        /\ eng' = [eng EXCEPT !.pc = "send", !.e = "place", !.ret = "settle"]
    BY <1>6 DEF AdmitEntry, trade, venue, market
  <2>2. eng'.pc = "send"
    BY <2>1, <1>1 DEF Engine
  <2> QED
    BY <2>1, <2>2, BoughtKept DEF Filling
<1>7. CASE AckEntry \/ Settle \/ Settled
  <2>1. /\ UNCHANGED <<ord, pos, shown, wire, sends, filled>> /\ eng.t \in Trades
        /\ eng.pc \in {"await", "settle", "settled"}
    BY <1>7 DEF AckEntry, Settle, Settled, At, HangUp, durable, trade, venue, market,
                Grounded, Working
  <2>2. \/ \E f \in 0..ord[eng.t].filled : \/ eng' = [eng EXCEPT !.pc = "fill", !.qty = f]
                                          \/ eng' = [eng EXCEPT !.pc = "fill", !.qty = f, !.flag = FALSE]
        \/ eng' = [eng EXCEPT !.pc = "settle", !.flag = FALSE]
        \/ eng' = [eng EXCEPT !.flag = TRUE]
        \/ Goto("dead") \/ Mutate("cancel", "settled")
    <3>1. ord[eng.t].filled \in 0..ord[eng.t].filled
      BY <2>1, <1>1 DEF Order
    <3>2. CASE AckEntry
      <4>1. 1..ord[eng.t].filled \subseteq 0..ord[eng.t].filled
        OBVIOUS
      <4>2. \/ \E f \in 1..ord[eng.t].filled : eng' = [eng EXCEPT !.pc = "fill", !.qty = f]
            \/ Goto("dead") \/ eng' = [eng EXCEPT !.pc = "settle", !.flag = FALSE]
        BY <3>2, Zenon DEF AckEntry
      <4> QED
        BY <4>1, <4>2, Zenon
    <3>3. CASE Settle \/ Settled
      BY <3>1, <3>3, Zenon DEF Settle, Settled, SettledAs
    <3> QED
      BY <1>7, <3>2, <3>3
  <2>3. CASE \E f \in 0..ord[eng.t].filled : \/ eng' = [eng EXCEPT !.pc = "fill", !.qty = f]
                                            \/ eng' = [eng EXCEPT !.pc = "fill", !.qty = f, !.flag = FALSE]
    <3>1. PICK f \in 0..ord[eng.t].filled : \/ eng' = [eng EXCEPT !.pc = "fill", !.qty = f]
                                           \/ eng' = [eng EXCEPT !.pc = "fill", !.qty = f, !.flag = FALSE]
      BY <2>3
    <3>2. eng'.qty = f /\ eng'.t = eng.t
      BY <3>1, <1>1 DEF Engine
    <3>3. Filling'
      BY <2>1, <3>1, <3>2 DEF Filling
    <3> QED
      BY <2>1, <3>3, BoughtKept
  <2>4. CASE eng' = [eng EXCEPT !.pc = "settle", !.flag = FALSE] \/ eng' = [eng EXCEPT !.flag = TRUE]
    <3>1. eng'.pc # "fill"
      BY <2>1, <2>4, <1>1 DEF Engine
    <3> QED
      BY <2>1, <3>1, BoughtKept DEF Filling
  <2>5. CASE Goto("dead") \/ Mutate("cancel", "settled")
    BY <2>1, <2>5, <1>1, <1>2, BoughtKept, NotFilling
  <2> QED
    BY <2>2, <2>3, <2>4, <2>5
<1>8. CASE Received \/ EntryDead \/ Ambiguous
  <2>1. /\ UNCHANGED <<ord, pos, shown, wire, sends, filled>>
        /\ \/ Goto("admit") \/ eng' = Done
           \/ eng' = [eng EXCEPT !.pc = "exposure", !.flag = FALSE]
    BY <1>8 DEF Received, EntryDead, Ambiguous, Finish, trade, venue, market
  <2>2. CASE eng' = [eng EXCEPT !.pc = "exposure", !.flag = FALSE]
    <3>1. eng'.pc = "exposure"
      BY <2>2, <1>1 DEF Engine
    <3> QED
      BY <2>1, <3>1, BoughtKept DEF Filling
  <2> QED
    BY <2>1, <2>2, <1>1, <1>2, BoughtKept, NotFilling
<1>9. CASE FirstFill \/ AmbiguousExposure
  <2>1. /\ UNCHANGED <<ord, pos, shown, wire, sends>> /\ eng.t \in Trades
        /\ Mutate("stop", "record") \/ Goto("measure")
        /\ \/ eng.pc = "fill" /\ filled' = [filled EXCEPT ![eng.t] = eng.qty]
           \/ filled' = [filled EXCEPT ![eng.t] = shown[eng.t]]
    BY <1>9 DEF FirstFill, AmbiguousExposure, At, venue, market, Grounded, Working
  <2>2. \E q \in 0..Q : q <= ord[eng.t].filled /\ filled' = [filled EXCEPT ![eng.t] = q]
    BY <2>1, <1>1 DEF Filling, Bought
  <2> QED
    BY <2>1, <2>2, <1>1, <1>2, BoughtKept, NotFilling
<1> QED
  BY <1>4, <1>5, <1>6, <1>7, <1>8, <1>9 DEF Effect, Handle

\* The close takes the projected position for the fill.
LEMMA ExitBought ==
  ASSUME TypeOK, Grounded, Bought, Filling, Protect \/ Close \/ Cleanup
  PROVE  Bought' /\ Filling'
<1>1. /\ eng \in Engine /\ eng.r \in Roles
      /\ ord \in [Trades -> Order] /\ shown \in [Trades -> 0..Q]
  BY DEF TypeOK, Engine
<1>2. /\ {"verify", "activate", "closed", "finish", "cleanup", "measured", "cleaned",
          "record"} \subseteq Places \ {"fill"}
      /\ {"target", "cancel", "emergency", "stopX", "targetX"} \subseteq Effects
      /\ Roles = {"stop", "target"}
  BY DEF Places, Effects, Roles, Closes
<1>3. CASE MeasurePosition
  <2>1. /\ UNCHANGED <<ord, pos, shown, wire, sends>> /\ eng.t \in Trades
        /\ UNCHANGED filled \/ filled' = [filled EXCEPT ![eng.t] = shown[eng.t]]
    <3>1. filled' = [filled EXCEPT ![eng.t] =
                      IF ~(state[eng.t] \in Exiting) /\ shown[eng.t] > @ THEN shown[eng.t] ELSE @]
      BY <1>3 DEF MeasurePosition
    <3>2. UNCHANGED filled \/ filled' = [filled EXCEPT ![eng.t] = shown[eng.t]]
      BY <3>1 DEF TypeOK
    <3> QED
      BY <1>3, <3>2 DEF MeasurePosition, venue, market, Grounded, Working
  <2>2. \/ eng' = [eng EXCEPT !.qty = shown[eng.t], !.pc = "prepare",
                              !.e = CloseOf(eng.t), !.ret = "closed"]
        \/ eng' = [eng EXCEPT !.qty = shown[eng.t], !.pc = "finish"]
        \/ eng' = [eng EXCEPT !.qty = shown[eng.t], !.pc = "trigger"]
    BY <1>3 DEF MeasurePosition
  <2>3. eng'.pc # "fill"
    BY <2>2, <1>1 DEF Engine
  <2>4. shown[eng.t] \in 0..Q /\ shown[eng.t] <= ord[eng.t].filled
    BY <2>1, <1>1 DEF Bought
  <2> QED
    BY <2>1, <2>3, <2>4, BoughtKept DEF Filling
<1>4. CASE Protect \/ (Close /\ ~MeasurePosition) \/ Cleanup
  <2>1. UNCHANGED <<ord, pos, shown, wire, sends, filled>>
    BY <1>4 DEF Protect, Close, Cleanup, RecordProtection, VerifyProtection, Activate,
                CancelRemainder, TriggerEmergency, CloseFailed, ClosedFlat, FinishExit,
                BeginCleanup, AdoptProtection, SkipProtection, CancelProtection,
                ProtectionCancelled, Flatten, durable, trade, venue, market
  <2>2. CASE AdoptProtection \/ CloseFailed
    <3>1. UNCHANGED eng
      BY <2>2 DEF AdoptProtection, CloseFailed
    <3> QED
      BY <2>1, <3>1, BoughtKept DEF Filling
  <2>3. CASE BeginCleanup
    <3>1. eng' = [eng EXCEPT !.pc = "clean", !.r = "stop", !.snap = tp[eng.t]]
      BY <2>3 DEF BeginCleanup
    <3>2. eng'.pc = "clean"
      BY <3>1, <1>1 DEF Engine
    <3> QED
      BY <2>1, <3>2, BoughtKept DEF Filling
  <2>4. CASE SkipProtection \/ ProtectionCancelled
    <3>1. \/ eng' = [eng EXCEPT !.r = "target", !.pc = "clean"]
          \/ eng' = Done \/ eng' = [eng EXCEPT !.pc = "flat"]
      BY <2>4, <1>1, <1>2 DEF SkipProtection, ProtectionCancelled, NextRole
    <3>2. eng'.pc # "fill"
      BY <3>1, <1>1, DoneEngine DEF Engine
    <3> QED
      BY <2>1, <3>2, BoughtKept DEF Filling
  <2>5. CASE Protect \/ CancelRemainder \/ TriggerEmergency \/ ClosedFlat \/ FinishExit
             \/ CancelProtection \/ Flatten
    <3>1. \/ eng' = Done \/ Goto("verify") \/ Goto("activate")
          \/ Goto("closed") \/ Goto("finish") \/ Goto("cleanup")
          \/ Mutate("target", "record") \/ Mutate("cancel", "measured")
          \/ Mutate("emergency", "closed") \/ Mutate(CancelOf(eng.r), "cleaned")
      BY <2>5 DEF Protect, RecordProtection, VerifyProtection, Activate, CancelRemainder,
                  TriggerEmergency, ClosedFlat, FinishExit, CancelProtection, Flatten, Finish
    <3>2. CancelOf(eng.r) \in Effects
      BY <1>2 DEF CancelOf
    <3> QED
      BY <2>1, <3>1, <3>2, <1>1, <1>2, BoughtKept, NotFilling
  <2> QED
    BY <1>4, <2>2, <2>3, <2>4, <2>5 DEF Close, Cleanup
<1> QED
  BY <1>3, <1>4 DEF Close

\* The loops, and the fills that reconciliation records.
LEMMA LoopBought ==
  ASSUME TypeOK, Grounded, Bought, Filling, Loop \/ Reconcile
  PROVE  Bought' /\ Filling'
<1>1. eng \in Engine /\ shown \in [Trades -> 0..Q]
  BY DEF TypeOK
<1>2. /\ {"cleanup", "measure", "finish", "record", "expiry"} \subseteq Places \ {"fill"}
      /\ {"stop", "cancel"} \subseteq Effects
  BY DEF Places, Effects, Roles
<1>3. CASE Loop
  <2>1. /\ UNCHANGED <<ord, pos, shown, wire, sends, filled>>
        /\ eng.pc \in {"loop", "effect"}
    BY <1>3 DEF Loop, PickEffect, ResolveEffect, PickTrade, PassDone, RecoveryDone, LoopOver,
                At, durable, trade, venue, market
  <2>2. \/ \E x \in eng.todoE :
             \/ eng' = [eng EXCEPT !.todoE = @ \ {x}, !.t = x[1], !.e = x[2], !.pc = "effect"]
             \/ eng' = [eng EXCEPT !.todoE = @ \ {x}]
        \/ \E t \in eng.todoT :
             \/ eng' = [eng EXCEPT !.todoT = @ \ {t}, !.t = t, !.pc = "reconcile"]
             \/ eng' = [eng EXCEPT !.todoT = @ \ {t}]
        \/ eng' = [eng EXCEPT !.pc = "cleanup", !.flag = TRUE]
        \/ eng' = Done \/ eng' = Idle
    BY <1>3 DEF Loop, PickEffect, ResolveEffect, PickTrade, PassDone, RecoveryDone
  <2>3. eng'.pc # "fill"
    BY <2>1, <2>2, <1>1, DoneEngine, IdleEngine DEF Engine
  <2> QED
    BY <2>1, <2>3, BoughtKept DEF Filling
<1>4. CASE RecordFill
  <2>1. /\ UNCHANGED <<ord, pos, shown, wire, sends, eng>>
        /\ \E t \in Trades : filled' = [filled EXCEPT ![t] = shown[t]]
    BY <1>4 DEF RecordFill, venue, market
  <2>2. \A t \in Trades : shown[t] \in 0..Q /\ shown[t] <= ord[t].filled
    BY <1>1 DEF Bought
  <2> QED
    BY <2>1, <2>2, BoughtKept DEF Filling
<1>5. CASE Reconcile /\ ~RecordFill
  <2>1. UNCHANGED <<ord, pos, shown, wire, sends>>
    BY <1>5 DEF Reconcile, RecoverGap, ReconcileDead, MarkReconciled, ReconcileFirstFill,
                ReconcileProtecting, CancelExpiredEntry, VenueExit, TimeoutClose, ResumeExit,
                venue, market
  <2>2. \/ UNCHANGED filled
        \/ \E t \in Trades : filled' = [filled EXCEPT ![t] = shown[t]]
    BY <1>5 DEF Reconcile, RecoverGap, ReconcileDead, MarkReconciled, ReconcileFirstFill,
                ReconcileProtecting, CancelExpiredEntry, VenueExit, TimeoutClose, ResumeExit,
                durable, trade
  <2>3. \/ eng' = Done \/ Goto("cleanup") \/ Goto("measure") \/ Goto("finish")
        \/ Mutate("stop", "record") \/ Mutate("cancel", "expiry")
    BY <1>5 DEF Reconcile, RecoverGap, ReconcileDead, MarkReconciled, ReconcileFirstFill,
                ReconcileProtecting, CancelExpiredEntry, VenueExit, TimeoutClose, ResumeExit,
                Finish
  <2>4. \A t \in Trades : shown[t] \in 0..Q /\ shown[t] <= ord[t].filled
    BY <1>1 DEF Bought
  <2>5. Bought'
    BY <2>1, <2>2, <2>4, BoughtKept
  <2> QED
    BY <2>3, <2>5, <1>1, <1>2, NotFilling
<1> QED
  BY <1>3, <1>4, <1>5

\* A trade's position and its projection move within what its entry bought.
LEMMA PositionBought ==
  ASSUME TypeOK, Grounded, Bought, Filling, UNCHANGED <<eng, sends, filled, ord>>, wire' \subseteq wire,
         NEW t \in Trades, NEW q \in 0..pos[t], Reposition(t, q)
  PROVE  Bought' /\ Filling'
<1>1. /\ pos \in [Trades -> 0..Q] /\ shown \in [Trades -> 0..Q] /\ ord \in [Trades -> Order]
  BY DEF TypeOK
<1>2. ord[t].filled \in 0..Q /\ pos[t] \in 0..Q /\ pos[t] <= ord[t].filled
  BY <1>1 DEF Bought, Order
<1>3. q <= ord[t].filled
  BY <1>2
<1>4. \A u \in Trades : pos'[u] <= ord[u].filled /\ shown'[u] <= ord[u].filled
  BY <1>1, <1>3 DEF Reposition, Bought
<1> QED
  BY <1>4 DEF Bought, Filling

\* The venue, the clock and the exceptions.
LEMMA OutsideBought ==
  ASSUME TypeOK, Grounded, Bought, Filling, Journaled, Serving \/ Market \/ Clock \/ Faulty
  PROVE  Bought' /\ Filling'
<1>1. /\ eng \in Engine /\ ord \in [Trades -> Order]
      /\ pos \in [Trades -> 0..Q] /\ shown \in [Trades -> 0..Q] /\ filled \in [Trades -> 0..Q]
  BY DEF TypeOK
<1>2. "place" \in Effects
  BY DEF Effects
<1>3. ASSUME UNCHANGED <<eng, sends, filled, pos, shown>>, wire' \subseteq wire,
             NEW t \in Trades, NEW o \in Order, o.filled = ord[t].filled,
             ~ord[t].alive => ~o.alive,
             ord' = [ord EXCEPT ![t] = o]
      PROVE  Bought' /\ Filling'
  <2>1. \A u \in Trades : /\ ord'[u].filled = ord[u].filled
                          /\ ~ord[u].alive => ~ord'[u].alive
    BY <1>3, <1>1
  <2>2. \A u \in Trades : ord[u].filled \in 0..Q
    BY <1>1 DEF Order
  <2>3. Bought'
    <3>1. ASSUME NEW u \in Trades
          PROVE  /\ pos'[u] <= ord'[u].filled /\ shown'[u] <= ord'[u].filled
                 /\ filled'[u] <= ord'[u].filled
      BY <1>3, <2>1 DEF Bought
    <3>2. ASSUME NEW u \in Trades, sends'[u]["place"] = 0 \/ <<u, "place">> \in wire'
          PROVE  ord'[u].filled = 0 /\ ~ord'[u].alive
      <4>1. ord[u].filled = 0 /\ ~ord[u].alive
        BY <1>3, <3>2 DEF Bought
      <4> QED
        BY <2>1, <4>1
    <3> QED
      BY <3>1, <3>2 DEF Bought
  <2>4. Filling'
    BY <1>3, <2>1, <2>2, StillFilling
  <2> QED
    BY <2>3, <2>4
<1>4. ASSUME UNCHANGED <<eng, sends, filled, pos, shown, ord>>, wire' \subseteq wire
      PROVE  Bought' /\ Filling'
  BY <1>4 DEF Bought, Filling
<1>5. ASSUME NEW t \in Trades, NEW e, Answer(t, e) \/ Refuse(t, e)
      PROVE  wire' = wire \ {<<t, e>>} /\ <<t, e>> \in wire
  BY <1>5 DEF Answer, Refuse, Serve
<1>6. ASSUME NEW t \in Trades, VenuePlace(t)
      PROVE  Bought' /\ Filling'
  <2>1. PICK listed \in BOOLEAN, dead \in BOOLEAN :
          ord' = [ord EXCEPT ![t] = [at |-> IF listed /\ ~dead THEN "open" ELSE "gone",
                                     alive |-> ~dead, filled |-> 0]]
    BY <1>6 DEF VenuePlace
  <2>2. /\ UNCHANGED <<eng, sends, filled, pos, shown>>
        /\ wire' = wire \ {<<t, "place">>} /\ <<t, "place">> \in wire
    BY <1>6, <1>5 DEF VenuePlace, durable, trade
  <2>3. /\ ord[t].filled = 0 /\ sends[t]["place"] = 1
    BY <2>2, <1>2 DEF Bought, Journaled
  <2>4. /\ ord'[t].filled = 0
        /\ \A u \in Trades : u # t => ord'[u] = ord[u]
    BY <2>1, <1>1
  <2>5. Bought'
    <3>1. ASSUME NEW u \in Trades
          PROVE  /\ pos'[u] <= ord'[u].filled /\ shown'[u] <= ord'[u].filled
                 /\ filled'[u] <= ord'[u].filled
      BY <2>2, <2>3, <2>4 DEF Bought
    <3>2. ASSUME NEW u \in Trades, sends'[u]["place"] = 0 \/ <<u, "place">> \in wire'
          PROVE  ord'[u].filled = 0 /\ ~ord'[u].alive
      <4>1. u # t
        BY <2>2, <2>3, <3>2
      <4>2. ord[u].filled = 0 /\ ~ord[u].alive
        BY <2>2, <3>2 DEF Bought
      <4> QED
        BY <2>4, <4>1, <4>2
    <3> QED
      BY <3>1, <3>2 DEF Bought
  <2>6. \A u \in Trades : ord[u].filled \in 0..Q /\ ord'[u].filled = ord[u].filled
    BY <2>3, <2>4, <1>1 DEF Order
  <2>7. Filling'
    BY <2>2, <2>6, StillFilling
  <2> QED
    BY <2>5, <2>7
<1>7. ASSUME NEW t \in Trades, VenueFill(t)
      PROVE  Bought' /\ Filling'
  <2>1. PICK q \in 1..(Q - ord[t].filled) :
          /\ ord' = [ord EXCEPT ![t] = [at |-> IF Resting /\ ord[t].filled + q < Q
                                               THEN @.at ELSE "gone",
                                        alive |-> Resting /\ ord[t].filled + q < Q,
                                        filled |-> ord[t].filled + q]]
          /\ Reposition(t, pos[t] + q)
    BY <1>7 DEF VenueFill
  <2>2. ord[t].alive /\ UNCHANGED <<eng, sends, filled, wire>>
    BY <1>7 DEF VenueFill, durable, trade
  <2>3. /\ ord'[t].filled = ord[t].filled + q
        /\ \A u \in Trades : u # t => ord'[u] = ord[u]
    BY <2>1, <1>1
  <2>4. /\ ord[t].filled \in 0..Q /\ pos[t] \in 0..Q /\ shown[t] \in 0..Q /\ filled[t] \in 0..Q
        /\ q \in Nat /\ ord'[t].filled \in 0..Q
    BY <2>3, <1>1, QAssumption DEF Order
  <2>5. /\ pos'[t] <= ord'[t].filled /\ shown'[t] <= ord'[t].filled
        /\ filled'[t] <= ord'[t].filled
        /\ \A u \in Trades : u # t => pos'[u] = pos[u] /\ shown'[u] = shown[u]
    <3>1. /\ pos'[t] = pos[t] + q /\ (shown'[t] = shown[t] \/ shown'[t] = pos[t] + q)
          /\ \A u \in Trades : u # t => pos'[u] = pos[u] /\ shown'[u] = shown[u]
      BY <2>1, <1>1 DEF Reposition
    <3>2. /\ pos[t] <= ord[t].filled /\ shown[t] <= ord[t].filled /\ filled[t] <= ord[t].filled
      BY DEF Bought
    <3> QED
      BY <3>1, <3>2, <2>2, <2>3, <2>4
  <2>6. sends[t]["place"] # 0 /\ <<t, "place">> \notin wire
    BY <2>2 DEF Bought
  <2>7. Bought'
    BY <2>2, <2>3, <2>5, <2>6 DEF Bought
  <2>8. \A u \in Trades : ord'[u].filled \in 0..Q /\ ord[u].filled <= ord'[u].filled
    BY <2>3, <2>4, <1>1 DEF Order
  <2>9. Filling'
    BY <2>2, <2>8, StillFilling
  <2> QED
    BY <2>7, <2>9
<1>8. ASSUME NEW t \in Trades, VenueCancel(t) \/ VenueDie(t)
      PROVE  Bought' /\ Filling'
  <2>1. /\ UNCHANGED <<eng, sends, filled, pos, shown>> /\ wire' \subseteq wire
        /\ UNCHANGED ord \/ ord' = [ord EXCEPT ![t].alive = FALSE, ![t].at = "gone"]
    BY <1>8, <1>5 DEF VenueCancel, VenueDie, durable, trade
  <2>2. CASE ord' = [ord EXCEPT ![t].alive = FALSE, ![t].at = "gone"]
    <3> DEFINE o == [[ord[t] EXCEPT !.alive = FALSE] EXCEPT !.at = "gone"]
    <3>1. o \in Order /\ o.filled = ord[t].filled /\ ~o.alive
      BY <1>1 DEF Order
    <3>2. ord' = [ord EXCEPT ![t] = o]
      BY <2>2, <1>1
    <3> QED
      BY <2>1, <3>1, <3>2, <1>3
  <2> QED
    BY <2>1, <2>2, <1>4
<1>9. ASSUME NEW t \in Trades, VenueProject(t)
      PROVE  Bought' /\ Filling'
  <2>1. /\ UNCHANGED <<eng, sends, filled, pos, wire>>
        /\ \/ UNCHANGED ord /\ shown' = [shown EXCEPT ![t] = pos[t]]
           \/ /\ UNCHANGED shown
              /\ \E a \in {"open", "hist"} : ord' = [ord EXCEPT ![t].at = a]
    BY <1>9 DEF VenueProject, durable, trade
  <2>2. CASE UNCHANGED ord /\ shown' = [shown EXCEPT ![t] = pos[t]]
    <3>1. \A u \in Trades : shown'[u] <= ord[u].filled
      BY <2>2, <1>1 DEF Bought
    <3> QED
      BY <2>1, <2>2, <3>1 DEF Bought, Filling
  <2>3. ASSUME UNCHANGED shown, NEW a \in {"open", "hist"}, ord' = [ord EXCEPT ![t].at = a]
        PROVE  Bought' /\ Filling'
    <3> DEFINE o == [ord[t] EXCEPT !.at = a]
    <3>1. o \in Order /\ o.filled = ord[t].filled /\ o.alive = ord[t].alive
      BY <1>1 DEF Order
    <3>2. ord' = [ord EXCEPT ![t] = o]
      BY <2>3, <1>1
    <3> QED
      BY <2>1, <2>3, <3>1, <3>2, <1>3
  <2> QED
    BY <2>1, <2>2, <2>3
<1>10. ASSUME NEW t \in Trades, NEW r \in Roles, VenueCreate(t, r) \/ VenueCancelTpsl(t, r)
       PROVE  Bought' /\ Filling'
  <2>1. UNCHANGED <<eng, sends, filled, pos, shown, ord>> /\ wire' \subseteq wire
    BY <1>10, <1>5 DEF VenueCreate, VenueCancelTpsl, durable, trade
  <2> QED
    BY <2>1, <1>4
<1>11. ASSUME NEW t \in Trades, NEW r \in Roles, VenueTrigger(t, r)
       PROVE  Bought' /\ Filling'
  <2>1. UNCHANGED <<eng, sends, filled, ord, wire>> /\ Reposition(t, 0) /\ 0 \in 0..pos[t]
    BY <1>11, <1>1 DEF VenueTrigger, durable, trade
  <2> QED
    BY <2>1, PositionBought
<1>12. ASSUME NEW t \in Trades, NEW e, VenueClose(t, e)
       PROVE  Bought' /\ Filling'
  <2>1. PICK q \in 0..Lesser(closeQty[t], pos[t]) : Reposition(t, pos[t] - q)
    BY <1>12 DEF VenueClose
  <2>2. pos[t] \in 0..Q /\ closeQty[t] \in 0..Q
    BY DEF TypeOK
  <2>3. pos[t] - q \in 0..pos[t]
    BY <2>2, QAssumption DEF Lesser
  <2>4. UNCHANGED <<eng, sends, filled, ord>> /\ wire' \subseteq wire
    BY <1>12, <1>5 DEF VenueClose, durable, trade
  <2> QED
    BY <2>1, <2>3, <2>4, PositionBought
<1>13. ASSUME NEW t \in Trades, NEW e, VenueRefuse(t, e)
       PROVE  Bought' /\ Filling'
  <2>1. UNCHANGED <<eng, sends, filled, pos, shown, ord>> /\ wire' \subseteq wire
    BY <1>13, <1>5 DEF VenueRefuse, durable, trade
  <2> QED
    BY <2>1, <1>4
<1>14. CASE Clock
  <2>1. UNCHANGED <<eng, sends, filled, pos, shown, ord, wire>>
    BY <1>14 DEF Clock, Expire, TimeOut, Grace, durable, trade, venue, market
  <2> QED
    BY <2>1, <1>4
<1>15. ASSUME NEW p \in Procs, Crash(p) \/ AccountSnapshot(p)
       PROVE  Bought' /\ Filling'
  <2>1. UNCHANGED <<sends, filled, pos, shown, ord, wire>> /\ (eng' = Idle \/ UNCHANGED eng)
    BY <1>15 DEF Crash, AccountSnapshot, HangUp, durable, trade, venue, market
  <2> QED
    BY <2>1, <1>1, <1>4, BoughtKept, NotFilling
<1>16. CASE Raise
  <2>1. UNCHANGED <<sends, filled, pos, shown, ord, wire>>
    BY <1>16 DEF Raise, HangUp, trade, market
  <2>2. \/ Goto("ambiguous") \/ Goto("measure") \/ eng' = Idle
        \/ At("loop") /\ eng' = [eng EXCEPT !.bad = TRUE, !.todoE = {}, !.todoT = {}]
        \/ eng' = [Done EXCEPT !.bad = TRUE]
    BY <1>16, Zenon DEF Raise, Unwind
  <2>3. {"ambiguous", "measure"} \subseteq Places \ {"fill"}
    BY DEF Places
  <2>4. CASE At("loop") /\ eng' = [eng EXCEPT !.bad = TRUE, !.todoE = {}, !.todoT = {}]
    <3>1. eng'.pc # "fill"
      BY <2>4, <1>1 DEF At, Engine
    <3> QED
      BY <2>1, <3>1, BoughtKept DEF Filling
  <2>5. CASE eng' = [Done EXCEPT !.bad = TRUE]
    <3>1. Done \in Engine /\ Done.pc # "fill"
      BY <1>1, DoneEngine
    <3>2. eng'.pc # "fill"
      BY <2>5, <3>1 DEF Engine
    <3> QED
      BY <2>1, <3>2, BoughtKept DEF Filling
  <2> QED
    BY <2>1, <2>2, <2>3, <2>4, <2>5, <1>1, BoughtKept, NotFilling
<1> QED
  BY <1>6, <1>7, <1>8, <1>9, <1>10, <1>11, <1>12, <1>13, <1>14, <1>15, <1>16
  DEF Serving, Market, Faulty

\* The bounds of the purchase are kept.
LEMMA BoughtStep ==
  ASSUME TypeOK, Grounded, Bought, Filling, Journaled, InFlight, [Next]_vars
  PROVE  Bought' /\ Filling'
<1>1. CASE UNCHANGED vars
  <2>1. UNCHANGED <<ord, pos, shown, wire, sends, filled, eng>>
    BY <1>1 DEF vars, durable, trade, venue, market
  <2> QED
    BY <2>1, BoughtKept DEF Filling
<1> QED
  BY <1>1, StartBought, HandleBought, ExitBought, LoopBought, OutsideBought DEF Next, Work


-----------------------------------------------------------------------------
(* Theorems *)

\* Every step of the engine, the venue, the clock or a fault keeps the invariant.
LEMMA IInvStep == IInv /\ [Next]_vars => IInv'
  BY TypeStep, BoughtStep, JournalStep DEF IInv

LEMMA Inductive == Spec => []IInv
<1>1. Init => IInv
  BY InitIInv
<1>2. IInv /\ [Next]_vars => IInv'
  BY IInvStep
<1> QED
  BY <1>1, <1>2, PTL DEF Spec

\* The state stays well typed: in particular no step of the engine, and no
\* order in which the venue answers, makes a durable or a measured quantity
\* leave 0..Q, and a trade only has the states of the lifecycle.
THEOREM TypeCorrect == Spec => []TypeOK
<1>1. IInv => TypeOK
  BY DEF IInv
<1> QED
  BY <1>1, Inductive, PTL

\* Every effect reaches the venue at most once: execution_journal rows are
\* written PREPARED before the call and never again, by any number of
\* processes, through crashes, failed calls, redeliveries and recoveries.
THEOREM AtMostOnce == Spec => []AtMostOnceSend
<1>1. IInv => AtMostOnceSend
  BY DEF IInv, Journaled, AtMostOnceSend
<1> QED
  BY <1>1, Inductive, PTL

\* A request on the wire has its unresolved journal row: _reconcile_effect, the
\* cleanup and the operation that waits never settle what can still happen.
THEOREM WireJournal == Spec => []WireIsJournaled
<1>1. IInv => WireIsJournaled
  <2>1. ASSUME IInv, NEW x \in wire
        PROVE  eff[x[1]][x[2]] = "PREPARED"
    <3>1. x[1] \in Trades /\ x[2] \in Effects /\ x = <<x[1], x[2]>>
      BY <2>1 DEF IInv, TypeOK
    <3> QED
      BY <2>1, <3>1 DEF IInv, Journaled
  <2> QED
    BY <2>1 DEF WireIsJournaled
<1> QED
  BY <1>1, Inductive, PTL

\* The durable cumulative fill is never more than the entry has filled, whatever
\* the projections show and whichever of the engine's five writes recorded it.
THEOREM FillsAreReal == Spec => []FilledIsReal
<1>1. IInv => FilledIsReal
  BY DEF IInv, Bought, FilledIsReal
<1> QED
  BY <1>1, Inductive, PTL

-----------------------------------------------------------------------------
(***************************************************************************)
(* What the PAPER engine promises about money, for any set of processes    *)
(* and trades, any quantity and any number of faults.                      *)
(*                                                                         *)
(* The argument: the place where the operation is, with the place its      *)
(* mutation returns to (Stage), determines the durable state of its trade  *)
(* (Control).  Before the first fill nothing but the entry and its cancel  *)
(* was ever journaled, so the position is what the entry bought (Opened);  *)
(* an entry that is called dead is dead (Ordered, Entering).  The stop of  *)
(* an ACTIVE trade was verified, and no cancellation of it can be under    *)
(* way (Guarding, Guarded).  Where the venue fills once and shows the      *)
(* position at once, a position that is gone never comes back, so the      *)
(* exit, the cleanup and the attribution stay true up to FLAT and after it *)
(* (Leaving, Exited).                                                      *)
(***************************************************************************)

-----------------------------------------------------------------------------
(* The inductive invariant of these promises *)

\* The venue projects a change of the position at once; and it also fills an
\* entry once (immediate or cancel).
Prompt == "positions" \notin Lag
Once   == Prompt /\ Resting = FALSE

\* Where the operation is, a mutation counting for the place it returns to.
Stage == IF Calling THEN eng.ret ELSE eng.pc

Unbought == {"none", "RECEIVED", "ENTRY_PENDING", "CANCELLED"}
Closing  == {"EXITING_TIMEOUT", "EXITING_EMERGENCY"}
Cleaning == {"cleanup", "clean", "cleaned"}

\* The effect that a place waits for.
Sought == Calling =>
  /\ eng.ret = "settle" => eng.e = "place" /\ eng.pc # "prepare"
  /\ eng.ret \in {"settled", "measured", "expiry"} => eng.e = "cancel"
  /\ eng.ret = "closed" => eng.e = CloseOf(eng.t) /\ eng.qty > 0
  /\ eng.ret = "cleaned" => eng.e = CancelOf(eng.r)

\* The durable state that a place works on.
Staged ==
  /\ Stage = "received" => state[eng.t] = "RECEIVED"
  /\ Stage \in {"admit", "settle", "settled", "fill", "dead", "ambiguous", "exposure"} =>
       state[eng.t] = "ENTRY_PENDING"
  /\ Stage \in {"record", "verify", "activate", "trigger"} => state[eng.t] = "PROTECTING"
  /\ Stage \in {"measure", "measured"} => state[eng.t] \in {"PROTECTING"} \cup Closing
  /\ Stage = "closed" => state[eng.t] \in Closing \/ (~Calling /\ state[eng.t] = "FAILED_BLOCKED")
  /\ Stage \in {"finish", "flat"} => state[eng.t] \in Exiting
  /\ Stage \in Cleaning => /\ state[eng.t] \notin Unbought \cup {"ACTIVE"}
                           /\ ~eng.flag => state[eng.t] \in Exiting
  /\ Stage = "expiry" => state[eng.t] \in {"ENTRY_PENDING", "ACTIVE"}
  /\ Stage = "reconcile" => Owned(eng.t)
  /\ Stage = "effect" => eff[eng.t][eng.e] = "PREPARED"
  /\ eng.flag => eng.pc \in {"received", "settle", "ambiguous", "dead"} \/ Stage \in Cleaning

Control == Sought /\ Staged

\* An order in neither list, or in the history, cannot fill; one that was not
\* served does not exist.
Listed(t) == ord[t].at = "gone" => ~ord[t].alive
Ordered(t) ==
  /\ ord[t].at \in {"none", "hist"} => ~ord[t].alive
  /\ ord[t].at = "none" => ord[t].filled = 0
  /\ <<t, "place">> \in wire \/ sends[t]["place"] = 0 => ord[t].at = "none"
  /\ <<t, "place">> \in ripe => Listed(t)
  /\ Prompt => shown[t] = pos[t]
  /\ Once /\ ord[t].alive => ord[t].filled = 0

\* An entry that can buy nothing any more, and bought nothing.
Dead(t) == ~ord[t].alive /\ (Prompt => ord[t].filled = 0)

Untouched(t) ==
  /\ filled[t] = 0 /\ pos[t] = ord[t].filled
  /\ \A e \in Effects \ {"place", "cancel"} : eff[t][e] = "none"

Opened(t) ==
  /\ state[t] \in {"none", "RECEIVED"} => eff[t]["place"] = "none" /\ eff[t]["cancel"] = "none"
  /\ state[t] \in Unbought => Untouched(t)
  /\ state[t] \notin Unbought => filled[t] > 0
  /\ state[t] = "CANCELLED" => Dead(t) /\ <<t, "place">> \notin wire
  /\ state[t] = "ENTRY_PENDING" /\ eff[t]["place"] = "ABSENT" => Dead(t)

\* What the operation knows of the entry.
Entering ==
  /\ Stage \in {"admit", "settle"} => eff[eng.t]["cancel"] = "none"
  /\ eng.pc = "prepare" /\ eng.ret = "settled" => eff[eng.t]["cancel"] = "none"
  /\ eng.pc \in {"settle", "settled", "dead"} \/ (Calling /\ eng.ret = "settled") =>
       eff[eng.t]["place"] = "CONFIRMED"
  /\ eng.pc = "settled" => ~ord[eng.t].alive
  /\ eng.pc = "dead" => Dead(eng.t)
  /\ eng.pc = "fill" => eng.qty > 0
  /\ answered /\ eng.e = "cancel" => ~ord[eng.t].alive /\ ord[eng.t].at # "none"
  /\ \A t \in Trades : <<t, "place">> \in eng.todoE => Listed(t)
  /\ eng.pc = "effect" /\ eng.e = "place" => Listed(eng.t)

\* The stop stands, as far as this side can tell.
Stopped(t) ==
  /\ tp[t]["stop"] \in {"live", "triggered"} /\ "stop" \in prot[t]
  /\ eff[t]["stop"] \notin {"none", "PREPARED"}

Guarding ==
  /\ eng.pc = "verify" => eng.e \in prot[eng.t]
  /\ Stage \in {"record", "verify", "activate"} => <<eng.t, "stopX">> \notin wire
  /\ \/ Stage \in {"record", "verify"} /\ eng.e = "target"
     \/ eng.pc = "activate"
     => Stopped(eng.t)
  /\ eng.pc = "activate" => eff[eng.t]["target"] \notin {"none", "PREPARED"}

Guarded(t) ==
  /\ state[t] = "ACTIVE" =>
       Stopped(t) /\ eff[t]["target"] \notin {"none", "PREPARED"} /\ <<t, "stopX">> \notin wire
  /\ Once /\ pos[t] > 0 =>
       \A r \in Roles : tp[t][r] \in {"none", "live"} /\ sends[t][CancelOf(r)] = 0

\* Nothing of protection r is at the venue, or on its way.
Gone(t, r) == tp[t][r] # "live" /\ <<t, r>> \notin wire

\* The exit reason of t is proved, and no close can change that.
Attributed(t) ==
  /\ \A e \in Closes : <<t, e>> \notin wire
  /\ exit[t] \in Roles => FlatBy(t, exit[t]) /\ clo[t] = -1
  /\ exit[t] \in Closes /\ eff[t][exit[t]] = "none" => exit[t] = "emergency" /\ clo[t] = -1
  /\ exit[t] \in Closes /\ eff[t][exit[t]] # "none" => clo[t] = closeQty[t] /\ Proven(t) = {}

Leaving ==
  /\ eng.pc = "closed" /\ eng.qty = 0 =>
       eff[eng.t]["emergency"] = "none" /\ state[eng.t] # "EXITING_TIMEOUT"
  /\ \A r \in Roles : eng.snap[r] \in {"triggered", "cancelled"} => tp[eng.t][r] # "live"
  /\ Stage = "cleaned" => eff[eng.t][eng.r] # "PREPARED"
  /\ Stage \in {"clean", "cleaned"} /\ eng.r = "target" => Gone(eng.t, "stop")
  /\ Stage = "flat" => \A r \in Roles : Gone(eng.t, r)
  /\ Once =>
       /\ Stage \in {"finish", "flat"} \cup Cleaning => pos[eng.t] = 0
       /\ Stage \in {"flat"} \cup Cleaning /\ ~eng.flag => Attributed(eng.t)

Exited(t) ==
  /\ eff[t]["timeout"] = "none" \/ eff[t]["emergency"] = "none"
  /\ eff[t]["timeout"] # "none" => state[t] \notin {"PROTECTING", "ACTIVE", "EXITING_STOP",
                                                    "EXITING_TARGET", "EXITING_EMERGENCY"}
  /\ eff[t]["emergency"] # "none" => state[t] \notin {"PROTECTING", "ACTIVE", "EXITING_STOP",
                                                      "EXITING_TARGET", "EXITING_TIMEOUT"}
  /\ (\A e \in Closes : sends[t][e] = 0 \/ <<t, e>> \in wire) => clo[t] = -1
  /\ state[t] \in Exiting => exit[t] \in Roles \cup Closes /\ state[t] = ExitingOf(exit[t])
  /\ Once /\ state[t] = "FLAT" =>
       /\ pos[t] = 0 /\ \A r \in Roles : Gone(t, r)
       /\ exit[t] \in Roles \cup Closes /\ Attributed(t)

Sound(t) == Ordered(t) /\ Opened(t) /\ Guarded(t) /\ Exited(t)
Rows == \A t \in Trades : Sound(t)

SInv == Control /\ Entering /\ Guarding /\ Leaving /\ Rows

-----------------------------------------------------------------------------
(* What a step leaves alone *)

\* The records of t stay, but a request of it may have left the wire.
Kept(t) ==
  /\ state'[t] = state[t] /\ filled'[t] = filled[t] /\ exit'[t] = exit[t] /\ prot'[t] = prot[t]
  /\ eff'[t] = eff[t] /\ closeQty'[t] = closeQty[t]
  /\ ord'[t] = ord[t] /\ pos'[t] = pos[t] /\ shown'[t] = shown[t]
  /\ tp'[t] = tp[t] /\ trig'[t] = trig[t] /\ clo'[t] = clo[t] /\ sends'[t] = sends[t]
  /\ \A e \in Effects : <<t, e>> \in wire' => <<t, e>> \in wire
  /\ <<t, "place">> \in ripe' => <<t, "place">> \in ripe

LEMMA EffectNames ==
  /\ Effects = {"place", "cancel", "stop", "target", "stopX", "targetX", "timeout", "emergency"}
  /\ Roles = {"stop", "target"} /\ Closes = {"timeout", "emergency"}
  /\ Roles \subseteq Effects /\ Closes \subseteq Effects
  /\ \A r \in Roles : CancelOf(r) \in {"stopX", "targetX"} /\ CancelOf(r) \in Effects
  BY DEF Effects, Roles, Closes, CancelOf

LEMMA ExitNames ==
  /\ ExitingOf("stop") = "EXITING_STOP" /\ ExitingOf("target") = "EXITING_TARGET"
  /\ ExitingOf("timeout") = "EXITING_TIMEOUT" /\ ExitingOf("emergency") = "EXITING_EMERGENCY"
  BY DEF ExitingOf

LEMMA AttributedKept ==
  ASSUME NEW t \in Trades, Kept(t), Attributed(t)
  PROVE  Attributed(t)'
<1>1. Proven(t)' = Proven(t)
  BY DEF Kept, Proven
<1>2. \A e \in Closes : <<t, e>> \notin wire'
  BY EffectNames DEF Kept, Attributed
<1> QED
  BY <1>1, <1>2 DEF Kept, Attributed, FlatBy

\* A trade whose records stay is as sound as before.
LEMMA KeptSound ==
  ASSUME NEW t \in Trades, Kept(t), Sound(t)
  PROVE  Sound(t)'
<1>1. Ordered(t)'
  BY EffectNames DEF Kept, Sound, Ordered, Listed
<1>2. Opened(t)'
  BY EffectNames DEF Kept, Sound, Opened, Untouched, Dead
<1>3. Guarded(t)'
  BY EffectNames DEF Kept, Sound, Guarded, Stopped
<1>4. Exited(t)'
  <2>1. Attributed(t) => Attributed(t)'
    BY AttributedKept
  <2>2. \A r \in Roles : Gone(t, r) => Gone(t, r)'
    BY EffectNames DEF Kept, Gone
  <2> QED
    BY <2>1, <2>2, EffectNames DEF Kept, Sound, Exited
<1> QED
  BY <1>1, <1>2, <1>3, <1>4 DEF Sound

\* Only the records of t change.
LEMMA OneRow ==
  ASSUME Rows, NEW t, \A u \in Trades \ {t} : Kept(u), t \in Trades => Sound(t)'
  PROVE  Rows'
  BY KeptSound DEF Rows

\* Nobody writes: the rows stay.
LEMMA RowsKept ==
  ASSUME Rows, UNCHANGED <<trade, journal, market, wire, sends>>
  PROVE  Rows'
<1>1. ASSUME NEW u \in Trades PROVE Kept(u)
  BY DEF Kept, trade, journal, market
<1> QED
  BY <1>1, KeptSound DEF Rows

\* The operation rests or loops, with effects to recover that were ripe.
LEMMA Rested ==
  ASSUME InFlight', eng'.pc \in {"idle", "loop"}, eng'.flag = FALSE,
         \A t \in Trades : <<t, "place">> \in eng'.todoE => Listed(t)'
  PROVE  Control' /\ Entering' /\ Guarding' /\ Leaving'
<1>1. ~Working' /\ ~Calling' /\ Stage' = eng'.pc /\ ~answered'
  BY DEF Working, Calling, Stage, InFlight
<1>2. Control'
  BY <1>1 DEF Control, Sought, Staged, Cleaning
<1>3. Entering'
  BY <1>1 DEF Entering
<1>4. Guarding'
  BY <1>1 DEF Guarding
<1>5. Leaving'
  <2>1. \A r \in Roles : eng'.snap[r] = "none"
    BY <1>1 DEF InFlight
  <2> QED
    BY <1>1, <2>1 DEF Leaving, Cleaning
<1> QED
  BY <1>2, <1>3, <1>4, <1>5

\* The work on a trade, or the operation, ends.
LEMMA EndRested ==
  ASSUME eng \in Engine, Entering, InFlight', eng' \in {Done, Idle}, UNCHANGED ord
  PROVE  Control' /\ Entering' /\ Guarding' /\ Leaving'
<1>1. /\ eng'.pc \in {"idle", "loop"} /\ eng'.flag = FALSE
      /\ eng'.todoE \subseteq eng.todoE
  BY IdleEngine, DoneEngine
<1>2. \A t \in Trades : <<t, "place">> \in eng'.todoE => Listed(t)'
  BY <1>1 DEF Entering, Listed
<1> QED
  BY <1>1, <1>2, Rested

-----------------------------------------------------------------------------
(* The journal *)

LEMMA EffWritten ==
  ASSUME TypeOK, NEW t \in Trades, NEW e \in Effects, NEW v \in EffectStates,
         eff' = [eff EXCEPT ![t][e] = v]
  PROVE  /\ eff'[t][e] = v
         /\ \A f \in Effects \ {e} : eff'[t][f] = eff[t][f]
         /\ \A u \in Trades \ {t} : eff'[u] = eff[u]
  BY DEF TypeOK

\* A journal row is written where its trade may have one.
LEMMA RowSound ==
  ASSUME TypeOK, Rows, NEW t \in Trades, NEW e \in Effects, NEW v \in EffectStates \ {"none"},
         eff' = [eff EXCEPT ![t][e] = v],
         \A u \in Trades \ {t} : closeQty'[u] = closeQty[u],
         closeQty'[t] = closeQty[t] \/ state[t] # "FLAT",
         ripe' \subseteq ripe, UNCHANGED <<trade, market, wire, sends>>,
         state[t] \notin {"none", "RECEIVED"},
         state[t] \in Unbought => e \in {"place", "cancel"},
         state[t] = "ENTRY_PENDING" /\ e = "place" /\ v = "ABSENT" => Dead(t),
         state[t] = "ACTIVE" /\ e \in Roles => v # "PREPARED",
         e \in Closes => \/ eff[t][e] # "none"
                         \/ e = "timeout" /\ state[t] = "EXITING_TIMEOUT"
                         \/ e = "emergency" /\ state[t] = "EXITING_EMERGENCY"
  PROVE  Rows'
<1>1. /\ eff'[t][e] = v
      /\ \A f \in Effects \ {e} : eff'[t][f] = eff[t][f]
      /\ \A u \in Trades \ {t} : eff'[u] = eff[u]
  BY EffWritten
<1>2. \A u \in Trades \ {t} : Kept(u)
  BY <1>1 DEF Kept, trade, market
<1>3. Sound(t)
  BY DEF Rows
<1>4. Ordered(t)'
  BY <1>3 DEF Sound, Ordered, Listed, market
<1>5. Opened(t)'
  BY <1>1, <1>3, EffectNames DEF Sound, Opened, Untouched, Dead, Unbought, trade, market
<1>6. Guarded(t)'
  BY <1>1, <1>3, EffectNames DEF Sound, Guarded, Stopped, trade, market
<1>7. Exited(t)'
  <2>1. Proven(t)' = Proven(t)
    BY DEF Proven, trade, market
  <2>2. /\ eff'[t]["timeout"] = "none" \/ eff'[t]["emergency"] = "none"
        /\ eff'[t]["timeout"] # "none" => state[t] \notin {"PROTECTING", "ACTIVE", "EXITING_STOP",
                                                    "EXITING_TARGET", "EXITING_EMERGENCY"}
        /\ eff'[t]["emergency"] # "none" => state[t] \notin {"PROTECTING", "ACTIVE", "EXITING_STOP",
                                                      "EXITING_TARGET", "EXITING_TIMEOUT"}
    BY <1>1, <1>3, EffectNames DEF Sound, Exited
  <2>3. state[t] = "FLAT" /\ exit[t] \in Roles \cup Closes /\ Attributed(t) => Attributed(t)'
    BY <1>1, <2>1, EffectNames DEF Attributed, FlatBy, trade, market
  <2> QED
    BY <1>3, <2>2, <2>3 DEF Sound, Exited, Gone, trade, market
<1> QED
  BY <1>2, <1>4, <1>5, <1>6, <1>7, OneRow DEF Sound

-----------------------------------------------------------------------------
(* One effect *)

\* A mutation: where it returns to, what it sends, and in which state.
CallShape ==
  \/ eng.ret = "settle" /\ eng.e = "place" /\ state[eng.t] = "ENTRY_PENDING" /\ eng.pc # "prepare"
  \/ eng.ret = "settled" /\ eng.e = "cancel" /\ state[eng.t] = "ENTRY_PENDING"
  \/ eng.ret = "record" /\ eng.e \in {"stop", "target"} /\ state[eng.t] = "PROTECTING"
  \/ /\ eng.ret = "measured" /\ eng.e = "cancel"
     /\ state[eng.t] \in {"PROTECTING", "EXITING_TIMEOUT", "EXITING_EMERGENCY"}
  \/ /\ eng.ret = "closed" /\ eng.qty > 0
     /\ eng.e = "timeout" /\ state[eng.t] = "EXITING_TIMEOUT"
  \/ /\ eng.ret = "closed" /\ eng.qty > 0
     /\ eng.e = "emergency" /\ state[eng.t] = "EXITING_EMERGENCY"
  \/ /\ eng.ret = "cleaned" /\ eng.e \in {"stopX", "targetX"} /\ eng.e = CancelOf(eng.r)
     /\ state[eng.t] \notin Unbought \cup {"ACTIVE"}
     /\ ~eng.flag => state[eng.t] \in Exiting
  \/ eng.ret = "expiry" /\ eng.e = "cancel" /\ state[eng.t] \in {"ENTRY_PENDING", "ACTIVE"}

LEMMA CallOf ==
  ASSUME IInv, Control, Calling
  PROVE  eng.t \in Trades /\ eng.e \in Effects /\ Stage = eng.ret /\ CallShape
<1>1. /\ eng.t \in Trades /\ Stage = eng.ret /\ eng.ret # "idle" /\ eng.e \in Effects
      /\ eng.ret \in {"settle", "record", "settled", "measured", "closed", "cleaned", "expiry"}
      /\ (eng.ret = "record" => eng.e \in {"stop", "target"})
  BY EffectNames DEF IInv, TypeOK, Engine, Grounded, Working, Calling, Stage, Returns
<1>2. eng.r \in Roles
  BY DEF IInv, TypeOK, Engine
<1>3. CASE eng.ret \in {"settle", "settled", "record", "measured", "expiry"}
  BY <1>1, <1>3 DEF Control, Sought, Staged, Closing, CallShape
<1>4. CASE eng.ret = "closed"
  BY <1>1, <1>4 DEF Control, Sought, Staged, Closing, CloseOf, CallShape
<1>5. CASE eng.ret = "cleaned"
  BY <1>1, <1>2, <1>5, EffectNames DEF Control, Sought, Staged, Cleaning, CallShape
<1> QED
  BY <1>1, <1>3, <1>4, <1>5

LEMMA PrepareSound ==
  ASSUME IInv, IInv', SInv, PrepareEffect
  PROVE  SInv'
<1>1. /\ eng.pc = "prepare" /\ Calling /\ eff[eng.t][eng.e] = "none" /\ Goto("send")
      /\ eff' = [eff EXCEPT ![eng.t][eng.e] = "PREPARED"]
      /\ closeQty' = (IF eng.e \in Closes THEN [closeQty EXCEPT ![eng.t] = eng.qty] ELSE closeQty)
      /\ UNCHANGED <<trade, ripe, market, wire, sends>>
  BY DEF PrepareEffect, At, Calling, venue
<1>2. /\ eng'.pc = "send" /\ eng'.ret = eng.ret /\ eng'.t = eng.t /\ eng'.e = eng.e
      /\ eng'.qty = eng.qty /\ eng'.r = eng.r /\ eng'.flag = eng.flag
      /\ eng'.snap = eng.snap /\ eng'.todoE = eng.todoE
  BY <1>1, GotoEngine DEF IInv, TypeOK, Places
<1>3. eng.t \in Trades /\ eng.e \in Effects /\ Stage = eng.ret /\ CallShape
  BY <1>1, CallOf DEF SInv
<1>4. Stage' = eng.ret /\ Calling'
  BY <1>2 DEF Stage, Calling
<1>5. PICK t \in Trades, e \in Effects : t = eng.t /\ e = eng.e
  BY <1>3
<1>6. /\ eff'[t][e] = "PREPARED"
      /\ \A f \in Effects \ {e} : eff'[t][f] = eff[t][f]
  BY <1>1, <1>5, EffWritten DEF IInv, EffectStates
<1>7. /\ \A u \in Trades \ {t} : closeQty'[u] = closeQty[u]
      /\ e \notin Closes => closeQty'[t] = closeQty[t]
  BY <1>1, <1>5 DEF IInv, TypeOK
<1>8. Control'
  BY <1>1, <1>2, <1>3, <1>4, <1>5, <1>6
  DEF SInv, Control, Sought, Staged, CloseOf, trade, Cleaning, Owned, CallShape
<1>9. Entering'
  <2>1. ~answered'
    BY <1>2 DEF IInv, InFlight
  <2>2. \A u \in Trades : <<u, "place">> \in eng'.todoE => Listed(u)'
    BY <1>1, <1>2 DEF SInv, Entering, Listed, market
  <2> QED
    BY <1>1, <1>2, <1>3, <1>4, <1>5, <1>6, <2>1, <2>2, EffectNames
    DEF SInv, Entering, CallShape
<1>10. Guarding'
  BY <1>1, <1>2, <1>3, <1>4, <1>5, <1>6, EffectNames
  DEF SInv, Guarding, Stopped, trade, market, CallShape
<1>11. Leaving'
  <2>1. Proven(t)' = Proven(t)
    BY <1>1 DEF Proven, trade, market
  <2>2. eng.ret = "cleaned" /\ Attributed(t) => Attributed(t)'
    BY <1>1, <1>3, <1>5, <1>6, <1>7, <2>1, EffectNames
    DEF Attributed, FlatBy, trade, market, CallShape
  <2>3. eng.ret = "cleaned" => eff'[t][eng.r] # "PREPARED"
    BY <1>3, <1>5, <1>6, EffectNames DEF SInv, Leaving, CallShape, IInv, TypeOK, Engine
  <2> QED
    BY <1>1, <1>2, <1>3, <1>4, <1>5, <2>2, <2>3
    DEF SInv, Leaving, Gone, market, Cleaning, CallShape
<1>12. Rows'
  BY <1>1, <1>3, <1>5, <1>7, RowSound, EffectNames
  DEF SInv, IInv, CallShape, Unbought, EffectStates, journal
<1> QED
  BY <1>8, <1>9, <1>10, <1>11, <1>12 DEF SInv

\* The operation returns from a mutation to the place that asked for it.
LEMMA ReturnSound ==
  ASSUME IInv, IInv', SInv, Calling, eng.pc # "send", Goto(eng.ret),
         eng.e # "place", eng.ret = "settled" => eng.pc = "await" /\ answered,
         UNCHANGED <<trade, closeQty, market, wire, sends>>,
         \A f \in Effects \ {eng.e} : eff'[eng.t][f] = eff[eng.t][f],
         eff'[eng.t][eng.e] # "none"
  PROVE  Control' /\ Entering' /\ Guarding' /\ Leaving'
<1>1. eng.t \in Trades /\ eng.e \in Effects /\ Stage = eng.ret /\ CallShape
  BY CallOf DEF SInv
<1>2. eng.ret \in Places
  BY DEF IInv, TypeOK, Engine
<1>3. /\ eng'.pc = eng.ret /\ eng'.ret = eng.ret /\ eng'.t = eng.t /\ eng'.e = eng.e
      /\ eng'.qty = eng.qty /\ eng'.r = eng.r /\ eng'.flag = eng.flag
      /\ eng'.snap = eng.snap /\ eng'.todoE = eng.todoE
  BY <1>2, GotoEngine DEF IInv, TypeOK
<1>4. Stage' = eng.ret /\ ~Calling'
  BY <1>1, <1>3 DEF Stage, Calling, CallShape
<1>5. PICK t \in Trades, e \in Effects : t = eng.t /\ e = eng.e
  BY <1>1
<1>6. Control'
  BY <1>1, <1>3, <1>4, <1>5
  DEF SInv, Control, Sought, Staged, trade, Cleaning, Calling, CallShape, Closing
<1>7. Entering'
  <2>1. ~answered'
    BY <1>4 DEF IInv, InFlight, Calling
  <2>2. \A u \in Trades : <<u, "place">> \in eng'.todoE => Listed(u)'
    BY <1>3 DEF SInv, Entering, Listed, market
  <2>3. eng.ret = "settled" => ~ord[t].alive /\ eff'[t]["place"] = "CONFIRMED"
    BY <1>1, <1>5, EffectNames DEF SInv, Entering, CallShape
  <2> QED
    BY <1>1, <1>3, <1>4, <1>5, <2>1, <2>2, <2>3, EffectNames
    DEF Entering, market, CallShape
<1>8. Guarding'
  BY <1>1, <1>3, <1>4, <1>5, EffectNames
  DEF SInv, Guarding, Stopped, trade, market, CallShape
<1>9. Leaving'
  <2>1. Proven(t)' = Proven(t)
    BY DEF Proven, trade, market
  <2>2. eng.ret = "cleaned" /\ Attributed(t) => Attributed(t)'
    BY <1>1, <1>5, <2>1, EffectNames DEF Attributed, FlatBy, trade, market, CallShape
  <2>3. eng.ret = "cleaned" => eff'[t][eng.r] # "PREPARED"
    BY <1>1, <1>5, EffectNames DEF SInv, Leaving, CallShape, IInv, TypeOK, Engine
  <2> QED
    BY <1>1, <1>3, <1>4, <1>5, <2>2, <2>3
    DEF SInv, Leaving, Gone, market, Cleaning, CallShape
<1> QED
  BY <1>6, <1>7, <1>8, <1>9

LEMMA ReplaySound ==
  ASSUME IInv, IInv', SInv, ReplayEffect
  PROVE  SInv'
<1>1. /\ eng.pc = "prepare" /\ Calling /\ eff[eng.t][eng.e] \in {"CONFIRMED", "RECONCILED"}
      /\ Goto(eng.ret) /\ UNCHANGED <<trade, journal, market, wire, sends>>
  BY DEF ReplayEffect, At, Calling, venue, durable
<1>2. CallShape
  BY <1>1, CallOf DEF SInv
<1>3. eng.e # "place" /\ eng.ret # "settled"
  BY <1>1, <1>2 DEF CallShape, SInv, Entering
<1>4. Rows'
  BY <1>1, RowsKept DEF SInv
<1> QED
  BY <1>1, <1>3, <1>4, ReturnSound DEF SInv, journal

LEMMA AckSound ==
  ASSUME IInv, IInv', SInv, AckEffect
  PROVE  SInv'
<1>1. /\ eng.pc = "await" /\ Calling /\ eng.e # "place" /\ answered /\ Goto(eng.ret)
      /\ eff' = [eff EXCEPT ![eng.t][eng.e] = "CONFIRMED"]
      /\ UNCHANGED <<trade, closeQty, ripe, market, wire, sends>>
  BY DEF AckEffect, At, Calling, Confirm, HangUp
<1>2. eng.t \in Trades /\ eng.e \in Effects /\ CallShape
  BY <1>1, CallOf DEF SInv
<1>3. PICK t \in Trades, e \in Effects : t = eng.t /\ e = eng.e
  BY <1>2
<1>4. /\ eff'[t][e] = "CONFIRMED"
      /\ \A f \in Effects \ {e} : eff'[t][f] = eff[t][f]
  BY <1>1, <1>3 DEF IInv, TypeOK
<1>5. Control' /\ Entering' /\ Guarding' /\ Leaving'
  BY <1>1, <1>3, <1>4, ReturnSound
<1>6. Rows'
  BY <1>1, <1>2, <1>3, RowSound, EffectNames
  DEF SInv, IInv, CallShape, Unbought, EffectStates
<1> QED
  BY <1>5, <1>6 DEF SInv

LEMMA SendSound ==
  ASSUME IInv, IInv', SInv, SendEffect
  PROVE  SInv'
<1>1. /\ eng.pc = "send" /\ Calling /\ Goto("await")
      /\ wire' = wire \cup {<<eng.t, eng.e>>}
      /\ sends' = [sends EXCEPT ![eng.t][eng.e] = @ + 1]
      /\ UNCHANGED <<trade, journal, market, answered>>
  BY DEF SendEffect, At, Calling, durable
<1>2. /\ eng'.pc = "await" /\ eng'.ret = eng.ret /\ eng'.t = eng.t /\ eng'.e = eng.e
      /\ eng'.qty = eng.qty /\ eng'.r = eng.r /\ eng'.flag = eng.flag
      /\ eng'.snap = eng.snap /\ eng'.todoE = eng.todoE
  BY <1>1, GotoEngine DEF IInv, TypeOK, Places
<1>3. eng.t \in Trades /\ eng.e \in Effects /\ Stage = eng.ret /\ CallShape
  BY <1>1, CallOf DEF SInv
<1>4. Stage' = eng.ret /\ Calling'
  BY <1>2 DEF Stage, Calling
<1>5. PICK t \in Trades, e \in Effects : t = eng.t /\ e = eng.e
  BY <1>3
<1>6. /\ \A u \in Trades \ {t} : sends'[u] = sends[u]
      /\ \A f \in Effects \ {e} : sends'[t][f] = sends[t][f]
      /\ sends'[t][e] # 0 /\ sends[t][e] = 0
  BY <1>1, <1>5 DEF IInv, TypeOK, InFlight
<1>7. /\ \A u \in Trades \ {t}, f \in Effects : <<u, f>> \in wire' => <<u, f>> \in wire
      /\ \A f \in Effects \ {e} : <<t, f>> \in wire' => <<t, f>> \in wire
  BY <1>1, <1>5
<1>8. Control'
  BY <1>1, <1>2, <1>3, <1>4, <1>5
  DEF SInv, Control, Sought, Staged, CloseOf, trade, journal, Cleaning, Owned, CallShape
<1>9. Entering'
  <2>1. ~answered'
    BY <1>1 DEF IInv, InFlight
  <2>2. \A u \in Trades : <<u, "place">> \in eng'.todoE => Listed(u)'
    BY <1>1, <1>2 DEF SInv, Entering, Listed, market
  <2> QED
    BY <1>1, <1>2, <1>3, <1>4, <1>5, <2>1, <2>2, EffectNames
    DEF SInv, Entering, CallShape, journal
<1>10. Guarding'
  BY <1>1, <1>2, <1>3, <1>4, <1>5, <1>7, EffectNames
  DEF SInv, Guarding, Stopped, trade, journal, market, CallShape
<1>11. Leaving'
  <2>1. Proven(t)' = Proven(t)
    BY <1>1 DEF Proven, trade, market
  <2>2. eng.ret = "cleaned" /\ Attributed(t) => Attributed(t)'
    BY <1>1, <1>3, <1>5, <1>7, <2>1, EffectNames
    DEF Attributed, FlatBy, trade, journal, market, CallShape
  <2>3. eng.ret = "cleaned" => \A r \in Roles : Gone(t, r) => Gone(t, r)'
    BY <1>1, <1>3, <1>5, <1>7, EffectNames DEF Gone, market, CallShape
  <2> QED
    BY <1>1, <1>2, <1>3, <1>4, <1>5, <2>2, <2>3, EffectNames
    DEF SInv, Leaving, market, journal, Cleaning, CallShape
<1>12. Sound(t)'
  <2>1. Sound(t)
    BY DEF SInv, Rows
  <2>2. Ordered(t)'
    BY <1>1, <1>6, <1>7, <2>1, EffectNames DEF Sound, Ordered, Listed, market, journal
  <2>3. Opened(t)'
    BY <1>1, <1>3, <1>5, <1>6, <1>7, <2>1, EffectNames
    DEF Sound, Opened, Untouched, Dead, trade, journal, market, CallShape
  <2>4. Guarded(t)'
    <3>1. state[t] = "ACTIVE" => e # "stopX"
      BY <1>3, <1>5 DEF CallShape
    <3>2. Once /\ pos[t] > 0 => e \notin {"stopX", "targetX"}
      BY <1>3, <1>5 DEF CallShape, SInv, Leaving, Cleaning, IInv, TypeOK
    <3> QED
      BY <1>1, <1>6, <1>7, <2>1, <3>1, <3>2, EffectNames
      DEF Sound, Guarded, Stopped, trade, journal, market
  <2>5. Exited(t)'
    <3>1. state[t] = "FLAT" => e \in {"stopX", "targetX"}
      BY <1>3, <1>5 DEF CallShape
    <3>2. Proven(t)' = Proven(t)
      BY <1>1 DEF Proven, trade, market
    <3>3. state[t] = "FLAT" /\ Attributed(t) => Attributed(t)'
      BY <1>1, <1>7, <3>1, <3>2, EffectNames DEF Attributed, FlatBy, trade, journal, market
    <3>4. state[t] = "FLAT" => \A r \in Roles : Gone(t, r) => Gone(t, r)'
      BY <1>1, <1>7, <3>1, EffectNames DEF Gone, market
    <3>5. (\A f \in Closes : sends'[t][f] = 0 \/ <<t, f>> \in wire') =>
            \A f \in Closes : sends[t][f] = 0 \/ <<t, f>> \in wire
      BY <1>6, <1>7, EffectNames
    <3> QED
      BY <1>1, <2>1, <3>3, <3>4, <3>5 DEF Sound, Exited, trade, journal, market
  <2> QED
    BY <2>2, <2>3, <2>4, <2>5 DEF Sound
<1>13. \A u \in Trades \ {t} : Kept(u)
  BY <1>1, <1>6, <1>7 DEF Kept, trade, journal, market
<1> QED
  BY <1>8, <1>9, <1>10, <1>11, <1>12, <1>13, OneRow DEF SInv

-----------------------------------------------------------------------------
(* The entry *)

LEMMA StateMoved ==
  ASSUME TypeOK, NEW t \in Trades, NEW s, Move(t, s)
  PROVE  state'[t] = s /\ \A u \in Trades \ {t} : state'[u] = state[u]
  BY DEF Move, TypeOK

\* An entry that was never journaled was never sent.
LEMMA NeverSent ==
  ASSUME IInv, NEW t \in Trades, eff[t]["place"] = "none"
  PROVE  Dead(t) /\ <<t, "place">> \notin wire
  BY EffectNames DEF IInv, Journaled, Bought, Dead

\* A dead entry is cancelled.
LEMMA CancelSound ==
  ASSUME TypeOK, Rows, NEW t \in Trades, state[t] \in {"RECEIVED", "ENTRY_PENDING"},
         Dead(t), <<t, "place">> \notin wire, Move(t, "CANCELLED"),
         UNCHANGED <<filled, exit, prot, journal, market, wire, sends>>
  PROVE  Rows'
<1>1. state'[t] = "CANCELLED" /\ \A u \in Trades \ {t} : state'[u] = state[u]
  BY StateMoved
<1>2. \A u \in Trades \ {t} : Kept(u)
  BY <1>1 DEF Kept, journal, market
<1>3. Sound(t)
  BY DEF Rows
<1>4. Ordered(t)'
  BY <1>3 DEF Sound, Ordered, Listed, market, journal
<1>5. Opened(t)'
  BY <1>1, <1>3 DEF Sound, Opened, Untouched, Dead, Unbought, market, journal
<1>6. Guarded(t)'
  BY <1>1, <1>3 DEF Sound, Guarded, Stopped, market, journal
<1>7. Exited(t)'
  BY <1>1, <1>3 DEF Sound, Exited, Exiting, market, journal
<1> QED
  BY <1>2, <1>4, <1>5, <1>6, <1>7, OneRow DEF Sound

\* The first fill is recorded.
LEMMA FillSound ==
  ASSUME IInv, Rows, NEW t \in Trades, state[t] = "ENTRY_PENDING", NEW q, q > 0,
         Move(t, "PROTECTING"), filled' = [filled EXCEPT ![t] = q],
         UNCHANGED <<exit, prot, journal, market, wire, sends>>
  PROVE  Rows' /\ <<t, "stopX">> \notin wire
<1>1. state'[t] = "PROTECTING" /\ \A u \in Trades \ {t} : state'[u] = state[u]
  BY StateMoved DEF IInv
<1>2. filled'[t] = q /\ \A u \in Trades \ {t} : filled'[u] = filled[u]
  BY DEF IInv, TypeOK
<1>3. \A u \in Trades \ {t} : Kept(u)
  BY <1>1, <1>2 DEF Kept, journal, market
<1>4. Sound(t)
  BY DEF Rows
<1>5. \A e \in Effects \ {"place", "cancel"} : eff[t][e] = "none"
  BY <1>4 DEF Sound, Opened, Untouched, Unbought
<1>6. Ordered(t)'
  BY <1>4 DEF Sound, Ordered, Listed, market, journal
<1>7. Opened(t)'
  BY <1>1, <1>2 DEF Opened, Unbought
<1>8. Guarded(t)'
  BY <1>1, <1>4 DEF Sound, Guarded, Stopped, market, journal
<1>9. Exited(t)'
  BY <1>1, <1>4, <1>5, EffectNames DEF Sound, Exited, Exiting, market, journal
<1>10. <<t, "stopX">> \notin wire
  BY <1>5, EffectNames DEF IInv, Journaled
<1> QED
  BY <1>3, <1>6, <1>7, <1>8, <1>9, <1>10, OneRow DEF Sound

\* A place that asks little: the state that Control requires, and no flag.
LEMMA PlainPlace ==
  ASSUME IInv', Entering, Leaving, UNCHANGED <<ord, tp>>, eng'.t = eng.t, eng'.flag = FALSE,
         eng'.pc \in {"admit", "ambiguous", "exposure", "measure", "trigger", "reconcile"},
         eng'.todoE = eng.todoE, eng'.snap = eng.snap,
         eng'.pc = "admit" => state'[eng.t] = "ENTRY_PENDING" /\ eff'[eng.t]["cancel"] = "none",
         eng'.pc \in {"ambiguous", "exposure"} => state'[eng.t] = "ENTRY_PENDING",
         eng'.pc = "measure" => state'[eng.t] \in {"PROTECTING"} \cup Closing,
         eng'.pc = "trigger" => state'[eng.t] = "PROTECTING",
         eng'.pc = "reconcile" => Owned(eng.t)'
  PROVE  Control' /\ Entering' /\ Guarding' /\ Leaving'
<1>1. Stage' = eng'.pc /\ ~Calling' /\ ~answered'
  BY DEF Stage, Calling, IInv, InFlight
<1>2. Control'
  BY <1>1 DEF Control, Sought, Staged, Cleaning, Owned
<1>3. Entering'
  <2>1. \A u \in Trades : <<u, "place">> \in eng'.todoE => Listed(u)'
    BY DEF Entering, Listed
  <2> QED
    BY <1>1, <2>1 DEF Entering
<1>4. Guarding'
  BY <1>1 DEF Guarding
<1>5. Leaving'
  BY <1>1 DEF Leaving, Cleaning
<1> QED
  BY <1>2, <1>3, <1>4, <1>5

LEMMA ReceivedSound ==
  ASSUME IInv, IInv', SInv, Received
  PROVE  SInv'
<1>1. /\ eng.pc = "received" /\ UNCHANGED <<filled, exit, prot, journal, market, wire, sends>>
      /\ \/ Move(eng.t, "CANCELLED") /\ Finish
         \/ Move(eng.t, "ENTRY_PENDING") /\ Goto("admit") /\ ~eng.flag
  BY DEF Received, At, venue
<1>2. eng.t \in Trades /\ state[eng.t] = "RECEIVED"
  BY <1>1 DEF IInv, Grounded, Working, SInv, Control, Staged, Stage, Calling
<1>3. PICK t \in Trades : t = eng.t
  BY <1>2
<1>4. Sound(t) /\ eff[t]["place"] = "none" /\ eff[t]["cancel"] = "none"
  BY <1>2, <1>3 DEF SInv, Rows, Sound, Opened
<1>5. CASE Move(t, "CANCELLED") /\ Finish
  <2>1. Rows'
    BY <1>1, <1>2, <1>3, <1>4, <1>5, NeverSent, CancelSound DEF IInv, SInv
  <2>2. Control' /\ Entering' /\ Guarding' /\ Leaving'
    BY <1>1, <1>5, EndRested DEF IInv, TypeOK, SInv, Finish, market
  <2> QED
    BY <2>1, <2>2 DEF SInv
<1>6. CASE Move(t, "ENTRY_PENDING") /\ Goto("admit") /\ ~eng.flag
  <2>1. state'[t] = "ENTRY_PENDING" /\ \A u \in Trades \ {t} : state'[u] = state[u]
    BY <1>6, StateMoved DEF IInv
  <2>2. \A u \in Trades \ {t} : Kept(u)
    BY <1>1, <2>1 DEF Kept, journal, market
  <2>3. Sound(t)'
    <3>1. Ordered(t)'
      BY <1>1, <1>4 DEF Sound, Ordered, Listed, market, journal
    <3>2. Opened(t)'
      BY <1>1, <1>2, <1>3, <1>4, <2>1 DEF Sound, Opened, Untouched, Unbought, market, journal
    <3>3. Guarded(t)'
      BY <1>1, <1>4, <2>1 DEF Sound, Guarded, market, journal
    <3>4. Exited(t)'
      BY <1>1, <1>2, <1>3, <1>4, <2>1 DEF Sound, Exited, Exiting, Opened, Untouched, Unbought,
         market, journal
    <3> QED
      BY <3>1, <3>2, <3>3, <3>4 DEF Sound
  <2>4. Rows'
    BY <2>2, <2>3, OneRow DEF SInv
  <2>5. /\ eng'.pc = "admit" /\ eng'.t = eng.t /\ eng'.flag = eng.flag
        /\ eng'.snap = eng.snap /\ eng'.todoE = eng.todoE
    BY <1>6, GotoEngine DEF IInv, TypeOK, Places
  <2>6. eng.flag \in BOOLEAN
    BY DEF IInv, TypeOK, Engine
  <2>7. Control' /\ Entering' /\ Guarding' /\ Leaving'
    BY <1>1, <1>3, <1>4, <1>6, <2>1, <2>5, <2>6, PlainPlace DEF SInv, market, journal
  <2> QED
    BY <2>4, <2>7 DEF SInv
<1> QED
  BY <1>1, <1>3, <1>5, <1>6

\* A place of the entry after its answer.
LEMMA EntryPlace ==
  ASSUME IInv', Entering, Leaving, UNCHANGED <<ord, tp>>, NEW t \in Trades, t = eng.t,
         eng'.t = t, eng'.pc \in {"settle", "fill", "dead"}, state'[t] = "ENTRY_PENDING",
         eng'.todoE = eng.todoE, eng'.snap = eng.snap,
         eng'.pc = "settle" => eff'[t]["cancel"] = "none",
         eng'.pc # "fill" => eff'[t]["place"] = "CONFIRMED",
         eng'.pc = "fill" => eng'.flag = FALSE /\ eng'.qty > 0,
         eng'.pc = "dead" => Dead(t)
  PROVE  Control' /\ Entering' /\ Guarding' /\ Leaving'
<1>1. Stage' = eng'.pc /\ ~Calling' /\ ~answered'
  BY DEF Stage, Calling, IInv, InFlight
<1>2. Control'
  BY <1>1 DEF Control, Sought, Staged, Cleaning
<1>3. Entering'
  <2>1. \A u \in Trades : <<u, "place">> \in eng'.todoE => Listed(u)'
    BY DEF Entering, Listed
  <2>2. eng'.pc = "dead" => Dead(t)'
    BY DEF Dead
  <2> QED
    BY <1>1, <2>1, <2>2 DEF Entering
<1>4. Guarding'
  BY <1>1 DEF Guarding
<1>5. Leaving'
  BY <1>1 DEF Leaving, Cleaning
<1> QED
  BY <1>2, <1>3, <1>4, <1>5

\* A mutation that is no cleanup begins.
LEMMA BeginCall ==
  ASSUME IInv', Entering, Leaving, UNCHANGED <<ord, tp>>, NEW t \in Trades, t = eng.t,
         eng'.t = t, eng'.pc = "prepare", eng'.flag = FALSE,
         eng'.todoE = eng.todoE, eng'.snap = eng.snap,
         \/ /\ eng'.ret = "settled" /\ eng'.e = "cancel" /\ state'[t] = "ENTRY_PENDING"
            /\ eff'[t]["place"] = "CONFIRMED" /\ eff'[t]["cancel"] = "none"
         \/ /\ eng'.ret = "record" /\ eng'.e \in Roles /\ state'[t] = "PROTECTING"
            /\ <<t, "stopX">> \notin wire' /\ (eng'.e = "target" => Stopped(t)')
         \/ /\ eng'.ret = "measured" /\ eng'.e = "cancel"
            /\ state'[t] \in {"PROTECTING"} \cup Closing
         \/ /\ eng'.ret = "closed" /\ eng'.qty > 0 /\ state'[t] \in Closing
            /\ eng'.e = IF state'[t] = "EXITING_TIMEOUT" THEN "timeout" ELSE "emergency"
         \/ /\ eng'.ret = "expiry" /\ eng'.e = "cancel"
            /\ state'[t] \in {"ENTRY_PENDING", "ACTIVE"}
  PROVE  Control' /\ Entering' /\ Guarding' /\ Leaving'
<1>1. Stage' = eng'.ret /\ Calling' /\ ~answered'
  BY DEF Stage, Calling, IInv, InFlight
<1>2. Control'
  BY <1>1 DEF Control, Sought, Staged, Cleaning, CloseOf, Closing
<1>3. Entering'
  <2>1. \A u \in Trades : <<u, "place">> \in eng'.todoE => Listed(u)'
    BY DEF Entering, Listed
  <2> QED
    BY <1>1, <2>1 DEF Entering
<1>4. Guarding'
  BY <1>1 DEF Guarding
<1>5. Leaving'
  BY <1>1 DEF Leaving, Cleaning
<1> QED
  BY <1>2, <1>3, <1>4, <1>5

LEMMA AdmitSound ==
  ASSUME IInv, IInv', SInv, AdmitEntry
  PROVE  SInv'
<1>1. /\ eng.pc = "admit" /\ eff' = [eff EXCEPT ![eng.t]["place"] = "PREPARED"]
      /\ eng' = [eng EXCEPT !.pc = "send", !.e = "place", !.ret = "settle"]
      /\ UNCHANGED <<trade, closeQty, ripe, market, wire, sends>>
  BY DEF AdmitEntry, At, venue
<1>2. /\ eng.t \in Trades /\ state[eng.t] = "ENTRY_PENDING" /\ ~eng.flag
      /\ eff[eng.t]["cancel"] = "none"
  BY <1>1 DEF IInv, Grounded, Working, SInv, Control, Entering, Staged, Stage, Calling, Cleaning
<1>3. PICK t \in Trades : t = eng.t
  BY <1>2
<1>4. /\ eng'.pc = "send" /\ eng'.e = "place" /\ eng'.ret = "settle" /\ eng'.t = t
      /\ ~eng'.flag /\ eng'.snap = eng.snap /\ eng'.todoE = eng.todoE
  BY <1>1, <1>2, <1>3 DEF IInv, TypeOK, Engine
<1>5. eff'[t]["cancel"] = "none"
  BY <1>1, <1>2, <1>3, EffectNames DEF IInv, TypeOK
<1>6. Stage' = "settle" /\ Calling' /\ ~answered'
  BY <1>4 DEF Stage, Calling, IInv, InFlight
<1>7. Control'
  BY <1>1, <1>2, <1>3, <1>4, <1>6 DEF Control, Sought, Staged, Cleaning, trade
<1>8. Entering'
  <2>1. \A u \in Trades : <<u, "place">> \in eng'.todoE => Listed(u)'
    BY <1>1, <1>4 DEF SInv, Entering, Listed, market
  <2> QED
    BY <1>4, <1>5, <1>6, <2>1 DEF Entering
<1>9. Guarding'
  BY <1>4, <1>6 DEF Guarding
<1>10. Leaving'
  BY <1>1, <1>3, <1>4, <1>6 DEF SInv, Leaving, Cleaning, market
<1>11. Rows'
  BY <1>1, <1>2, <1>3, RowSound, EffectNames DEF SInv, IInv, EffectStates
<1> QED
  BY <1>7, <1>8, <1>9, <1>10, <1>11 DEF SInv

LEMMA AckEntrySound ==
  ASSUME IInv, IInv', SInv, AckEntry
  PROVE  SInv'
<1>1. /\ eng.pc = "await" /\ eng.e = "place" /\ Calling
      /\ eff' = [eff EXCEPT ![eng.t]["place"] = "CONFIRMED"]
      /\ \/ \E f \in 1..ord[eng.t].filled : eng' = [eng EXCEPT !.pc = "fill", !.qty = f]
         \/ ~ord[eng.t].alive /\ ord[eng.t].filled = 0 /\ Goto("dead")
         \/ eng' = [eng EXCEPT !.pc = "settle", !.flag = FALSE]
      /\ UNCHANGED <<trade, closeQty, ripe, market, wire, sends>>
  BY DEF AckEntry, At, Calling, Confirm, HangUp
<1>2. /\ eng.t \in Trades /\ Stage = "settle" /\ state[eng.t] = "ENTRY_PENDING"
  BY <1>1, CallOf DEF SInv, CallShape
<1>3. PICK t \in Trades : t = eng.t
  BY <1>2
<1>4. /\ eff[t]["cancel"] = "none" /\ eng.flag = FALSE
  BY <1>1, <1>2, <1>3 DEF SInv, Control, Entering, Staged, Cleaning, IInv, TypeOK, Engine
<1>5. eff'[t]["cancel"] = "none" /\ eff'[t]["place"] = "CONFIRMED"
  <2>1. eff' = [eff EXCEPT ![t]["place"] = "CONFIRMED"]
    BY <1>1, <1>3
  <2> QED
    BY <2>1, <1>4, EffectNames DEF IInv, TypeOK
<1>6. Rows'
  BY <1>1, <1>2, <1>3, RowSound, EffectNames DEF SInv, IInv, EffectStates
<1>7. /\ eng'.t = t /\ eng'.snap = eng.snap /\ eng'.todoE = eng.todoE /\ eng'.flag = FALSE
      /\ eng'.pc \in {"settle", "fill", "dead"}
      /\ eng'.pc = "fill" => eng'.qty > 0
      /\ eng'.pc = "dead" => Dead(t)
  <2>1. CASE \E f \in 1..ord[t].filled : eng' = [eng EXCEPT !.pc = "fill", !.qty = f]
    <3>1. PICK f \in 1..ord[t].filled : eng' = [eng EXCEPT !.pc = "fill", !.qty = f]
      BY <2>1
    <3>2. f > 0
      BY <3>1 DEF IInv, TypeOK, Order
    <3> QED
      BY <3>1, <3>2, <1>3, <1>4 DEF IInv, TypeOK, Engine
  <2>2. CASE ~ord[t].alive /\ ord[t].filled = 0 /\ Goto("dead")
    BY <2>2, <1>3, <1>4, GotoEngine DEF IInv, TypeOK, Places, Dead
  <2>3. CASE eng' = [eng EXCEPT !.pc = "settle", !.flag = FALSE]
    BY <2>3, <1>3, <1>4 DEF IInv, TypeOK, Engine
  <2> QED
    BY <1>1, <1>3, <2>1, <2>2, <2>3
<1>8. Control' /\ Entering' /\ Guarding' /\ Leaving'
  BY <1>1, <1>2, <1>3, <1>5, <1>7, EntryPlace DEF SInv, market, trade
<1> QED
  BY <1>6, <1>8 DEF SInv

LEMMA SettleSound ==
  ASSUME IInv, IInv', SInv, Settle \/ Settled
  PROVE  SInv'
<1>1. /\ eng.pc \in {"settle", "settled"}
      /\ \/ SettledAs(eng.t)
         \/ eng.pc = "settle" /\ eng' = [eng EXCEPT !.flag = TRUE]
         \/ eng.pc = "settle" /\ ~eng.flag /\ Mutate("cancel", "settled")
         \/ eng.pc = "settled" /\ shown[eng.t] = 0 /\ ~Visible(eng.t) /\ Goto("dead")
      /\ UNCHANGED <<trade, journal, market, wire, sends>>
  BY DEF Settle, Settled, At, durable, venue
<1>2. /\ eng.t \in Trades /\ state[eng.t] = "ENTRY_PENDING" /\ eng \in Engine
      /\ eff[eng.t]["place"] = "CONFIRMED"
      /\ eng.pc = "settle" => eff[eng.t]["cancel"] = "none"
      /\ eng.pc = "settled" => ~ord[eng.t].alive
  BY <1>1 DEF IInv, TypeOK, Grounded, Working, SInv, Control, Entering, Staged, Stage, Calling
<1>3. PICK t \in Trades : t = eng.t
  BY <1>2
<1>4. Rows'
  BY <1>1, RowsKept DEF SInv
<1>5. Sound(t) /\ Ordered(t) /\ pos[t] = ord[t].filled
  BY <1>2, <1>3 DEF SInv, Rows, Sound, Opened, Untouched, Unbought
<1>6. CASE Mutate("cancel", "settled") /\ eng.pc = "settle" /\ ~eng.flag
  <2>1. /\ eng'.pc = "prepare" /\ eng'.e = "cancel" /\ eng'.ret = "settled" /\ eng'.t = t
        /\ eng'.flag = FALSE /\ eng'.snap = eng.snap /\ eng'.todoE = eng.todoE
    <3>1. eng.flag = FALSE
      BY <1>2, <1>6 DEF Engine
    <3> QED
      BY <1>2, <1>3, <1>6, <3>1, EffectNames, MutateEngine DEF Places
  <2>2. Control' /\ Entering' /\ Guarding' /\ Leaving'
    BY <1>1, <1>2, <1>3, <1>6, <2>1, BeginCall DEF SInv, market, trade, journal
  <2> QED
    BY <1>4, <2>2 DEF SInv
<1>7. CASE ~(Mutate("cancel", "settled") /\ eng.pc = "settle" /\ ~eng.flag)
  <2>1. /\ eng'.t = t /\ eng'.snap = eng.snap /\ eng'.todoE = eng.todoE
        /\ eng'.pc \in {"settle", "fill", "dead"}
        /\ eng'.pc = "settle" => eng.pc = "settle"
        /\ eng'.pc = "fill" => eng'.qty > 0 /\ eng'.flag = FALSE
        /\ eng'.pc = "dead" => Dead(t)
    <3>1. CASE /\ shown[t] > 0 /\ Matched(t)
               /\ eng' = [eng EXCEPT !.pc = "fill", !.qty = ord[t].filled, !.flag = FALSE]
      <4>1. ord[t].filled > 0
        BY <3>1 DEF Matched, IInv, TypeOK, Order
      <4> QED
        BY <1>2, <1>3, <3>1, <4>1 DEF Engine
    <3>2. CASE shown[t] = 0 /\ DeadInHistory(t) /\ Goto("dead")
      <4>1. Dead(t)
        BY <1>5, <3>2 DEF DeadInHistory, Ordered, Dead
      <4> QED
        BY <1>2, <1>3, <3>2, <4>1, GotoEngine DEF Places
    <3>3. CASE eng.pc = "settle" /\ eng' = [eng EXCEPT !.flag = TRUE]
      BY <1>2, <1>3, <3>3 DEF Engine
    <3>4. CASE eng.pc = "settled" /\ shown[t] = 0 /\ ~Visible(t) /\ Goto("dead")
      <4>1. Dead(t)
        BY <1>2, <1>3, <1>5, <3>4 DEF Ordered, Dead
      <4> QED
        BY <1>2, <1>3, <3>4, <4>1, GotoEngine DEF Places
    <3> QED
      BY <1>1, <1>3, <1>7, <3>1, <3>2, <3>3, <3>4 DEF SettledAs
  <2>2. Control' /\ Entering' /\ Guarding' /\ Leaving'
    BY <1>1, <1>2, <1>3, <2>1, EntryPlace DEF SInv, market, trade, journal
  <2> QED
    BY <1>4, <2>2 DEF SInv
<1> QED
  BY <1>6, <1>7

LEMMA FirstFillSound ==
  ASSUME IInv, IInv', SInv, FirstFill
  PROVE  SInv'
<1>1. /\ eng.pc = "fill" /\ Mutate("stop", "record")
      /\ Move(eng.t, "PROTECTING") /\ filled' = [filled EXCEPT ![eng.t] = eng.qty]
      /\ UNCHANGED <<exit, prot, journal, market, wire, sends>>
  BY DEF FirstFill, At, venue
<1>2. /\ eng.t \in Trades /\ state[eng.t] = "ENTRY_PENDING" /\ eng \in Engine
      /\ eng.qty > 0 /\ eng.flag = FALSE
  BY <1>1 DEF IInv, TypeOK, Grounded, Working, SInv, Control, Entering, Staged, Stage, Calling,
     Cleaning, Engine
<1>3. PICK t \in Trades : t = eng.t
  BY <1>2
<1>4. Rows' /\ <<t, "stopX">> \notin wire
  BY <1>1, <1>2, <1>3, FillSound DEF SInv
<1>5. /\ eng'.pc = "prepare" /\ eng'.e = "stop" /\ eng'.ret = "record" /\ eng'.t = t
      /\ eng'.flag = FALSE /\ eng'.snap = eng.snap /\ eng'.todoE = eng.todoE
  BY <1>1, <1>2, <1>3, EffectNames, MutateEngine DEF Places
<1>6. state'[t] = "PROTECTING"
  BY <1>1, <1>3, StateMoved DEF IInv
<1>7. Control' /\ Entering' /\ Guarding' /\ Leaving'
  BY <1>1, <1>3, <1>4, <1>5, <1>6, EffectNames, BeginCall DEF SInv, market
<1> QED
  BY <1>4, <1>7 DEF SInv

LEMMA EntryDeadSound ==
  ASSUME IInv, IInv', SInv, EntryDead
  PROVE  SInv'
<1>1. /\ eng.pc = "dead" /\ Finish /\ Move(eng.t, "CANCELLED")
      /\ UNCHANGED <<filled, exit, prot, journal, market, wire, sends>>
  BY DEF EntryDead, At, venue
<1>2. /\ eng.t \in Trades /\ state[eng.t] = "ENTRY_PENDING"
      /\ eff[eng.t]["place"] = "CONFIRMED" /\ Dead(eng.t)
  BY <1>1 DEF IInv, TypeOK, Grounded, Working, SInv, Control, Entering, Staged, Stage, Calling
<1>3. PICK t \in Trades : t = eng.t
  BY <1>2
<1>4. <<t, "place">> \notin wire
  BY <1>2, <1>3, EffectNames DEF IInv, Journaled
<1>5. Rows'
  BY <1>1, <1>2, <1>3, <1>4, CancelSound DEF IInv, SInv
<1>6. Control' /\ Entering' /\ Guarding' /\ Leaving'
  BY <1>1, EndRested DEF IInv, TypeOK, SInv, Finish, market
<1> QED
  BY <1>5, <1>6 DEF SInv

LEMMA AmbiguousSound ==
  ASSUME IInv, IInv', SInv, Ambiguous \/ AmbiguousExposure
  PROVE  SInv'
<1>1. /\ eng.t \in Trades /\ state[eng.t] = "ENTRY_PENDING" /\ eng \in Engine
      /\ eng.pc = "exposure" => eng.flag = FALSE
  BY DEF Ambiguous, AmbiguousExposure, At, IInv, TypeOK, Grounded, Working, SInv, Control,
     Staged, Stage, Calling, Cleaning, Engine
<1>2. PICK t \in Trades : t = eng.t
  BY <1>1
<1>3. CASE Ambiguous
  <2>1. /\ eng' = [eng EXCEPT !.pc = "exposure", !.flag = FALSE]
        /\ UNCHANGED <<trade, journal, market, wire, sends>>
    BY <1>3 DEF Ambiguous, venue
  <2>2. /\ eng'.pc = "exposure" /\ eng'.t = eng.t /\ eng'.flag = FALSE
        /\ eng'.snap = eng.snap /\ eng'.todoE = eng.todoE
    BY <1>1, <2>1 DEF Engine
  <2>3. Control' /\ Entering' /\ Guarding' /\ Leaving'
    BY <1>1, <2>1, <2>2, PlainPlace DEF SInv, market, trade
  <2> QED
    BY <2>1, <2>3, RowsKept DEF SInv
<1>4. CASE AmbiguousExposure
  <2>1. /\ eng.pc = "exposure" /\ shown[t] > 0 /\ Move(t, "PROTECTING")
        /\ filled' = [filled EXCEPT ![t] = shown[t]] /\ Goto("measure")
        /\ UNCHANGED <<exit, prot, journal, market, wire, sends>>
    BY <1>2, <1>4 DEF AmbiguousExposure, At, venue
  <2>2. Rows'
    BY <1>1, <1>2, <2>1, FillSound DEF SInv
  <2>3. /\ eng'.pc = "measure" /\ eng'.t = eng.t /\ eng'.flag = FALSE
        /\ eng'.snap = eng.snap /\ eng'.todoE = eng.todoE
    BY <1>1, <2>1, GotoEngine DEF Places
  <2>4. state'[t] = "PROTECTING"
    BY <2>1, StateMoved DEF IInv
  <2>5. Control' /\ Entering' /\ Guarding' /\ Leaving'
    BY <1>2, <2>1, <2>3, <2>4, PlainPlace DEF SInv, market
  <2> QED
    BY <2>2, <2>5 DEF SInv
<1> QED
  BY <1>3, <1>4

-----------------------------------------------------------------------------
(* The protection, the close and the cleanup *)

\* The durable record of a trade that has bought is written.
LEMMA BoughtSound ==
  ASSUME Rows, NEW t \in Trades,
         \A u \in Trades \ {t} : /\ state'[u] = state[u] /\ filled'[u] = filled[u]
                                 /\ exit'[u] = exit[u] /\ prot'[u] = prot[u],
         UNCHANGED <<journal, market, wire, sends>>,
         state'[t] \notin Unbought, filled'[t] > 0,
         state'[t] = "ACTIVE" =>
           Stopped(t)' /\ eff[t]["target"] \notin {"none", "PREPARED"} /\ <<t, "stopX">> \notin wire,
         eff[t]["timeout"] # "none" => state'[t] \notin {"PROTECTING", "ACTIVE", "EXITING_STOP",
                                                    "EXITING_TARGET", "EXITING_EMERGENCY"},
         eff[t]["emergency"] # "none" => state'[t] \notin {"PROTECTING", "ACTIVE", "EXITING_STOP",
                                                    "EXITING_TARGET", "EXITING_TIMEOUT"},
         state'[t] \in Exiting => exit'[t] \in Roles \cup Closes /\ state'[t] = ExitingOf(exit'[t]),
         Once /\ state'[t] = "FLAT" =>
           /\ pos[t] = 0 /\ \A r \in Roles : Gone(t, r)
           /\ exit'[t] \in Roles \cup Closes /\ Attributed(t)'
  PROVE  Rows'
<1>1. \A u \in Trades \ {t} : Kept(u)
  BY DEF Kept, journal, market
<1>2. Sound(t)
  BY DEF Rows
<1>3. Ordered(t)'
  BY <1>2 DEF Sound, Ordered, Listed, market, journal
<1>4. Opened(t)'
  BY DEF Opened, Unbought
<1>5. Guarded(t)'
  BY <1>2 DEF Sound, Guarded, market, journal
<1>6. Exited(t)'
  BY <1>2 DEF Sound, Exited, Gone, market, journal
<1> QED
  BY <1>1, <1>3, <1>4, <1>5, <1>6, OneRow DEF Sound

LEMMA RecordSound ==
  ASSUME IInv, IInv', SInv, RecordProtection
  PROVE  SInv'
<1>1. /\ eng.pc = "record" /\ prot' = [prot EXCEPT ![eng.t] = @ \cup {eng.e}] /\ Goto("verify")
      /\ UNCHANGED <<state, filled, exit, journal, market, wire, sends>>
  BY DEF RecordProtection, At, venue
<1>2. /\ eng.t \in Trades /\ state[eng.t] = "PROTECTING" /\ eng \in Engine /\ eng.flag = FALSE
      /\ Stage = "record" /\ eng.e \in Roles
  BY <1>1 DEF IInv, TypeOK, Grounded, Working, SInv, Control, Staged, Stage, Calling, Cleaning,
     Engine
<1>3. PICK t \in Trades : t = eng.t
  BY <1>2
<1>4. prot'[t] = prot[t] \cup {eng.e} /\ \A u \in Trades \ {t} : prot'[u] = prot[u]
  BY <1>1, <1>3 DEF IInv, TypeOK
<1>5. /\ eng'.pc = "verify" /\ eng'.t = t /\ eng'.e = eng.e /\ eng'.flag = FALSE
      /\ eng'.snap = eng.snap /\ eng'.todoE = eng.todoE
  BY <1>1, <1>2, <1>3, GotoEngine DEF Places
<1>6. Stage' = "verify" /\ ~Calling' /\ ~answered'
  BY <1>5 DEF Stage, Calling, IInv, InFlight
<1>7. Sound(t) /\ state[t] = "PROTECTING"
  BY <1>2, <1>3 DEF SInv, Rows
<1>8. Rows'
  BY <1>1, <1>4, <1>7, EffectNames, BoughtSound
  DEF SInv, Sound, Opened, Exited, Unbought, Exiting
<1>9. Control'
  BY <1>1, <1>3, <1>5, <1>6, <1>7 DEF Control, Sought, Staged, Cleaning
<1>10. Entering'
  <2>1. \A u \in Trades : <<u, "place">> \in eng'.todoE => Listed(u)'
    BY <1>1, <1>5 DEF SInv, Entering, Listed, market
  <2> QED
    BY <1>5, <1>6, <2>1 DEF Entering
<1>11. Guarding'
  BY <1>1, <1>2, <1>3, <1>4, <1>5, <1>6 DEF SInv, Guarding, Stopped, market, journal
<1>12. Leaving'
  BY <1>1, <1>3, <1>5, <1>6 DEF SInv, Leaving, Cleaning, market
<1> QED
  BY <1>8, <1>9, <1>10, <1>11, <1>12 DEF SInv

LEMMA VerifySound ==
  ASSUME IInv, IInv', SInv, VerifyProtection
  PROVE  SInv'
<1>1. /\ eng.pc = "verify" /\ tp[eng.t][eng.e] = "live"
      /\ eff' = [eff EXCEPT ![eng.t][eng.e] = "RECONCILED"]
      /\ IF eng.e = "stop" THEN Mutate("target", "record") ELSE Goto("activate")
      /\ UNCHANGED <<trade, closeQty, ripe, market, wire, sends>>
  BY DEF VerifyProtection, At, venue
<1>2. /\ eng.t \in Trades /\ state[eng.t] = "PROTECTING" /\ eng \in Engine /\ eng.flag = FALSE
      /\ Stage = "verify" /\ eng.e \in Roles
  BY <1>1 DEF IInv, TypeOK, Grounded, Working, SInv, Control, Staged, Stage, Calling, Cleaning,
     Engine
<1>3. PICK t \in Trades, e \in Roles : t = eng.t /\ e = eng.e
  BY <1>2
<1>4. /\ eff'[t][e] = "RECONCILED"
      /\ \A f \in Effects \ {e} : eff'[t][f] = eff[t][f]
  BY <1>1, <1>3, EffectNames DEF IInv, TypeOK
<1>5. Rows'
  BY <1>1, <1>2, <1>3, RowSound, EffectNames DEF SInv, IInv, EffectStates, Unbought
<1>6. <<t, "stopX">> \notin wire /\ e \in prot[t] /\ (e = "target" => Stopped(t))
  BY <1>1, <1>2, <1>3 DEF SInv, Guarding
<1>7. CASE e = "stop"
  <2>1. Mutate("target", "record")
    BY <1>1, <1>3, <1>7
  <2>2. /\ eng'.pc = "prepare" /\ eng'.e = "target" /\ eng'.ret = "record" /\ eng'.t = t
        /\ eng'.flag = FALSE /\ eng'.snap = eng.snap /\ eng'.todoE = eng.todoE
    BY <2>1, <1>2, <1>3, EffectNames, MutateEngine DEF Places
  <2>3. Stopped(t)'
    BY <1>1, <1>3, <1>4, <1>6, <1>7 DEF Stopped, trade, market
  <2>4. Control' /\ Entering' /\ Guarding' /\ Leaving'
    BY <1>1, <1>2, <1>3, <1>6, <2>2, <2>3, EffectNames, BeginCall DEF SInv, market, trade
  <2> QED
    BY <1>5, <2>4 DEF SInv
<1>8. CASE e # "stop"
  <2>1. Goto("activate") /\ e = "target"
    BY <1>1, <1>3, <1>8, EffectNames
  <2>2. /\ eng'.pc = "activate" /\ eng'.t = t
        /\ eng'.flag = FALSE /\ eng'.snap = eng.snap /\ eng'.todoE = eng.todoE
    BY <2>1, <1>2, <1>3, GotoEngine DEF Places
  <2>3. Stopped(t)' /\ eff'[t]["target"] \notin {"none", "PREPARED"}
    BY <1>1, <1>3, <1>4, <1>6, <2>1, EffectNames DEF Stopped, trade, market
  <2>4. Stage' = "activate" /\ ~Calling' /\ ~answered'
    BY <2>2 DEF Stage, Calling, IInv, InFlight
  <2>5. Control'
    BY <1>1, <1>2, <1>3, <2>2, <2>4 DEF Control, Sought, Staged, Cleaning, trade
  <2>6. Entering'
    <3>1. \A u \in Trades : <<u, "place">> \in eng'.todoE => Listed(u)'
      BY <1>1, <2>2 DEF SInv, Entering, Listed, market
    <3> QED
      BY <2>2, <2>4, <3>1 DEF Entering
  <2>7. Guarding'
    BY <1>1, <1>6, <2>2, <2>3, <2>4 DEF Guarding
  <2>8. Leaving'
    BY <1>1, <1>3, <2>2, <2>4 DEF SInv, Leaving, Cleaning, market
  <2> QED
    BY <1>5, <2>5, <2>6, <2>7, <2>8 DEF SInv
<1> QED
  BY <1>7, <1>8

LEMMA ActivateSound ==
  ASSUME IInv, IInv', SInv, Activate
  PROVE  SInv'
<1>1. /\ eng.pc = "activate" /\ Finish /\ Move(eng.t, "ACTIVE")
      /\ UNCHANGED <<filled, exit, prot, journal, market, wire, sends>>
  BY DEF Activate, At, venue
<1>2. /\ eng.t \in Trades /\ state[eng.t] = "PROTECTING" /\ Stage = "activate"
      /\ Stopped(eng.t) /\ eff[eng.t]["target"] \notin {"none", "PREPARED"}
      /\ <<eng.t, "stopX">> \notin wire
  BY <1>1 DEF IInv, TypeOK, Grounded, Working, SInv, Control, Guarding, Staged, Stage, Calling
<1>3. PICK t \in Trades : t = eng.t
  BY <1>2
<1>4. state'[t] = "ACTIVE" /\ \A u \in Trades \ {t} : state'[u] = state[u]
  BY <1>1, <1>3, StateMoved DEF IInv
<1>5. Stopped(t)'
  BY <1>1, <1>2, <1>3 DEF Stopped, journal, market
<1>6. Sound(t) /\ state[t] = "PROTECTING"
  BY <1>2, <1>3 DEF SInv, Rows
<1>7. Rows'
  BY <1>1, <1>2, <1>3, <1>4, <1>5, <1>6, EffectNames, BoughtSound
  DEF SInv, Sound, Opened, Exited, Unbought, Exiting
<1>8. Control' /\ Entering' /\ Guarding' /\ Leaving'
  BY <1>1, EndRested DEF IInv, TypeOK, SInv, Finish, market
<1> QED
  BY <1>7, <1>8 DEF SInv

\* A place of the exit.
LEMMA ExitPlace ==
  ASSUME IInv', Entering, Leaving, UNCHANGED <<ord, tp>>, NEW t \in Trades, t = eng.t,
         eng'.t = t, eng'.flag = FALSE, eng'.todoE = eng.todoE, eng'.snap = eng.snap,
         \/ /\ eng'.pc = "closed" /\ state'[t] = "EXITING_EMERGENCY"
            /\ eff'[t]["emergency"] = "none"
         \/ /\ eng'.pc = "finish" /\ state'[t] \in Exiting
            /\ Once => pos'[t] = 0
         \/ /\ eng'.pc = "cleanup" /\ state'[t] \in Exiting
            /\ Once => pos'[t] = 0 /\ Attributed(t)'
  PROVE  Control' /\ Entering' /\ Guarding' /\ Leaving'
<1>1. Stage' = eng'.pc /\ ~Calling' /\ ~answered'
  BY DEF Stage, Calling, IInv, InFlight
<1>2. Control'
  BY <1>1 DEF Control, Sought, Staged, Cleaning, Unbought, Exiting, Closing
<1>3. Entering'
  <2>1. \A u \in Trades : <<u, "place">> \in eng'.todoE => Listed(u)'
    BY DEF Entering, Listed
  <2> QED
    BY <1>1, <2>1 DEF Entering
<1>4. Guarding'
  BY <1>1 DEF Guarding
<1>5. Leaving'
  BY <1>1 DEF Leaving, Cleaning
<1> QED
  BY <1>2, <1>3, <1>4, <1>5

LEMMA MeasureSound ==
  ASSUME IInv, IInv', SInv, CancelRemainder \/ MeasurePosition
  PROVE  SInv'
<1>1. /\ eng.t \in Trades /\ state[eng.t] \in {"PROTECTING"} \cup Closing /\ eng \in Engine
      /\ eng.flag = FALSE
  BY DEF CancelRemainder, MeasurePosition, At, IInv, TypeOK, Grounded, Working, SInv, Control,
     Staged, Stage, Calling, Cleaning, Engine
<1>2. PICK t \in Trades : t = eng.t
  BY <1>1
<1>3. Sound(t) /\ state[t] \in {"PROTECTING", "EXITING_TIMEOUT", "EXITING_EMERGENCY"}
  BY <1>1, <1>2 DEF SInv, Rows, Closing
<1>4. CASE CancelRemainder
  <2>1. Mutate("cancel", "measured") /\ UNCHANGED <<trade, journal, market, wire, sends>>
    BY <1>4 DEF CancelRemainder, durable, venue
  <2>2. /\ eng'.pc = "prepare" /\ eng'.e = "cancel" /\ eng'.ret = "measured" /\ eng'.t = t
        /\ eng'.flag = FALSE /\ eng'.snap = eng.snap /\ eng'.todoE = eng.todoE
    BY <2>1, <1>1, <1>2, EffectNames, MutateEngine DEF Places
  <2>3. Control' /\ Entering' /\ Guarding' /\ Leaving'
    BY <1>1, <1>2, <2>1, <2>2, BeginCall DEF SInv, market, trade
  <2> QED
    BY <2>1, <2>3, RowsKept DEF SInv
<1>5. CASE MeasurePosition
  <2>1. /\ filled' = [filled EXCEPT ![t] = IF state[t] \notin Exiting /\ shown[t] > @ THEN shown[t] ELSE @]
        /\ eng' = IF state[t] \in Exiting /\ shown[t] > 0
             THEN [eng EXCEPT !.qty = shown[t], !.pc = "prepare", !.e = CloseOf(t), !.ret = "closed"]
             ELSE [eng EXCEPT !.qty = shown[t], !.pc = IF state[t] \in Exiting THEN "finish" ELSE "trigger"]
        /\ UNCHANGED <<state, exit, prot, journal, market, wire, sends>>
    BY <1>2, <1>5 DEF MeasurePosition, venue
  <2>2. filled'[t] >= filled[t] /\ \A u \in Trades \ {t} : filled'[u] = filled[u]
    BY <2>1 DEF IInv, TypeOK
  <2>3. filled'[t] > 0
    BY <1>3, <2>2 DEF Sound, Opened, Unbought, IInv, TypeOK
  <2>4. Rows'
    BY <1>3, <2>1, <2>2, <2>3, EffectNames, BoughtSound
    DEF SInv, Sound, Exited, Unbought, Exiting
  <2>5. shown[t] \in 0..Q /\ (Once => shown[t] = pos[t])
    BY <1>3 DEF IInv, TypeOK, Sound, Ordered, Once
  <2>6. CASE state[t] \in Exiting /\ shown[t] > 0
    <3>1. CloseOf(t) \in Effects /\ {"prepare", "closed"} \subseteq Places
      BY EffectNames DEF CloseOf, Places
    <3>2. /\ eng'.pc = "prepare" /\ eng'.e = CloseOf(t) /\ eng'.ret = "closed" /\ eng'.t = t
          /\ eng'.qty = shown[t]
          /\ eng'.flag = FALSE /\ eng'.snap = eng.snap /\ eng'.todoE = eng.todoE
      BY <2>1, <2>6, <1>1, <1>2 DEF Engine
    <3>3. eng'.e = IF state'[t] = "EXITING_TIMEOUT" THEN "timeout" ELSE "emergency"
      BY <3>2, <2>1 DEF CloseOf
    <3>4. state'[t] \in Closing
      BY <2>1, <2>6, <1>3 DEF Closing, Exiting
    <3>5. Control' /\ Entering' /\ Guarding' /\ Leaving'
      BY <1>2, <2>1, <2>6, <3>2, <3>3, <3>4, BeginCall DEF SInv, market
    <3> QED
      BY <2>4, <3>5 DEF SInv
  <2>7. CASE state[t] \in Exiting /\ ~(shown[t] > 0)
    <3>1. /\ eng'.pc = "finish" /\ eng'.t = t
          /\ eng'.flag = FALSE /\ eng'.snap = eng.snap /\ eng'.todoE = eng.todoE
      BY <2>1, <2>7, <1>1, <1>2 DEF Engine
    <3>2. Once => pos'[t] = 0
      BY <2>1, <2>5, <2>7, QAssumption DEF market
    <3>3. Control' /\ Entering' /\ Guarding' /\ Leaving'
      BY <1>2, <2>1, <2>7, <3>1, <3>2, ExitPlace DEF SInv, market
    <3> QED
      BY <2>4, <3>3 DEF SInv
  <2>8. CASE state[t] \notin Exiting
    <3>1. /\ eng'.pc = "trigger" /\ eng'.t = t
          /\ eng'.flag = FALSE /\ eng'.snap = eng.snap /\ eng'.todoE = eng.todoE
      BY <2>1, <2>8, <1>1, <1>2 DEF Engine
    <3>2. state'[t] = "PROTECTING"
      BY <2>1, <2>8, <1>3 DEF Exiting
    <3>3. Control' /\ Entering' /\ Guarding' /\ Leaving'
      BY <1>2, <2>1, <3>1, <3>2, PlainPlace DEF SInv, market
    <3> QED
      BY <2>4, <3>3 DEF SInv
  <2> QED
    BY <2>6, <2>7, <2>8
<1> QED
  BY <1>4, <1>5

LEMMA TriggerSound ==
  ASSUME IInv, IInv', SInv, TriggerEmergency
  PROVE  SInv'
<1>1. /\ eng.pc = "trigger" /\ Move(eng.t, "EXITING_EMERGENCY")
      /\ exit' = [exit EXCEPT ![eng.t] = "emergency"]
      /\ IF eng.qty > 0 THEN Mutate("emergency", "closed") ELSE Goto("closed")
      /\ UNCHANGED <<filled, prot, journal, market, wire, sends>>
  BY DEF TriggerEmergency, At, venue
<1>2. /\ eng.t \in Trades /\ state[eng.t] = "PROTECTING" /\ eng \in Engine /\ eng.flag = FALSE
  BY <1>1 DEF IInv, TypeOK, Grounded, Working, SInv, Control, Staged, Stage, Calling, Cleaning,
     Engine
<1>3. PICK t \in Trades : t = eng.t
  BY <1>2
<1>4. state'[t] = "EXITING_EMERGENCY" /\ \A u \in Trades \ {t} : state'[u] = state[u]
  BY <1>1, <1>3, StateMoved DEF IInv
<1>5. exit'[t] = "emergency" /\ \A u \in Trades \ {t} : exit'[u] = exit[u]
  BY <1>1, <1>3 DEF IInv, TypeOK
<1>6. Sound(t) /\ state[t] = "PROTECTING" /\ eff[t]["emergency"] = "none" /\ eff[t]["timeout"] = "none"
  BY <1>2, <1>3 DEF SInv, Rows, Sound, Exited
<1>7. Rows'
  <2>1. filled'[t] > 0 /\ state'[t] \notin Unbought
    BY <1>1, <1>4, <1>6 DEF Sound, Opened, Unbought
  <2>2. exit'[t] \in Roles \cup Closes /\ state'[t] = ExitingOf(exit'[t])
    BY <1>4, <1>5, EffectNames, ExitNames
  <2> QED
    BY <1>1, <1>4, <1>5, <1>6, <2>1, <2>2, BoughtSound DEF SInv
<1>8. CASE eng.qty > 0
  <2>1. /\ eng'.pc = "prepare" /\ eng'.e = "emergency" /\ eng'.ret = "closed" /\ eng'.t = t
        /\ eng'.qty = eng.qty
        /\ eng'.flag = FALSE /\ eng'.snap = eng.snap /\ eng'.todoE = eng.todoE
    BY <1>1, <1>2, <1>3, <1>8, EffectNames, MutateEngine DEF Places
  <2>2. Control' /\ Entering' /\ Guarding' /\ Leaving'
    BY <1>1, <1>3, <1>4, <1>8, <2>1, BeginCall DEF SInv, market, Closing
  <2> QED
    BY <1>7, <2>2 DEF SInv
<1>9. CASE ~(eng.qty > 0)
  <2>1. /\ eng'.pc = "closed" /\ eng'.t = t
        /\ eng'.flag = FALSE /\ eng'.snap = eng.snap /\ eng'.todoE = eng.todoE
    BY <1>1, <1>2, <1>3, <1>9, GotoEngine DEF Places
  <2>2. Control' /\ Entering' /\ Guarding' /\ Leaving'
    BY <1>1, <1>3, <1>4, <1>6, <2>1, ExitPlace DEF SInv, market, journal
  <2> QED
    BY <1>7, <2>2 DEF SInv
<1> QED
  BY <1>8, <1>9

LEMMA CloseFailedSound ==
  ASSUME IInv, IInv', SInv, CloseFailed
  PROVE  SInv'
<1>1. /\ eng.pc = "closed" /\ Move(eng.t, "FAILED_BLOCKED") /\ eng' = eng
      /\ UNCHANGED <<filled, exit, prot, journal, market, wire, sends>>
  BY DEF CloseFailed, At, venue
<1>2. /\ eng.t \in Trades /\ state[eng.t] \in Closing \cup {"FAILED_BLOCKED"}
      /\ Stage = "closed" /\ ~Calling /\ ~answered
  BY <1>1 DEF IInv, InFlight, Grounded, Working, SInv, Control, Staged, Stage, Calling
<1>3. PICK t \in Trades : t = eng.t
  BY <1>2
<1>4. state'[t] = "FAILED_BLOCKED" /\ \A u \in Trades \ {t} : state'[u] = state[u]
  BY <1>1, <1>3, StateMoved DEF IInv
<1>5. Sound(t) /\ filled[t] > 0
  BY <1>2, <1>3 DEF SInv, Rows, Sound, Opened, Closing, Unbought
<1>6. Rows'
  BY <1>1, <1>4, <1>5, BoughtSound DEF SInv, Unbought, Exiting
<1>7. Stage' = "closed" /\ ~Calling' /\ ~answered'
  BY <1>1, <1>2 DEF Stage, Calling, IInv, InFlight
<1>8. Control'
  BY <1>1, <1>2, <1>3, <1>4, <1>7 DEF SInv, Control, Sought, Staged, Cleaning
<1>9. Entering'
  <2>1. \A u \in Trades : <<u, "place">> \in eng'.todoE => Listed(u)'
    BY <1>1 DEF SInv, Entering, Listed, market
  <2> QED
    BY <1>1, <1>7, <2>1 DEF Entering
<1>10. Guarding'
  BY <1>1, <1>7 DEF Guarding
<1>11. Leaving'
  BY <1>1, <1>3, <1>4, <1>7 DEF SInv, Leaving, Cleaning, market, journal
<1> QED
  BY <1>6, <1>8, <1>9, <1>10, <1>11 DEF SInv

\* A close that was never journaled was never sent, and a full one was served.
LEMMA CloseFacts ==
  ASSUME IInv, Rows, NEW t \in Trades
  PROVE  /\ eff[t]["timeout"] = "none" /\ eff[t]["emergency"] = "none" =>
              clo[t] = -1 /\ \A e \in Closes : <<t, e>> \notin wire
         /\ clo[t] = closeQty[t] => \A e \in Closes : <<t, e>> \notin wire
<1>1. Exited(t)
  BY DEF Rows, Sound
<1>2. \A e \in Closes : /\ eff[t][e] = "none" => sends[t][e] = 0 /\ <<t, e>> \notin wire
  BY EffectNames DEF IInv, Journaled
<1>3. closeQty[t] # -1
  BY DEF IInv, TypeOK
<1>4. CASE eff[t]["timeout"] = "none"
  BY <1>1, <1>2, <1>3, <1>4, EffectNames DEF Exited
<1>5. CASE eff[t]["emergency"] = "none"
  BY <1>1, <1>2, <1>3, <1>5, EffectNames DEF Exited
<1> QED
  BY <1>1, <1>4, <1>5 DEF Exited

LEMMA ClosedFlatSound ==
  ASSUME IInv, IInv', SInv, ClosedFlat
  PROVE  SInv'
<1>1. /\ eng.pc = "closed" /\ state[eng.t] # "FAILED_BLOCKED" /\ shown[eng.t] = 0
      /\ Goto(IF eng.qty > 0 THEN "finish" ELSE "cleanup")
      /\ UNCHANGED <<trade, journal, market, wire, sends>>
  <2>1. eng.pc = "closed" /\ eng.t \in Trades
    BY DEF ClosedFlat, At, IInv, Grounded, Working
  <2>2. shown[eng.t] \in Nat
    BY <2>1 DEF IInv, TypeOK
  <2> QED
    BY <2>1, <2>2 DEF ClosedFlat, NotFlat, durable, venue
<1>2. /\ eng.t \in Trades /\ eng \in Engine /\ eng.flag = FALSE /\ eng.qty \in Nat
      /\ state[eng.t] \in Closing
      /\ eng.qty = 0 => eff[eng.t]["emergency"] = "none" /\ state[eng.t] # "EXITING_TIMEOUT"
  BY <1>1 DEF IInv, TypeOK, Grounded, Working, SInv, Control, Leaving, Staged, Stage, Calling,
     Cleaning, Engine
<1>3. PICK t \in Trades : t = eng.t
  BY <1>2
<1>4. Rows'
  BY <1>1, RowsKept DEF SInv
<1>5. Sound(t) /\ state[t] \in {"EXITING_TIMEOUT", "EXITING_EMERGENCY"} /\ (Once => pos[t] = 0)
  BY <1>1, <1>2, <1>3 DEF SInv, Rows, Sound, Ordered, Once, Closing
<1>6. CASE eng.qty > 0
  <2>1. /\ eng'.pc = "finish" /\ eng'.t = t
        /\ eng'.flag = FALSE /\ eng'.snap = eng.snap /\ eng'.todoE = eng.todoE
    BY <1>1, <1>2, <1>3, <1>6, GotoEngine DEF Places
  <2>2. Control' /\ Entering' /\ Guarding' /\ Leaving'
    BY <1>1, <1>3, <1>5, <2>1, ExitPlace DEF SInv, market, trade, Exiting
  <2> QED
    BY <1>4, <2>2 DEF SInv
<1>7. CASE eng.qty = 0
  <2>1. /\ eng'.pc = "cleanup" /\ eng'.t = t
        /\ eng'.flag = FALSE /\ eng'.snap = eng.snap /\ eng'.todoE = eng.todoE
    BY <1>1, <1>2, <1>3, <1>7, GotoEngine DEF Places
  <2>2. state[t] = "EXITING_EMERGENCY" /\ eff[t]["emergency"] = "none"
    BY <1>2, <1>3, <1>5, <1>7
  <2>3. exit[t] = "emergency" /\ eff[t]["timeout"] = "none"
    BY <1>5, <2>2, EffectNames, ExitNames DEF Sound, Exited, Exiting
  <2>4. clo[t] = -1 /\ \A e \in Closes : <<t, e>> \notin wire
    BY <2>2, <2>3, CloseFacts DEF SInv
  <2>5. Attributed(t)'
    BY <1>1, <2>2, <2>3, <2>4, EffectNames DEF Attributed, market, trade, journal
  <2>6. Control' /\ Entering' /\ Guarding' /\ Leaving'
    BY <1>1, <1>3, <1>5, <2>1, <2>5, ExitPlace DEF SInv, market, trade, Exiting
  <2> QED
    BY <1>4, <2>6 DEF SInv
<1> QED
  BY <1>2, <1>6, <1>7

\* What _assert_manual_close_won and _classify_flat_exit prove.
LEMMA WonAttributed ==
  ASSUME IInv, Rows, NEW t \in Trades, state[t] \in Exiting, Won(t)
  PROVE  Attributed(t)
<1>1. Sound(t) /\ exit[t] \in Roles \cup Closes /\ state[t] = ExitingOf(exit[t])
  BY DEF Rows, Sound, Exited
<1>2. CASE exit[t] \in Roles
  <2>1. state[t] = ExitingOf(exit[t]) /\ exit[t] \in {"stop", "target"}
    BY <1>1, <1>2, EffectNames
  <2>2. state[t] \in {"EXITING_STOP", "EXITING_TARGET"}
    BY <2>1, ExitNames
  <2>3. FlatBy(t, exit[t])
    <3>1. CASE exit[t] = "stop"
      BY <3>1, <2>1, ExitNames DEF Won
    <3>2. CASE exit[t] = "target"
      BY <3>2, <2>1, ExitNames DEF Won
    <3> QED
      BY <2>1, <3>1, <3>2
  <2>4. eff[t]["timeout"] = "none" /\ eff[t]["emergency"] = "none"
    BY <1>1, <2>2 DEF Sound, Exited
  <2> QED
    BY <1>2, <2>3, <2>4, CloseFacts, EffectNames DEF Attributed
<1>3. CASE exit[t] \in Closes
  <2>1. exit[t] \in {"timeout", "emergency"} /\ state[t] \in {"EXITING_TIMEOUT", "EXITING_EMERGENCY"}
    BY <1>1, <1>3, EffectNames, ExitNames
  <2>2. ManualCloseWon(t)
    BY <2>1 DEF Won
  <2>3. CloseOf(t) = exit[t]
    BY <1>1, <2>1, ExitNames DEF CloseOf
  <2> QED
    BY <1>3, <2>1, <2>2, <2>3, CloseFacts, EffectNames DEF Attributed, ManualCloseWon
<1> QED
  BY <1>1, <1>2, <1>3

LEMMA FinishSound ==
  ASSUME IInv, IInv', SInv, FinishExit
  PROVE  SInv'
<1>1. /\ eng.pc = "finish" /\ Won(eng.t) /\ Goto("cleanup")
      /\ UNCHANGED <<trade, journal, market, wire, sends>>
  BY DEF FinishExit, At, durable, venue
<1>2. /\ eng.t \in Trades /\ eng \in Engine /\ eng.flag = FALSE /\ state[eng.t] \in Exiting
      /\ Once => pos[eng.t] = 0
  BY <1>1 DEF IInv, TypeOK, Grounded, Working, SInv, Control, Leaving, Staged, Stage, Calling,
     Cleaning, Engine
<1>3. PICK t \in Trades : t = eng.t
  BY <1>2
<1>4. Rows'
  BY <1>1, RowsKept DEF SInv
<1>5. Attributed(t)'
  <2>1. Attributed(t)
    BY <1>1, <1>2, <1>3, WonAttributed DEF SInv
  <2>2. Kept(t)
    BY <1>1 DEF Kept, trade, journal, market
  <2> QED
    BY <2>1, <2>2, AttributedKept
<1>6. /\ eng'.pc = "cleanup" /\ eng'.t = t
      /\ eng'.flag = FALSE /\ eng'.snap = eng.snap /\ eng'.todoE = eng.todoE
  BY <1>1, <1>2, <1>3, GotoEngine DEF Places
<1>7. Control' /\ Entering' /\ Guarding' /\ Leaving'
  BY <1>1, <1>2, <1>3, <1>5, <1>6, ExitPlace DEF SInv, market, trade
<1> QED
  BY <1>4, <1>7 DEF SInv

\* A place of the cleanup: what it knew of the trade, it still knows.
LEMMA CleanPlace ==
  ASSUME IInv, IInv', SInv, Stage \in Cleaning, NEW t \in Trades, t = eng.t,
         UNCHANGED <<trade, closeQty, market, wire>>,
         \A e \in Effects : eff'[t][e] = "none" <=> eff[t][e] = "none",
         eng'.t = t, eng'.flag = eng.flag, eng'.todoE = eng.todoE,
         eng'.r \in Roles, \A r \in Roles : eng'.snap[r] \in {"triggered", "cancelled"} => tp[t][r] # "live",
         \/ eng'.pc = "clean" /\ (eng'.r = "target" => Gone(t, "stop"))
         \/ eng'.pc = "flat" /\ eng.flag = FALSE /\ \A r \in Roles : Gone(t, r)
         \/ /\ eng'.pc = "prepare" /\ eng'.ret = "cleaned" /\ eng'.e = CancelOf(eng'.r)
            /\ eff'[t][eng'.r] # "PREPARED" /\ (eng'.r = "target" => Gone(t, "stop"))
  PROVE  Control' /\ Entering' /\ Guarding' /\ Leaving'
<1>1. /\ Stage' = (IF eng'.pc = "prepare" THEN "cleaned" ELSE eng'.pc) /\ ~answered'
      /\ Calling' <=> eng'.pc = "prepare"
  BY DEF Stage, Calling, IInv, InFlight
<1>2. /\ state[t] \notin Unbought \cup {"ACTIVE"} /\ (~eng.flag => state[t] \in Exiting)
      /\ Once => pos[t] = 0 /\ (~eng.flag => Attributed(t))
  BY DEF SInv, Control, Staged, Leaving, Cleaning
<1>3. Control'
  BY <1>1, <1>2 DEF Control, Sought, Staged, Cleaning, trade
<1>4. Entering'
  <2>1. \A u \in Trades : <<u, "place">> \in eng'.todoE => Listed(u)'
    BY DEF SInv, Entering, Listed, market
  <2> QED
    BY <1>1, <2>1 DEF Entering
<1>5. Guarding'
  BY <1>1 DEF Guarding
<1>6. Attributed(t) => Attributed(t)'
  <2>1. Proven(t)' = Proven(t)
    BY DEF Proven, trade, market
  <2> QED
    BY <2>1, EffectNames DEF Attributed, FlatBy, trade, market
<1>7. \A r \in Roles : Gone(t, r) => Gone(t, r)'
  BY DEF Gone, market
<1>8. Leaving'
  BY <1>1, <1>2, <1>6, <1>7, EffectNames DEF Leaving, Cleaning, market
<1> QED
  BY <1>3, <1>4, <1>5, <1>8

LEMMA CleanFacts ==
  ASSUME IInv, SInv, eng.pc \in Cleaning
  PROVE  /\ eng.t \in Trades /\ eng \in Engine /\ eng.r \in Roles /\ Stage = eng.pc
         /\ Stage \in Cleaning /\ eng.flag \in BOOLEAN
         /\ \A r \in Roles : eng.snap[r] \in {"triggered", "cancelled"} => tp[eng.t][r] # "live"
  BY DEF IInv, TypeOK, Engine, Grounded, Working, Cleaning, Stage, Calling, SInv, Leaving

LEMMA BeginCleanupSound ==
  ASSUME IInv, IInv', SInv, BeginCleanup
  PROVE  SInv'
<1>1. /\ eng.pc = "cleanup" /\ eng' = [eng EXCEPT !.pc = "clean", !.r = "stop", !.snap = tp[eng.t]]
      /\ UNCHANGED <<trade, journal, market, wire, sends>>
  BY DEF BeginCleanup, At, durable, venue
<1>2. eng.pc \in Cleaning
  BY <1>1 DEF Cleaning
<1>3. PICK t \in Trades : t = eng.t
  BY <1>2, CleanFacts
<1>4. /\ eng'.pc = "clean" /\ eng'.t = t /\ eng'.r = "stop" /\ eng'.snap = tp[t]
      /\ eng'.flag = eng.flag /\ eng'.todoE = eng.todoE
  BY <1>1, <1>2, <1>3, CleanFacts DEF Engine
<1>5. Control' /\ Entering' /\ Guarding' /\ Leaving'
  BY <1>1, <1>2, <1>3, <1>4, CleanFacts, CleanPlace, EffectNames DEF journal
<1> QED
  BY <1>1, <1>5, RowsKept DEF SInv

LEMMA AdoptSound ==
  ASSUME IInv, IInv', SInv, AdoptProtection
  PROVE  SInv'
<1>1. /\ eng.pc = "clean" /\ eff[eng.t][eng.r] = "PREPARED" /\ eng' = eng
      /\ eff' = [eff EXCEPT ![eng.t][eng.r] = "RECONCILED"]
      /\ ripe' \subseteq ripe /\ UNCHANGED <<trade, closeQty, market, wire, sends>>
  BY DEF AdoptProtection, At, venue
<1>2. eng.pc \in Cleaning
  BY <1>1 DEF Cleaning
<1>3. PICK t \in Trades, r \in Roles : t = eng.t /\ r = eng.r
  BY <1>2, CleanFacts
<1>4. state[t] \notin Unbought \cup {"ACTIVE"}
  BY <1>2, <1>3, CleanFacts DEF SInv, Control, Staged
<1>5. Rows'
  BY <1>1, <1>3, <1>4, RowSound, EffectNames DEF SInv, IInv, EffectStates, Unbought
<1>6. \A e \in Effects : eff'[t][e] = "none" <=> eff[t][e] = "none"
  BY <1>1, <1>3, EffectNames DEF IInv, TypeOK
<1>7. r = "target" => Gone(t, "stop")
  BY <1>1, <1>2, <1>3, CleanFacts DEF SInv, Leaving
<1>8. Control' /\ Entering' /\ Guarding' /\ Leaving'
  BY <1>1, <1>2, <1>3, <1>6, <1>7, CleanFacts, CleanPlace
<1> QED
  BY <1>5, <1>8 DEF SInv

\* The next protection, or the end of the cleanup.
LEMMA NextRoleSound ==
  ASSUME IInv, IInv', SInv, eng.pc \in Cleaning, NextRole, Gone(eng.t, eng.r),
         eng.r = "target" => Gone(eng.t, "stop"),
         UNCHANGED <<trade, journal, market, wire, sends>>
  PROVE  SInv'
<1>1. PICK t \in Trades, r \in Roles : t = eng.t /\ r = eng.r
  BY CleanFacts
<1>2. r \in {"stop", "target"} /\ eng.flag \in BOOLEAN /\ eng \in Engine
  BY <1>1, CleanFacts, EffectNames
<1>3. CASE r = "stop"
  <2>1. eng' = [eng EXCEPT !.r = "target", !.pc = "clean"]
    BY <1>1, <1>3 DEF NextRole
  <2>2. /\ eng'.pc = "clean" /\ eng'.t = t /\ eng'.r = "target" /\ eng'.snap = eng.snap
        /\ eng'.flag = eng.flag /\ eng'.todoE = eng.todoE
    BY <2>1, <1>1, <1>2 DEF Engine
  <2>3. Control' /\ Entering' /\ Guarding' /\ Leaving'
    BY <1>1, <1>3, <2>2, CleanFacts, CleanPlace, EffectNames DEF journal
  <2> QED
    BY <2>3, RowsKept DEF SInv
<1>4. CASE r = "target" /\ eng.flag
  <2>1. eng' = Done
    BY <1>1, <1>4 DEF NextRole
  <2>2. Control' /\ Entering' /\ Guarding' /\ Leaving'
    BY <1>2, <2>1, EndRested DEF SInv, IInv, market
  <2> QED
    BY <2>2, RowsKept DEF SInv
<1>5. CASE r = "target" /\ ~eng.flag
  <2>1. eng' = [eng EXCEPT !.pc = "flat"]
    BY <1>1, <1>5 DEF NextRole
  <2>2. /\ eng'.pc = "flat" /\ eng'.t = t /\ eng'.r = r /\ eng'.snap = eng.snap
        /\ eng'.flag = eng.flag /\ eng'.todoE = eng.todoE
    BY <2>1, <1>1, <1>2 DEF Engine
  <2>3. \A q \in Roles : Gone(t, q)
    BY <1>1, <1>5, EffectNames
  <2>4. Control' /\ Entering' /\ Guarding' /\ Leaving'
    BY <1>1, <1>2, <1>5, <2>2, <2>3, CleanFacts, CleanPlace DEF journal
  <2> QED
    BY <2>4, RowsKept DEF SInv
<1> QED
  BY <1>2, <1>3, <1>4, <1>5

LEMMA CleanupSound ==
  ASSUME IInv, IInv', SInv, SkipProtection \/ CancelProtection \/ ProtectionCancelled
  PROVE  SInv'
<1>1. /\ eng.pc \in {"clean", "cleaned"} /\ eng.pc \in Cleaning
      /\ UNCHANGED <<trade, journal, market, wire, sends>>
  BY DEF SkipProtection, CancelProtection, ProtectionCancelled, At, Cleaning, durable, venue
<1>2. PICK t \in Trades, r \in Roles : t = eng.t /\ r = eng.r
  BY <1>1, CleanFacts
<1>3. r = "target" => Gone(t, "stop")
  BY <1>1, <1>2, CleanFacts DEF SInv, Leaving
<1>4. eff[t][r] # "PREPARED" => <<t, r>> \notin wire
  <2>1. r \in Effects
    BY EffectNames
  <2> QED
    BY <2>1 DEF IInv, Journaled
<1>5. CASE SkipProtection
  <2>1. /\ NextRole
        /\ eff[t][r] = "none" \/ (eff[t][r] # "PREPARED" /\ eng.snap[r] \in {"triggered", "cancelled"})
    BY <1>2, <1>5 DEF SkipProtection
  <2>2. eff[t][r] = "none" => tp[t][r] = "none"
    BY EffectNames DEF IInv, Journaled
  <2>3. Gone(t, r)
    BY <1>1, <1>2, <1>4, <2>1, <2>2, CleanFacts DEF Gone
  <2> QED
    BY <1>1, <1>2, <1>3, <2>1, <2>3, NextRoleSound
<1>6. CASE ProtectionCancelled
  <2>1. NextRole /\ eng.pc = "cleaned" /\ tp[t][r] # "live"
    BY <1>2, <1>6 DEF ProtectionCancelled, At
  <2>2. eff[t][r] # "PREPARED"
    BY <1>1, <1>2, <2>1, CleanFacts DEF SInv, Leaving
  <2> QED
    BY <1>1, <1>2, <1>3, <1>4, <2>1, <2>2, NextRoleSound DEF Gone
<1>7. CASE CancelProtection
  <2>1. eff[t][r] # "PREPARED" /\ Mutate(CancelOf(r), "cleaned")
    BY <1>2, <1>7 DEF CancelProtection
  <2>2. CancelOf(r) \in Effects /\ "cleaned" \in Places
    BY EffectNames DEF Places
  <2>3. /\ eng'.pc = "prepare" /\ eng'.e = CancelOf(r) /\ eng'.ret = "cleaned" /\ eng'.t = t
        /\ eng'.r = r /\ eng'.flag = eng.flag /\ eng'.snap = eng.snap /\ eng'.todoE = eng.todoE
    BY <1>1, <1>2, <2>1, <2>2, CleanFacts, MutateEngine
  <2>4. Control' /\ Entering' /\ Guarding' /\ Leaving'
    BY <1>1, <1>2, <1>3, <2>1, <2>3, CleanFacts, CleanPlace DEF journal
  <2> QED
    BY <1>1, <2>4, RowsKept DEF SInv
<1> QED
  BY <1>5, <1>6, <1>7

LEMMA FlattenSound ==
  ASSUME IInv, IInv', SInv, Flatten
  PROVE  SInv'
<1>1. /\ eng.pc = "flat" /\ Finish /\ Move(eng.t, "FLAT")
      /\ UNCHANGED <<filled, exit, prot, journal, market, wire, sends>>
  BY DEF Flatten, At, venue
<1>2. /\ eng.t \in Trades /\ state[eng.t] \in Exiting
      /\ \A r \in Roles : Gone(eng.t, r)
      /\ Once => pos[eng.t] = 0 /\ Attributed(eng.t)
  BY <1>1 DEF IInv, TypeOK, Grounded, Working, SInv, Control, Leaving, Staged, Stage, Calling,
     Cleaning
<1>3. PICK t \in Trades : t = eng.t
  BY <1>2
<1>4. state'[t] = "FLAT" /\ \A u \in Trades \ {t} : state'[u] = state[u]
  BY <1>1, <1>3, StateMoved DEF IInv
<1>5. Sound(t) /\ state[t] \in Exiting
  BY <1>2, <1>3 DEF SInv, Rows
<1>6. filled[t] > 0 /\ exit[t] \in Roles \cup Closes /\ "FLAT" \notin Unbought \cup Exiting
  BY <1>5 DEF Sound, Opened, Exited, Unbought, Exiting
<1>7. Attributed(t) => Attributed(t)'
  <2>1. Proven(t)' = Proven(t)
    BY <1>1 DEF Proven, market
  <2> QED
    BY <1>1, <2>1 DEF Attributed, FlatBy, market, journal
<1>8. Rows'
  BY <1>1, <1>2, <1>3, <1>4, <1>6, <1>7, BoughtSound DEF SInv
<1>9. Control' /\ Entering' /\ Guarding' /\ Leaving'
  BY <1>1, EndRested DEF IInv, TypeOK, SInv, Finish, market
<1> QED
  BY <1>8, <1>9 DEF SInv

-----------------------------------------------------------------------------
(* The loops and the reconciliation *)

LEMMA PickEffectSound ==
  ASSUME IInv, IInv', SInv, PickEffect
  PROVE  SInv'
<1>1. /\ eng.pc = "loop" /\ eng \in Engine /\ ~eng.flag
      /\ UNCHANGED <<trade, journal, market, wire, sends>>
  BY DEF PickEffect, At, IInv, TypeOK, SInv, Control, Staged, Stage, Calling, Cleaning, durable, venue
<1>2. PICK x \in eng.todoE :
        eng' = IF eff[x[1]][x[2]] = "PREPARED"
               THEN [eng EXCEPT !.todoE = @ \ {x}, !.t = x[1], !.e = x[2], !.pc = "effect"]
               ELSE [eng EXCEPT !.todoE = @ \ {x}]
  BY DEF PickEffect
<1>3. PICK t \in Trades, e \in Effects : x = <<t, e>>
  BY <1>1, <1>2 DEF Engine
<1>4. \A u \in Trades : <<u, "place">> \in eng.todoE => Listed(u)'
  BY <1>1 DEF SInv, Entering, Listed, market
<1>5. Rows'
  BY <1>1, RowsKept DEF SInv
<1>6. CASE eff[t][e] = "PREPARED"
  <2>1. /\ eng'.pc = "effect" /\ eng'.t = t /\ eng'.e = e /\ ~eng'.flag
        /\ eng'.snap = eng.snap /\ eng'.todoE \subseteq eng.todoE
    <3>1. eng' = [eng EXCEPT !.todoE = @ \ {x}, !.t = t, !.e = e, !.pc = "effect"]
      BY <1>2, <1>3, <1>6
    <3> QED
      BY <3>1, <1>1 DEF Engine
  <2>2. Stage' = "effect" /\ ~Calling' /\ ~answered'
    BY <2>1 DEF Stage, Calling, IInv, InFlight
  <2>3. Control'
    BY <1>1, <1>6, <2>1, <2>2 DEF Control, Sought, Staged, Cleaning, journal
  <2>4. Entering'
    BY <1>2, <1>3, <1>4, <2>1, <2>2 DEF Entering
  <2>5. Guarding'
    BY <2>1, <2>2 DEF Guarding
  <2>6. Leaving'
    <3>1. \A r \in Roles : eng.snap[r] = "none"
      BY <1>1 DEF IInv, InFlight, Working
    <3> QED
      BY <2>1, <2>2, <3>1 DEF Leaving, Cleaning
  <2> QED
    BY <1>5, <2>3, <2>4, <2>5, <2>6 DEF SInv
<1>7. CASE eff[t][e] # "PREPARED"
  <2>1. eng' = [eng EXCEPT !.todoE = @ \ {x}]
    BY <1>2, <1>3, <1>7
  <2>2. eng'.pc = "loop" /\ eng'.flag = FALSE /\ eng'.todoE \subseteq eng.todoE
    BY <2>1, <1>1 DEF Engine
  <2>3. Control' /\ Entering' /\ Guarding' /\ Leaving'
    BY <1>4, <2>2, Rested DEF IInv
  <2> QED
    BY <1>5, <2>3 DEF SInv
<1> QED
  BY <1>6, <1>7

LEMMA ResolveSound ==
  ASSUME IInv, IInv', SInv, ResolveEffect
  PROVE  SInv'
<1>1. /\ eng.pc = "effect" /\ Resolvable(eng.t, eng.e)
      /\ eff' = [eff EXCEPT ![eng.t][eng.e] =
                   IF eng.e = "place" /\ ~Visible(eng.t) THEN "ABSENT" ELSE "RECONCILED"]
      /\ eng' = (IF eng.e \in Roles /\ shown[eng.t] = 0
                 THEN [eng EXCEPT !.pc = "cleanup", !.flag = TRUE] ELSE Done)
      /\ ripe' \subseteq ripe /\ UNCHANGED <<trade, closeQty, market, wire, sends>>
  BY DEF ResolveEffect, At, venue
<1>2. /\ eng.t \in Trades /\ eng \in Engine /\ eng.e \in Effects
      /\ eff[eng.t][eng.e] = "PREPARED" /\ (eng.e = "place" => Listed(eng.t))
  BY <1>1 DEF IInv, TypeOK, Engine, Grounded, Working, SInv, Control, Entering, Staged, Stage,
     Calling
<1>3. PICK t \in Trades, e \in Effects : t = eng.t /\ e = eng.e
  BY <1>2
<1>4. Sound(t) /\ eff[t][e] = "PREPARED"
  BY <1>2, <1>3 DEF SInv, Rows
<1>5. /\ state[t] \notin {"none", "RECEIVED"}
      /\ state[t] \in Unbought => e \in {"place", "cancel"}
      /\ state[t] = "ACTIVE" => e \notin Roles
  BY <1>4, EffectNames DEF Sound, Opened, Untouched, Unbought, Guarded, Stopped
<1>6. e = "place" /\ ~Visible(t) /\ state[t] = "ENTRY_PENDING" => Dead(t)
  <2>1. SUFFICES ASSUME e = "place", ~Visible(t), state[t] = "ENTRY_PENDING"
                 PROVE  Dead(t)
    OBVIOUS
  <2>2. shown[t] = 0
    <3>1. Resolvable(t, "place")
      BY <1>1, <1>3, <2>1
    <3>2. Visible(t) \/ shown[t] = 0
      BY <3>1, Zenon DEF Resolvable, Roles, Closes
    <3> QED
      BY <2>1, <3>2
  <2>3. ~ord[t].alive
    <3>1. ord[t].at \in {"none", "open", "gone", "hist"}
      BY DEF IInv, TypeOK, Order
    <3> QED
      BY <1>2, <1>3, <1>4, <2>1, <3>1 DEF Visible, Listed, Sound, Ordered
  <2>4. pos[t] = ord[t].filled
    BY <1>4, <2>1 DEF Sound, Opened, Untouched, Unbought
  <2> QED
    BY <1>4, <2>2, <2>3, <2>4 DEF Dead, Sound, Ordered
<1>7. PICK v \in {"ABSENT", "RECONCILED"} :
        /\ eff' = [eff EXCEPT ![t][e] = v]
        /\ v = "ABSENT" => e = "place" /\ ~Visible(t)
  BY <1>1, <1>3
<1>8. Rows'
  <2>1. v \in EffectStates \ {"none"} /\ v # "PREPARED"
    BY DEF EffectStates
  <2>2. eff[t][e] # "none" /\ TypeOK /\ Rows
    BY <1>4 DEF SInv, IInv
  <2>3. state[t] = "ENTRY_PENDING" /\ e = "place" /\ v = "ABSENT" => Dead(t)
    BY <1>6, <1>7
  <2> QED
    BY <1>1, <1>5, <1>7, <2>1, <2>2, <2>3, RowSound
<1>9. CASE e \in Roles /\ shown[t] = 0
  <2>1. /\ eng'.pc = "cleanup" /\ eng'.t = t /\ eng'.flag = TRUE
        /\ eng'.snap = eng.snap /\ eng'.todoE = eng.todoE
    BY <1>1, <1>2, <1>3, <1>9 DEF Engine
  <2>2. Stage' = "cleanup" /\ ~Calling' /\ ~answered'
    BY <2>1 DEF Stage, Calling, IInv, InFlight
  <2>3. state[t] \notin Unbought \cup {"ACTIVE"}
    BY <1>5, <1>9, EffectNames
  <2>4. Control'
    BY <1>1, <2>1, <2>2, <2>3 DEF Control, Sought, Staged, Cleaning, trade
  <2>5. Entering'
    <3>1. \A u \in Trades : <<u, "place">> \in eng'.todoE => Listed(u)'
      BY <1>1, <2>1 DEF SInv, Entering, Listed, market
    <3> QED
      BY <2>1, <2>2, <3>1 DEF Entering
  <2>6. Guarding'
    BY <2>1, <2>2 DEF Guarding
  <2>7. Leaving'
    <3>1. Once => pos'[t] = 0
      BY <1>1, <1>4, <1>9 DEF Sound, Ordered, Once, market
    <3> QED
      BY <1>1, <1>3, <2>1, <2>2, <3>1 DEF SInv, Leaving, Cleaning, market
  <2> QED
    BY <1>8, <2>4, <2>5, <2>6, <2>7 DEF SInv
<1>10. CASE ~(e \in Roles /\ shown[t] = 0)
  <2>1. eng' = Done
    BY <1>1, <1>3, <1>10
  <2>2. Control' /\ Entering' /\ Guarding' /\ Leaving'
    BY <1>1, <1>2, <2>1, EndRested DEF SInv, IInv, market
  <2> QED
    BY <1>8, <2>2 DEF SInv
<1> QED
  BY <1>9, <1>10

LEMMA PickTradeSound ==
  ASSUME IInv, IInv', SInv, PickTrade
  PROVE  SInv'
<1>1. /\ eng.pc = "loop" /\ eng \in Engine /\ ~eng.flag /\ eng.todoE = {}
      /\ UNCHANGED <<trade, journal, market, wire, sends>>
  BY DEF PickTrade, At, IInv, TypeOK, SInv, Control, Staged, Stage, Calling, Cleaning, durable, venue
<1>2. PICK t \in eng.todoT :
        eng' = IF Owned(t) THEN [eng EXCEPT !.todoT = @ \ {t}, !.t = t, !.pc = "reconcile"]
                           ELSE [eng EXCEPT !.todoT = @ \ {t}]
  BY DEF PickTrade
<1>3. t \in Trades
  BY <1>1, <1>2 DEF Engine
<1>4. Rows'
  BY <1>1, RowsKept DEF SInv
<1>5. CASE Owned(t)
  <2>1. /\ eng'.pc = "reconcile" /\ eng'.t = t /\ ~eng'.flag
        /\ eng'.snap = eng.snap /\ eng'.todoE = {}
    BY <1>1, <1>2, <1>3, <1>5 DEF Engine
  <2>2. Stage' = "reconcile" /\ ~Calling' /\ ~answered'
    BY <2>1 DEF Stage, Calling, IInv, InFlight
  <2>3. Control'
    BY <1>1, <1>5, <2>1, <2>2 DEF Control, Sought, Staged, Cleaning, Owned, trade
  <2>4. Entering'
    BY <2>1, <2>2 DEF Entering
  <2>5. Guarding'
    BY <2>1, <2>2 DEF Guarding
  <2>6. Leaving'
    <3>1. \A r \in Roles : eng.snap[r] = "none"
      BY <1>1 DEF IInv, InFlight, Working
    <3> QED
      BY <2>1, <2>2, <3>1 DEF Leaving, Cleaning
  <2> QED
    BY <1>4, <2>3, <2>4, <2>5, <2>6 DEF SInv
<1>6. CASE ~Owned(t)
  <2>1. eng' = [eng EXCEPT !.todoT = @ \ {t}]
    BY <1>2, <1>6
  <2>2. eng'.pc = "loop" /\ eng'.flag = FALSE /\ eng'.todoE = {}
    BY <2>1, <1>1 DEF Engine
  <2>3. Control' /\ Entering' /\ Guarding' /\ Leaving'
    BY <2>2, Rested DEF IInv
  <2> QED
    BY <1>4, <2>3 DEF SInv
<1> QED
  BY <1>5, <1>6

\* A pass that ends.
LEMMA PassSound ==
  ASSUME IInv, IInv', SInv, PassDone \/ RecoveryDone
  PROVE  SInv'
<1>1. eng' = Idle /\ UNCHANGED <<trade, journal, market, wire, sends>>
  BY DEF PassDone, RecoveryDone, durable, venue
<1>2. Control' /\ Entering' /\ Guarding' /\ Leaving'
  BY <1>1, EndRested DEF IInv, TypeOK, SInv, market
<1> QED
  BY <1>1, <1>2, RowsKept DEF SInv

LEMMA ReadFacts ==
  ASSUME IInv, SInv, eng.pc \in {"reconcile", "expiry"}
  PROVE  eng.t \in Trades /\ eng \in Engine /\ eng.flag = FALSE /\ Stage = eng.pc /\ ~Calling
  BY DEF IInv, TypeOK, Engine, Grounded, Working, SInv, Control, Staged, Stage, Calling, Cleaning

\* An effect of a trade that is being read is not on the wire.
LEMMA ReadOffWire ==
  ASSUME IInv, NEW t \in Trades, NEW e \in Effects, ~Unripe(t)
  PROVE  <<t, e>> \notin wire
  BY DEF IInv, Journaled, Unripe

LEMMA ReconcileEntrySound ==
  ASSUME IInv, IInv', SInv, RecoverGap \/ ReconcileDead \/ ReconcileFirstFill
  PROVE  SInv'
<1>1. ASSUME NEW t \in Trades, t = eng.t, eng.pc \in {"reconcile", "expiry"},
             state[t] \in {"RECEIVED", "ENTRY_PENDING"}, ~Unripe(t), Dead(t),
             Move(t, "CANCELLED"), Finish,
             UNCHANGED <<filled, exit, prot, journal, market, wire, sends>>
      PROVE  SInv'
  <2>1. <<t, "place">> \notin wire
    BY <1>1, EffectNames, ReadOffWire
  <2>2. Rows'
    BY <1>1, <2>1, CancelSound DEF SInv, IInv
  <2>3. Control' /\ Entering' /\ Guarding' /\ Leaving'
    BY <1>1, EndRested DEF IInv, TypeOK, SInv, Finish, market
  <2> QED
    BY <2>2, <2>3 DEF SInv
<1>2. CASE RecoverGap
  <2>1. PICK t \in Trades :
          /\ t = eng.t /\ eng.pc \in {"reconcile", "expiry"} /\ ~Unripe(t)
          /\ \/ state[t] = "RECEIVED"
             \/ state[t] = "ENTRY_PENDING" /\ eff[t]["place"] = "none"
          /\ Move(t, "CANCELLED") /\ Finish
          /\ UNCHANGED <<filled, exit, prot, journal, market, wire, sends>>
    BY <1>2 DEF RecoverGap, Unfilled, Reading, venue
  <2>2. eff[t]["place"] = "none"
    BY <2>1 DEF SInv, Rows, Sound, Opened
  <2> QED
    BY <1>1, <2>1, <2>2, NeverSent
<1>3. CASE ReconcileDead
  <2>1. PICK t \in Trades :
          /\ t = eng.t /\ eng.pc \in {"reconcile", "expiry"} /\ ~Unripe(t)
          /\ state[t] = "ENTRY_PENDING"
          /\ eff[t]["place"] = "ABSENT" \/ DeadInHistory(t)
          /\ Move(t, "CANCELLED") /\ Finish
          /\ UNCHANGED <<filled, exit, prot, journal, market, wire, sends>>
    BY <1>3 DEF ReconcileDead, Unfilled, Reading, venue
  <2>2. Dead(t)
    BY <2>1 DEF SInv, Rows, Sound, Opened, Ordered, DeadInHistory, Dead
  <2> QED
    BY <1>1, <2>1, <2>2
<1>4. CASE ReconcileFirstFill
  <2>1. PICK t \in Trades :
          /\ t = eng.t /\ eng.pc \in {"reconcile", "expiry"}
          /\ state[t] = "ENTRY_PENDING" /\ shown[t] > 0
          /\ Move(t, "PROTECTING") /\ filled' = [filled EXCEPT ![t] = shown[t]]
          /\ Mutate("stop", "record")
          /\ UNCHANGED <<exit, prot, journal, market, wire, sends>>
    BY <1>4 DEF ReconcileFirstFill, Reading, venue
  <2>2. Rows' /\ <<t, "stopX">> \notin wire
    BY <2>1, FillSound DEF SInv
  <2>3. /\ eng'.pc = "prepare" /\ eng'.e = "stop" /\ eng'.ret = "record" /\ eng'.t = t
        /\ eng'.flag = FALSE /\ eng'.snap = eng.snap /\ eng'.todoE = eng.todoE
    BY <2>1, ReadFacts, EffectNames, MutateEngine DEF Places
  <2>4. state'[t] = "PROTECTING"
    BY <2>1, StateMoved DEF IInv
  <2>5. Control' /\ Entering' /\ Guarding' /\ Leaving'
    BY <2>1, <2>2, <2>3, <2>4, EffectNames, BeginCall DEF SInv, market
  <2> QED
    BY <2>2, <2>5 DEF SInv
<1> QED
  BY <1>2, <1>3, <1>4

LEMMA RecordFillSound ==
  ASSUME IInv, IInv', SInv, RecordFill
  PROVE  SInv'
<1>1. PICK t \in Trades :
        /\ t = eng.t /\ eng.pc \in {"reconcile", "expiry"}
        /\ state[t] \in {"PROTECTING", "ACTIVE"}
        /\ shown[t] > filled[t] /\ filled' = [filled EXCEPT ![t] = shown[t]] /\ eng' = eng
        /\ UNCHANGED <<state, exit, prot, journal, market, wire, sends>>
  BY DEF RecordFill, Reading, venue
<1>2. filled'[t] > 0 /\ \A u \in Trades \ {t} : filled'[u] = filled[u]
  BY <1>1 DEF IInv, TypeOK
<1>3. Sound(t)
  BY DEF SInv, Rows
<1>4. state[t] = "ACTIVE" =>
        /\ Stopped(t)' /\ eff[t]["target"] \notin {"none", "PREPARED"}
        /\ <<t, "stopX">> \notin wire
  BY <1>1, <1>3 DEF Sound, Guarded, Stopped, market, journal
<1>5. state[t] \notin Unbought /\ state[t] \notin Exiting /\ state[t] # "FLAT"
  BY <1>1 DEF Unbought, Exiting
<1>6. eff[t]["timeout"] = "none" /\ eff[t]["emergency"] = "none"
  BY <1>1, <1>3 DEF Sound, Exited
<1>7. Rows'
  BY <1>1, <1>2, <1>4, <1>5, <1>6, BoughtSound DEF SInv
<1>8. Stage' = eng.pc /\ Stage = eng.pc /\ ~Calling' /\ ~answered'
  BY <1>1 DEF Stage, Calling, IInv, InFlight
<1>9. Control'
  BY <1>1, <1>8 DEF SInv, Control, Sought, Staged, Cleaning, Owned
<1>10. Entering'
  <2>1. \A u \in Trades : <<u, "place">> \in eng'.todoE => Listed(u)'
    BY <1>1 DEF SInv, Entering, Listed, market
  <2> QED
    BY <1>1, <1>8, <2>1 DEF Entering
<1>11. Guarding'
  BY <1>1, <1>8 DEF Guarding
<1>12. Leaving'
  BY <1>1, <1>8 DEF SInv, Leaving, Cleaning, market
<1> QED
  BY <1>7, <1>9, <1>10, <1>11, <1>12 DEF SInv

LEMMA ReconcileReadSound ==
  ASSUME IInv, IInv', SInv,
         CancelExpiredEntry \/ MarkReconciled \/ ReconcileProtecting \/ ResumeExit
  PROVE  SInv'
<1>1. UNCHANGED <<trade, journal, market, wire, sends>>
  BY DEF CancelExpiredEntry, MarkReconciled, ReconcileProtecting, ResumeExit, durable, venue
<1>2. Rows'
  BY <1>1, RowsKept DEF SInv
<1>3. CASE CancelExpiredEntry
  <2>1. PICK t \in Trades :
          /\ t = eng.t /\ eng.pc \in {"reconcile", "expiry"}
          /\ state[t] \in {"ENTRY_PENDING", "ACTIVE"} /\ Mutate("cancel", "expiry")
    BY <1>3 DEF CancelExpiredEntry, Unfilled, Reading
  <2>2. /\ eng'.pc = "prepare" /\ eng'.e = "cancel" /\ eng'.ret = "expiry" /\ eng'.t = t
        /\ eng'.flag = FALSE /\ eng'.snap = eng.snap /\ eng'.todoE = eng.todoE
    BY <2>1, ReadFacts, EffectNames, MutateEngine DEF Places
  <2>3. Control' /\ Entering' /\ Guarding' /\ Leaving'
    BY <1>1, <2>1, <2>2, BeginCall DEF SInv, market, trade
  <2> QED
    BY <1>2, <2>3 DEF SInv
<1>4. CASE MarkReconciled
  <2>1. eng' = Done
    BY <1>4 DEF MarkReconciled, Finish
  <2>2. Control' /\ Entering' /\ Guarding' /\ Leaving'
    BY <1>1, <2>1, EndRested DEF IInv, TypeOK, SInv, market
  <2> QED
    BY <1>2, <2>2 DEF SInv
<1>5. CASE ReconcileProtecting
  <2>1. PICK t \in Trades :
          /\ t = eng.t /\ eng.pc \in {"reconcile", "expiry"} /\ ~Unripe(t)
          /\ state[t] = "PROTECTING" /\ Mutate("stop", "record")
    BY <1>5 DEF ReconcileProtecting, Reading
  <2>2. /\ eng'.pc = "prepare" /\ eng'.e = "stop" /\ eng'.ret = "record" /\ eng'.t = t
        /\ eng'.flag = FALSE /\ eng'.snap = eng.snap /\ eng'.todoE = eng.todoE
    BY <2>1, ReadFacts, EffectNames, MutateEngine DEF Places
  <2>3. <<t, "stopX">> \notin wire'
    BY <1>1, <2>1, EffectNames, ReadOffWire
  <2>4. Control' /\ Entering' /\ Guarding' /\ Leaving'
    BY <1>1, <2>1, <2>2, <2>3, EffectNames, BeginCall DEF SInv, market, trade
  <2> QED
    BY <1>2, <2>4 DEF SInv
<1>6. CASE ResumeExit
  <2>1. PICK t \in Trades :
          /\ t = eng.t /\ eng.pc \in {"reconcile", "expiry"} /\ state[t] \in Exiting
          /\ shown[t] = 0 \/ state[t] \in Closing
          /\ Goto(IF shown[t] = 0 THEN "finish" ELSE "measure")
    BY <1>6 DEF ResumeExit, Reading, Closing
  <2>2. /\ eng'.t = t /\ eng'.pc = (IF shown[t] = 0 THEN "finish" ELSE "measure")
        /\ eng'.flag = FALSE /\ eng'.snap = eng.snap /\ eng'.todoE = eng.todoE
    BY <2>1, ReadFacts, GotoEngine DEF Places
  <2>3. shown[t] = 0 /\ Once => pos'[t] = 0
    BY <1>1 DEF SInv, Rows, Sound, Ordered, Once, market
  <2>4. Control' /\ Entering' /\ Guarding' /\ Leaving'
    <3>1. CASE shown[t] = 0
      BY <1>1, <2>1, <2>2, <2>3, <3>1, ExitPlace DEF SInv, market, trade
    <3>2. CASE shown[t] # 0
      BY <1>1, <2>1, <2>2, <3>2, PlainPlace DEF SInv, market, trade
    <3> QED
      BY <3>1, <3>2
  <2> QED
    BY <1>2, <2>4 DEF SInv
<1> QED
  BY <1>3, <1>4, <1>5, <1>6

LEMMA LeaveSound ==
  ASSUME IInv, IInv', SInv, VenueExit \/ TimeoutClose
  PROVE  SInv'
<1>1. ASSUME NEW t \in Trades, NEW x \in Roles \cup Closes,
             state[t] \in {"PROTECTING", "ACTIVE"},
             x # "emergency", x = "timeout" => state[t] = "ACTIVE",
             Move(t, ExitingOf(x)), exit' = [exit EXCEPT ![t] = x],
             UNCHANGED <<filled, prot, journal, market, wire, sends>>
      PROVE  /\ Rows' /\ state'[t] = ExitingOf(x) /\ exit'[t] = x
             /\ eff[t]["timeout"] = "none" /\ eff[t]["emergency"] = "none"
  <2>1. state'[t] = ExitingOf(x) /\ \A u \in Trades \ {t} : state'[u] = state[u]
    BY <1>1, StateMoved DEF IInv
  <2>2. exit'[t] = x /\ \A u \in Trades \ {t} : exit'[u] = exit[u]
    BY <1>1 DEF IInv, TypeOK
  <2>3. Sound(t)
    BY DEF SInv, Rows
  <2>4. eff[t]["timeout"] = "none" /\ eff[t]["emergency"] = "none"
    BY <1>1, <2>3 DEF Sound, Exited
  <2>5. filled[t] > 0
    BY <1>1, <2>3 DEF Sound, Opened, Unbought
  <2>6. ExitingOf(x) \in Exiting
    BY EffectNames, ExitNames DEF Exiting
  <2>7. ExitingOf(x) \notin Unbought \cup {"ACTIVE", "FLAT"}
    BY <2>6 DEF Exiting, Unbought
  <2>8. Rows'
    BY <1>1, <2>1, <2>2, <2>4, <2>5, <2>7, BoughtSound DEF SInv
  <2> QED
    BY <2>1, <2>2, <2>4, <2>8
<1>2. CASE VenueExit
  <2>1. PICK t \in Trades, r \in Roles :
          /\ t = eng.t /\ eng.pc \in {"reconcile", "expiry"}
          /\ state[t] \in {"PROTECTING", "ACTIVE"} /\ shown[t] = 0 /\ FlatBy(t, r)
          /\ Move(t, ExitingOf(r)) /\ exit' = [exit EXCEPT ![t] = r]
          /\ Goto("cleanup")
          /\ UNCHANGED <<filled, prot, journal, market, wire, sends>>
    BY <1>2 DEF VenueExit, ReadFlat, Reading, venue
  <2>2. r \in Roles \cup Closes /\ r # "emergency" /\ r # "timeout"
    BY EffectNames
  <2>3. /\ Rows' /\ state'[t] = ExitingOf(r) /\ exit'[t] = r
        /\ eff[t]["timeout"] = "none" /\ eff[t]["emergency"] = "none"
    BY <1>1, <2>1, <2>2
  <2>4. /\ eng'.pc = "cleanup" /\ eng'.t = t
        /\ eng'.flag = FALSE /\ eng'.snap = eng.snap /\ eng'.todoE = eng.todoE
    BY <2>1, ReadFacts, GotoEngine DEF Places
  <2>5. clo[t] = -1 /\ \A e \in Closes : <<t, e>> \notin wire
    BY <2>3, CloseFacts DEF SInv
  <2>6. Attributed(t)'
    <3>1. Proven(t)' = Proven(t)
      BY <2>1 DEF Proven, market
    <3>2. FlatBy(t, r)'
      BY <2>1, <3>1 DEF FlatBy, market
    <3> QED
      BY <2>1, <2>2, <2>3, <2>5, <3>2, EffectNames DEF Attributed, market
  <2>7. Once => pos'[t] = 0
    BY <2>1 DEF SInv, Rows, Sound, Ordered, Once, market
  <2>8. state'[t] \in Exiting
    BY <2>3, EffectNames, ExitNames DEF Exiting
  <2>9. Control' /\ Entering' /\ Guarding' /\ Leaving'
    BY <2>1, <2>4, <2>6, <2>7, <2>8, ExitPlace DEF SInv, market
  <2> QED
    BY <2>3, <2>9 DEF SInv
<1>3. CASE TimeoutClose
  <2>1. PICK t \in Trades :
          /\ t = eng.t /\ eng.pc \in {"reconcile", "expiry"} /\ state[t] = "ACTIVE"
          /\ Move(t, "EXITING_TIMEOUT") /\ exit' = [exit EXCEPT ![t] = "timeout"]
          /\ Goto("measure")
          /\ UNCHANGED <<filled, prot, journal, market, wire, sends>>
    BY <1>3 DEF TimeoutClose, StillActive, Reading, venue
  <2>2. Rows' /\ state'[t] = "EXITING_TIMEOUT"
    <3>1. "timeout" \in Roles \cup Closes /\ Move(t, ExitingOf("timeout"))
      BY <2>1, EffectNames, ExitNames
    <3> QED
      BY <1>1, <2>1, <3>1, ExitNames
  <2>3. /\ eng'.pc = "measure" /\ eng'.t = t
        /\ eng'.flag = FALSE /\ eng'.snap = eng.snap /\ eng'.todoE = eng.todoE
    BY <2>1, ReadFacts, GotoEngine DEF Places
  <2>4. Control' /\ Entering' /\ Guarding' /\ Leaving'
    BY <2>1, <2>2, <2>3, PlainPlace DEF SInv, market, Closing
  <2> QED
    BY <2>2, <2>4 DEF SInv
<1> QED
  BY <1>2, <1>3

\* Every step of the operation in progress.
LEMMA WorkSound ==
  ASSUME IInv, IInv', SInv, Work
  PROVE  SInv'
<1>1. CASE Effect
  BY <1>1, PrepareSound, ReplaySound, SendSound, AckSound DEF Effect
<1>2. CASE Handle
  BY <1>2, ReceivedSound, AdmitSound, AckEntrySound, SettleSound, FirstFillSound,
     EntryDeadSound, AmbiguousSound DEF Handle
<1>3. CASE Protect
  BY <1>3, RecordSound, VerifySound, ActivateSound DEF Protect
<1>4. CASE Close
  BY <1>4, MeasureSound, TriggerSound, CloseFailedSound, ClosedFlatSound, FinishSound DEF Close
<1>5. CASE Cleanup
  BY <1>5, BeginCleanupSound, AdoptSound, CleanupSound, FlattenSound DEF Cleanup
<1>6. CASE Loop
  BY <1>6, PickEffectSound, ResolveSound, PickTradeSound, PassSound DEF Loop
<1>7. CASE Reconcile
  BY <1>7, ReconcileEntrySound, RecordFillSound, ReconcileReadSound, LeaveSound DEF Reconcile
<1> QED
  BY <1>1, <1>2, <1>3, <1>4, <1>5, <1>6, <1>7 DEF Work

-----------------------------------------------------------------------------
(* The operations that start, and the exceptions *)

LEMMA StartSound ==
  ASSUME IInv, IInv', SInv, Start
  PROVE  SInv'
<1>1. /\ "loop" \in Places /\ "received" \in Places
  BY DEF Places
<1>2. ASSUME NEW p \in Procs, NEW t \in Trades, NEW f \in BOOLEAN,
             eng' = [Begin(p, "handle", "received") EXCEPT !.t = t, !.flag = f],
             state'[t] = "RECEIVED", UNCHANGED <<ord, tp>>
      PROVE  Control' /\ Entering' /\ Guarding' /\ Leaving'
  <2>1. /\ eng'.pc = "received" /\ eng'.t = t /\ eng'.todoE = {} /\ eng'.snap = NoSnap
    <3>1. /\ Begin(p, "handle", "received") \in Engine /\ Begin(p, "handle", "received").pc = "received"
          /\ Begin(p, "handle", "received").snap = NoSnap
          /\ Begin(p, "handle", "received").todoE = {}
      BY <1>1, IdleEngine DEF Begin, Engine
    <3> QED
      BY <1>2, <3>1, DeliveryEngine
  <2>2. Stage' = "received" /\ ~Calling' /\ ~answered'
    BY <2>1 DEF Stage, Calling, IInv, InFlight
  <2>3. Control'
    BY <1>2, <2>1, <2>2 DEF Control, Sought, Staged, Cleaning
  <2>4. Entering'
    BY <2>1, <2>2 DEF Entering
  <2>5. Guarding'
    BY <2>1, <2>2 DEF Guarding
  <2>6. Leaving'
    BY <2>1, <2>2 DEF Leaving, Cleaning, NoSnap
  <2> QED
    BY <2>3, <2>4, <2>5, <2>6
<1>3. ASSUME NEW p \in Procs, NEW t \in Trades, DeliverNew(p, t)
      PROVE  SInv'
  <2>1. /\ state[t] = "none" /\ Move(t, "RECEIVED")
        /\ eng' = [Begin(p, "handle", "received") EXCEPT !.t = t, !.flag = t \in expired]
        /\ UNCHANGED <<filled, exit, prot, journal, market, wire, sends>>
    BY <1>3 DEF DeliverNew, venue
  <2>2. state'[t] = "RECEIVED" /\ \A u \in Trades \ {t} : state'[u] = state[u]
    BY <2>1, StateMoved DEF IInv
  <2>3. \A u \in Trades \ {t} : Kept(u)
    BY <2>1, <2>2 DEF Kept, journal, market
  <2>4. Sound(t)
    BY DEF SInv, Rows
  <2>5. Ordered(t)'
    BY <2>1, <2>4 DEF Sound, Ordered, Listed, market, journal
  <2>6. Opened(t)'
    BY <2>1, <2>2, <2>4 DEF Sound, Opened, Untouched, Unbought, market, journal
  <2>7. Guarded(t)'
    BY <2>1, <2>2, <2>4 DEF Sound, Guarded, market, journal
  <2>8. Exited(t)'
    BY <2>1, <2>2, <2>4, EffectNames
    DEF Sound, Exited, Exiting, Opened, Untouched, Unbought, market, journal
  <2>9. Rows'
    BY <2>3, <2>5, <2>6, <2>7, <2>8, OneRow DEF SInv, Sound
  <2>10. Control' /\ Entering' /\ Guarding' /\ Leaving'
    <3>1. (t \in expired) \in BOOLEAN
      OBVIOUS
    <3> QED
      BY <1>2, <2>1, <2>2, <3>1 DEF market
  <2> QED
    BY <2>9, <2>10 DEF SInv
<1>4. ASSUME NEW p \in Procs, NEW t \in Trades, DeliverReceived(p, t)
      PROVE  SInv'
  <2>1. /\ state[t] = "RECEIVED"
        /\ eng' = [Begin(p, "handle", "received") EXCEPT !.t = t, !.flag = t \in expired]
        /\ UNCHANGED <<trade, journal, market, wire, sends>>
    BY <1>4 DEF DeliverReceived, durable, venue
  <2>2. Control' /\ Entering' /\ Guarding' /\ Leaving'
    <3>1. (t \in expired) \in BOOLEAN
      OBVIOUS
    <3> QED
      BY <1>2, <2>1, <3>1 DEF market, trade
  <2> QED
    BY <2>1, <2>2, RowsKept DEF SInv
<1>5. ASSUME eng'.pc = "loop", eng'.flag = FALSE, eng'.todoE \subseteq ripe,
             UNCHANGED <<trade, journal, market, wire, sends>>
      PROVE  SInv'
  <2>1. \A t \in Trades : <<t, "place">> \in eng'.todoE => Listed(t)'
    BY <1>5 DEF SInv, Rows, Sound, Ordered, Listed, market
  <2>2. Control' /\ Entering' /\ Guarding' /\ Leaving'
    BY <1>5, <2>1, Rested DEF IInv
  <2> QED
    BY <1>5, <2>2, RowsKept DEF SInv
<1>6. ASSUME NEW p \in Procs, NEW t \in Trades, Redeliver(p, t)
      PROVE  SInv'
  <2>1. /\ eng' = [Begin(p, "redeliver", "loop") EXCEPT
                     !.todoE = ripe \cap ({t} \X Effects), !.todoT = {t}]
        /\ UNCHANGED <<trade, journal, market, wire, sends>>
    BY <1>6 DEF Redeliver, durable, venue
  <2>2. ripe \cap ({t} \X Effects) \in SUBSET (Trades \X Effects) /\ {t} \in SUBSET Trades
    BY DEF IInv, TypeOK
  <2>3. /\ Begin(p, "redeliver", "loop") \in Engine /\ Begin(p, "redeliver", "loop").pc = "loop"
        /\ Begin(p, "redeliver", "loop").flag = FALSE
    BY <1>1, IdleEngine DEF Begin, Engine
  <2>4. eng'.pc = "loop" /\ eng'.flag = FALSE /\ eng'.todoE = ripe \cap ({t} \X Effects)
    BY <2>1, <2>2, <2>3, PassEngine
  <2> QED
    BY <1>5, <2>1, <2>4
<1>7. ASSUME NEW p \in Procs, BeginReconcile(p)
      PROVE  SInv'
  <2>1. /\ \/ eng = Idle /\ eng' = eng
           \/ eng' = [Begin(p, "reconcile", "loop") EXCEPT !.todoT = OwnedTrades]
        /\ UNCHANGED <<trade, journal, market, wire, sends>>
    BY <1>7 DEF BeginReconcile, venue
  <2>2. CASE eng = Idle /\ eng' = eng
    <3>1. Control' /\ Entering' /\ Guarding' /\ Leaving'
      BY <2>1, <2>2, EndRested DEF SInv, IInv, TypeOK, market
    <3> QED
      BY <2>1, <3>1, RowsKept DEF SInv
  <2>3. CASE eng' = [Begin(p, "reconcile", "loop") EXCEPT !.todoT = OwnedTrades]
    <3>1. /\ Begin(p, "reconcile", "loop") \in Engine /\ Begin(p, "reconcile", "loop").pc = "loop"
          /\ Begin(p, "reconcile", "loop").flag = FALSE /\ Begin(p, "reconcile", "loop").todoE = {}
      BY <1>1, IdleEngine DEF Begin, Engine
    <3>2. eng'.pc = "loop" /\ eng'.flag = FALSE /\ eng'.todoE = {}
      BY <2>3, <3>1 DEF Engine
    <3> QED
      BY <1>5, <2>1, <3>2
  <2> QED
    BY <2>1, <2>2, <2>3
<1>8. ASSUME NEW p \in Procs, BeginRecovery(p)
      PROVE  SInv'
  <2>1. /\ eng' = [Begin(p, "recover", "loop") EXCEPT !.todoE = ripe, !.todoT = OwnedTrades]
        /\ UNCHANGED <<trade, journal, market, wire, sends>>
    BY <1>8 DEF BeginRecovery, venue
  <2>2. ripe \in SUBSET (Trades \X Effects) /\ OwnedTrades \in SUBSET Trades
    BY OwnedTradesType DEF IInv, TypeOK
  <2>3. /\ Begin(p, "recover", "loop") \in Engine /\ Begin(p, "recover", "loop").pc = "loop"
        /\ Begin(p, "recover", "loop").flag = FALSE
    BY <1>1, IdleEngine DEF Begin, Engine
  <2>4. eng'.pc = "loop" /\ eng'.flag = FALSE /\ eng'.todoE = ripe
    BY <2>1, <2>2, <2>3, PassEngine
  <2> QED
    BY <1>5, <2>1, <2>4
<1>9. ASSUME NEW p \in Procs, BlockEntries(p)
      PROVE  SInv'
  <2>1. eng = Idle /\ eng' = eng /\ UNCHANGED <<trade, journal, market, wire, sends>>
    BY <1>9 DEF BlockEntries, venue
  <2>2. Control' /\ Entering' /\ Guarding' /\ Leaving'
    BY <2>1, EndRested DEF SInv, IInv, TypeOK, market
  <2> QED
    BY <2>1, <2>2, RowsKept DEF SInv
<1> QED
  BY <1>3, <1>4, <1>6, <1>7, <1>8, <1>9 DEF Start

\* A step that stops the operation, or touches none.
LEMMA StoppedSound ==
  ASSUME IInv, IInv', SInv, eng' \in {eng, Idle}, eng' = eng => UNCHANGED answered,
         UNCHANGED <<trade, journal, market, wire, sends>>
  PROVE  SInv'
<1>1. Rows'
  BY RowsKept DEF SInv
<1>2. CASE eng' = Idle
  <2>1. Control' /\ Entering' /\ Guarding' /\ Leaving'
    BY <1>2, EndRested DEF SInv, IInv, TypeOK, market
  <2> QED
    BY <1>1, <2>1 DEF SInv
<1>3. CASE eng' = eng
  <2>1. Stage' = Stage /\ Calling' = Calling /\ answered' = answered
    BY <1>3 DEF Stage, Calling
  <2>2. Control'
    BY <1>3, <2>1 DEF SInv, Control, Sought, Staged, CloseOf, Owned, trade, journal
  <2>3. Entering'
    BY <1>3, <2>1 DEF SInv, Entering, Dead, Listed, market, journal
  <2>4. Guarding'
    BY <1>3, <2>1 DEF SInv, Guarding, Stopped, trade, market, journal
  <2>5. Leaving'
    <3>1. \A t \in Trades : Attributed(t) => Attributed(t)'
      <4>1. ASSUME NEW t \in Trades PROVE Kept(t)
        BY DEF Kept, trade, journal, market
      <4> QED
        BY <4>1, AttributedKept
    <3>2. Stage \in {"flat"} \cup Cleaning => eng.t \in Trades
      BY DEF IInv, Grounded, Working, Stage, Calling, Cleaning
    <3>3. PICK t : t = eng.t
      OBVIOUS
    <3>4. \A r \in Roles : Gone(t, r) => Gone(t, r)'
      BY DEF Gone, market
    <3> QED
      BY <1>3, <2>1, <3>1, <3>2, <3>3, <3>4, EffectNames DEF SInv, Leaving, trade, market, journal
  <2> QED
    BY <1>1, <2>2, <2>3, <2>4, <2>5 DEF SInv
<1> QED
  BY <1>2, <1>3

\* An exception: into the except branch of the entry, into the close that
\* compensates a failed protection, or out of the operation.
LEMMA RaiseSound ==
  ASSUME IInv, IInv', SInv, Raise
  PROVE  SInv'
<1>1. /\ UNCHANGED <<trade, journal, market, wire, sends>>
      /\ \/ InEntryTry /\ Goto("ambiguous")
         \/ InProtectTry /\ Goto("measure")
         \/ Unwind
  <2>1. UNCHANGED <<trade, journal, market, wire, sends>>
    BY DEF Raise, HangUp
  <2>2. \/ InEntryTry /\ Goto("ambiguous")
        \/ InProtectTry /\ Goto("measure")
        \/ Unwind
    BY Zenon DEF Raise
  <2> QED
    BY <2>1, <2>2
<1>2. Rows' /\ eng \in Engine
  BY <1>1, RowsKept DEF SInv, IInv, TypeOK
<1>3. CASE InEntryTry /\ Goto("ambiguous")
  <2>1. eng.t \in Trades /\ state[eng.t] = "ENTRY_PENDING"
    <3>1. CASE Calling
      BY <1>3, <3>1, CallOf DEF InEntryTry, Calling, CallShape, SInv
    <3>2. CASE ~Calling
      BY <1>3, <3>2 DEF InEntryTry, Calling, SInv, Control, Staged, Stage, IInv, Grounded, Working
    <3> QED
      BY <3>1, <3>2
  <2>2. PICK t \in Trades : t = eng.t
    BY <2>1
  <2>3. /\ eng'.pc = "ambiguous" /\ eng'.t = t /\ eng'.snap = eng.snap /\ eng'.todoE = eng.todoE
    BY <1>2, <1>3, <2>2, GotoEngine DEF Places
  <2>4. Stage' = "ambiguous" /\ ~Calling' /\ ~answered'
    BY <2>3 DEF Stage, Calling, IInv, InFlight
  <2>5. Control'
    BY <1>1, <2>1, <2>2, <2>3, <2>4 DEF Control, Sought, Staged, Cleaning, trade
  <2>6. Entering'
    <3>1. \A u \in Trades : <<u, "place">> \in eng'.todoE => Listed(u)'
      BY <1>1, <2>3 DEF SInv, Entering, Listed, market
    <3> QED
      BY <2>3, <2>4, <3>1 DEF Entering
  <2>7. Guarding'
    BY <2>3, <2>4 DEF Guarding
  <2>8. Leaving'
    BY <1>1, <2>2, <2>3, <2>4 DEF SInv, Leaving, Cleaning, market
  <2> QED
    BY <1>2, <2>5, <2>6, <2>7, <2>8 DEF SInv
<1>4. CASE InProtectTry /\ Goto("measure")
  <2>1. eng.t \in Trades /\ state[eng.t] = "PROTECTING" /\ eng.flag = FALSE
    <3>1. CASE Calling
      <4>1. CallShape /\ eng.t \in Trades /\ eng.e \in Roles
        BY <1>4, <3>1, CallOf DEF InProtectTry, Calling, SInv
      <4>2. eng.ret = "record" /\ state[eng.t] = "PROTECTING"
        BY <4>1, EffectNames DEF CallShape
      <4> QED
        BY <1>2, <3>1, <4>1, <4>2 DEF Calling, SInv, Control, Staged, Stage, Cleaning, Engine
    <3>2. CASE ~Calling
      BY <1>2, <1>4, <3>2 DEF InProtectTry, Calling, SInv, Control, Staged, Stage, IInv, Grounded,
         Working, Cleaning, Engine
    <3> QED
      BY <3>1, <3>2
  <2>2. /\ eng'.pc = "measure" /\ eng'.t = eng.t /\ eng'.flag = FALSE
        /\ eng'.snap = eng.snap /\ eng'.todoE = eng.todoE
    BY <1>2, <1>4, <2>1, GotoEngine DEF Places
  <2>3. Control' /\ Entering' /\ Guarding' /\ Leaving'
    BY <1>1, <2>1, <2>2, PlainPlace DEF SInv, market, trade
  <2> QED
    BY <1>2, <2>3 DEF SInv
<1>5. CASE Unwind
  <2>1. \/ eng' = Idle
        \/ At("loop") /\ eng' = [eng EXCEPT !.bad = TRUE, !.todoE = {}, !.todoT = {}]
        \/ eng' = [Done EXCEPT !.bad = TRUE]
    BY <1>5 DEF Unwind
  <2>2. /\ eng'.pc \in {"idle", "loop"} /\ eng'.flag = FALSE
        /\ eng'.todoE \subseteq eng.todoE
    <3>1. CASE eng' = Idle
      BY <3>1, IdleEngine
    <3>2. CASE At("loop") /\ eng' = [eng EXCEPT !.bad = TRUE, !.todoE = {}, !.todoT = {}]
      <4>1. eng.flag = FALSE
        BY <1>2, <3>2 DEF At, SInv, Control, Staged, Stage, Calling, Cleaning, Engine
      <4> QED
        BY <1>2, <3>2, <4>1 DEF At, Engine
    <3>3. CASE eng' = [Done EXCEPT !.bad = TRUE]
      BY <1>2, <3>3, DoneEngine DEF Engine
    <3> QED
      BY <2>1, <3>1, <3>2, <3>3
  <2>3. \A t \in Trades : <<t, "place">> \in eng'.todoE => Listed(t)'
    BY <1>1, <2>2 DEF SInv, Entering, Listed, market
  <2>4. Control' /\ Entering' /\ Guarding' /\ Leaving'
    BY <2>2, <2>3, Rested DEF IInv
  <2> QED
    BY <1>2, <2>4 DEF SInv
<1> QED
  BY <1>1, <1>3, <1>4, <1>5

LEMMA CrashSound ==
  ASSUME IInv, IInv', SInv, NEW p \in Procs, Crash(p) \/ AccountSnapshot(p)
  PROVE  SInv'
<1>1. eng' \in {eng, Idle} /\ UNCHANGED <<trade, journal, market, wire, sends>>
  BY DEF Crash, AccountSnapshot, HangUp, durable, venue
<1>2. eng' = eng => UNCHANGED answered
  <2>1. UNCHANGED answered \/ (answered' = FALSE /\ eng' = Idle)
    BY DEF Crash, AccountSnapshot, HangUp, durable, venue
  <2>2. eng = Idle => answered = FALSE
    BY IdleEngine DEF IInv, InFlight, TypeOK
  <2> QED
    BY <2>1, <2>2
<1> QED
  BY <1>1, <1>2, StoppedSound

-----------------------------------------------------------------------------
(* The venue *)

\* What a step of the venue leaves true of a trade, unless a request that is
\* still on the wire is served.
Steady(t) ==
  /\ <<t, "place">> \notin wire =>
       /\ ~ord[t].alive => ~ord'[t].alive /\ ord'[t].filled = ord[t].filled
       /\ ord[t].at # "none" => ord'[t].at # "none"
       /\ Listed(t) => Listed(t)'
  /\ <<t, "stopX">> \notin wire /\ tp[t]["stop"] \in {"live", "triggered"} =>
       tp'[t]["stop"] \in {"live", "triggered"}
  /\ \A r \in Roles : tp'[t][r] = "live" => tp[t][r] = "live" \/ <<t, r>> \in wire
  /\ Once /\ pos[t] = 0 /\ state[t] \notin Unbought =>
       pos'[t] = 0 /\ (Attributed(t) => Attributed(t)')

LEMMA KeptSteady ==
  ASSUME NEW t \in Trades, Kept(t)
  PROVE  Steady(t)
  BY AttributedKept DEF Kept, Steady, Listed

\* A step of the venue that keeps one trade sound and steady, and the others as
\* they were.
LEMMA VenueSound ==
  ASSUME IInv, IInv', SInv, NEW t \in Trades, UNCHANGED <<eng, trade, eff>>, wire' \subseteq wire,
         \A u \in Trades \ {t} : Kept(u), Steady(t), Sound(t)',
         answered' /\ eng.e = "cancel" =>
           answered \/ (~ord'[eng.t].alive /\ ord'[eng.t].at # "none")
  PROVE  SInv'
<1>1. Rows'
  BY OneRow DEF SInv
<1>2. \A u \in Trades : Steady(u)
  BY KeptSteady
<1>3. Stage' = Stage /\ Calling' = Calling /\ (Working => eng.t \in Trades)
  BY DEF Stage, Calling, IInv, Grounded
<1>4. Control'
  BY <1>3 DEF SInv, Control, Sought, Staged, CloseOf, Owned, trade
<1>5. Entering'
  <2>1. ASSUME eng.pc \in {"settled", "dead"}
        PROVE  /\ <<eng.t, "place">> \notin wire /\ Steady(eng.t)
    <3>1. eff[eng.t]["place"] = "CONFIRMED"
      BY <2>1 DEF SInv, Entering
    <3>2. eng.t \in Trades /\ "place" \in Effects
      BY <1>3, <2>1, EffectNames DEF Working
    <3> QED
      BY <1>2, <3>1, <3>2 DEF IInv, Journaled
  <2>2. eng.pc = "settled" => ~ord'[eng.t].alive
    BY <2>1 DEF SInv, Entering, Steady
  <2>3. eng.pc = "dead" => ~ord'[eng.t].alive /\ (Prompt => ord'[eng.t].filled = 0)
    BY <2>1 DEF SInv, Entering, Steady, Dead
  <2>4. answered' /\ eng.e = "cancel" => ~ord'[eng.t].alive /\ ord'[eng.t].at # "none"
    <3>1. CASE answered /\ eng.e = "cancel"
      <4>1. PICK u \in Trades : u = eng.t
        BY <1>3, <3>1 DEF IInv, InFlight, Working
      <4>2. ~ord[u].alive /\ ord[u].at # "none"
        BY <3>1, <4>1 DEF SInv, Entering
      <4>3. <<u, "place">> \notin wire
        BY <4>2 DEF SInv, Rows, Sound, Ordered
      <4> QED
        BY <1>2, <4>1, <4>2, <4>3 DEF Steady
    <3> QED
      BY <3>1
  <2>5. \A u \in Trades : <<u, "place">> \in eng.todoE => Listed(u)'
    BY <1>2, EffectNames DEF SInv, Entering, Steady, IInv, InFlight
  <2>6. eng.pc = "effect" /\ eng.e = "place" => Listed(eng.t)'
    <3>1. SUFFICES ASSUME eng.pc = "effect" /\ eng.e = "place" PROVE Listed(eng.t)'
      OBVIOUS
    <3>2. PICK u \in Trades : u = eng.t
      BY <1>3, <3>1 DEF Working
    <3>3. <<u, "place">> \notin wire /\ Listed(u)
      BY <3>1, <3>2 DEF SInv, Entering, IInv, InFlight
    <3>4. Listed(u)'
      BY <1>2, <3>3 DEF Steady
    <3> QED
      BY <3>2, <3>4 DEF Listed
  <2> QED
    BY <1>3, <2>2, <2>3, <2>4, <2>5, <2>6 DEF SInv, Entering, Dead
<1>6. Guarding'
  <2>1. SUFFICES ASSUME Stage \in {"record", "verify", "activate"} PROVE Guarding'
    BY <1>3 DEF Guarding, Stage, Calling
  <2>2. PICK u \in Trades : u = eng.t
    BY <1>3, <2>1 DEF Working, Stage, Calling
  <2>3. <<u, "stopX">> \notin wire /\ <<u, "stopX">> \notin wire'
    BY <2>1, <2>2 DEF SInv, Guarding
  <2>4. Stopped(u) => Stopped(u)'
    BY <1>2, <2>3 DEF Stopped, Steady, trade
  <2> QED
    BY <1>3, <2>2, <2>3, <2>4 DEF SInv, Guarding, Stopped, trade
<1>7. Leaving'
  <2>1. ASSUME NEW r \in Roles, eng.snap[r] \in {"triggered", "cancelled"}
        PROVE  tp'[eng.t][r] # "live"
    <3>1. Working /\ tp[eng.t][r] # "none" /\ tp[eng.t][r] # "live"
      BY <2>1 DEF SInv, Leaving, IInv, InFlight
    <3>2. PICK u \in Trades : u = eng.t
      BY <1>3, <3>1
    <3>3. r \in Effects
      BY EffectNames
    <3>4. <<u, r>> \in wire => tp[u][r] = "none"
      BY <3>3 DEF IInv, Journaled
    <3> QED
      BY <1>2, <3>1, <3>2, <3>4 DEF Steady
  <2>2. \A u \in Trades, r \in Roles : Gone(u, r) => Gone(u, r)'
    BY <1>2 DEF Gone, Steady
  <2>3. \A r \in Roles : Stage \in {"clean", "cleaned", "flat"} /\ Gone(eng.t, r) => Gone(eng.t, r)'
    <3>1. SUFFICES ASSUME NEW r \in Roles, Stage \in {"clean", "cleaned", "flat"}, Gone(eng.t, r)
                   PROVE  Gone(eng.t, r)'
      OBVIOUS
    <3>2. PICK u \in Trades : u = eng.t
      BY <1>3, <3>1 DEF Working, Stage, Calling
    <3>3. Gone(u, r)'
      BY <2>2, <3>1, <3>2 DEF Gone
    <3> QED
      BY <3>2, <3>3 DEF Gone
  <2>4. ASSUME Once, Stage \in {"finish", "flat"} \cup Cleaning
        PROVE  /\ pos'[eng.t] = 0
               /\ Attributed(eng.t) => Attributed(eng.t)'
    <3>1. PICK u \in Trades : u = eng.t
      BY <1>3, <2>4 DEF Working, Stage, Calling, Cleaning
    <3>2. state[u] \notin Unbought /\ pos[u] = 0
      BY <2>4, <3>1 DEF SInv, Control, Staged, Leaving, Exiting, Unbought
    <3>3. pos'[u] = 0 /\ (Attributed(u) => Attributed(u)')
      BY <1>2, <2>4, <3>2 DEF Steady
    <3> QED
      BY <3>1, <3>3 DEF Attributed, FlatBy, Proven
  <2>5. "stop" \in Roles
    BY DEF Roles
  <2> QED
    BY <1>3, <2>1, <2>3, <2>4, <2>5 DEF SInv, Leaving, trade
<1> QED
  BY <1>1, <1>4, <1>5, <1>6, <1>7 DEF SInv

\* The order of a trade moves without filling.
LEMMA OrderMoved ==
  ASSUME IInv, IInv', SInv, NEW t \in Trades,
         UNCHANGED <<durable, eng, pos, tp, trig, clo, sends>>, wire' \subseteq wire,
         \A u \in Trades \ {t} : ord'[u] = ord[u] /\ shown'[u] = shown[u],
         ord'[t].filled = ord[t].filled, Ordered(t)',
         <<t, "place">> \notin wire =>
           /\ ~ord[t].alive => ~ord'[t].alive
           /\ ord[t].at # "none" => ord'[t].at # "none"
           /\ Listed(t) => Listed(t)',
         answered' /\ eng.e = "cancel" =>
           answered \/ (~ord'[eng.t].alive /\ ord'[eng.t].at # "none")
  PROVE  SInv'
<1>1. \A u \in Trades \ {t} : Kept(u)
  BY DEF Kept, durable, trade, journal
<1>2. Sound(t) /\ UNCHANGED <<trade, eff, closeQty, ripe>>
  BY DEF SInv, Rows, durable, journal
<1>3. Attributed(t) => Attributed(t)'
  <2>1. Proven(t)' = Proven(t)
    BY <1>2 DEF Proven, trade
  <2> QED
    BY <1>2, <2>1 DEF Attributed, FlatBy, trade
<1>4. Opened(t)'
  <2>1. eff[t]["place"] = "ABSENT" => <<t, "place">> \notin wire
    BY EffectNames DEF IInv, Journaled
  <2> QED
    BY <1>2, <2>1 DEF Sound, Opened, Untouched, Dead, trade
<1>5. Guarded(t)'
  BY <1>2 DEF Sound, Guarded, Stopped, trade
<1>6. Exited(t)'
  <2>1. \A r \in Roles : Gone(t, r) => Gone(t, r)'
    BY DEF Gone
  <2> QED
    BY <1>2, <1>3, <2>1 DEF Sound, Exited, trade
<1>7. Steady(t)
  BY <1>3 DEF Steady
<1> QED
  BY <1>1, <1>2, <1>4, <1>5, <1>6, <1>7, VenueSound DEF Sound

\* The venue serves the entry or its cancel, lets it die or projects it.
LEMMA OrderServed ==
  ASSUME IInv, IInv', SInv, NEW t \in Trades,
         VenuePlace(t) \/ VenueDie(t) \/ VenueProject(t) \/ VenueCancel(t)
  PROVE  SInv'
<1>1. UNCHANGED <<durable, eng, pos, tp, trig, clo, sends>> /\ wire' \subseteq wire /\ ripe' = ripe
  BY DEF VenuePlace, VenueDie, VenueProject, VenueCancel, Answer, Refuse, Serve, durable, journal
<1>2. /\ ord \in [Trades -> Order] /\ shown \in [Trades -> 0..Q] /\ pos \in [Trades -> 0..Q]
      /\ Ordered(t) /\ ord[t] \in Order
  BY DEF IInv, TypeOK, SInv, Rows, Sound
<1>3. CASE VenuePlace(t)
  <2>1. PICK listed, dead \in BOOLEAN :
          ord' = [ord EXCEPT ![t] = [at |-> IF listed /\ ~dead THEN "open" ELSE "gone",
                                    alive |-> ~dead, filled |-> 0]]
    BY <1>3 DEF VenuePlace
  <2>2. /\ ord'[t].at \in {"open", "gone"} /\ ord'[t].filled = 0 /\ UNCHANGED shown
        /\ \A u \in Trades \ {t} : ord'[u] = ord[u]
    BY <1>2, <1>3, <2>1 DEF VenuePlace
  <2>3. /\ <<t, "place">> \in wire /\ <<t, "place">> \notin wire'
        /\ answered' => eng.e = "place"
    BY <1>3 DEF VenuePlace, Answer, Serve
  <2>4. ord[t].filled = 0 /\ sends[t]["place"] = 1 /\ <<t, "place">> \notin ripe
    BY <1>2, <2>3, EffectNames DEF Ordered, IInv, Journaled
  <2>5. Ordered(t)'
    BY <1>1, <1>2, <2>2, <2>3, <2>4 DEF Ordered
  <2> QED
    BY <1>1, <2>2, <2>3, <2>4, <2>5, OrderMoved
<1>4. ASSUME ord[t].alive, ord' = [ord EXCEPT ![t].alive = FALSE, ![t].at = "gone"],
             UNCHANGED shown,
             answered' /\ eng.e = "cancel" => answered \/ eng.t = t
      PROVE  SInv'
  <2>1. /\ ord'[t].alive = FALSE /\ ord'[t].at = "gone" /\ ord'[t].filled = ord[t].filled
        /\ \A u \in Trades \ {t} : ord'[u] = ord[u]
    BY <1>2, <1>4 DEF Order
  <2>2. Ordered(t)' /\ Listed(t)'
    BY <1>1, <1>2, <1>4, <2>1 DEF Ordered, Listed
  <2> QED
    BY <1>1, <1>4, <2>1, <2>2, OrderMoved
<1>5. CASE VenueDie(t)
  BY <1>4, <1>5 DEF VenueDie
<1>6. CASE VenueCancel(t) /\ ord[t].alive
  BY <1>4, <1>6 DEF VenueCancel, Answer
<1>7. CASE VenueCancel(t) /\ ~ord[t].alive
  <2>1. UNCHANGED <<ord, shown, answered>>
    BY <1>7 DEF VenueCancel, Refuse
  <2>2. Ordered(t)' /\ (Listed(t) => Listed(t)')
    BY <1>1, <1>2, <2>1 DEF Ordered, Listed
  <2> QED
    BY <1>1, <2>1, <2>2, OrderMoved
<1>8. CASE VenueProject(t)
  <2>1. CASE /\ ord[t].at = "gone" /\ UNCHANGED shown
             /\ ord' = [ord EXCEPT ![t].at = IF ord[t].alive THEN "open" ELSE "hist"]
    <3>1. /\ ord'[t].alive = ord[t].alive /\ ord'[t].filled = ord[t].filled
          /\ ord'[t].at = IF ord[t].alive THEN "open" ELSE "hist"
          /\ \A u \in Trades \ {t} : ord'[u] = ord[u]
      BY <1>2, <2>1 DEF Order
    <3>2. ord'[t].at \in {"open", "hist"} /\ (ord'[t].at = "hist" => ~ord'[t].alive)
      BY <3>1
    <3>3. Ordered(t)' /\ Listed(t)'
      BY <1>1, <1>2, <2>1, <3>1, <3>2 DEF Ordered, Listed
    <3>4. UNCHANGED answered
      BY <1>8 DEF VenueProject
    <3> QED
      BY <1>1, <2>1, <3>1, <3>2, <3>3, <3>4, OrderMoved
  <2>2. CASE shown' = [shown EXCEPT ![t] = pos[t]] /\ UNCHANGED ord
    <3>1. shown'[t] = pos[t] /\ \A u \in Trades \ {t} : shown'[u] = shown[u]
      BY <1>2, <2>2
    <3>2. Ordered(t)' /\ (Listed(t) => Listed(t)')
      BY <1>1, <1>2, <2>2, <3>1 DEF Ordered, Listed
    <3>3. UNCHANGED answered
      BY <1>8 DEF VenueProject
    <3> QED
      BY <1>1, <2>2, <3>1, <3>2, <3>3, OrderMoved
  <2> QED
    BY <1>8, <2>1, <2>2 DEF VenueProject
<1> QED
  BY <1>3, <1>5, <1>6, <1>7, <1>8

\* An order that works was sent and served; where it fills once, nothing of
\* its trade has been bought or journaled yet.
LEMMA AliveFacts ==
  ASSUME IInv, SInv, NEW t \in Trades, ord[t].alive
  PROVE  /\ ord[t].at \in {"open", "gone"} /\ <<t, "place">> \notin wire /\ sends[t]["place"] # 0
         /\ state[t] # "CANCELLED"
         /\ state[t] = "ENTRY_PENDING" => eff[t]["place"] # "ABSENT"
         /\ <<t, "place">> \in ripe => ord[t].at # "gone"
         /\ Once => /\ ord[t].filled = 0 /\ state[t] \in Unbought
                    /\ \A r \in Roles : tp[t][r] = "none" /\ sends[t][CancelOf(r)] = 0
<1>1. Ordered(t) /\ Opened(t) /\ ord[t] \in Order
  BY DEF SInv, Rows, Sound, IInv, TypeOK
<1>2. ord[t].at \in {"open", "gone"} /\ <<t, "place">> \notin wire /\ sends[t]["place"] # 0
  BY <1>1 DEF Ordered, Order
<1>3. /\ state[t] # "CANCELLED"
      /\ state[t] = "ENTRY_PENDING" => eff[t]["place"] # "ABSENT"
      /\ <<t, "place">> \in ripe => ord[t].at # "gone"
  BY <1>1 DEF Ordered, Opened, Dead, Listed
<1>4. ASSUME Once
      PROVE  /\ ord[t].filled = 0 /\ state[t] \in Unbought
             /\ \A r \in Roles : tp[t][r] = "none" /\ sends[t][CancelOf(r)] = 0
  <2>1. ord[t].filled = 0
    BY <1>1, <1>4 DEF Ordered
  <2>2. filled[t] = 0
    <3>1. filled[t] \in 0..Q /\ filled[t] <= ord[t].filled
      BY DEF IInv, TypeOK, Bought
    <3> QED
      BY <2>1, <3>1, QAssumption
  <2>3. state[t] \in Unbought
    BY <1>1, <2>2 DEF Opened
  <2>4. \A e \in Effects \ {"place", "cancel"} : eff[t][e] = "none" /\ sends[t][e] = 0
    BY <1>1, <2>3 DEF Opened, Untouched, IInv, Journaled
  <2>5. ASSUME NEW r \in Roles PROVE tp[t][r] = "none" /\ sends[t][CancelOf(r)] = 0
    <3>1. r \in Effects \ {"place", "cancel"} /\ CancelOf(r) \in Effects \ {"place", "cancel"}
      BY EffectNames
    <3>2. sends[t][r] = 0 /\ sends[t][CancelOf(r)] = 0
      BY <2>4, <3>1
    <3> QED
      BY <3>1, <3>2 DEF IInv, Journaled
  <2> QED
    BY <2>1, <2>3, <2>5
<1> QED
  BY <1>2, <1>3, <1>4

\* The entry fills.
LEMMA FilledSound ==
  ASSUME IInv, IInv', SInv, NEW t \in Trades, VenueFill(t)
  PROVE  SInv'
<1>1. /\ UNCHANGED <<durable, trade, journal, eff, closeQty, ripe, eng, tp, trig, clo, wire>>
      /\ UNCHANGED <<answered, sends>> /\ ord[t].alive
  BY DEF VenueFill, durable, journal
<1>2. PICK q \in 1..(Q - ord[t].filled) :
        /\ ord' = [ord EXCEPT ![t] = [at |-> IF Resting /\ ord[t].filled + q < Q THEN @.at ELSE "gone",
                                      alive |-> Resting /\ ord[t].filled + q < Q,
                                      filled |-> ord[t].filled + q]]
        /\ Reposition(t, pos[t] + q)
  BY DEF VenueFill
<1>3. /\ ord \in [Trades -> Order] /\ ord[t] \in Order /\ ord[t].filled \in Nat
      /\ pos \in [Trades -> 0..Q] /\ shown \in [Trades -> 0..Q] /\ pos[t] \in Nat
      /\ ord'[t] \in Order
  BY QAssumption DEF IInv, TypeOK, Order
<1>4. Sound(t) /\ q \in Nat \ {0}
  BY <1>3, QAssumption DEF SInv, Rows
<1>5. /\ ord'[t].filled = ord[t].filled + q /\ (Once => ~ord'[t].alive)
      /\ ord'[t].at \in {ord[t].at, "gone"}
      /\ ord'[t].alive => ord'[t].at = ord[t].at
      /\ \A u \in Trades \ {t} : ord'[u] = ord[u]
  <2>1. /\ ord'[t].filled = ord[t].filled + q
        /\ ord'[t].alive = (Resting /\ ord[t].filled + q < Q)
        /\ ord'[t].at = IF Resting /\ ord[t].filled + q < Q THEN ord[t].at ELSE "gone"
        /\ \A u \in Trades \ {t} : ord'[u] = ord[u]
    BY <1>2, <1>3
  <2> QED
    BY <2>1 DEF Once
<1>6. /\ pos'[t] = pos[t] + q /\ (Prompt => shown'[t] = pos'[t])
      /\ \A u \in Trades \ {t} : pos'[u] = pos[u] /\ shown'[u] = shown[u]
  BY <1>2, <1>3 DEF Reposition, Prompt
<1>7. /\ ord[t].at \in {"open", "gone"} /\ <<t, "place">> \notin wire /\ sends[t]["place"] # 0
      /\ state[t] # "CANCELLED"
      /\ state[t] = "ENTRY_PENDING" => eff[t]["place"] # "ABSENT"
      /\ <<t, "place">> \in ripe => ord[t].at # "gone"
      /\ Once => /\ ord[t].filled = 0 /\ state[t] \in Unbought
                 /\ \A r \in Roles : tp[t][r] = "none" /\ sends[t][CancelOf(r)] = 0
  BY <1>1, AliveFacts
<1>8. \A u \in Trades \ {t} : Kept(u)
  BY <1>1, <1>5, <1>6 DEF Kept, trade
<1>9. Listed(t) => Listed(t)'
  BY <1>1, <1>5 DEF Listed
<1>10. Ordered(t)'
  BY <1>1, <1>4, <1>5, <1>6, <1>7, <1>9 DEF Ordered, Listed
<1>11. Opened(t)'
  <2>1. Untouched(t) => Untouched(t)'
    BY <1>1, <1>5, <1>6 DEF Untouched, trade
  <2> QED
    BY <1>1, <1>4, <1>7, <2>1 DEF Sound, Opened, trade
<1>12. Guarded(t)'
  BY <1>1, <1>4, <1>7 DEF Sound, Guarded, Stopped, trade
<1>13. Exited(t)'
  BY <1>1, <1>4, <1>7 DEF Sound, Exited, trade, Unbought
<1>14. Steady(t)
  BY <1>1, <1>5, <1>7, <1>9 DEF Steady
<1> QED
  BY <1>1, <1>8, <1>10, <1>11, <1>12, <1>13, <1>14, VenueSound DEF Sound

\* The venue refuses a request, or it is lost.
LEMMA RefusedSound ==
  ASSUME IInv, IInv', SInv, NEW t \in Trades, NEW e \in Effects, VenueRefuse(t, e)
  PROVE  SInv'
<1>1. /\ UNCHANGED <<trade, eff, closeQty, ripe, eng, ord, pos, shown, tp, trig, clo>>
      /\ UNCHANGED <<answered, sends>> /\ wire' \subseteq wire
  BY DEF VenueRefuse, Refuse, Serve, durable, journal
<1>2. \A u \in Trades : Kept(u)
  BY <1>1 DEF Kept, trade
<1> QED
  BY <1>1, <1>2, KeptSteady, KeptSound, VenueSound DEF SInv, Rows

\* A protection at the venue was journaled: its trade bought something.
LEMMA RowOfBought ==
  ASSUME IInv, SInv, NEW t \in Trades, NEW e \in Effects \ {"place", "cancel"},
         \/ <<t, e>> \in wire
         \/ e \in Roles /\ tp[t][e] # "none"
  PROVE  state[t] \notin Unbought
<1>1. sends[t][e] # 0
  BY DEF IInv, Journaled
<1>2. eff[t][e] # "none"
  BY <1>1 DEF IInv, Journaled
<1> QED
  BY <1>2 DEF SInv, Rows, Sound, Opened, Untouched

\* A request on the wire was sent and has its row.
LEMMA OnWire ==
  ASSUME IInv, NEW t \in Trades, NEW e \in Effects, <<t, e>> \in wire
  PROVE  /\ sends[t][e] = 1 /\ eff[t][e] = "PREPARED"
         /\ e \in Roles => tp[t][e] = "none"
  BY DEF IInv, Journaled

LEMMA TpslWritten ==
  ASSUME TypeOK, NEW t \in Trades, NEW r \in Roles, NEW v, tp' = [tp EXCEPT ![t][r] = v]
  PROVE  /\ tp'[t][r] = v
         /\ \A s \in Roles \ {r} : tp'[t][s] = tp[t][s]
         /\ \A u \in Trades \ {t} : tp'[u] = tp[u]
  BY DEF TypeOK

\* A protection is created, triggered or cancelled: the entry of the trade and
\* its journal stay, and so does what the trade says of itself.
LEMMA TpslSound ==
  ASSUME IInv, IInv', SInv, NEW t \in Trades, NEW r \in Roles,
         VenueCreate(t, r) \/ VenueTrigger(t, r) \/ VenueCancelTpsl(t, r)
  PROVE  SInv'
<1>1. /\ UNCHANGED <<trade, eff, closeQty, ripe, eng, ord, clo, sends>>
      /\ wire' \subseteq wire
  BY DEF VenueCreate, VenueTrigger, VenueCancelTpsl, Answer, Refuse, Serve, durable, journal
<1>2. /\ Sound(t) /\ TypeOK /\ pos \in [Trades -> 0..Q] /\ shown \in [Trades -> 0..Q]
      /\ trig \in [Trades -> 0..Q]
  BY DEF SInv, Rows, IInv, TypeOK
<1>3. r \in Effects \ {"place", "cancel"} /\ CancelOf(r) \in Effects \ {"place", "cancel"}
  BY EffectNames
<1>4. state[t] \notin Unbought
  <2>1. CASE VenueCreate(t, r)
    BY <1>3, <2>1, RowOfBought DEF VenueCreate, Answer, Serve
  <2>2. CASE VenueTrigger(t, r)
    BY <1>3, <2>2, RowOfBought DEF VenueTrigger
  <2>3. CASE VenueCancelTpsl(t, r)
    BY <1>3, <2>3, RowOfBought DEF VenueCancelTpsl, Answer, Refuse, Serve
  <2> QED
    BY <2>1, <2>2, <2>3
<1>5. \A u \in Trades : Listed(u) => Listed(u)'
  BY <1>1 DEF Listed
<1>6. CASE VenueTrigger(t, r)
  <2>1. /\ tp[t][r] = "live" /\ pos[t] > 0 /\ tp' = [tp EXCEPT ![t][r] = "triggered"]
        /\ trig' = [trig EXCEPT ![t] = pos[t]] /\ Reposition(t, 0) /\ UNCHANGED <<wire, answered>>
    BY <1>6 DEF VenueTrigger
  <2>2. /\ tp'[t][r] = "triggered"
        /\ \A s \in Roles \ {r} : tp'[t][s] = tp[t][s]
        /\ \A u \in Trades \ {t} : tp'[u] = tp[u]
    BY <1>2, <2>1, TpslWritten
  <2>3. /\ pos'[t] = 0 /\ (Prompt => shown'[t] = pos'[t])
        /\ \A u \in Trades \ {t} : pos'[u] = pos[u] /\ shown'[u] = shown[u] /\ trig'[u] = trig[u]
    BY <1>2, <2>1 DEF Reposition, Prompt
  <2>4. \A u \in Trades \ {t} : Kept(u)
    BY <1>1, <2>1, <2>2, <2>3 DEF Kept, trade
  <2>5. Ordered(t)'
    BY <1>1, <1>2, <2>1, <2>3 DEF Sound, Ordered, Listed
  <2>6. Opened(t)'
    BY <1>1, <1>2, <1>4 DEF Sound, Opened, trade, Unbought
  <2>7. Guarded(t)'
    BY <1>1, <1>2, <2>1, <2>2, <2>3, EffectNames DEF Sound, Guarded, Stopped, trade
  <2>8. Exited(t)'
    BY <1>1, <1>2, <2>1 DEF Sound, Exited, trade
  <2>9. Steady(t)
    BY <1>1, <1>5, <2>1, <2>2, EffectNames DEF Steady
  <2> QED
    BY <1>1, <2>1, <2>4, <2>5, <2>6, <2>7, <2>8, <2>9, VenueSound DEF Sound
<1>7. CASE VenueCreate(t, r) \/ VenueCancelTpsl(t, r)
  <2>1. UNCHANGED <<pos, shown, trig>>
    BY <1>7 DEF VenueCreate, VenueCancelTpsl
  <2>2. /\ answered' /\ eng.e = "cancel" => answered
        /\ \/ tp' = [tp EXCEPT ![t][r] = "live"] /\ <<t, r>> \in wire
           \/ /\ <<t, CancelOf(r)>> \in wire
              /\ tp[t][r] = "live" /\ tp' = [tp EXCEPT ![t][r] = "cancelled"]
           \/ tp' = tp
    BY <1>3, <1>7 DEF VenueCreate, VenueCancelTpsl, Answer, Refuse, Serve
  <2>3. /\ \A s \in Roles : tp'[t][s] = tp[t][s] \/ s = r
        /\ \/ tp'[t][r] = "live" /\ tp[t][r] = "none" /\ eff[t][r] = "PREPARED" /\ <<t, r>> \in wire
           \/ /\ tp'[t][r] = "cancelled" /\ tp[t][r] = "live" /\ <<t, CancelOf(r)>> \in wire
              /\ sends[t][CancelOf(r)] = 1
           \/ tp'[t][r] = tp[t][r]
        /\ \A u \in Trades \ {t} : tp'[u] = tp[u]
    <3>1. CASE tp' = [tp EXCEPT ![t][r] = "live"] /\ <<t, r>> \in wire
      BY <1>2, <1>3, <3>1, TpslWritten, OnWire
    <3>2. CASE /\ <<t, CancelOf(r)>> \in wire
               /\ tp[t][r] = "live" /\ tp' = [tp EXCEPT ![t][r] = "cancelled"]
      BY <1>2, <1>3, <3>2, TpslWritten, OnWire
    <3> QED
      BY <2>2, <3>1, <3>2
  <2>4. \A u \in Trades \ {t} : Kept(u)
    BY <1>1, <2>1, <2>3 DEF Kept, trade
  <2>5. Attributed(t) => Attributed(t)'
    <3>1. \A s \in Roles : tp'[t][s] = "triggered" <=> tp[t][s] = "triggered"
      BY <2>3
    <3>2. prot[t] \subseteq Roles
      BY <1>2 DEF TypeOK
    <3>3. Proven(t)' = Proven(t)
      BY <1>1, <3>1, <3>2 DEF Proven, trade
    <3> QED
      BY <1>1, <2>1, <3>3 DEF Attributed, FlatBy, trade
  <2>6. Ordered(t)'
    BY <1>1, <1>2, <2>1 DEF Sound, Ordered, Listed
  <2>7. Opened(t)'
    BY <1>1, <1>2, <1>4 DEF Sound, Opened, trade, Unbought
  <2>8. <<t, "stopX">> \notin wire /\ tp[t]["stop"] \in {"live", "triggered"} =>
          tp'[t]["stop"] = tp[t]["stop"]
    BY <2>3, EffectNames DEF CancelOf
  <2>9. Guarded(t)'
    <3>1. state[t] = "ACTIVE" => Stopped(t)'
      BY <1>1, <1>2, <2>8 DEF Sound, Guarded, Stopped, trade
    <3>2. Once /\ pos[t] > 0 => \A s \in Roles : tp'[t][s] \in {"none", "live"}
      BY <1>2, <2>3 DEF Sound, Guarded
    <3> QED
      BY <1>1, <1>2, <2>1, <3>1, <3>2 DEF Sound, Guarded, trade
  <2>10. \A s \in Roles : tp'[t][s] = "live" => tp[t][s] = "live" \/ <<t, s>> \in wire
    BY <2>3
  <2>11. Exited(t)'
    <3>1. \A s \in Roles : Gone(t, s) => Gone(t, s)'
      BY <1>1, <2>10 DEF Gone
    <3> QED
      BY <1>1, <1>2, <2>1, <2>5, <3>1 DEF Sound, Exited, trade
  <2>12. Steady(t)
    BY <1>1, <1>5, <2>1, <2>5, <2>8, <2>10 DEF Steady
  <2> QED
    BY <1>1, <2>2, <2>4, <2>6, <2>7, <2>9, <2>11, <2>12, VenueSound DEF Sound
<1> QED
  BY <1>6, <1>7

\* A close is filled, in part or in full, by at most the position.
LEMMA CloseSound ==
  ASSUME IInv, IInv', SInv, NEW t \in Trades, NEW e \in Closes, VenueClose(t, e)
  PROVE  SInv'
<1>1. /\ UNCHANGED <<trade, eff, closeQty, ripe, eng, ord, tp, trig, sends>>
      /\ <<t, e>> \in wire /\ wire' = wire \ {<<t, e>>}
      /\ answered' => eng.e = e
  BY DEF VenueClose, Answer, Serve, durable, journal
<1>2. /\ Sound(t) /\ pos \in [Trades -> 0..Q] /\ shown \in [Trades -> 0..Q]
      /\ clo \in [Trades -> -1..Q] /\ closeQty[t] \in Nat /\ pos[t] \in Nat
  BY QAssumption DEF SInv, Rows, IInv, TypeOK
<1>3. e \in Effects \ {"place", "cancel"}
  BY EffectNames
<1>4. state[t] \notin Unbought
  BY <1>1, <1>3, RowOfBought
<1>5. sends[t][e] = 1 /\ eff[t][e] = "PREPARED"
  BY <1>1, <1>3, OnWire
<1>6. PICK q \in 0..Lesser(closeQty[t], pos[t]) :
        Reposition(t, pos[t] - q) /\ clo' = [clo EXCEPT ![t] = q]
  BY DEF VenueClose
<1>7. q \in Nat /\ q <= pos[t]
  BY <1>2, <1>6 DEF Lesser
<1>8. /\ pos'[t] = pos[t] - q /\ (Prompt => shown'[t] = pos'[t])
      /\ \A u \in Trades \ {t} : pos'[u] = pos[u] /\ shown'[u] = shown[u] /\ clo'[u] = clo[u]
  BY <1>2, <1>6 DEF Reposition, Prompt
<1>9. \A u \in Trades \ {t} : Kept(u)
  BY <1>1, <1>8 DEF Kept, trade
<1>10. Ordered(t)'
  BY <1>1, <1>2, <1>8 DEF Sound, Ordered, Listed
<1>11. Opened(t)'
  BY <1>1, <1>2, <1>4 DEF Sound, Opened, trade, Unbought
<1>12. Guarded(t)'
  <2>1. pos'[t] > 0 => pos[t] > 0
    BY <1>2, <1>7, <1>8
  <2> QED
    BY <1>1, <1>2, <2>1 DEF Sound, Guarded, Stopped, trade
<1>13. Exited(t)'
  <2>1. ~(\A f \in Closes : sends'[t][f] = 0 \/ <<t, f>> \in wire')
    BY <1>1, <1>5
  <2>2. ~Attributed(t)
    BY <1>1 DEF Attributed
  <2> QED
    BY <1>1, <1>2, <2>1, <2>2 DEF Sound, Exited, trade
<1>14. Steady(t)
  <2>1. ~Attributed(t)
    BY <1>1 DEF Attributed
  <2>2. pos[t] = 0 => pos'[t] = 0
    BY <1>2, <1>7, <1>8
  <2>3. Listed(t) => Listed(t)'
    BY <1>1 DEF Listed
  <2> QED
    BY <1>1, <2>1, <2>2, <2>3 DEF Steady
<1>15. answered' => eng.e # "cancel"
  BY <1>1, <1>3
<1>16. wire' \subseteq wire
  BY <1>1
<1> QED
  BY <1>1, <1>9, <1>10, <1>11, <1>12, <1>13, <1>14, <1>15, <1>16, VenueSound DEF Sound

-----------------------------------------------------------------------------
(* The clock *)

\* The grace of an effect is over: the venue has listed the entry or ended it.
LEMMA GraceSound ==
  ASSUME IInv, IInv', SInv, NEW t \in Trades, NEW e \in Effects, Grace(t, e)
  PROVE  SInv'
<1>1. /\ eng = Idle /\ eng' = eng /\ ripe' = ripe \cup {<<t, e>>} /\ Quiet(t, e)
      /\ UNCHANGED <<trade, eff, closeQty, market, ord, wire, sends>>
  BY DEF Grace, venue, market
<1>2. Control' /\ Entering' /\ Guarding' /\ Leaving'
  BY <1>1, EndRested DEF SInv, IInv, TypeOK
<1>3. \A u \in Trades \ {t} : Kept(u)
  BY <1>1 DEF Kept, trade, market
<1>4. e # "place" => Kept(t)
  BY <1>1 DEF Kept, trade, market
<1>5. CASE e = "place"
  <2>1. Sound(t) /\ ord[t].at # "gone"
    BY <1>1, <1>5 DEF SInv, Rows, Quiet
  <2>2. Ordered(t)'
    BY <1>1, <2>1 DEF Sound, Ordered, Listed, market
  <2>3. Opened(t)'
    BY <1>1, <2>1 DEF Sound, Opened, Untouched, Dead, trade, market
  <2>4. Guarded(t)'
    BY <1>1, <2>1 DEF Sound, Guarded, Stopped, trade, market
  <2>5. Exited(t)'
    BY <1>1, <2>1 DEF Sound, Exited, Gone, Attributed, FlatBy, Proven, trade, market
  <2> QED
    BY <1>2, <1>3, <2>2, <2>3, <2>4, <2>5, OneRow DEF SInv, Sound
<1>6. CASE e # "place"
  BY <1>2, <1>3, <1>4, <1>6, OneRow, KeptSound DEF SInv, Rows
<1> QED
  BY <1>5, <1>6

-----------------------------------------------------------------------------
(* The invariant *)

LEMMA OutsideSound ==
  ASSUME IInv, IInv', SInv, Serving \/ Market \/ Clock \/ Faulty
  PROVE  SInv'
<1>1. CASE Serving
  BY <1>1, OrderServed, TpslSound DEF Serving
<1>2. CASE Market
  BY <1>2, FilledSound, TpslSound DEF Market
<1>3. CASE Clock
  <2>1. ASSUME NEW t \in Trades, Expire(t) \/ TimeOut(t) PROVE SInv'
    BY <2>1, StoppedSound DEF Expire, TimeOut, durable, venue
  <2> QED
    BY <1>3, <2>1, GraceSound DEF Clock
<1>4. CASE Faulty
  BY <1>4, RaiseSound, CrashSound, RefusedSound, CloseSound DEF Faulty
<1> QED
  BY <1>1, <1>2, <1>3, <1>4

\* Every step keeps the invariant.
LEMMA SInvStep == IInv /\ IInv' /\ SInv /\ [Next]_vars => SInv'
<1>1. SUFFICES ASSUME IInv, IInv', SInv, [Next]_vars PROVE SInv'
  OBVIOUS
<1>2. CASE Start
  BY <1>1, <1>2, StartSound
<1>3. CASE Work
  BY <1>1, <1>3, WorkSound
<1>4. CASE Serving \/ Market \/ Clock \/ Faulty
  BY <1>1, <1>4, OutsideSound
<1>5. CASE UNCHANGED vars
  BY <1>1, <1>5, StoppedSound DEF vars, durable, venue
<1> QED
  BY <1>1, <1>2, <1>3, <1>4, <1>5 DEF Next

LEMMA InitSInv == Init => SInv
<1>1. SUFFICES ASSUME Init PROVE SInv
  OBVIOUS
<1>2. eng = Idle /\ answered = FALSE /\ wire = {} /\ ripe = {}
  BY <1>1 DEF Init
<1>3. /\ eng.pc = "idle" /\ eng.flag = FALSE /\ eng.todoE = {} /\ Stage = "idle" /\ ~Calling
      /\ eng.e = "place" /\ \A r \in Roles : eng.snap[r] = "none"
  BY <1>2, IdleEngine DEF Stage, Calling, NoSnap
<1>4. Control /\ Entering /\ Guarding /\ Leaving
  BY <1>2, <1>3 DEF Control, Sought, Staged, Entering, Guarding, Leaving, Cleaning
<1>5. ASSUME NEW t \in Trades PROVE Sound(t)
  <2>1. /\ state[t] = "none" /\ filled[t] = 0 /\ pos[t] = 0 /\ shown[t] = 0 /\ clo[t] = -1
        /\ ord[t].at = "none" /\ ord[t].alive = FALSE /\ ord[t].filled = 0
        /\ \A e \in Effects : eff[t][e] = "none" /\ sends[t][e] = 0
        /\ \A r \in Roles : tp[t][r] = "none"
    BY <1>1 DEF Init
  <2>2. Ordered(t)
    BY <1>2, <2>1 DEF Ordered
  <2>3. Opened(t)
    BY <1>2, <2>1, EffectNames DEF Opened, Untouched, Unbought
  <2>4. Guarded(t)
    BY <2>1 DEF Guarded
  <2>5. Exited(t)
    BY <2>1, EffectNames DEF Exited, Exiting
  <2> QED
    BY <2>2, <2>3, <2>4, <2>5 DEF Sound
<1> QED
  BY <1>4, <1>5 DEF SInv, Rows

\* The invariant holds of the engine, for every value of the constants.
LEMMA SafetyInductive == Spec => [](IInv /\ SInv)
<1>1. Init => SInv
  BY InitSInv
<1>2. IInv /\ IInv' /\ SInv /\ [Next]_vars => SInv'
  BY SInvStep
<1>3. Spec => []IInv
  BY Inductive
<1> QED
  BY <1>1, <1>2, <1>3, PTL DEF Spec

\* While a remainder may still fill, and while the projections lag, the stop of
\* an ACTIVE trade outlives its position unless a protection triggered: _protect
\* verified it before ACTIVE, and only an exit cancels it.
THEOREM StopOutlives == Spec => []StopOutlivesEntry
<1>1. IInv /\ SInv => StopOutlivesEntry
  BY DEF SInv, Rows, Sound, Guarded, Stopped, Proven, StopOutlivesEntry
<1> QED
  BY <1>1, SafetyInductive, PTL

\* Where the position is shown at once, a CANCELLED trade bought nothing: each
\* path that cancels one (expired on delivery, never prepared, dead in the
\* response, dead in the history, absent and flat) has proved the entry dead.
THEOREM CancelledIsUnbought == ASSUME Prompt PROVE Spec => []CancelledBoughtNothing
<1>1. IInv /\ SInv => CancelledBoughtNothing
  BY DEF SInv, Rows, Sound, Opened, Dead, CancelledBoughtNothing
<1> QED
  BY <1>1, SafetyInductive, PTL

\* A trade that is not engaged has nothing at the venue.
LEMMA NoRow ==
  ASSUME IInv, NEW t \in Trades, NEW e \in Effects, eff[t][e] = "none"
  PROVE  sends[t][e] = 0 /\ <<t, e>> \notin wire /\ (e \in Roles => tp[t][e] = "none")
<1>1. sends[t][e] = 0
  BY DEF IInv, Journaled
<1> QED
  BY <1>1 DEF IInv, Journaled

\* A trade that has not begun, or has ended, has no money at risk.
LEMMA RiskIsOwned ==
  ASSUME Once, IInv, SInv, NEW t \in Trades, ~Owned(t)
  PROVE  ~AtRisk(t) /\ \A r \in Roles : Gone(t, r)
<1>1. Ordered(t) /\ Opened(t) /\ Exited(t) /\ Prompt
  BY DEF SInv, Rows, Sound, Once
<1>2. CASE state[t] \in {"none", "CANCELLED"}
  <2>1. Untouched(t)
    BY <1>1, <1>2 DEF Opened, Unbought
  <2>2. \A r \in Roles : Gone(t, r)
    BY <2>1, NoRow, EffectNames DEF Untouched, Gone
  <2>3. <<t, "place">> \notin wire
    BY <1>1, <1>2, NoRow, EffectNames DEF Opened
  <2>4. ~ord[t].alive /\ ord[t].filled = 0
    <3>1. CASE state[t] = "CANCELLED"
      BY <1>1, <3>1 DEF Opened, Dead
    <3>2. CASE state[t] = "none"
      BY <1>1, <3>2, NoRow, EffectNames DEF Opened, Ordered
    <3> QED
      BY <1>2, <3>1, <3>2
  <2> QED
    BY <2>1, <2>2, <2>3, <2>4 DEF AtRisk, Untouched
<1>3. CASE state[t] = "FLAT"
  <2>1. pos[t] = 0 /\ \A r \in Roles : Gone(t, r)
    BY <1>1, <1>3 DEF Exited
  <2>2. filled[t] > 0 /\ filled[t] <= ord[t].filled /\ filled[t] \in Nat /\ ord[t].filled \in Nat
    <3>1. filled[t] > 0
      BY <1>1, <1>3 DEF Opened, Unbought
    <3>2. filled[t] \in 0..Q /\ ord[t] \in Order /\ filled[t] <= ord[t].filled
      BY DEF IInv, Bought, TypeOK
    <3> QED
      BY <3>1, <3>2, QAssumption DEF Order
  <2>3. ord[t].filled # 0
    BY <2>2
  <2>4. ~ord[t].alive /\ <<t, "place">> \notin wire
    BY <1>1, <2>3 DEF Ordered
  <2> QED
    BY <2>1, <2>4 DEF AtRisk
<1> QED
  BY <1>2, <1>3 DEF Owned, Terminal

\* The same, of the state after a step that ends a trade.
LEMMA RiskIsOwnedNext ==
  ASSUME Once, NEW t \in Trades
  PROVE  IInv' /\ SInv' /\ state'[t] \in Terminal => ~AtRisk(t)'
<1>1. IInv /\ SInv /\ state[t] \in Terminal => ~AtRisk(t)
  BY RiskIsOwned DEF Owned
<1>2. (IInv /\ SInv /\ state[t] \in Terminal => ~AtRisk(t))'
  BY <1>1, PTL
<1> QED
  BY <1>2

\* A trade that ended left nothing at the venue, no request, order, position or
\* protection, whichever path ended it: EntryDead, RecoverGap, ReconcileDead, or
\* _cancel_remaining_protection and mark FLAT.
THEOREM EndedIsClean == ASSUME Once PROVE Spec => []TerminalIsClean
<1>1. IInv /\ SInv => TerminalIsClean
  BY RiskIsOwned DEF TerminalIsClean, Gone, Owned
<1> QED
  BY <1>1, SafetyInductive, PTL

\* An ACTIVE trade never holds a position without its live stop: _protect goes
\* on to ACTIVE with the stop verified, and only the exit of a flat position
\* cancels it.
THEOREM ActiveStops == ASSUME Once PROVE Spec => []ActiveIsProtected
<1>1. IInv /\ SInv => ActiveIsProtected
  BY EffectNames DEF SInv, Rows, Sound, Guarded, Stopped, ActiveIsProtected
<1> QED
  BY <1>1, SafetyInductive, PTL

\* A FLAT trade names the exit that closed it (_classify_flat_exit,
\* _assert_manual_close_won), and no later answer of the venue unsays it.
THEOREM ExitsAreAttributed == ASSUME Once PROVE Spec => []ExitIsAttributed
<1>1. ASSUME IInv, SInv, NEW t \in Trades, state[t] = "FLAT"
      PROVE  CASE exit[t] \in Roles        -> FlatBy(t, exit[t]) /\ clo[t] = -1
               [] eff[t][exit[t]] = "none" -> exit[t] = "emergency" /\ clo[t] = -1
               [] OTHER -> clo[t] = closeQty[t] /\ Proven(t) = {}
  <2>1. exit[t] \in Roles \cup Closes /\ Attributed(t)
    BY <1>1 DEF SInv, Rows, Sound, Exited
  <2>2. CASE exit[t] \in Roles
    <3>1. FlatBy(t, exit[t]) /\ clo[t] = -1
      BY <2>1, <2>2 DEF Attributed
    <3>2. tp[t][exit[t]] = "triggered"
      BY <3>1 DEF FlatBy, Proven
    <3>3. eff[t][exit[t]] # "none"
      BY <1>1, <2>2, <3>2, NoRow, EffectNames
    <3> QED
      BY <2>2, <3>1, <3>3
  <2>3. CASE exit[t] \in Closes
    <3>1. exit[t] \notin Roles
      BY <2>3, EffectNames
    <3>2. CASE eff[t][exit[t]] = "none"
      BY <2>1, <2>3, <3>1, <3>2 DEF Attributed
    <3>3. CASE eff[t][exit[t]] # "none"
      BY <2>1, <2>3, <3>1, <3>3 DEF Attributed
    <3> QED
      BY <3>2, <3>3
  <2> QED
    BY <2>1, <2>2, <2>3
<1>2. IInv /\ SInv => ExitIsAttributed
  BY <1>1 DEF ExitIsAttributed
<1> QED
  BY <1>2, SafetyInductive, PTL

-----------------------------------------------------------------------------
(* One trade at a time, and the documented lifecycle *)

SameRisk == \A t \in Trades :
  /\ AtRisk(t)' <=> AtRisk(t)
  /\ sends'[t]["place"] = sends[t]["place"]

\* The risk of one trade may end; the durable state stays.
RiskMayEnd == \E t \in Trades :
  /\ AtRisk(t)' => AtRisk(t)
  /\ \A u \in Trades \ {t} : AtRisk(u)' <=> AtRisk(u)
  /\ UNCHANGED <<trade, sends>>

LEMMA VenueRisk ==
  ASSUME IInv, NEW t \in Trades, UNCHANGED <<trade, sends>>,
         \A u \in Trades \ {t} : /\ ord'[u] = ord[u] /\ pos'[u] = pos[u]
                                 /\ <<u, "place">> \in wire' <=> <<u, "place">> \in wire,
         AtRisk(t)' => AtRisk(t)
  PROVE  RiskMayEnd
  BY DEF RiskMayEnd, AtRisk

LEMMA StillRisk ==
  ASSUME UNCHANGED <<ord, pos, wire, sends>>
  PROVE  SameRisk
  BY DEF SameRisk, AtRisk

\* Money comes to risk by the entry request alone.
LEMMA RiskMoves ==
  ASSUME IInv, [Next]_vars
  PROVE  SameRisk \/ RiskMayEnd \/ (SendEffect /\ eng.e = "place")
<1> USE DEF market, venue
<1>1. /\ ord \in [Trades -> Order] /\ pos \in [Trades -> 0..Q] /\ wire \subseteq Trades \X Effects
      /\ eng \in Engine /\ sends \in [Trades -> [Effects -> Nat]]
  BY DEF IInv, TypeOK
<1>2. CASE Start
  BY <1>2, StillRisk DEF Start, DeliverNew, DeliverReceived, Redeliver, BeginReconcile,
     BeginRecovery, BlockEntries
<1>3. CASE Effect
  <2>1. CASE PrepareEffect \/ ReplayEffect
    BY <2>1, StillRisk DEF PrepareEffect, ReplayEffect
  <2>2. CASE AckEffect
    BY <2>2, StillRisk DEF AckEffect, HangUp
  <2>3. CASE SendEffect /\ eng.e # "place"
    <3>1. eng.t \in Trades /\ eng.e \in Effects
      BY <1>1, <2>3 DEF SendEffect, At, IInv, Grounded, Working, Engine
    <3>2. UNCHANGED <<ord, pos>> /\ wire' = wire \cup {<<eng.t, eng.e>>}
      BY <2>3 DEF SendEffect
    <3>3. sends' = [sends EXCEPT ![eng.t][eng.e] = @ + 1]
      BY <2>3 DEF SendEffect
    <3>4. \A t \in Trades : sends'[t]["place"] = sends[t]["place"]
      BY <1>1, <2>3, <3>1, <3>3, EffectNames
    <3>5. \A t \in Trades : <<t, "place">> \in wire' <=> <<t, "place">> \in wire
      BY <2>3, <3>2
    <3> QED
      BY <3>2, <3>4, <3>5 DEF SameRisk, AtRisk
  <2> QED
    BY <1>3, <2>1, <2>2, <2>3 DEF Effect
<1>4. CASE Handle
  BY <1>4, StillRisk DEF Handle, Received, AdmitEntry, AckEntry, Settle, Settled, FirstFill,
     EntryDead, Ambiguous, AmbiguousExposure, HangUp
<1>5. CASE Protect \/ Close \/ Cleanup
  BY <1>5, StillRisk DEF Protect, RecordProtection, VerifyProtection, Activate, Close,
     CancelRemainder, MeasurePosition, TriggerEmergency, CloseFailed, ClosedFlat, FinishExit,
     Cleanup, BeginCleanup, AdoptProtection, SkipProtection, CancelProtection,
     ProtectionCancelled, Flatten
<1>6. CASE Loop \/ Reconcile
  BY <1>6, StillRisk DEF Loop, PickEffect, ResolveEffect, PickTrade, PassDone, RecoveryDone,
     Reconcile, RecoverGap, ReconcileFirstFill, RecordFill, CancelExpiredEntry, ReconcileDead,
     MarkReconciled, ReconcileProtecting, VenueExit, TimeoutClose, ResumeExit
<1>7. CASE Clock \/ UNCHANGED vars
  BY <1>7, StillRisk DEF Clock, Expire, TimeOut, Grace, vars
<1>8. CASE Raise \/ \E p \in Procs : Crash(p) \/ AccountSnapshot(p)
  BY <1>8, StillRisk DEF Raise, Crash, AccountSnapshot, HangUp
<1>9. ASSUME NEW t \in Trades,
             VenuePlace(t) \/ VenueFill(t) \/ VenueDie(t) \/ VenueProject(t) \/ VenueCancel(t)
      PROVE  RiskMayEnd
  <2>1. /\ UNCHANGED <<trade, sends>>
        /\ \A u \in Trades \ {t} : <<u, "place">> \in wire' <=> <<u, "place">> \in wire
    BY <1>9 DEF VenuePlace, VenueFill, VenueDie, VenueProject, VenueCancel, Answer, Refuse, Serve,
       durable
  <2>2. \A u \in Trades \ {t} : ord'[u] = ord[u] /\ pos'[u] = pos[u]
    BY <1>1, <1>9 DEF VenuePlace, VenueFill, VenueDie, VenueProject, VenueCancel, Reposition
  <2>3. AtRisk(t)' => AtRisk(t)
    <3>1. CASE VenuePlace(t)
      BY <3>1 DEF VenuePlace, Answer, Serve, AtRisk
    <3>2. CASE VenueFill(t)
      BY <3>2 DEF VenueFill, AtRisk
    <3>3. CASE VenueDie(t)
      BY <3>3 DEF VenueDie, AtRisk
    <3>4. CASE VenueCancel(t)
      <4>1. wire' \subseteq wire /\ UNCHANGED pos
        BY <3>4 DEF VenueCancel, Answer, Refuse, Serve
      <4>2. ord[t].alive \/ ord' = ord
        BY <3>4 DEF VenueCancel
      <4> QED
        BY <4>1, <4>2 DEF AtRisk
    <3>5. CASE VenueProject(t)
      <4>1. UNCHANGED <<wire, pos>> /\ ord[t] \in Order
        BY <1>1, <3>5 DEF VenueProject
      <4>2. ord'[t].alive = ord[t].alive
        BY <1>1, <3>5, <4>1 DEF VenueProject, Order
      <4> QED
        BY <4>1, <4>2 DEF AtRisk
    <3> QED
      BY <1>9, <3>1, <3>2, <3>3, <3>4, <3>5
  <2> QED
    BY <2>1, <2>2, <2>3, VenueRisk
<1>10. ASSUME NEW t \in Trades, NEW r \in Roles,
              VenueCreate(t, r) \/ VenueCancelTpsl(t, r) \/ VenueTrigger(t, r)
       PROVE  RiskMayEnd
  <2>1. /\ UNCHANGED <<trade, sends, ord>> /\ wire' \subseteq wire
        /\ \A u \in Trades : <<u, "place">> \in wire' <=> <<u, "place">> \in wire
    BY <1>10, EffectNames DEF VenueCreate, VenueCancelTpsl, VenueTrigger, Answer, Refuse, Serve, durable
  <2>2. \/ UNCHANGED pos
        \/ pos' = [pos EXCEPT ![t] = 0]
    BY <1>10 DEF VenueCreate, VenueCancelTpsl, VenueTrigger, Reposition
  <2>3. /\ \A u \in Trades \ {t} : pos'[u] = pos[u]
        /\ pos'[t] > 0 => pos[t] > 0
    BY <1>1, <2>2
  <2> QED
    BY <2>1, <2>3, VenueRisk DEF AtRisk
<1>11. ASSUME NEW t \in Trades, NEW e \in Effects, VenueRefuse(t, e)
       PROVE  RiskMayEnd
  <2>1. /\ UNCHANGED <<trade, sends, ord, pos>> /\ wire' = wire \ {<<t, e>>}
    BY <1>11 DEF VenueRefuse, Refuse, Serve, durable
  <2> QED
    BY <2>1, VenueRisk DEF AtRisk
<1>12. ASSUME NEW t \in Trades, NEW e \in Closes, VenueClose(t, e)
       PROVE  RiskMayEnd
  <2>1. /\ UNCHANGED <<trade, sends, ord>> /\ wire' \subseteq wire
        /\ \A u \in Trades : <<u, "place">> \in wire' <=> <<u, "place">> \in wire
    BY <1>12, EffectNames DEF VenueClose, Answer, Serve, durable
  <2>2. PICK q \in 0..Lesser(closeQty[t], pos[t]) : Reposition(t, pos[t] - q)
    BY <1>12 DEF VenueClose
  <2>3. closeQty[t] \in Nat /\ pos[t] \in Nat
    BY QAssumption DEF IInv, TypeOK
  <2>4. q \in Nat /\ q <= pos[t]
    BY <2>2, <2>3 DEF Lesser
  <2>5. pos'[t] = pos[t] - q /\ \A u \in Trades \ {t} : pos'[u] = pos[u]
    BY <1>1, <2>2 DEF Reposition
  <2>6. pos'[t] > 0 => pos[t] > 0
    BY <2>3, <2>4, <2>5
  <2> QED
    BY <2>1, <2>5, <2>6, VenueRisk DEF AtRisk
<1> QED
  BY <1>2, <1>3, <1>4, <1>5, <1>6, <1>7, <1>8, <1>9, <1>10, <1>11, <1>12
     DEF Next, Work, Serving, Market, Faulty

\* The entry is sent while no other trade has money at risk.
LEMMA EntrySent ==
  ASSUME Once, IInv, SInv, SendEffect, eng.e = "place", NEW t \in Trades, t = eng.t
  PROVE  /\ state[t] = "ENTRY_PENDING" /\ sends[t]["place"] = 0
         /\ \A u \in Trades \ {t} : ~Owned(u) /\ ~AtRisk(u) /\ ~AtRisk(u)'
         /\ AtRisk(t)' /\ UNCHANGED trade
         /\ sends'[t]["place"] = 1
         /\ \A u \in Trades \ {t} : sends'[u]["place"] = sends[u]["place"]
<1>1. /\ At("send") /\ Admissible(t) /\ wire' = wire \cup {<<t, "place">>}
      /\ sends' = [sends EXCEPT ![t]["place"] = @ + 1] /\ UNCHANGED <<trade, ord, pos>>
  BY DEF SendEffect, durable, market
<1>2. state[t] = "ENTRY_PENDING"
  BY <1>1, CallOf DEF At, Calling, CallShape, SInv
<1>3. sends[t]["place"] = 0
  BY <1>1 DEF At, IInv, InFlight
<1>4. \A u \in Trades \ {t} : ~Owned(u)
  BY <1>1 DEF Admissible
<1>5. \A u \in Trades \ {t} : ~AtRisk(u)
  BY <1>4, RiskIsOwned
<1>6. \A u \in Trades \ {t} : ~AtRisk(u)'
  BY <1>1, <1>5 DEF AtRisk
<1>7. AtRisk(t)'
  BY <1>1 DEF AtRisk
<1>8. sends \in [Trades -> [Effects -> Nat]] /\ "place" \in Effects
  BY EffectNames DEF IInv, TypeOK
<1>9. sends'[t]["place"] = 1 /\ \A u \in Trades \ {t} : sends'[u]["place"] = sends[u]["place"]
  BY <1>1, <1>3, <1>8
<1> QED
  BY <1>1, <1>2, <1>3, <1>4, <1>5, <1>6, <1>7, <1>9

\* The account is in one trade at a time, across processes and restarts: an
\* entry is sent only while _assert_entry_admission finds no other trade owned,
\* and a trade that is not owned any more has nothing at risk.
THEOREM OneExposure == ASSUME Once PROVE Spec => []SingleExposure
<1>1. Init => SingleExposure
  BY DEF Init, SingleExposure, AtRisk
<1>2. IInv /\ SInv /\ SingleExposure /\ [Next]_vars => SingleExposure'
  <2>1. SUFFICES ASSUME IInv, SInv, SingleExposure, [Next]_vars PROVE SingleExposure'
    OBVIOUS
  <2>2. CASE SameRisk \/ RiskMayEnd
    <3>1. \A t \in Trades : AtRisk(t)' => AtRisk(t)
      BY <2>2 DEF SameRisk, RiskMayEnd
    <3> QED
      BY <2>1, <3>1 DEF SingleExposure
  <2>3. CASE SendEffect /\ eng.e = "place"
    <3>1. PICK t \in Trades : t = eng.t
      BY <2>1, <2>3 DEF SendEffect, At, IInv, Grounded, Working
    <3>2. \A u \in Trades \ {t} : ~AtRisk(u)'
      BY <2>1, <2>3, <3>1, EntrySent
    <3> QED
      BY <3>2 DEF SingleExposure
  <2> QED
    BY <2>1, <2>2, <2>3, RiskMoves
<1> QED
  BY <1>1, <1>2, SafetyInductive, PTL DEF Spec

LifecycleStep == [Lifecycle!Next]_(Lifecycle!vars)

LEMMA LifecycleNames ==
  /\ Lifecycle!Reasons = Roles \cup Closes /\ Lifecycle!Ended = Terminal
  /\ Lifecycle!Leaving = Exiting
  /\ \A r \in Roles \cup Closes : Lifecycle!StateOf(r) = ExitingOf(r)
<1>1. /\ Lifecycle!StateOf("stop") = "EXITING_STOP" /\ Lifecycle!StateOf("target") = "EXITING_TARGET"
      /\ Lifecycle!StateOf("timeout") = "EXITING_TIMEOUT"
      /\ Lifecycle!StateOf("emergency") = "EXITING_EMERGENCY"
  BY DEF Lifecycle!StateOf
<1>2. \A r \in Roles \cup Closes : Lifecycle!StateOf(r) = ExitingOf(r)
  BY <1>1, ExitNames, EffectNames
<1> QED
  BY <1>2, EffectNames DEF Lifecycle!Reasons, Lifecycle!Ended, Terminal, Lifecycle!Leaving, Exiting

\* A step that neither engages nor changes the risk leaves both sets alone.
LEMMA SameSets ==
  ASSUME SameRisk
  PROVE  /\ {t \in Trades : sends'[t]["place"] > 0} = {t \in Trades : sends[t]["place"] > 0}
         /\ {t \in Trades : AtRisk(t)'} = {t \in Trades : AtRisk(t)}
  BY DEF SameRisk

LEMMA LifecycleStutter ==
  ASSUME SameRisk, UNCHANGED <<state, filled, exit>>
  PROVE  LifecycleStep
  BY SameSets DEF LifecycleStep, Lifecycle!vars

LEMMA LifecycleAdvance ==
  ASSUME SameRisk, NEW t \in Trades, NEW s, state[t] # s, Move(t, s), UNCHANGED <<filled, exit>>
  PROVE  Lifecycle!Advance(t, state[t], s)
  BY SameSets DEF Lifecycle!Advance, Move

\* What was bought was engaged.
LEMMA BoughtIsEngaged ==
  ASSUME IInv, NEW t \in Trades, ord[t].filled > 0
  PROVE  sends[t]["place"] > 0 /\ <<t, "place">> \notin wire
<1>1. ord[t].filled # 0 /\ sends[t]["place"] \in Nat
  <2>1. ord[t] \in Order /\ sends[t] \in [Effects -> Nat]
    BY DEF IInv, TypeOK
  <2> QED
    BY <2>1, EffectNames, QAssumption DEF Order
<1> QED
  BY <1>1 DEF IInv, Bought

LEMMA LifecycleFill ==
  ASSUME IInv, SameRisk, NEW t \in Trades, NEW q \in 1..Q, q > filled[t], ord[t].filled > 0,
         \/ state[t] = "ENTRY_PENDING" /\ Move(t, "PROTECTING")
         \/ state[t] \in {"PROTECTING", "ACTIVE"} /\ UNCHANGED state,
         filled' = [filled EXCEPT ![t] = q], UNCHANGED exit
  PROVE  LifecycleStep
<1>1. sends[t]["place"] > 0
  BY BoughtIsEngaged
<1>2. Lifecycle!Fill(t, q)
  BY <1>1, SameSets DEF Lifecycle!Fill, Move
<1> QED
  BY <1>2 DEF LifecycleStep, Lifecycle!Next

LEMMA LifecycleLeave ==
  ASSUME SameRisk, NEW t \in Trades, NEW r \in Roles \cup Closes,
         r = "timeout" => state[t] = "ACTIVE", r = "emergency" => state[t] = "PROTECTING",
         state[t] \in {"PROTECTING", "ACTIVE"},
         Move(t, ExitingOf(r)), exit' = [exit EXCEPT ![t] = r], UNCHANGED filled
  PROVE  LifecycleStep
<1>1. Lifecycle!StateOf(r) = ExitingOf(r) /\ r \in Lifecycle!Reasons
  BY LifecycleNames
<1>2. (CASE r = "timeout" -> state[t] = "ACTIVE"
         [] r = "emergency" -> state[t] = "PROTECTING"
         [] OTHER -> state[t] \in {"PROTECTING", "ACTIVE"})
  <2>1. CASE r = "timeout"
    BY <2>1
  <2>2. CASE r = "emergency"
    BY <2>2
  <2>3. CASE r # "timeout" /\ r # "emergency"
    BY <2>3
  <2> QED
    BY <2>1, <2>2, <2>3
<1>3. Lifecycle!Leave(t, r)
  BY <1>1, <1>2, SameSets DEF Lifecycle!Leave, Move
<1> QED
  BY <1>1, <1>3 DEF LifecycleStep, Lifecycle!Next

\* The invariant after the step tells that a trade which ends has no risk.
LEMMA LifecycleCancel ==
  ASSUME Once, IInv, IInv', SInv, SInv', SameRisk, NEW t \in Trades,
         state[t] \in {"RECEIVED", "ENTRY_PENDING"}, Move(t, "CANCELLED"), UNCHANGED <<filled, exit>>
  PROVE  LifecycleStep
<1>1. filled[t] = 0
  BY DEF SInv, Rows, Sound, Opened, Unbought, Untouched
<1>2. state'[t] = "CANCELLED"
  BY DEF Move, IInv, TypeOK
<1>3. ~AtRisk(t)'
  BY <1>2, RiskIsOwnedNext DEF Terminal
<1>4. ~AtRisk(t)
  BY <1>3 DEF SameRisk
<1>5. Lifecycle!Advance(t, state[t], "CANCELLED")
  BY LifecycleAdvance
<1>6. Lifecycle!Cancel(t)
  BY <1>1, <1>4, <1>5 DEF Lifecycle!Cancel
<1> QED
  BY <1>6 DEF LifecycleStep, Lifecycle!Next

LEMMA LifecycleFlatten ==
  ASSUME Once, IInv, IInv', SInv, SInv', SameRisk, NEW t \in Trades,
         state[t] \in Exiting, Move(t, "FLAT"), UNCHANGED <<filled, exit>>
  PROVE  LifecycleStep
<1>1. state'[t] = "FLAT"
  BY DEF Move, IInv, TypeOK
<1>2. ~AtRisk(t)
  BY <1>1, RiskIsOwnedNext DEF SameRisk, Terminal
<1>3. filled[t] > 0
  BY DEF SInv, Rows, Sound, Opened, Unbought, Exiting
<1>4. ord[t].filled > 0
  <2>1. filled[t] \in 0..Q /\ ord[t] \in Order /\ filled[t] <= ord[t].filled
    BY DEF IInv, TypeOK, Bought
  <2> QED
    BY <1>3, <2>1, QAssumption DEF Order
<1>5. sends[t]["place"] > 0
  BY <1>4, BoughtIsEngaged
<1>6. exit[t] \in Roles \cup Closes /\ state[t] = ExitingOf(exit[t])
  BY DEF SInv, Rows, Sound, Exited
<1>7. exit[t] \in Lifecycle!Reasons /\ Lifecycle!StateOf(exit[t]) = state[t]
  BY <1>6, LifecycleNames
<1>8. Lifecycle!Advance(t, state[t], "FLAT")
  BY LifecycleAdvance DEF Exiting
<1>9. Lifecycle!Flatten(t)
  BY <1>2, <1>3, <1>5, <1>7, <1>8 DEF Lifecycle!Flatten
<1> QED
  BY <1>9 DEF LifecycleStep, Lifecycle!Next

\* The writes of the durable trade, one by one.
LEMMA LifecycleWrites ==
  ASSUME Once, IInv, IInv', SInv, SInv', SameRisk, Start \/ Work
  PROVE  LifecycleStep
<1> USE DEF durable, trade
<1>1. eng \in Engine /\ (Working => eng.t \in Trades) /\ Control /\ Entering /\ Rows
  BY DEF IInv, TypeOK, Grounded, SInv
<1>2. \A t \in Trades : /\ filled[t] \in 0..Q /\ shown[t] \in 0..Q /\ ord[t] \in Order
                        /\ shown[t] <= ord[t].filled
  BY DEF IInv, TypeOK, Bought
<1>3. ASSUME NEW t \in Trades, state[t] = "ENTRY_PENDING" PROVE filled[t] = 0
  BY <1>1, <1>3 DEF Rows, Sound, Opened, Unbought, Untouched
<1>4. ASSUME NEW t \in Trades, NEW q \in 0..Q, q > filled[t], q <= ord[t].filled,
             \/ state[t] = "ENTRY_PENDING" /\ Move(t, "PROTECTING")
             \/ state[t] \in {"PROTECTING", "ACTIVE"} /\ UNCHANGED state,
             filled' = [filled EXCEPT ![t] = q], UNCHANGED exit
      PROVE  LifecycleStep
  <2>1. q \in 1..Q /\ ord[t].filled > 0
    BY <1>2, <1>4, QAssumption DEF Order
  <2> QED
    BY <1>4, <2>1, LifecycleFill
<1>5. ASSUME Start PROVE LifecycleStep
  <2>1. ASSUME NEW p \in Procs, NEW t \in Trades, DeliverNew(p, t) PROVE LifecycleStep
    <3>1. Lifecycle!Advance(t, state[t], "RECEIVED")
      BY <2>1, LifecycleAdvance DEF DeliverNew
    <3>2. Lifecycle!Receive(t)
      BY <2>1, <3>1 DEF Lifecycle!Receive, DeliverNew
    <3> QED
      BY <3>2 DEF LifecycleStep, Lifecycle!Next
  <2>2. CASE UNCHANGED <<state, filled, exit>>
    BY <2>2, LifecycleStutter
  <2> QED
    BY <1>5, <2>1, <2>2 DEF Start, DeliverReceived, Redeliver, BeginReconcile, BeginRecovery,
       BlockEntries
<1>6. ASSUME UNCHANGED <<state, filled, exit>> PROVE LifecycleStep
  BY <1>6, LifecycleStutter
<1>7. ASSUME Received PROVE LifecycleStep
  <2>1. PICK t \in Trades : t = eng.t
    BY <1>1, <1>7 DEF Received, At, Working
  <2>2. state[t] = "RECEIVED" /\ UNCHANGED <<filled, exit>>
    BY <1>1, <1>7, <2>1 DEF Received, At, Control, Staged, Stage, Calling
  <2>3. CASE Move(t, "CANCELLED")
    BY <2>2, <2>3, LifecycleCancel
  <2>4. CASE Move(t, "ENTRY_PENDING")
    <3>1. Lifecycle!Advance(t, state[t], "ENTRY_PENDING")
      BY <2>2, <2>4, LifecycleAdvance
    <3>2. Lifecycle!Pend(t)
      BY <2>2, <3>1 DEF Lifecycle!Pend
    <3> QED
      BY <3>2 DEF LifecycleStep, Lifecycle!Next
  <2> QED
    BY <1>7, <2>1, <2>3, <2>4 DEF Received
<1>8. ASSUME FirstFill \/ EntryDead \/ AmbiguousExposure PROVE LifecycleStep
  <2>1. PICK t \in Trades : t = eng.t
    BY <1>1, <1>8 DEF FirstFill, EntryDead, AmbiguousExposure, At, Working
  <2>2. state[t] = "ENTRY_PENDING" /\ UNCHANGED exit
    BY <1>1, <1>8, <2>1 DEF FirstFill, EntryDead, AmbiguousExposure, At, Control, Staged, Stage, Calling
  <2>3. filled[t] = 0
    BY <1>3, <2>2
  <2>4. CASE FirstFill
    <3>1. eng.qty \in 0..Q /\ eng.qty > 0 /\ eng.qty <= ord[t].filled
      BY <1>1, <2>1, <2>4 DEF FirstFill, At, Engine, Entering, IInv, Filling
    <3>2. Move(t, "PROTECTING") /\ filled' = [filled EXCEPT ![t] = eng.qty]
      BY <2>1, <2>4 DEF FirstFill
    <3>3. PICK q \in 0..Q : q = eng.qty
      BY <3>1
    <3> QED
      BY <1>4, <2>2, <2>3, <3>1, <3>2, <3>3
  <2>5. CASE EntryDead
    BY <2>1, <2>2, <2>5, LifecycleCancel DEF EntryDead
  <2>6. CASE AmbiguousExposure
    <3>1. /\ shown[t] > 0 /\ Move(t, "PROTECTING") /\ filled' = [filled EXCEPT ![t] = shown[t]]
      BY <2>1, <2>6 DEF AmbiguousExposure
    <3> QED
      BY <1>2, <1>4, <2>2, <2>3, <3>1
  <2> QED
    BY <1>8, <2>4, <2>5, <2>6
<1>9. ASSUME Activate \/ TriggerEmergency PROVE LifecycleStep
  <2>1. PICK t \in Trades : t = eng.t
    BY <1>1, <1>9 DEF Activate, TriggerEmergency, At, Working
  <2>2. state[t] = "PROTECTING" /\ UNCHANGED filled
    BY <1>1, <1>9, <2>1 DEF Activate, TriggerEmergency, At, Control, Staged, Stage, Calling
  <2>3. CASE Activate
    <3>1. Move(t, "ACTIVE") /\ UNCHANGED exit
      BY <2>1, <2>3 DEF Activate
    <3>2. Lifecycle!Advance(t, state[t], "ACTIVE")
      BY <2>2, <3>1, LifecycleAdvance
    <3>3. Lifecycle!Activate(t)
      BY <2>2, <3>2 DEF Lifecycle!Activate
    <3> QED
      BY <3>3 DEF LifecycleStep, Lifecycle!Next
  <2>4. CASE TriggerEmergency
    <3>1. /\ Move(t, ExitingOf("emergency")) /\ exit' = [exit EXCEPT ![t] = "emergency"]
      BY <2>1, <2>4, ExitNames DEF TriggerEmergency
    <3> QED
      BY <2>2, <3>1, LifecycleLeave, EffectNames
  <2> QED
    BY <1>9, <2>3, <2>4
<1>10. ASSUME MeasurePosition PROVE LifecycleStep
  <2>1. PICK t \in Trades : t = eng.t
    BY <1>1, <1>10 DEF MeasurePosition, Working
  <2>2. UNCHANGED <<state, exit>> /\ state[t] \in {"PROTECTING"} \cup Closing
    BY <1>1, <1>10, <2>1 DEF MeasurePosition, Control, Staged, Stage, Calling
  <2>3. CASE state[t] = "PROTECTING" /\ shown[t] > filled[t]
    <3>1. filled' = [filled EXCEPT ![t] = shown[t]]
      BY <1>10, <2>1, <2>3 DEF MeasurePosition, Exiting
    <3> QED
      BY <1>2, <1>4, <2>2, <2>3, <3>1
  <2>4. CASE ~(state[t] = "PROTECTING" /\ shown[t] > filled[t])
    <3>1. filled' = [filled EXCEPT ![t] = filled[t]]
      BY <1>10, <2>1, <2>2, <2>4 DEF MeasurePosition, Exiting, Closing
    <3>2. filled' = filled
      BY <3>1 DEF IInv, TypeOK
    <3> QED
      BY <1>6, <2>2, <3>2
  <2> QED
    BY <2>3, <2>4
<1>11. ASSUME CloseFailed \/ Flatten PROVE LifecycleStep
  <2>1. PICK t \in Trades : t = eng.t
    BY <1>1, <1>11 DEF CloseFailed, Flatten, At, Working
  <2>2. state[t] \in Exiting /\ UNCHANGED <<filled, exit>>
    BY <1>1, <1>11, <2>1 DEF CloseFailed, Flatten, At, Control, Staged, Stage, Calling, Closing, Exiting
  <2>3. CASE Flatten
    BY <2>1, <2>2, <2>3, LifecycleFlatten DEF Flatten
  <2>4. CASE CloseFailed
    <3>1. Lifecycle!Advance(t, state[t], "FAILED_BLOCKED")
      BY <2>1, <2>2, <2>4, LifecycleAdvance DEF CloseFailed
    <3>2. Lifecycle!Block(t)
      BY <2>2, <3>1, LifecycleNames DEF Lifecycle!Block
    <3> QED
      BY <3>2 DEF LifecycleStep, Lifecycle!Next
  <2> QED
    BY <1>11, <2>3, <2>4
<1>12. ASSUME RecoverGap \/ ReconcileDead PROVE LifecycleStep
  <2>1. PICK t \in Trades : /\ state[t] \in {"RECEIVED", "ENTRY_PENDING"}
                            /\ Move(t, "CANCELLED") /\ UNCHANGED <<filled, exit>>
    BY <1>12 DEF RecoverGap, ReconcileDead, Unfilled, Reading
  <2> QED
    BY <2>1, LifecycleCancel
<1>13. ASSUME ReconcileFirstFill \/ RecordFill PROVE LifecycleStep
  <2>1. PICK t \in Trades :
          /\ \/ state[t] = "ENTRY_PENDING" /\ Move(t, "PROTECTING") /\ shown[t] > 0
             \/ state[t] \in {"PROTECTING", "ACTIVE"} /\ UNCHANGED state /\ shown[t] > filled[t]
          /\ filled' = [filled EXCEPT ![t] = shown[t]] /\ UNCHANGED exit
    BY <1>13 DEF ReconcileFirstFill, RecordFill, Reading
  <2>2. shown[t] > filled[t]
    BY <1>3, <2>1
  <2> QED
    BY <1>2, <1>4, <2>1, <2>2
<1>14. ASSUME VenueExit PROVE LifecycleStep
  <2>1. PICK t \in Trades, r \in Roles :
          /\ state[t] \in {"PROTECTING", "ACTIVE"}
          /\ Move(t, ExitingOf(r)) /\ exit' = [exit EXCEPT ![t] = r] /\ UNCHANGED filled
    BY <1>14 DEF VenueExit, ReadFlat, Reading
  <2>2. r # "timeout" /\ r # "emergency"
    BY EffectNames
  <2> QED
    BY <2>1, <2>2, LifecycleLeave
<1>15. ASSUME TimeoutClose PROVE LifecycleStep
  <2>1. PICK t \in Trades :
          /\ state[t] = "ACTIVE" /\ Move(t, ExitingOf("timeout"))
          /\ exit' = [exit EXCEPT ![t] = "timeout"] /\ UNCHANGED filled
    BY <1>15, ExitNames DEF TimeoutClose, StillActive, Reading
  <2> QED
    BY <2>1, LifecycleLeave, EffectNames
<1>16. CASE Effect \/ Loop
  BY <1>6, <1>16 DEF Effect, PrepareEffect, ReplayEffect, SendEffect, AckEffect, Loop, PickEffect,
     ResolveEffect, PickTrade, PassDone, RecoveryDone
<1>17. CASE Handle \/ Protect
  BY <1>6, <1>7, <1>8, <1>9, <1>17 DEF Handle, AdmitEntry, AckEntry, Settle, Settled, Ambiguous,
     Protect, RecordProtection, VerifyProtection
<1>18. CASE Close \/ Cleanup
  BY <1>6, <1>9, <1>10, <1>11, <1>18 DEF Close, CancelRemainder, ClosedFlat, FinishExit, Cleanup,
     BeginCleanup, AdoptProtection, SkipProtection, CancelProtection, ProtectionCancelled
<1>19. CASE Reconcile
  BY <1>6, <1>12, <1>13, <1>14, <1>15, <1>19 DEF Reconcile, CancelExpiredEntry, MarkReconciled,
     ReconcileProtecting, ResumeExit
<1> QED
  BY <1>5, <1>16, <1>17, <1>18, <1>19 DEF Work

LEMMA LifecycleNext ==
  ASSUME Once, IInv, IInv', SInv, SInv', [Next]_vars
  PROVE  LifecycleStep
<1>1. CASE RiskMayEnd
  <2>1. PICK t \in Trades : /\ AtRisk(t)' => AtRisk(t)
                            /\ \A u \in Trades \ {t} : AtRisk(u)' <=> AtRisk(u)
                            /\ UNCHANGED <<trade, sends>>
    BY <1>1 DEF RiskMayEnd
  <2>2. CASE AtRisk(t) => AtRisk(t)'
    <3>1. SameRisk
      BY <2>1, <2>2 DEF SameRisk
    <3> QED
      BY <2>1, <3>1, LifecycleStutter DEF trade
  <2>3. CASE AtRisk(t) /\ ~AtRisk(t)'
    <3>1. {u \in Trades : AtRisk(u)'} = {u \in Trades : AtRisk(u)} \ {t}
      BY <2>1, <2>3
    <3>2. Lifecycle!Release(t)
      BY <2>1, <3>1 DEF Lifecycle!Release, trade
    <3> QED
      BY <3>2 DEF LifecycleStep, Lifecycle!Next
  <2> QED
    BY <2>2, <2>3
<1>2. CASE SendEffect /\ eng.e = "place"
  <2>1. PICK t \in Trades : t = eng.t
    BY <1>2 DEF SendEffect, At, IInv, Grounded, Working
  <2>2. /\ state[t] = "ENTRY_PENDING" /\ sends[t]["place"] = 0
        /\ \A u \in Trades \ {t} : ~Owned(u) /\ ~AtRisk(u) /\ ~AtRisk(u)'
        /\ AtRisk(t)' /\ UNCHANGED trade
        /\ sends'[t]["place"] = 1
        /\ \A u \in Trades \ {t} : sends'[u]["place"] = sends[u]["place"]
    BY <1>2, <2>1, EntrySent
  <2>3. {u \in Trades : AtRisk(u)'} = {t}
    BY <2>2
  <2>4. {u \in Trades : sends'[u]["place"] > 0} = {u \in Trades : sends[u]["place"] > 0} \cup {t}
    BY <2>2
  <2>5. \A u \in Trades \ {t} : state[u] \in {"none"} \cup Lifecycle!Ended
    BY <2>2, LifecycleNames DEF Owned
  <2>6. Lifecycle!Engage(t)
    BY <2>2, <2>3, <2>4, <2>5 DEF Lifecycle!Engage, trade
  <2> QED
    BY <2>6 DEF LifecycleStep, Lifecycle!Next
<1>3. CASE SameRisk
  <2>1. CASE Start \/ Work
    BY <1>3, <2>1, LifecycleWrites
  <2>2. CASE UNCHANGED <<state, filled, exit>>
    BY <1>3, <2>2, LifecycleStutter
  <2>3. CASE Serving \/ Market
    BY <2>2, <2>3 DEF Serving, Market, VenuePlace, VenueProject, VenueCancel, VenueDie, VenueCreate,
       VenueCancelTpsl, VenueFill, VenueTrigger, durable, trade
  <2>4. CASE Clock \/ Faulty
    BY <2>2, <2>4 DEF Clock, Expire, TimeOut, Grace, Faulty, Raise, Crash, AccountSnapshot,
       VenueRefuse, VenueClose, durable, trade
  <2>5. CASE UNCHANGED vars
    BY <2>2, <2>5 DEF vars, durable, trade
  <2> QED
    BY <2>1, <2>3, <2>4, <2>5 DEF Next
<1> QED
  BY <1>1, <1>2, <1>3, RiskMoves

\* The engine, with its races, faults and recoveries, implements the documented
\* lifecycle joined to the money at risk: one engagement per trade, while no
\* other trade is owned, CANCELLED and FLAT only without risk, and the exits
\* from the states that may take them (PaperExecutionEngine and its repositories).
THEOREM EngineImplementsLifecycle == ASSUME Once PROVE Spec => Refinement
<1>1. Init => Lifecycle!Init
  BY DEF Init, Lifecycle!Init, AtRisk, Effects
<1>2. IInv /\ SInv /\ IInv' /\ SInv' /\ [Next]_vars => [Lifecycle!Next]_(Lifecycle!vars)
  BY LifecycleNext DEF LifecycleStep
<1> QED
  BY <1>1, <1>2, SafetyInductive, PTL DEF Spec, Refinement, Lifecycle!Spec

-----------------------------------------------------------------------------
(* What the promised lifecycle guarantees by itself *)

\* The variables of the lifecycle keep their types, for any set of trades and
\* any approved quantity.
THEOREM LifecycleTypeOK == ASSUME Q \in Nat PROVE Lifecycle!Spec => []Lifecycle!TypeOK
<1>1. Lifecycle!Init => Lifecycle!TypeOK
  BY DEF Lifecycle!Init, Lifecycle!TypeOK, Lifecycle!States
<1>2. Lifecycle!TypeOK /\ [Lifecycle!Next]_(Lifecycle!vars) => Lifecycle!TypeOK'
  <2> SUFFICES ASSUME Lifecycle!TypeOK, [Lifecycle!Next]_(Lifecycle!vars)
               PROVE  Lifecycle!TypeOK'
    OBVIOUS
  <2> USE DEF Lifecycle!TypeOK, Lifecycle!States, Lifecycle!Leaving, Lifecycle!Ended,
              Lifecycle!Reasons
  <2>1. ASSUME NEW t \in Trades, \/ Lifecycle!Receive(t) \/ Lifecycle!Pend(t)
                                 \/ Lifecycle!Activate(t) \/ Lifecycle!Block(t)
        PROVE  Lifecycle!TypeOK'
    BY <2>1 DEF Lifecycle!Receive, Lifecycle!Pend, Lifecycle!Activate, Lifecycle!Block,
       Lifecycle!Advance
  <2>2. ASSUME NEW t \in Trades, Lifecycle!Cancel(t) \/ Lifecycle!Flatten(t) PROVE Lifecycle!TypeOK'
    BY <2>2 DEF Lifecycle!Cancel, Lifecycle!Flatten, Lifecycle!Advance
  <2>3. ASSUME NEW t \in Trades, Lifecycle!Engage(t) \/ Lifecycle!Release(t) PROVE Lifecycle!TypeOK'
    BY <2>3 DEF Lifecycle!Engage, Lifecycle!Release
  <2>4. ASSUME NEW t \in Trades, NEW q \in 1..Q, Lifecycle!Fill(t, q)
        PROVE  Lifecycle!TypeOK'
    BY <2>4 DEF Lifecycle!Fill
  <2>5. ASSUME NEW t \in Trades, NEW r \in Lifecycle!Reasons, Lifecycle!Leave(t, r)
        PROVE  Lifecycle!TypeOK'
    BY <2>5 DEF Lifecycle!Leave, Lifecycle!StateOf
  <2>6. CASE UNCHANGED Lifecycle!vars
    BY <2>6 DEF Lifecycle!vars
  <2> QED
    BY <2>1, <2>2, <2>3, <2>4, <2>5, <2>6 DEF Lifecycle!Next
<1> QED
  BY <1>1, <1>2, PTL DEF Lifecycle!Spec

\* At most one trade of the account has money at risk at any time, and that
\* trade has not ended: the account never holds exposure that nothing owns.
THEOREM LifecycleOneRisk == ASSUME Q \in Nat PROVE Lifecycle!Spec => []Lifecycle!OneRisk
<1>1. Lifecycle!Init => Lifecycle!OneRisk
  BY DEF Lifecycle!Init, Lifecycle!OneRisk
<1>2. Lifecycle!TypeOK /\ Lifecycle!OneRisk /\ [Lifecycle!Next]_(Lifecycle!vars) => Lifecycle!OneRisk'
  <2> SUFFICES ASSUME Lifecycle!TypeOK, Lifecycle!OneRisk, [Lifecycle!Next]_(Lifecycle!vars)
               PROVE  Lifecycle!OneRisk'
    OBVIOUS
  <2> USE DEF Lifecycle!TypeOK, Lifecycle!OneRisk, Lifecycle!Leaving, Lifecycle!Ended
  <2>1. ASSUME NEW t \in Trades, \/ Lifecycle!Receive(t) \/ Lifecycle!Pend(t)
                                 \/ Lifecycle!Activate(t) \/ Lifecycle!Block(t)
        PROVE  Lifecycle!OneRisk'
    BY <2>1 DEF Lifecycle!Receive, Lifecycle!Pend, Lifecycle!Activate, Lifecycle!Block,
       Lifecycle!Advance
  <2>2. ASSUME NEW t \in Trades, Lifecycle!Cancel(t) \/ Lifecycle!Flatten(t) PROVE Lifecycle!OneRisk'
    BY <2>2 DEF Lifecycle!Cancel, Lifecycle!Flatten, Lifecycle!Advance
  <2>3. ASSUME NEW t \in Trades, Lifecycle!Engage(t) PROVE Lifecycle!OneRisk'
    BY <2>3 DEF Lifecycle!Engage
  <2>4. ASSUME NEW t \in Trades, Lifecycle!Release(t) PROVE Lifecycle!OneRisk'
    BY <2>4 DEF Lifecycle!Release
  <2>5. ASSUME NEW t \in Trades, NEW q \in 1..Q, Lifecycle!Fill(t, q)
        PROVE  Lifecycle!OneRisk'
    BY <2>5 DEF Lifecycle!Fill
  <2>6. ASSUME NEW t \in Trades, NEW r \in Lifecycle!Reasons, Lifecycle!Leave(t, r)
        PROVE  Lifecycle!OneRisk'
    BY <2>6 DEF Lifecycle!Leave, Lifecycle!StateOf, Lifecycle!Reasons
  <2>7. CASE UNCHANGED Lifecycle!vars
    BY <2>7 DEF Lifecycle!vars
  <2> QED
    BY <2>1, <2>2, <2>3, <2>4, <2>5, <2>6, <2>7 DEF Lifecycle!Next
<1> QED
  BY <1>1, <1>2, LifecycleTypeOK, PTL DEF Lifecycle!Spec

\* So the engine owns what it risks: while money of a trade may be at the venue
\* its durable state has not ended, and no other trade has any there.
THEOREM EngineOwnsItsRisk == ASSUME Once PROVE Spec => []Lifecycle!OneRisk
<1>1. Q \in Nat
  BY QAssumption
<1> QED
  BY <1>1, EngineImplementsLifecycle, LifecycleOneRisk, PTL DEF Refinement

=============================================================================
