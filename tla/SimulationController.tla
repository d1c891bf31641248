------------------------ MODULE SimulationController ------------------------
(***************************************************************************)
(* The offline simulator (SimulationExecutionController over the pure IOC  *)
(* kernel simulate_ioc): trades of one session and one symbol, replayed    *)
(* from stored bars and stored top-N book frames.                          *)
(*                                                                         *)
(*   start -> prepare a command -> evaluate it at its logical arrival ->   *)
(*   complete {receipt, liquidity, event} in one commit -> record result   *)
(*                                                                         *)
(* One runner drives the controller; it may crash between any two commits, *)
(* and recovery resumes what is prepared and repairs missing results.      *)
(* A command is known by its content, so it is the record that stands for  *)
(* it.  The repository is external: each of its calls is one commit, and   *)
(* complete_command refuses an event that does not extend the journal.     *)
(***************************************************************************)
EXTENDS Integers, Sequences, SequencesExt, FiniteSetsExt

CONSTANTS
  Trades,       \* admitted trades
  Buys,         \* [Trades -> BOOLEAN]: LONG
  Lots,         \* [Trades -> admitted quantity]
  Cap,          \* [Trades -> price cap of the entry]
  Stop, Target, \* [Trades -> trigger price]
  Eligible, Expires, MaxHolding,   \* [Trades -> times of the intent]
  Tape,         \* sequence of book frames in persisted order
  Bars,         \* set of closed bars [at, low, high, close]
  Latency, MaxBookAge, MaxFrameLatency,
  Num, Den,     \* depth_participation_fraction = Num / Den
  Slip,         \* adverse slippage, in ticks
  End,          \* the session ends
  MaxTime       \* bound of the clock

Prices == UNION {{f.asks[i].price : i \in DOMAIN f.asks} \cup {f.bids[i].price : i \in DOMAIN f.bids}
                 : f \in {Tape[n] : n \in DOMAIN Tape}}
Levels == {"ASK", "BID"} \X Prices
Side(frame, side) == IF side = "ASK" THEN frame.asks ELSE frame.bids

\* AcceptedBookFrame: its times, and two sides with the best price first.
BookLevel == [price : Nat \ {0}, quantity : Nat \ {0}]
Frames == [exchange : Nat, received : Nat, persisted : Nat, update : Nat \ {0},
           asks : Seq(BookLevel), bids : Seq(BookLevel)]
BestFirst(frame) ==
  /\ \A i, j \in DOMAIN frame.asks : i < j => frame.asks[i].price < frame.asks[j].price
  /\ \A i, j \in DOMAIN frame.bids : i < j => frame.bids[i].price > frame.bids[j].price

ASSUME SimulationAssumption ==
  /\ Buys \in [Trades -> BOOLEAN] /\ Lots \in [Trades -> Nat \ {0}]
  /\ Den \in Nat \ {0} /\ Num \in 1..Den /\ Latency \in Nat /\ Slip \in Nat
  /\ \A bar \in Bars : bar.at \in Nat
  /\ Tape \in Seq(Frames) /\ \A n \in DOMAIN Tape : BestFirst(Tape[n])
  /\ \A m, n \in DOMAIN Tape : m < n => Tape[m].persisted <= Tape[n].persisted

VARIABLES
  now,
  \* the repository
  trade,      \* [Trades -> [state, created]]
  journal,    \* [Trades -> sequence of events]
  prepared,   \* every command that was prepared
  pending,    \* those of them that are not completed
  receipts,   \* receipts of completed commands
  liquidity,  \* LiquidityState: [asOf, arrival, cursor, barrier, consumed]
  result,     \* [Trades -> result or NoResult]
  \* the runner
  at,         \* where it is in the controller
  cmd, asOf,  \* the command it processes, and the clock value it was given
  recovering, todo  \* inside recover_prepared; commands it still has to resume

store  == <<trade, journal, prepared, pending, receipts, liquidity, result>>
runner == <<at, cmd, asOf, recovering, todo>>
vars   == <<now, store, runner>>

NoCommand == [kind |-> "none"]
NoResult  == [final |-> "none"]
Terminal  == {"FLAT", "UNRESOLVED", "NO_FILL", "BLOCKED"}
Exits     == {"STOP_EXIT_IOC", "TARGET_EXIT_IOC", "TIMEOUT_EXIT_IOC"}

Init ==
  /\ now = 0
  /\ trade = [t \in Trades |-> [state |-> "none", created |-> 0]]
  /\ journal = [t \in Trades |-> <<>>]
  /\ prepared = {} /\ pending = {} /\ receipts = {}
  /\ liquidity = [asOf |-> 0, arrival |-> 0, cursor |-> 0, barrier |-> FALSE,
                  consumed |-> [l \in Levels |-> 0]]
  /\ result = [t \in Trades |-> NoResult]
  /\ at = "idle" /\ cmd = NoCommand /\ asOf = 0 /\ recovering = FALSE /\ todo = {}

-----------------------------------------------------------------------------
(* The kernel: simulate_ioc *)

Least(a, b) == IF a < b THEN a ELSE b

\* _frame_issue: a stale or late book, a regressing one, or an old barrier.
FrameIssue(n, arrival, liq) ==
  LET f == Tape[n] IN
  \/ liq.barrier
  \/ arrival - f.exchange > MaxBookAge
  \/ f.received - f.exchange > MaxFrameLatency
  \/ n < liq.cursor
  \/ /\ n > liq.cursor /\ liq.cursor > 0
     /\ LET last == Tape[liq.cursor] IN
          f.update <= last.update \/ f.exchange < last.exchange \/ f.received < last.received

\* Mutant: a book level may be consumed again by every command.
CapacityAnew(side, level, consumed) == (level.quantity * Num) \div Den

\* What is left of a displayed level, in whole steps.
Capacity(side, level, consumed) ==
  LET left == (level.quantity * Num) \div Den - consumed[<<side, level.price>>]
  IN  IF left > 0 THEN left ELSE 0

\* The execution price of a level, slipped against the trader.
Slipped(buying, price) == IF buying THEN price + Slip ELSE price - Slip

WithinCap(buying, price, cap) ==
  price > 0 /\ (IF buying THEN price <= cap ELSE price >= cap)

\* The side of the book that a command takes from.
SideOf(c) == IF c.buying THEN "ASK" ELSE "BID"
Book(c, n) == Side(Tape[n], SideOf(c))

\* _walk: lots taken up to each level, and from each level, the best one first, until the quantity
\* is reached.  Prices only get worse, so that past the cap nothing is taken any more.
Upto(c, levels, consumed) ==
  LET upto[i \in 0..Len(levels)] ==
        IF i = 0 THEN 0
        ELSE IF WithinCap(c.buying, Slipped(c.buying, levels[i].price), c.cap)
        THEN Least(c.quantity, upto[i - 1] + Capacity(SideOf(c), levels[i], consumed))
        ELSE upto[i - 1]
  IN  upto

Walk(c, levels, consumed) ==
  LET upto == Upto(c, levels, consumed)
  IN  [i \in DOMAIN levels |-> upto[i] - upto[i - 1]]

\* What a receipt took from a side at a price.
Taken(r, l) ==
  IF r.filled = 0 \/ r.cmd.buying # (l[1] = "ASK") THEN 0
  ELSE SumFunction([i \in DOMAIN r.fills |->
                      IF Book(r.cmd, r.frame)[i].price = l[2] THEN r.fills[i] ELSE 0])

\* A terminal outcome without a fill.
Empty(c, status, n) ==
  [cmd |-> c, status |-> status, frame |-> n, fills |-> <<>>, filled |-> 0, notional |-> 0]

\* The outcome of a walk: filled lots, and lots times execution price.
Executed(c, n, fills) ==
  LET filled == SumFunction(fills)
      value  == [i \in DOMAIN fills |-> fills[i] * Slipped(c.buying, Book(c, n)[i].price)]
  IN  [cmd |-> c, frame |-> n, fills |-> fills, filled |-> filled,
       notional |-> SumFunction(value),
       status |-> IF filled = 0 THEN "NO_FILL" ELSE IF filled = c.quantity THEN "FILLED" ELSE "PARTIAL"]

\* Its effect on the private state: only the causal cursor advances.
Cursor(liq, arrival, time) == [liq EXCEPT !.asOf = time, !.arrival = arrival]

\* _evaluate, once the frame is chosen: [receipt, next].
Ioc(c, n, arrival, time, liq) ==
  IF arrival < c.eligible \/ c.submitted < c.eligible \/ arrival > c.expires
  THEN [receipt |-> Empty(c, "NO_FILL", n), next |-> Cursor(liq, arrival, time)]
  ELSE IF FrameIssue(n, arrival, liq)
  THEN [receipt |-> Empty(c, "BLOCKED", n), next |-> [Cursor(liq, arrival, time) EXCEPT !.barrier = TRUE]]
  ELSE LET done == Executed(c, n, Walk(c, Book(c, n), liq.consumed))
       IN  [receipt |-> done,
            next |-> [Cursor(liq, arrival, time) EXCEPT
                        !.cursor = n, !.consumed = [l \in Levels |-> @[l] + Taken(done, l)]]]

-----------------------------------------------------------------------------
(* The journal and the receipts of a trade *)

Filled(t, kinds) ==
  SumFunction([i \in {n \in DOMAIN journal[t] : journal[t][n].kind \in kinds} |-> journal[t][i].filled])

EnteredAt(t) == journal[t][CHOOSE i \in DOMAIN journal[t] : journal[t][i].kind = "ENTRY_IOC"].time

\* append_trade_event: the event extends the head of its journal.
Journal(t, kind, to, filled, time) ==
  journal' = [journal EXCEPT ![t] = Append(@, [kind |-> kind, to |-> to, filled |-> filled, time |-> time])]

\* _fill_totals: what the durable receipts of a trade add up to.
Receipts(t, kinds) == {r \in receipts : r.cmd.trade = t /\ r.cmd.kind \in kinds}
Quantity(t, kinds) == SumFunction([r \in Receipts(t, kinds) |-> r.filled])
Value(t, kinds)    == SumFunction([r \in Receipts(t, kinds) |-> r.notional])

-----------------------------------------------------------------------------
(* Calls of the controller *)

\* prepare_command: a completed command is replayed from its receipt.
Process(c) ==
  /\ prepared' = prepared \cup {c}
  /\ pending' = IF c \in prepared THEN pending ELSE pending \cup {c}
  /\ cmd' = c
  /\ at' = IF c \in prepared \ pending THEN "result" ELSE "evaluate"

\* The call returns; recovery goes on with what it still has to do.
Return == at' = IF recovering THEN "recover" ELSE "idle"

\* An exception ends the call, and recovery with it.
Raise == at' = "idle" /\ recovering' = FALSE /\ todo' = {}

\* start_trade: create_trade, and the root event in a commit of its own.
CreateTrade(t) ==
  /\ at = "idle" /\ trade[t].state = "none" /\ now <= End /\ now <= Expires[t]
  /\ trade' = [trade EXCEPT ![t] = [state |-> "PENDING", created |-> now]]
  /\ UNCHANGED <<now, journal, prepared, pending, receipts, liquidity, result, runner>>

AdmitTrade(t) ==
  /\ at = "idle" /\ trade[t].state = "PENDING" /\ journal[t] = <<>>
  /\ Journal(t, "ADMITTED", "PENDING", 0, trade[t].created)
  /\ UNCHANGED <<now, trade, prepared, pending, receipts, liquidity, result, runner>>

\* _entry_command: the same command however often it is submitted.
EntryCommand(t) ==
  [trade |-> t, kind |-> "ENTRY_IOC", buying |-> Buys[t], quantity |-> Lots[t], cap |-> Cap[t],
   submitted |-> trade[t].created, expires |-> Expires[t],
   eligible |-> IF Eligible[t] > trade[t].created THEN Eligible[t] ELSE trade[t].created]

SubmitEntry(t) ==
  /\ at = "idle" /\ journal[t] # <<>>
  /\ Process(EntryCommand(t))
  /\ asOf' = now
  /\ UNCHANGED <<now, trade, journal, receipts, liquidity, result, recovering, todo>>

\* What a closed bar triggers: a stop wins over a target, both over the timeout.
Trigger(t, bar) ==
  LET stopped == IF Buys[t] THEN bar.low <= Stop[t] ELSE bar.high >= Stop[t]
      reached == IF Buys[t] THEN bar.high >= Target[t] ELSE bar.low <= Target[t]
  IN  CASE stopped -> <<"STOP_EXIT_IOC", Stop[t]>>
        [] ~ stopped /\ reached -> <<"TARGET_EXIT_IOC", Target[t]>>
        [] ~ stopped /\ ~ reached /\ bar.at >= EnteredAt(t) + MaxHolding[t]
             -> <<"TIMEOUT_EXIT_IOC", bar.close>>
        [] OTHER -> <<>>

\* _exit_command: an IOC for what the trade still holds.
ExitCommand(t, bar, trigger) ==
  [trade |-> t, kind |-> trigger[1], buying |-> ~ Buys[t], cap |-> trigger[2],
   quantity |-> Filled(t, {"ENTRY_IOC"}) - Filled(t, Exits),
   submitted |-> bar.at, eligible |-> bar.at, expires |-> Least(bar.at + MaxBookAge, End)]

\* process_closed_bar, of a bar that has closed, while the trade is ACTIVE.
CloseBar(t, bar) ==
  /\ at = "idle" /\ bar.at <= now /\ trade[t].state = "ACTIVE"
  /\ bar.at <= End /\ Trigger(t, bar) # <<>>
  /\ Process(ExitCommand(t, bar, Trigger(t, bar)))
  /\ asOf' = now
  /\ UNCHANGED <<now, trade, journal, receipts, liquidity, result, recovering, todo>>

\* A bar after the end of the session leaves the trade unresolved.
EndSession(t, bar) ==
  /\ at = "idle" /\ bar.at <= now /\ trade[t].state = "ACTIVE" /\ bar.at > End
  /\ Journal(t, "ENDED", "UNRESOLVED", 0, bar.at)
  /\ trade' = [trade EXCEPT ![t].state = "UNRESOLVED"]
  /\ cmd' = EntryCommand(t) /\ at' = "result"
  /\ UNCHANGED <<now, prepared, pending, receipts, liquidity, result, asOf, recovering, todo>>

-----------------------------------------------------------------------------
(* _evaluate_prepared and complete_command *)

Arrival(c) == c.submitted + Latency

\* Mutant: the latest frame when the command happens to be evaluated.
SeenLate(c) == {n \in DOMAIN Tape : Tape[n].persisted <= asOf}

\* load_latest_book_frame: frames that were durable at the logical arrival.
Seen(c) == {n \in DOMAIN Tape : Tape[n].persisted <= Arrival(c)}

\* The outcome of a command that has arrived.
Outcome(c) ==
  IF Arrival(c) > c.expires
  THEN [receipt |-> Empty(c, "NO_FILL", 0), next |-> Cursor(liquidity, Arrival(c), asOf)]
  ELSE IF Seen(c) = {}
  THEN [receipt |-> Empty(c, "BLOCKED", 0), next |-> Cursor(liquidity, Arrival(c), asOf)]
  ELSE Ioc(c, Max(Seen(c)), Arrival(c), asOf, liquidity)

\* Mutant: an exit is completed whatever became of its trade.
FitsAlways(c) == TRUE

\* _event_for_receipt: an entry starts from PENDING, an exit from ACTIVE.
Fits(c) == trade[c.trade].state = (IF c.kind = "ENTRY_IOC" THEN "PENDING" ELSE "ACTIVE")

\* The state the event of a receipt leads to.
After(r) ==
  LET t == r.cmd.trade
      held == Filled(t, {"ENTRY_IOC"})
  IN  IF r.cmd.kind = "ENTRY_IOC"
      THEN IF r.filled > 0 THEN "ACTIVE" ELSE r.status
      ELSE IF r.filled > 0 /\ Filled(t, Exits) + r.filled = held THEN "FLAT" ELSE "UNRESOLVED"

\* WAIT: the command stays prepared.
Wait ==
  /\ at = "evaluate" /\ asOf < Arrival(cmd)
  /\ Return
  /\ UNCHANGED <<now, store, cmd, asOf, recovering, todo>>

\* One commit: the receipt, the private state and the event of the trade.
Complete ==
  /\ at = "evaluate" /\ asOf >= Arrival(cmd)
  /\ Arrival(cmd) >= liquidity.arrival /\ Fits(cmd)
  /\ LET o == Outcome(cmd) IN
       /\ receipts' = receipts \cup {o.receipt}
       /\ liquidity' = o.next
       /\ Journal(cmd.trade, cmd.kind, After(o.receipt), o.receipt.filled, Arrival(cmd))
       /\ trade' = [trade EXCEPT ![cmd.trade].state = After(o.receipt)]
  /\ pending' = pending \ {cmd}
  /\ at' = "result"
  /\ UNCHANGED <<now, prepared, result, cmd, asOf, recovering, todo>>

\* A backdated command, or one whose trade has moved on: it stays prepared.
Reject ==
  /\ at = "evaluate" /\ asOf >= Arrival(cmd)
  /\ Arrival(cmd) < liquidity.arrival \/ ~ Fits(cmd)
  /\ Raise
  /\ UNCHANGED <<now, store, cmd, asOf>>

\* _ensure_terminal_result.
Record(t) ==
  result' = IF trade[t].state \in Terminal
            THEN [result EXCEPT ![t] =
                    [final |-> trade[t].state,
                     entry |-> Quantity(t, {"ENTRY_IOC"}), exit |-> Quantity(t, Exits),
                     paid  |-> Value(t, {"ENTRY_IOC"}),    got  |-> Value(t, Exits)]]
            ELSE result

EnsureResult ==
  /\ at = "result"
  /\ Record(cmd.trade)
  /\ Return
  /\ UNCHANGED <<now, trade, journal, prepared, pending, receipts, liquidity, cmd, asOf, recovering, todo>>

-----------------------------------------------------------------------------
(* recover_prepared *)

Recover ==
  /\ at = "idle"
  /\ at' = "recover" /\ recovering' = TRUE /\ todo' = pending /\ asOf' = now
  /\ UNCHANGED <<now, store, cmd>>

Resume ==
  /\ at = "recover"
  /\ \E c \in todo : Process(c) /\ todo' = todo \ {c}
  /\ UNCHANGED <<now, trade, journal, receipts, liquidity, result, asOf, recovering>>

\* Mutant: recovery resumes commands only.
UnresultedNever == {}

\* list_terminal_trades_without_result.
Unresulted == {t \in Trades : trade[t].state \in Terminal /\ result[t] = NoResult}

Repair ==
  /\ at = "recover" /\ todo = {}
  /\ \E t \in Unresulted : Record(t)
  /\ UNCHANGED <<now, trade, journal, prepared, pending, receipts, liquidity, runner>>

Recovered ==
  /\ at = "recover" /\ todo = {} /\ Unresulted = {}
  /\ at' = "idle" /\ recovering' = FALSE
  /\ UNCHANGED <<now, store, cmd, asOf, todo>>

\* The runner dies at any point.
Crash ==
  /\ at # "idle"
  /\ at' = "idle" /\ cmd' = NoCommand /\ asOf' = 0 /\ recovering' = FALSE /\ todo' = {}
  /\ UNCHANGED <<now, store>>

Tick ==
  /\ now < MaxTime
  /\ now' = now + 1
  /\ UNCHANGED <<store, runner>>

Step == Wait \/ Complete \/ Reject \/ EnsureResult \/ Resume \/ Repair \/ Recovered

Next ==
  \/ \E t \in Trades : CreateTrade(t) \/ AdmitTrade(t) \/ SubmitEntry(t)
                       \/ \E bar \in Bars : CloseBar(t, bar) \/ EndSession(t, bar)
  \/ Recover \/ Step \/ Crash \/ Tick

Spec == Init /\ [][Next]_vars

\* A call that was begun goes on (weak fairness of Step, which is enabled in
\* every call), the runner recovers again and again, and it is not killed for
\* ever.
FairSpec ==
  /\ Spec
  /\ []<>(at = "idle") \/ []<><<Step>>_vars
  /\ SF_vars(Recover)
  /\ <>[][~ Crash]_vars

-----------------------------------------------------------------------------
(* Properties *)

\* Displayed depth is spent once per session: what all receipts took from a
\* price is what the private state remembers, and never more than some frame
\* that was durable by then displayed there, whatever was replayed, resumed
\* after a crash or evaluated late (_walk, complete_command).
DepthSpentOnce ==
  \A l \in Levels :
    LET spent == SumFunction([r \in receipts |-> Taken(r, l)])
    IN  /\ liquidity.consumed[l] = spent
        /\ spent > 0 => \E n \in DOMAIN Tape :
             /\ Tape[n].persisted <= liquidity.arrival
             /\ \E i \in DOMAIN Side(Tape[n], l[1]) :
                  LET level == Side(Tape[n], l[1])[i] IN
                  level.price = l[2] /\ spent <= (level.quantity * Num) \div Den

\* A fill comes from the book at the logical arrival of its command: no frame
\* that was durable by then is newer, and none from later is used, however
\* long after the arrival the command is evaluated (_evaluate_prepared).
NoHindsight ==
  \A r \in receipts : r.filled > 0 =>
    /\ Tape[r.frame].persisted <= Arrival(r.cmd)
    /\ \A n \in DOMAIN Tape : n > r.frame => Tape[n].persisted > Arrival(r.cmd)

\* A trade exits what it entered, at most once: its receipts never sell more
\* than they bought, it is FLAT exactly when they match, and its result says
\* what its journal says (_event_for_receipt, _ensure_terminal_result).
ExposureConserved ==
  \A t \in Trades :
    LET in == Quantity(t, {"ENTRY_IOC"})  out == Quantity(t, Exits) IN
    /\ out <= in /\ in = Filled(t, {"ENTRY_IOC"}) /\ out = Filled(t, Exits)
    /\ (trade[t].state = "FLAT") = (in > 0 /\ out = in)
    /\ result[t] # NoResult =>
         result[t].final = trade[t].state /\ result[t].entry = in /\ result[t].exit = out

\* A prepared command that can never complete.
Poisoned == \E c \in pending : Arrival(c) < liquidity.arrival \/ ~ Fits(c)

\* A command that has missed its turn never gets another: it is neither
\* completed nor given up, whatever is submitted, resumed or replayed later,
\* so every later recovery meets it again (complete_command, recover_prepared).
PoisonLasts == [][Poisoned => Poisoned']_vars

\* Every finished trade gets its result, after whatever crash, unless a
\* prepared command that can never complete stops recovery before its second
\* half (recover_prepared).
ResultsFollow ==
  \A t \in Trades :
    trade[t].state \in Terminal ~> (result[t] # NoResult \/ Poisoned)

=============================================================================
