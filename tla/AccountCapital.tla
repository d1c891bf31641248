--------------------------- MODULE AccountCapital ---------------------------
(***************************************************************************)
(* The capital of one production account: the risk decision that is staged  *)
(* for an entry, the reservation that an entry needs before it is signed,   *)
(* the terminal receipt of its trade, and the accounting release that alone *)
(* frees the reservation (state schema v3, receipt schema v2).              *)
(*                                                                          *)
(* The tables are insert-only, and every writer of them takes one advisory  *)
(* lock of the account, whatever policy context it works for.  A writer     *)
(* that reads and inserts under that lock is one step, which waits while a  *)
(* reservation holds it.  A reservation is several: the checks of the       *)
(* program, the insert with the checks of the trigger, the commit.  It may  *)
(* be abandoned before the commit, and the caller of a commit may never     *)
(* hear of it, which changes no table.                                      *)
(***************************************************************************)
EXTENDS Integers

CONSTANTS
  Callers,    \* runtime connections that reserve
  Effects,    \* entry effects, each with one signing request and one trade
  Contexts,   \* policy contexts of the account (ProductionContextV1)
  ContextOf,  \* the context of each effect
  Arms,       \* signed owner arms: [context, cap, daily]
  Decisions,  \* risk decisions that can be staged: [effect, risk, notional,
              \*   equity, daily, openRisk, openNotional]
  Charges,    \* what the loss charge of a closed trade can be
  None

ASSUME ContextAssumption == ContextOf \in [Effects -> Contexts]
ASSUME ArmAssumption == \A a \in Arms : a.context \in Contexts /\ {a.cap, a.daily} \subseteq Nat
ASSUME DecisionAssumption ==
  \A d \in Decisions :
    /\ d.effect \in Effects
    /\ {d.risk, d.notional, d.equity} \subseteq Nat \ {0}
    /\ {d.daily, d.openRisk, d.openNotional} \subseteq Nat
ASSUME ChargeAssumption == Charges \subseteq Nat
ASSUME NoneAssumption == None \notin Arms /\ None \notin Decisions /\ None \notin Effects

VARIABLES
  \* the insert-only tables
  decision,   \* risk_decisions: the decision of each effect
  bound,      \* lifecycle bindings: effects whose signing plan is stored
  reserved,   \* risk_reservations: [decision, arm] of each effect
  receipt,    \* terminal_receipts: the loss charge its evidence shows
  released,   \* accepted_releases
  operator,   \* latest operator observation of each context: an arm or None
  usedArms,   \* arms that some observation has armed
  \* the sums of the totals query, over rows that are not released, and charges
  open, charged,
  \* one reservation per caller
  pc, effect, armed,
  stale,      \* effects whose decision has outlived its lease
  \* the venue, and the durable trade
  sent, order, pos, bought, charge, behind, flat,
  \* the evidence of a terminal venue that a collector has
  proof,
  \* history: by how much charges exceeded what was reserved for them
  slip

tables == <<decision, bound, reserved, receipt, released, operator, usedArms, open, charged>>
calls  == <<pc, effect, armed>>
venue  == <<sent, order, pos, bought, charge, behind, flat>>
vars   == <<tables, calls, stale, venue, proof, slip>>

Rows == {e \in Effects : reserved[e] # None}
Held == Rows \ released

Init ==
  /\ decision = [e \in Effects |-> None]
  /\ bound = {} /\ released = {} /\ usedArms = {} /\ stale = {}
  /\ reserved = [e \in Effects |-> None]
  /\ receipt = [e \in Effects |-> None]
  /\ operator = [c \in Contexts |-> None]
  /\ open = [risk |-> 0, notional |-> 0] /\ charged = 0 /\ slip = 0
  /\ pc = [w \in Callers |-> "idle"]
  /\ effect = [w \in Callers |-> None]
  /\ armed = [w \in Callers |-> None]
  /\ sent = {} /\ order = {} /\ pos = {} /\ bought = {} /\ behind = {} /\ flat = {}
  /\ charge = [e \in Effects |-> None]
  /\ proof = [e \in Effects |-> None]

-----------------------------------------------------------------------------
(* The advisory lock of the account *)

\* Mutant: the lock is taken per policy context.
LockKeyOfContext(c) == c

\* _account_scope_sha256: the account, across instruments and policy contexts.
LockKey(c) == "account"

\* A reservation holds the lock from its first read to its end.
Holding == {w \in Callers : pc[w] \in {"checked", "inserted"}}
LockFree(c) == \A w \in Holding : LockKey(ContextOf[effect[w]]) # LockKey(c)

-----------------------------------------------------------------------------
(* Staging: evaluate_and_stage_entry *)

\* append_risk_decision_async.  A replay of the stored decision changes
\* nothing, another decision for the same request is refused.
StageRisk(d) ==
  /\ LockFree(ContextOf[d.effect])
  /\ decision[d.effect] = None
  /\ decision' = [decision EXCEPT ![d.effect] = d]
  /\ UNCHANGED <<bound, reserved, receipt, released, operator, usedArms, open, charged,
                 calls, stale, venue, proof, slip>>

\* The second append.  The first alone stages nothing: the plan is looked up here.
Bind(e) ==
  /\ decision[e] # None /\ e \notin bound
  /\ bound' = bound \cup {e}
  /\ UNCHANGED <<decision, reserved, receipt, released, operator, usedArms, open, charged,
                 calls, stale, venue, proof, slip>>

\* The lease of a decision, five seconds at most.
GoStale(e) ==
  /\ decision[e] # None /\ e \notin stale
  /\ stale' = stale \cup {e}
  /\ UNCHANGED <<tables, calls, venue, proof, slip>>

\* append_operator_observation_async and its trigger: an arm is armed once.
Arm(a) ==
  /\ LockFree(a.context)
  /\ operator[a.context] = None /\ a \notin usedArms
  /\ operator' = [operator EXCEPT ![a.context] = a]
  /\ usedArms' = usedArms \cup {a}
  /\ UNCHANGED <<decision, bound, reserved, receipt, released, open, charged,
                 calls, stale, venue, proof, slip>>

\* Mutant: the operator writer does not take the lock of the account.
DisarmUnlocked(c) ==
  /\ operator[c] # None
  /\ operator' = [operator EXCEPT ![c] = None]
  /\ UNCHANGED <<decision, bound, reserved, receipt, released, usedArms, open, charged,
                 calls, stale, venue, proof, slip>>

\* A disarm waits for a reservation to end.
Disarm(c) ==
  /\ LockFree(c)
  /\ operator[c] # None
  /\ operator' = [operator EXCEPT ![c] = None]
  /\ UNCHANGED <<decision, bound, reserved, receipt, released, usedArms, open, charged,
                 calls, stale, venue, proof, slip>>

-----------------------------------------------------------------------------
(* Reservation: reserve_entry_async *)

Idle(w) == /\ pc' = [pc EXCEPT ![w] = "idle"]
           /\ effect' = [effect EXCEPT ![w] = None]
           /\ armed' = [armed EXCEPT ![w] = None]

\* The signing evidence of the plan is read before the lock is asked for.
Begin(w, e) ==
  /\ pc[w] = "idle"
  /\ e \in bound /\ e \notin stale
  /\ operator[ContextOf[e]] # None
  /\ pc' = [pc EXCEPT ![w] = "begun"]
  /\ effect' = [effect EXCEPT ![w] = e]
  /\ armed' = [armed EXCEPT ![w] = operator[ContextOf[e]]]
  /\ UNCHANGED <<tables, stale, venue, proof, slip>>

\* Mutant: the charges of closed trades are not counted against the daily stop.
WithinOpenCaps(d, a) ==
  LET ds == {reserved[e].decision : e \in Rows} \cup {d}
      as == {reserved[e].arm : e \in Rows} \cup {a}
  IN /\ \A b \in as : d.risk <= b.cap
     /\ \A q \in ds : 400 * d.risk <= q.equity
     /\ \A p, q \in ds : 100 * (p.openRisk + open.risk + d.risk) <= q.equity
     /\ \A p \in ds, b \in as : p.daily + open.risk + d.risk <= b.daily
     /\ \A p \in ds, b \in as : p.openNotional + open.notional + d.notional <= b.cap

\* The caps over every row of the account ever reserved and the new one: the
\* greatest snapshot of open risk and of loss, the least equity and owner limits.
WithinCaps(d, a) ==
  LET ds == {reserved[e].decision : e \in Rows} \cup {d}
      as == {reserved[e].arm : e \in Rows} \cup {a}
  IN /\ \A b \in as : d.risk <= b.cap
     /\ \A q \in ds : 400 * d.risk <= q.equity
     /\ \A p, q \in ds : 100 * (p.openRisk + open.risk + d.risk) <= q.equity
     /\ \A p \in ds, b \in as : p.daily + charged + open.risk + d.risk <= b.daily
     /\ \A p \in ds, b \in as : p.openNotional + open.notional + d.notional <= b.cap

\* The effect is reserved already, with this arm: the caller goes on.
Replay(w) ==
  /\ pc[w] = "begun" /\ LockFree(ContextOf[effect[w]])
  /\ effect[w] \in Rows /\ reserved[effect[w]].arm = armed[w]
  /\ Idle(w)
  /\ UNCHANGED <<tables, stale, venue, proof, slip>>

\* The lock, the clock, the exact decision, arm and operator state, the caps.
Check(w) ==
  LET e == effect[w] IN
  /\ pc[w] = "begun" /\ LockFree(ContextOf[e])
  /\ e \notin stale /\ operator[ContextOf[e]] = armed[w]
  /\ e \notin Rows
  /\ WithinCaps(decision[e], armed[w])
  /\ pc' = [pc EXCEPT ![w] = "checked"]
  /\ UNCHANGED <<tables, effect, armed, stale, venue, proof, slip>>

\* The insert, with enforce_risk_reservation: lease and caps again.
Insert(w) ==
  /\ pc[w] = "checked"
  /\ effect[w] \notin stale
  /\ WithinCaps(decision[effect[w]], armed[w])
  /\ pc' = [pc EXCEPT ![w] = "inserted"]
  /\ UNCHANGED <<tables, effect, armed, stale, venue, proof, slip>>

\* The commit is refused where the effect is a key already.
Commit(w) ==
  LET e == effect[w]
      d == decision[e]
  IN
  /\ pc[w] = "inserted" /\ e \notin Rows
  /\ reserved' = [reserved EXCEPT ![e] = [decision |-> d, arm |-> armed[w]]]
  /\ open' = [risk |-> open.risk + d.risk, notional |-> open.notional + d.notional]
  /\ Idle(w)
  /\ UNCHANGED <<decision, bound, receipt, released, operator, usedArms, charged,
                 stale, venue, proof, slip>>

\* A refusal, a timeout, a lost connection: the transaction rolls back.
Abandon(w) ==
  /\ pc[w] # "idle"
  /\ Idle(w)
  /\ UNCHANGED <<tables, stale, venue, proof, slip>>

-----------------------------------------------------------------------------
(* The venue: a reserved entry is sent once, at any time or never *)

Send(e) ==
  /\ e \in Rows /\ e \notin sent
  /\ sent' = sent \cup {e} /\ order' = order \cup {e} /\ behind' = behind \cup {e}
  /\ UNCHANGED <<tables, calls, stale, pos, bought, charge, flat, proof, slip>>

\* A fill, after which a remainder may work on; projections fall behind.
Fill(e) ==
  /\ e \in order
  /\ order' \in {order, order \ {e}}
  /\ pos' = pos \cup {e} /\ bought' = bought \cup {e} /\ behind' = behind \cup {e}
  /\ UNCHANGED <<tables, calls, stale, sent, charge, flat, proof, slip>>

Die(e) ==
  /\ e \in order
  /\ order' = order \ {e}
  /\ UNCHANGED <<tables, calls, stale, sent, pos, bought, charge, behind, flat, proof, slip>>

Close(e) ==
  /\ e \in pos
  /\ pos' = pos \ {e}
  /\ \E c \in Charges : charge' = [charge EXCEPT ![e] = c]
  /\ UNCHANGED <<tables, calls, stale, sent, order, bought, behind, flat, proof, slip>>

Project(e) ==
  /\ e \in behind
  /\ behind' = behind \ {e}
  /\ UNCHANGED <<tables, calls, stale, sent, order, pos, bought, charge, flat, proof, slip>>

\* The lifecycle ends the trade when it has seen its position go.
Flatten(e) ==
  /\ e \in bought \ (pos \cup flat)
  /\ flat' = flat \cup {e}
  /\ UNCHANGED <<tables, calls, stale, sent, order, pos, bought, charge, behind, proof, slip>>

-----------------------------------------------------------------------------
(* The receipt and the release *)

\* The registered source collects the terminal evidence of a trade ...
Collect(e) ==
  /\ e \in bought /\ receipt[e] = None
  /\ proof' = [proof EXCEPT ![e] = [order |-> e \in order, pos |-> e \in pos,
                                    charge |-> charge[e]]]
  /\ UNCHANGED <<tables, calls, stale, venue, slip>>

\* ... which is refused when it is older than two minutes.
Outdate(e) ==
  /\ proof[e] # None
  /\ proof' = [proof EXCEPT ![e] = None]
  /\ UNCHANGED <<tables, calls, stale, venue, slip>>

\* Mutant: working orders are not looked at.
TerminalPosition(p) == ~p.pos /\ p.charge # None

\* _verify_venue_evidence: no position, no order that could fill, an exit.
Terminal(p) == ~p.order /\ ~p.pos /\ p.charge # None

\* _account_snapshot_unlocked: what the projections show of the account.
SnapshotEmpty == order \cup pos \subseteq behind

\* _verify_trade and _verify_effects: the trade is FLAT, and its effects settled.
Ended(e) == e \in flat
\* _verify_reservation: the receipt is of an entry that was reserved.
Backed(e) == e \in Rows

\* reconcile_closed_account and reconcile_terminal.
Reconcile(e) ==
  /\ SnapshotEmpty /\ Ended(e)
  /\ proof[e] # None /\ Terminal(proof[e])
  /\ LockFree(ContextOf[e])
  /\ Backed(e) /\ receipt[e] = None
  /\ receipt' = [receipt EXCEPT ![e] = proof[e].charge]
  /\ proof' = [proof EXCEPT ![e] = None]
  /\ UNCHANGED <<decision, bound, reserved, released, operator, usedArms, open, charged,
                 calls, stale, venue, slip>>

\* verify_terminal_receipt
Receipted(e) == receipt[e] # None

Over(c, r) == IF c > r THEN c - r ELSE 0

\* accept_terminal_receipt and enforce_release: once per effect, with the
\* economics of its receipt.
Accept(e) ==
  LET d == reserved[e].decision IN
  /\ LockFree(ContextOf[e])
  /\ e \in Rows /\ Receipted(e) /\ e \notin released
  /\ released' = released \cup {e}
  /\ open' = [risk |-> open.risk - d.risk, notional |-> open.notional - d.notional]
  /\ charged' = charged + receipt[e]
  /\ slip' = slip + Over(receipt[e], d.risk)
  /\ UNCHANGED <<decision, bound, reserved, receipt, operator, usedArms,
                 calls, stale, venue, proof>>

Reserving == \E w \in Callers :
  \/ \E e \in Effects : Begin(w, e)
  \/ Replay(w) \/ Check(w) \/ Insert(w) \/ Commit(w) \/ Abandon(w)

Next ==
  \/ \E d \in Decisions : StageRisk(d)
  \/ \E a \in Arms : Arm(a)
  \/ \E c \in Contexts : Disarm(c)
  \/ Reserving
  \/ \E e \in Effects :
       \/ Bind(e) \/ GoStale(e)
       \/ Send(e) \/ Fill(e) \/ Die(e) \/ Close(e) \/ Project(e) \/ Flatten(e)
       \/ Collect(e) \/ Outdate(e) \/ Reconcile(e) \/ Accept(e)

Spec == Init /\ [][Next]_vars

-----------------------------------------------------------------------------
(* Properties *)

Reservations == [decision : Decisions, arm : Arms]
Proofs == [order : BOOLEAN, pos : BOOLEAN, charge : Charges \cup {None}]

TypeOK ==
  /\ decision \in [Effects -> Decisions \cup {None}]
  /\ \A e \in Effects : decision[e] # None => decision[e].effect = e
  /\ reserved \in [Effects -> Reservations \cup {None}]
  /\ receipt \in [Effects -> Charges \cup {None}]
  /\ operator \in [Contexts -> Arms \cup {None}]
  /\ usedArms \subseteq Arms
  /\ open \in [risk : Int, notional : Int] /\ charged \in Nat /\ slip \in Nat
  /\ pc \in [Callers -> {"idle", "begun", "checked", "inserted"}]
  /\ effect \in [Callers -> Effects \cup {None}]
  /\ armed \in [Callers -> Arms \cup {None}]
  /\ charge \in [Effects -> Charges \cup {None}]
  /\ proof \in [Effects -> Proofs \cup {None}]
  /\ UNION {bound, released, stale, sent, order, pos, bought, behind, flat} \subseteq Effects

\* Whatever contexts and arms the entries of the account came under and however
\* their reservations interleave (reserve_entry_async), what is held stays under
\* one percent of the least equity and under the least owner cap seen, on top of
\* the greatest exposure any snapshot showed; and loss already charged and loss
\* still possible stay within every daily stop, but for what closed trades lost
\* beyond their reservation (production_accounting).
CapsHold ==
  \A e, f \in Rows :
    LET p == reserved[e].decision
        q == reserved[f]
    IN /\ 100 * (p.openRisk + open.risk) <= q.decision.equity
       /\ p.openNotional + open.notional <= q.arm.cap
       /\ p.daily + charged + open.risk <= q.arm.daily + slip

\* What works or is open at the venue is held: a release (enforce_release) never
\* precedes the last fill of its entry.
LiveIsHeld == order \cup pos \subseteq Held

\* A reservation commits while the operator is still armed with the arm it was
\* checked against (reserve_entry_async takes the lock of the operator writer).
ReservedUnderArm ==
  [][\A e \in Effects : reserved'[e] # reserved[e] =>
       operator[ContextOf[e]] = reserved'[e].arm]_vars
=============================================================================
