------------------------ MODULE AccountCapitalProofs ------------------------
(***************************************************************************)
(* Theorems about the capital of an account, for any set of callers,       *)
(* entries, contexts, arms, decisions and charges.                         *)
(*                                                                         *)
(* The argument: every writer of the tables asks for one lock, so while a  *)
(* reservation is between its check and its commit no other caller is      *)
(* (Alone), and neither the operator's record nor the totals change: what  *)
(* was checked still holds at the commit (UnderArm, Capped).  Evidence is  *)
(* a snapshot, but an order that is gone never returns and a position only *)
(* grows out of an order, so terminal evidence stays true (Settled).       *)
(***************************************************************************)
EXTENDS AccountCapital, TLAPS

-----------------------------------------------------------------------------
(* The inductive invariant *)

\* One reservation is between its check and its commit.
Alone == \A v, w \in Callers : v \in Holding /\ w \in Holding => v = w

\* A caller works for a staged decision, with the arm it read.
Grounded ==
  /\ \A e \in bound : decision[e] # None
  /\ \A w \in Callers : pc[w] # "idle" =>
       effect[w] \in Effects /\ decision[effect[w]] # None /\ armed[w] \in Arms

\* What the check found still holds.
UnderArm == \A w \in Callers : w \in Holding => operator[ContextOf[effect[w]]] = armed[w]
Capped == \A w \in Callers :
  pc[w] = "inserted" => WithinCaps(decision[effect[w]], armed[w])

\* What the venue has comes from an entry that was reserved and sent.
Sourced == /\ sent \subseteq Rows
           /\ order \subseteq sent /\ pos \subseteq bought /\ bought \subseteq sent

\* What terminal evidence, a receipt and a release say stays true.
Settled == \A e \in Effects :
  /\ proof[e] # None => /\ e \in bought
                        /\ ~proof[e].order => e \notin order
                        /\ ~proof[e].order /\ ~proof[e].pos => e \notin pos
  /\ receipt[e] # None => e \in sent /\ e \notin order /\ e \notin pos
  /\ e \in released => receipt[e] # None

IInv == /\ TypeOK /\ Alone /\ Grounded /\ UnderArm /\ Capped
        /\ Sourced /\ Settled /\ CapsHold

-----------------------------------------------------------------------------
(* The lock *)

\* LockFree waits for every holder: all contexts share the account's key.
LEMMA Waits == ASSUME NEW c, LockFree(c) PROVE Holding = {}
  BY DEF LockFree, LockKey

USE ContextAssumption, ArmAssumption, DecisionAssumption, ChargeAssumption, NoneAssumption

-----------------------------------------------------------------------------
(* Type correctness *)

LEMMA StagingTyped ==
  ASSUME TypeOK,
         \/ \E d \in Decisions : StageRisk(d)
         \/ \E a \in Arms : Arm(a)
         \/ \E c \in Contexts : Disarm(c)
         \/ \E e \in Effects : Bind(e) \/ GoStale(e)
  PROVE  TypeOK'
<1> USE DEF TypeOK, calls, venue, tables
<1>1. CASE \E d \in Decisions : StageRisk(d)
  BY <1>1 DEF StageRisk
<1>2. CASE \E a \in Arms : Arm(a)
  BY <1>2 DEF Arm
<1>3. CASE \E c \in Contexts : Disarm(c)
  BY <1>3 DEF Disarm
<1>4. CASE \E e \in Effects : Bind(e)
  BY <1>4 DEF Bind
<1>5. CASE \E e \in Effects : GoStale(e)
  BY <1>5 DEF GoStale
<1> QED
  BY <1>1, <1>2, <1>3, <1>4, <1>5

LEMMA ReservingTyped ==
  ASSUME TypeOK, Grounded, Reserving
  PROVE  TypeOK'
<1> PICK w \in Callers : \/ \E e \in Effects : Begin(w, e)
                         \/ Replay(w) \/ Check(w) \/ Insert(w) \/ Commit(w) \/ Abandon(w)
  BY DEF Reserving
<1> USE DEF TypeOK, tables, venue, Idle
<1>1. CASE \E e \in Effects : Begin(w, e)
  BY <1>1 DEF Begin
<1>2. CASE Replay(w)
  BY <1>2 DEF Replay
<1>3. CASE Check(w)
  BY <1>3 DEF Check
<1>4. CASE Insert(w)
  BY <1>4 DEF Insert
<1>5. CASE Commit(w)
  <2> DEFINE e == effect[w]  d == decision[e]
             r == [decision |-> d, arm |-> armed[w]]
  <2>1. e \in Effects /\ d \in Decisions /\ armed[w] \in Arms
    BY <1>5 DEF Commit, Grounded
  <2>2. r \in Reservations
    BY <2>1 DEF Reservations
  <2>3. d.risk \in Nat /\ d.notional \in Nat
    BY <2>1
  <2>4. reserved' \in [Effects -> Reservations \cup {None}]
    BY <1>5, <2>1, <2>2 DEF Commit
  <2>5. open' \in [risk : Int, notional : Int]
    BY <1>5, <2>3 DEF Commit
  <2> QED
    BY <1>5, <2>4, <2>5 DEF Commit
<1>6. CASE Abandon(w)
  BY <1>6 DEF Abandon
<1> QED
  BY <1>1, <1>2, <1>3, <1>4, <1>5, <1>6

LEMMA VenueTyped ==
  ASSUME TypeOK,
         \E e \in Effects : Send(e) \/ Fill(e) \/ Die(e) \/ Close(e) \/ Project(e)
                              \/ Flatten(e) \/ Collect(e) \/ Outdate(e)
  PROVE  TypeOK'
<1> PICK e \in Effects : Send(e) \/ Fill(e) \/ Die(e) \/ Close(e) \/ Project(e)
                           \/ Flatten(e) \/ Collect(e) \/ Outdate(e)
  OBVIOUS
<1> USE DEF TypeOK, tables, calls
<1>1. CASE Send(e)
  BY <1>1 DEF Send
<1>2. CASE Fill(e)
  BY <1>2 DEF Fill
<1>3. CASE Die(e)
  BY <1>3 DEF Die
<1>4. CASE Close(e)
  BY <1>4 DEF Close
<1>5. CASE Project(e)
  BY <1>5 DEF Project
<1>6. CASE Flatten(e)
  BY <1>6 DEF Flatten
<1>7. CASE Collect(e)
  <2>1. [order |-> e \in order, pos |-> e \in pos, charge |-> charge[e]] \in Proofs
    BY DEF Proofs
  <2> QED
    BY <1>7, <2>1 DEF Collect, venue
<1>8. CASE Outdate(e)
  BY <1>8 DEF Outdate, venue
<1> QED
  BY <1>1, <1>2, <1>3, <1>4, <1>5, <1>6, <1>7, <1>8

\* The release of e takes off what was reserved, and adds what it cost.
LEMMA Released ==
  ASSUME TypeOK, NEW e \in Effects, Accept(e)
  PROVE  /\ reserved[e].decision.risk \in Nat /\ reserved[e].decision.notional \in Nat
         /\ receipt[e] \in Nat
         /\ Over(receipt[e], reserved[e].decision.risk) \in Nat
         /\ receipt[e] <= reserved[e].decision.risk + Over(receipt[e], reserved[e].decision.risk)
<1> DEFINE d == reserved[e].decision
<1>1. reserved[e] \in Reservations /\ receipt[e] \in Charges
  BY DEF TypeOK, Accept, Rows, Receipted
<1>2. d \in Decisions
  BY <1>1 DEF Reservations
<1>3. d.risk \in Nat /\ d.notional \in Nat /\ receipt[e] \in Nat
  BY <1>1, <1>2
<1> HIDE DEF d
<1>4. /\ Over(receipt[e], d.risk) \in Nat
      /\ receipt[e] <= d.risk + Over(receipt[e], d.risk)
  BY <1>3 DEF Over
<1> QED
  BY <1>3, <1>4 DEF d

LEMMA ReceiptTyped ==
  ASSUME TypeOK, NEW e \in Effects, Reconcile(e) \/ Accept(e)
  PROVE  TypeOK'
<1> USE DEF TypeOK, calls, venue
<1>1. CASE Reconcile(e)
  <2>1. proof[e].charge \in Charges
    BY <1>1 DEF Reconcile, Terminal, Proofs
  <2> QED
    BY <1>1, <2>1 DEF Reconcile
<1>2. CASE Accept(e)
  <2>1. open' \in [risk : Int, notional : Int] /\ charged' \in Nat /\ slip' \in Nat
    BY <1>2, Released DEF Accept
  <2> QED
    BY <1>2, <2>1 DEF Accept
<1> QED
  BY <1>1, <1>2

LEMMA NextTyped == ASSUME TypeOK, Grounded, Next PROVE TypeOK'
  BY StagingTyped, ReservingTyped, VenueTyped, ReceiptTyped DEF Next

-----------------------------------------------------------------------------
(* The reservation: from its check to its commit *)

\* What the reservations of the account rest on.
Reserved == Alone /\ Grounded /\ UnderArm /\ Capped

\* Steps of the venue and of its evidence touch none of it.
LEMMA ReservedKept ==
  ASSUME Reserved, UNCHANGED <<tables, calls>>
  PROVE  Reserved'
<1>1. Holding' = Holding /\ Rows' = Rows
  BY DEF Holding, Rows, tables, calls
<1>2. \A d, a : WithinCaps(d, a)' = WithinCaps(d, a)
  BY <1>1 DEF WithinCaps, tables
<1> QED
  BY <1>1, <1>2 DEF Reserved, Alone, Grounded, UnderArm, Capped, tables, calls

\* A writer that gets the lock finds no reservation under way.
LEMMA ReservedUnlocked ==
  ASSUME TypeOK, Grounded, Holding = {}, UNCHANGED calls,
         \A e \in Effects : decision[e] # None => decision'[e] # None,
         \A e \in bound' : decision'[e] # None
  PROVE  Reserved'
<1>1. Holding' = {}
  BY DEF Holding, calls
<1>2. \A w \in Callers : pc[w] # "inserted"
  BY DEF Holding
<1> QED
  BY <1>1, <1>2 DEF Reserved, Alone, Grounded, UnderArm, Capped, calls

LEMMA StagingReserved ==
  ASSUME TypeOK, Reserved,
         \/ \E d \in Decisions : StageRisk(d)
         \/ \E a \in Arms : Arm(a)
         \/ \E c \in Contexts : Disarm(c)
         \/ \E e \in Effects : Bind(e) \/ GoStale(e)
  PROVE  Reserved'
<1> USE DEF TypeOK
<1>1. CASE \E d \in Decisions : StageRisk(d)
  <2> PICK d \in Decisions : StageRisk(d)
    BY <1>1
  <2>1. Holding = {}
    BY Waits DEF StageRisk
  <2>2. \A e \in Effects : decision[e] # None => decision'[e] # None
    BY DEF StageRisk
  <2>3. \A e \in bound' : decision'[e] # None
    BY <2>2 DEF StageRisk, Reserved, Grounded
  <2> QED
    BY <2>1, <2>2, <2>3, ReservedUnlocked DEF StageRisk, Reserved
<1>2. CASE \E a \in Arms : Arm(a)
  <2> PICK a \in Arms : Arm(a)
    BY <1>2
  <2>1. Holding = {}
    BY Waits DEF Arm
  <2>2. UNCHANGED <<calls, decision, bound>>
    BY DEF Arm
  <2> QED
    BY <2>1, <2>2, ReservedUnlocked DEF Reserved, Grounded
<1>3. CASE \E c \in Contexts : Disarm(c)
  <2> PICK c \in Contexts : Disarm(c)
    BY <1>3
  <2>1. Holding = {}
    BY Waits DEF Disarm
  <2>2. UNCHANGED <<calls, decision, bound>>
    BY DEF Disarm
  <2> QED
    BY <2>1, <2>2, ReservedUnlocked DEF Reserved, Grounded
<1>4. CASE \E e \in Effects : Bind(e)
  <2> PICK e \in Effects : Bind(e)
    BY <1>4
  <2>1. UNCHANGED <<decision, reserved, operator, open, charged, calls>>
    BY DEF Bind
  <2>2. Holding' = Holding /\ Rows' = Rows
    BY <2>1 DEF Holding, Rows, calls
  <2>3. \A d, a : WithinCaps(d, a)' = WithinCaps(d, a)
    BY <2>1, <2>2 DEF WithinCaps
  <2>4. \A f \in bound' : decision[f] # None
    BY DEF Bind, Reserved, Grounded
  <2> QED
    BY <2>1, <2>2, <2>3, <2>4 DEF Reserved, Alone, Grounded, UnderArm, Capped, calls
<1>5. CASE \E e \in Effects : GoStale(e)
  BY <1>5, ReservedKept DEF GoStale
<1> QED
  BY <1>1, <1>2, <1>3, <1>4, <1>5

\* A caller whose step leaves the tables alone disturbs no other caller.
LEMMA CallerReserved ==
  ASSUME TypeOK, Reserved, NEW w \in Callers, UNCHANGED tables,
         NEW p \in {"idle", "begun", "checked", "inserted"}, pc' = [pc EXCEPT ![w] = p],
         \/ Idle(w)
         \/ /\ effect' = [effect EXCEPT ![w] = effect'[w]]
            /\ armed' = [armed EXCEPT ![w] = armed'[w]],
         p # "idle" => /\ effect'[w] \in Effects /\ decision[effect'[w]] # None
                       /\ armed'[w] \in Arms,
         p \in {"checked", "inserted"} =>
           /\ w \in Holding \/ Holding = {}
           /\ operator[ContextOf[effect'[w]]] = armed'[w],
         p = "inserted" => WithinCaps(decision[effect'[w]], armed'[w])
  PROVE  Reserved'
<1> USE DEF TypeOK, Reserved, tables
<1>1. \A v \in Callers : v # w =>
        pc'[v] = pc[v] /\ effect'[v] = effect[v] /\ armed'[v] = armed[v]
  BY DEF Idle
<1>2. pc'[w] = p
  OBVIOUS
<1>3. \A d, a : WithinCaps(d, a)' = WithinCaps(d, a)
  BY DEF WithinCaps, Rows
<1>4. Alone'
  BY <1>1, <1>2 DEF Alone, Holding
<1>5. Grounded'
  BY <1>1, <1>2 DEF Grounded
<1>6. UnderArm'
  BY <1>1, <1>2 DEF UnderArm, Holding
<1>7. Capped'
  <2> SUFFICES ASSUME NEW v \in Callers, pc'[v] = "inserted"
               PROVE  WithinCaps(decision[effect[v]], armed[v])'
    BY DEF Capped
  <2>1. WithinCaps(decision[effect'[v]], armed'[v])
    BY <1>1, <1>2 DEF Capped
  <2> QED
    BY <2>1 DEF WithinCaps, Rows
<1> QED
  BY <1>4, <1>5, <1>6, <1>7

LEMMA ReservingReserved ==
  ASSUME TypeOK, Reserved, Reserving
  PROVE  Reserved'
<1> PICK w \in Callers : \/ \E e \in Effects : Begin(w, e)
                         \/ Replay(w) \/ Check(w) \/ Insert(w) \/ Commit(w) \/ Abandon(w)
  BY DEF Reserving
<1>1. CASE \E e \in Effects : Begin(w, e)
  <2> PICK e \in Effects : Begin(w, e)
    BY <1>1
  <2>1. effect'[w] = e /\ armed'[w] = operator[ContextOf[e]]
    BY DEF Begin, TypeOK
  <2>2. decision[e] # None /\ armed'[w] \in Arms
    BY <2>1 DEF Begin, Reserved, Grounded, TypeOK
  <2> QED
    BY <2>1, <2>2, CallerReserved DEF Begin
<1>2. CASE Replay(w) \/ Abandon(w)
  BY <1>2, CallerReserved DEF Replay, Abandon, Idle
<1>3. CASE Check(w)
  <2>1. Holding = {}
    BY <1>3, Waits DEF Check
  <2>2. effect' = effect /\ armed' = armed /\ UNCHANGED tables
        /\ pc' = [pc EXCEPT ![w] = "checked"] /\ pc[w] = "begun"
        /\ operator[ContextOf[effect[w]]] = armed[w]
    BY <1>3 DEF Check
  <2>3. /\ effect' = [effect EXCEPT ![w] = effect'[w]]
        /\ armed' = [armed EXCEPT ![w] = armed'[w]]
    BY <2>2 DEF TypeOK
  <2>4. effect[w] \in Effects /\ decision[effect[w]] # None /\ armed[w] \in Arms
    BY <2>2 DEF Reserved, Grounded
  <2> QED
    BY <2>1, <2>2, <2>3, <2>4, CallerReserved
<1>4. CASE Insert(w)
  <2>1. effect' = effect /\ armed' = armed /\ UNCHANGED tables
        /\ pc' = [pc EXCEPT ![w] = "inserted"] /\ pc[w] = "checked"
        /\ WithinCaps(decision[effect[w]], armed[w])
    BY <1>4 DEF Insert
  <2>2. w \in Holding
    BY <2>1 DEF Holding
  <2>3. /\ effect' = [effect EXCEPT ![w] = effect'[w]]
        /\ armed' = [armed EXCEPT ![w] = armed'[w]]
    BY <2>1 DEF TypeOK
  <2>4. /\ effect[w] \in Effects /\ decision[effect[w]] # None /\ armed[w] \in Arms
        /\ operator[ContextOf[effect[w]]] = armed[w]
    BY <2>1, <2>2 DEF Reserved, Grounded, UnderArm
  <2> QED
    BY <2>1, <2>2, <2>3, <2>4, CallerReserved
<1>5. CASE Commit(w)
  <2>1. pc[w] = "inserted" /\ Idle(w) /\ UNCHANGED <<decision, bound, operator>>
    BY <1>5 DEF Commit
  <2>2. w \in Holding
    BY <2>1 DEF Holding
  <2>3. \A v \in Callers : v # w =>
          v \notin Holding /\ pc'[v] = pc[v] /\ effect'[v] = effect[v] /\ armed'[v] = armed[v]
    BY <2>1, <2>2 DEF Idle, Reserved, Alone, TypeOK
  <2>4. Holding' = {} /\ \A v \in Callers : pc'[v] # "inserted"
    BY <2>1, <2>3 DEF Idle, Holding, TypeOK
  <2>5. Grounded'
    BY <2>1, <2>3 DEF Reserved, Grounded, Idle, TypeOK
  <2> QED
    BY <2>4, <2>5 DEF Reserved, Alone, UnderArm, Capped
<1> QED
  BY <1>1, <1>2, <1>3, <1>4, <1>5

LEMMA ReceiptReserved ==
  ASSUME TypeOK, Reserved, NEW e \in Effects, Reconcile(e) \/ Accept(e)
  PROVE  Reserved'
<1>1. Holding = {} /\ UNCHANGED <<calls, decision, bound>>
  BY Waits DEF Reconcile, Accept
<1> QED
  BY <1>1, ReservedUnlocked DEF Reserved, Grounded

LEMMA NextReserved == ASSUME TypeOK, Reserved, Next PROVE Reserved'
<1>1. CASE \E e \in Effects : Send(e) \/ Fill(e) \/ Die(e) \/ Close(e) \/ Project(e)
                                \/ Flatten(e) \/ Collect(e) \/ Outdate(e)
  <2>1. UNCHANGED <<tables, calls>>
    BY <1>1 DEF Send, Fill, Die, Close, Project, Flatten, Collect, Outdate
  <2> QED
    BY <2>1, ReservedKept
<1> QED
  BY <1>1, StagingReserved, ReservingReserved, ReceiptReserved DEF Next

-----------------------------------------------------------------------------
(* The venue, its evidence, and the release *)

Traced == Sourced /\ Settled

\* No row ever goes, and only the venue and its evidence matter here.
LEMMA TracedKept ==
  ASSUME Traced, UNCHANGED <<venue, proof, receipt, released>>, Rows \subseteq Rows'
  PROVE  Traced'
  BY DEF Traced, Sourced, Settled, venue

LEMMA TablesTraced ==
  ASSUME TypeOK, Traced,
         \/ \E d \in Decisions : StageRisk(d)
         \/ \E a \in Arms : Arm(a)
         \/ \E c \in Contexts : Disarm(c)
         \/ \E e \in Effects : Bind(e) \/ GoStale(e)
         \/ Reserving
  PROVE  Traced'
<1>1. CASE Reserving
  <2> PICK w \in Callers : \/ \E e \in Effects : Begin(w, e)
                           \/ Replay(w) \/ Check(w) \/ Insert(w) \/ Commit(w) \/ Abandon(w)
    BY <1>1 DEF Reserving
  <2>1. CASE Commit(w)
    <3>1. UNCHANGED <<venue, proof, receipt, released>>
      BY <2>1 DEF Commit
    <3>2. Rows \subseteq Rows'
      BY <2>1 DEF Commit, Rows, TypeOK
    <3> QED
      BY <3>1, <3>2, TracedKept
  <2>2. CASE ~Commit(w)
    <3>1. UNCHANGED <<tables, venue, proof>>
      BY <2>2 DEF Begin, Replay, Check, Insert, Abandon
    <3> QED
      BY <3>1, TracedKept DEF tables, Rows
  <2> QED
    BY <2>1, <2>2
<1>2. CASE ~Reserving
  <2>1. UNCHANGED <<venue, proof, receipt, released, reserved>>
    BY <1>2 DEF StageRisk, Arm, Disarm, Bind, GoStale, tables
  <2> QED
    BY <2>1, TracedKept DEF Rows
<1> QED
  BY <1>1, <1>2

\* An order is sent once and a position grows out of an order, so what evidence
\* says is gone stays gone.
LEMMA VenueTraced ==
  ASSUME TypeOK, Traced, NEW e \in Effects,
         Send(e) \/ Fill(e) \/ Die(e) \/ Close(e) \/ Project(e) \/ Flatten(e)
  PROVE  Traced'
<1> USE DEF Traced, Sourced, Settled, tables
<1>0. UNCHANGED <<proof, receipt, released>> /\ Rows' = Rows
  BY DEF Send, Fill, Die, Close, Project, Flatten, Rows
<1>1. CASE Send(e)
  BY <1>0, <1>1 DEF Send
<1>2. CASE Fill(e)
  BY <1>0, <1>2 DEF Fill
<1>3. CASE Die(e)
  BY <1>0, <1>3 DEF Die
<1>4. CASE Close(e)
  BY <1>0, <1>4 DEF Close
<1>5. CASE Project(e) \/ Flatten(e)
  BY <1>0, <1>5 DEF Project, Flatten
<1> QED
  BY <1>1, <1>2, <1>3, <1>4, <1>5

LEMMA EvidenceTraced ==
  ASSUME TypeOK, Traced, NEW e \in Effects,
         Collect(e) \/ Outdate(e) \/ Reconcile(e) \/ Accept(e)
  PROVE  Traced'
<1> USE DEF Traced, Sourced, Settled, tables, venue, TypeOK
<1>0. UNCHANGED venue /\ Rows' = Rows
  BY DEF Collect, Outdate, Reconcile, Accept, Rows
<1>1. CASE Collect(e)
  <2>1. e \in bought /\ UNCHANGED <<receipt, released>>
    BY <1>1 DEF Collect
  <2>2. \A f \in Effects : f # e => proof'[f] = proof[f]
    BY <1>1 DEF Collect
  <2> DEFINE o == e \in order  p == e \in pos
  <2>3. proof'[e] = [order |-> o, pos |-> p, charge |-> charge[e]]
    BY <1>1 DEF Collect
  <2> HIDE DEF o, p
  <2>4. proof'[e].order = o /\ proof'[e].pos = p
    BY <2>3
  <2> USE DEF o, p
  <2> QED
    BY <1>0, <2>1, <2>2, <2>4
<1>2. CASE Outdate(e)
  BY <1>0, <1>2 DEF Outdate
<1>3. CASE Reconcile(e)
  <2>1. e \in bought /\ e \in sent /\ e \notin order /\ e \notin pos
    BY <1>3 DEF Reconcile, Terminal
  <2> QED
    BY <1>0, <1>3, <2>1 DEF Reconcile
<1>4. CASE Accept(e)
  BY <1>0, <1>4 DEF Accept, Receipted
<1> QED
  BY <1>1, <1>2, <1>3, <1>4

LEMMA NextTraced == ASSUME TypeOK, Traced, Next PROVE Traced'
  BY TablesTraced, VenueTraced, EvidenceTraced DEF Next

-----------------------------------------------------------------------------
(* The caps *)

LEMMA CommitHolds ==
  ASSUME TypeOK, Reserved, CapsHold, NEW w \in Callers, Commit(w)
  PROVE  CapsHold'
<1> DEFINE e == effect[w]  d == decision[e]  a == armed[w]
           row == [decision |-> d, arm |-> a]
           ds == {reserved[x].decision : x \in Rows} \cup {d}
           as == {reserved[x].arm : x \in Rows} \cup {a}
<1>1. e \in Effects /\ d \in Decisions /\ a \in Arms /\ WithinCaps(d, a)
  BY DEF Commit, Reserved, Grounded, Capped, TypeOK
<1>2. /\ reserved' = [reserved EXCEPT ![e] = row]
      /\ open'.risk = open.risk + d.risk /\ open'.notional = open.notional + d.notional
      /\ charged' = charged /\ slip' = slip
  BY DEF Commit
<1>3. \A x \in Rows' : reserved'[x].decision \in ds /\ reserved'[x].arm \in as
  BY <1>1, <1>2 DEF Rows, TypeOK
<1>4. \A q \in ds : q \in Decisions
  BY <1>1 DEF Rows, TypeOK, Reservations
<1>5. \A b \in as : b \in Arms
  BY <1>1 DEF Rows, TypeOK, Reservations
<1>6. \A p, q \in ds : \A b \in as :
        /\ 100 * (p.openRisk + open.risk + d.risk) <= q.equity
        /\ p.daily + charged + open.risk + d.risk <= b.daily
        /\ p.openNotional + open.notional + d.notional <= b.cap
  BY <1>1 DEF WithinCaps
<1> HIDE DEF ds, as, d
<1>7. \A p, q \in ds : \A b \in as :
        /\ 100 * (p.openRisk + open'.risk) <= q.equity
        /\ p.openNotional + open'.notional <= b.cap
        /\ p.daily + charged' + open'.risk <= b.daily + slip'
  <2> SUFFICES ASSUME NEW p \in ds, NEW q \in ds, NEW b \in as
               PROVE  /\ 100 * (p.openRisk + open'.risk) <= q.equity
                      /\ p.openNotional + open'.notional <= b.cap
                      /\ p.daily + charged' + open'.risk <= b.daily + slip'
    OBVIOUS
  <2>1. /\ {p.openRisk, p.openNotional, p.daily, q.equity, b.cap, b.daily} \subseteq Nat
        /\ d.risk \in Nat /\ d.notional \in Nat
        /\ open.risk \in Int /\ open.notional \in Int /\ charged \in Nat /\ slip \in Nat
    BY <1>1, <1>4, <1>5 DEF TypeOK
  <2>2. /\ 100 * (p.openRisk + open.risk + d.risk) <= q.equity
        /\ p.daily + charged + open.risk + d.risk <= b.daily
        /\ p.openNotional + open.notional + d.notional <= b.cap
    BY <1>6
  <2>3. /\ open'.risk = open.risk + d.risk /\ open'.notional = open.notional + d.notional
        /\ charged' = charged /\ slip' = slip
    BY <1>2
  <2> QED
    BY <2>1, <2>2, <2>3
<1> QED
  BY <1>3, <1>7 DEF CapsHold

\* A release gives back what was reserved, and charges at most that and the slip.
LEMMA AcceptHolds ==
  ASSUME TypeOK, CapsHold, NEW e \in Effects, Accept(e)
  PROVE  CapsHold'
<1> DEFINE r == reserved[e].decision.risk  n == reserved[e].decision.notional
           v == Over(receipt[e], r)
<1>1. /\ r \in Nat /\ n \in Nat /\ receipt[e] \in Nat /\ v \in Nat
      /\ receipt[e] <= r + v
  BY Released
<1>2. /\ reserved' = reserved
      /\ open'.risk = open.risk - r /\ open'.notional = open.notional - n
      /\ charged' = charged + receipt[e] /\ slip' = slip + v
  BY DEF Accept
<1> HIDE DEF r, n, v
<1> SUFFICES ASSUME NEW x \in Rows, NEW y \in Rows
             PROVE  LET p == reserved[x].decision
                        q == reserved[y]
                    IN /\ 100 * (p.openRisk + open'.risk) <= q.decision.equity
                       /\ p.openNotional + open'.notional <= q.arm.cap
                       /\ p.daily + charged' + open'.risk <= q.arm.daily + slip'
  BY <1>2 DEF CapsHold, Rows
<1> DEFINE p == reserved[x].decision  q == reserved[y]
<1>3. p \in Decisions /\ q.decision \in Decisions /\ q.arm \in Arms
  BY DEF Rows, TypeOK, Reservations
<1>4. /\ 100 * (p.openRisk + open.risk) <= q.decision.equity
      /\ p.openNotional + open.notional <= q.arm.cap
      /\ p.daily + charged + open.risk <= q.arm.daily + slip
  BY DEF CapsHold
<1>5. /\ {p.openRisk, p.openNotional, p.daily} \subseteq Nat
      /\ q.decision.equity \in Nat /\ q.arm.cap \in Nat /\ q.arm.daily \in Nat
      /\ open.risk \in Int /\ open.notional \in Int /\ charged \in Nat /\ slip \in Nat
  BY <1>3 DEF TypeOK
<1> HIDE DEF p, q
<1>6. /\ 100 * (p.openRisk + open'.risk) <= q.decision.equity
      /\ p.openNotional + open'.notional <= q.arm.cap
      /\ p.daily + charged' + open'.risk <= q.arm.daily + slip'
  BY <1>1, <1>2, <1>4, <1>5
<1> QED
  BY <1>6 DEF p, q

LEMMA NextHolds == ASSUME TypeOK, Reserved, CapsHold, Next PROVE CapsHold'
<1>1. CASE \E w \in Callers : Commit(w)
  BY <1>1, CommitHolds
<1>2. CASE \E e \in Effects : Accept(e)
  BY <1>2, AcceptHolds
<1>3. CASE ~(\E w \in Callers : Commit(w)) /\ ~(\E e \in Effects : Accept(e))
  <2>1. UNCHANGED <<reserved, open, charged, slip>>
    BY <1>3 DEF Next, Reserving, StageRisk, Arm, Disarm, Bind, GoStale, Begin, Replay,
       Check, Insert, Abandon, Send, Fill, Die, Close, Project, Flatten, Collect,
       Outdate, Reconcile, tables
  <2> QED
    BY <2>1 DEF CapsHold, Rows
<1> QED
  BY <1>1, <1>2, <1>3

-----------------------------------------------------------------------------
(* The theorems *)

LEMMA InitHolds == Init => IInv
<1> SUFFICES ASSUME Init PROVE IInv
  OBVIOUS
<1> USE DEF Init
<1>1. Rows = {} /\ Holding = {}
  BY DEF Rows, Holding
<1>2. TypeOK
  BY DEF TypeOK
<1>3. Alone /\ Grounded /\ UnderArm /\ Capped
  BY <1>1 DEF Alone, Grounded, UnderArm, Capped
<1>4. Sourced /\ Settled /\ CapsHold
  BY <1>1 DEF Sourced, Settled, CapsHold
<1> QED
  BY <1>2, <1>3, <1>4 DEF IInv

LEMMA NextInductive == IInv /\ [Next]_vars => IInv'
<1> SUFFICES ASSUME IInv, [Next]_vars PROVE IInv'
  OBVIOUS
<1>1. TypeOK /\ Reserved /\ Traced /\ CapsHold
  BY DEF IInv, Reserved, Traced
<1>2. CASE Next
  <2>1. TypeOK' /\ Reserved' /\ Traced' /\ CapsHold'
    BY <1>1, <1>2, NextTyped, NextReserved, NextTraced, NextHolds DEF Reserved
  <2> QED
    BY <2>1 DEF IInv, Reserved, Traced
<1>3. CASE UNCHANGED vars
  <2>1. TypeOK'
    BY <1>1, <1>3 DEF TypeOK, vars, tables, calls, venue
  <2>2. Reserved'
    BY <1>1, <1>3, ReservedKept DEF vars
  <2>3. Traced' /\ CapsHold'
    BY <1>1, <1>3, TracedKept DEF CapsHold, Rows, vars, tables, venue
  <2> QED
    BY <2>1, <2>2, <2>3 DEF IInv, Reserved, Traced
<1> QED
  BY <1>2, <1>3

LEMMA Inductive == Spec => []IInv
  BY InitHolds, NextInductive, PTL DEF Spec

\* The tables hold rows of their kinds, and the totals stay integers.
THEOREM AccountTypeOK == Spec => []TypeOK
<1>1. IInv => TypeOK
  BY DEF IInv
<1> QED
  BY <1>1, Inductive, PTL

\* However many callers reserve for however many contexts, what is held and what
\* is lost stay under every cap the account has seen (reserve_entry_async,
\* accept_terminal_receipt).
THEOREM AccountCapsHold == Spec => []CapsHold
<1>1. IInv => CapsHold
  BY DEF IInv
<1> QED
  BY <1>1, Inductive, PTL

\* Capital is never freed under an order or a position (reconcile_terminal,
\* enforce_release).
THEOREM AccountLiveIsHeld == Spec => []LiveIsHeld
<1>1. IInv => LiveIsHeld
  BY DEF IInv, Sourced, Settled, LiveIsHeld, Held, Rows
<1> QED
  BY <1>1, Inductive, PTL

\* No disarm comes between the check of a reservation and its commit.
THEOREM AccountReservedUnderArm == Spec => ReservedUnderArm
<1> DEFINE Under == \A e \in Effects : reserved'[e] # reserved[e] =>
                      operator[ContextOf[e]] = reserved'[e].arm
<1>1. IInv /\ [Next]_vars => [Under]_vars
  <2> SUFFICES ASSUME IInv, Next, NEW e \in Effects, reserved'[e] # reserved[e]
               PROVE  operator[ContextOf[e]] = reserved'[e].arm
    OBVIOUS
  <2>1. PICK w \in Callers : Commit(w)
    BY DEF Next, Reserving, StageRisk, Arm, Disarm, Bind, GoStale, Begin, Replay,
       Check, Insert, Abandon, Send, Fill, Die, Close, Project, Flatten, Collect,
       Outdate, Reconcile, Accept, tables
  <2>2. e = effect[w] /\ reserved'[e].arm = armed[w] /\ w \in Holding
    BY <2>1 DEF Commit, Holding, IInv, TypeOK
  <2> QED
    BY <2>2 DEF IInv, UnderArm
<1> QED
  BY <1>1, Inductive, PTL DEF Spec, ReservedUnderArm
=============================================================================
