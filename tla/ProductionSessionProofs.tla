----------------------- MODULE ProductionSessionProofs -----------------------
(***************************************************************************)
(* Theorems about one manually armed production session, for any entries,  *)
(* arms, queue capacity and admission limit, and through any number of     *)
(* processes.                                                              *)
(*                                                                         *)
(* The argument: the durable nonce gives every arm to one process, so what *)
(* is staged for the arm of a bound session was staged by this session and *)
(* stands among the identities it has seen (Sole).  An identity enters the *)
(* queue once, and what waits in the queue or has just been taken from it  *)
(* has staged nothing (Pulled), which makes a refusal and a stop true.     *)
(* The host owns one entry and consumes its terminal attempt before it     *)
(* asks for the lock (Proving).                                            *)
(***************************************************************************)
EXTENDS ProductionSession, FiniteSetTheorems, TLAPS

-----------------------------------------------------------------------------
(* The inductive invariant *)

\* The process holds its arm, and what the worker has in hand may be staged.
Bound == phase \in {"starting", "running", "closing", "unresolved"}
Busy  == worker \in {"staging", "inspecting", "handling", "ending"}
Queued(e) == \E i \in 1..Len(queue) : queue[i] = e
Held(e)   == Queued(e) \/ e = item

TypeOK ==
  /\ usedArms \subseteq Arms /\ staged \subseteq Entries /\ handled \subseteq staged
  /\ flat \subseteq Entries
  /\ phase \in {"none", "starting", "running", "closing", "unresolved", "closed"}
  /\ arm \in Arms \cup {None}
  /\ lock \in {"free", "start", "worker", "loop", "host"}
  /\ queue \in Seq(Entries) /\ seen \subseteq Entries /\ waiting \subseteq Entries
  /\ answer \in [Entries -> {"none", "open", "result", "refusal", "unresolved", "stopped",
                             "abandoned"}]
  /\ worker \in {"none", "get", "lock", "staging", "inspecting", "handling", "ending", "dead"}
  /\ item \in Entries \cup {None}
  /\ loop \in {"none", "sleep", "lock", "pass", "ending", "dead"}
  /\ submission \in {"none", "providing", "done"} \cup Entries
  /\ owned \in Entries \cup {None}
  /\ terminal \in {"none", "attempted", "accepted", "failed"}
  /\ poll \in {"idle", "asking", "lock", "reconciling"}
  /\ proofs \in [Entries -> Nat]

\* A process that does not run yet has nothing in hand.
Clean == phase \in {"none", "starting"} =>
  /\ seen = {} /\ waiting = {} /\ queue = <<>> /\ \A e \in Entries : answer[e] = "none"
  /\ worker = "none" /\ item = None /\ loop = "none"
  /\ submission = "none" /\ owned = None /\ terminal = "none" /\ poll = "idle" /\ ~unknown
  /\ lock = IF phase = "none" THEN "free" ELSE "start"

\* An unknown outcome blocks entries for the life of the process.
Fenced == unknown => blocked

\* The arm belongs to this process alone.
Sole ==
  /\ Bound => arm \in usedArms
  /\ \A e \in Entries : ArmOf[e] \notin usedArms => e \notin staged /\ proofs[e] = 0
  /\ \A e \in staged : Bound /\ ArmOf[e] = arm => e \in seen

Limited ==
  /\ IsFiniteSet(seen) /\ Cardinality(seen) <= MaxAdmissions
  /\ \A a \in Arms : Cardinality({e \in staged : ArmOf[e] = a}) <= MaxAdmissions

\* An identity is queued once; while it is held its future is open or given up,
\* and it is staged only past the staging step of the worker.
Pulled ==
  /\ \A i, j \in 1..Len(queue) : queue[i] = queue[j] => i = j
  /\ \A e \in Entries : Queued(e) => e # item
  /\ \A e \in Entries : Held(e) => e \in seen /\ answer[e] \in {"open", "abandoned"}
  /\ \A e \in Entries : answer[e] = "open" => Held(e)
  /\ \A e \in staged : Bound /\ ArmOf[e] = arm /\ Held(e) =>
       e = item /\ worker \in {"inspecting", "handling", "ending"}

Working ==
  /\ worker \in {"none", "get", "dead"} <=> item = None
  /\ worker \notin {"none", "dead"} => phase \in {"running", "closing", "unresolved"}
  /\ Busy => ArmOf[item] = arm
  /\ worker \in {"inspecting", "handling"} => item \in staged

Holding ==
  /\ lock = "worker" => Busy
  /\ lock = "loop" => loop \in {"pass", "ending"}
  /\ lock = "start" => phase = "starting"

Shut == phase = "closed" =>
  /\ worker \in {"none", "dead"} /\ loop \in {"none", "dead"} /\ queue = <<>>
  /\ \A e \in Entries : answer[e] # "open"

\* What was answered as refused or stopped is not staged.
Refusals == \A e \in Entries :
  ArmOf[e] = arm /\ answer[e] \in {"refusal", "stopped"} => e \notin staged

\* The host owns one entry of its arm, and proves its end once.
Proving ==
  /\ owned # None => submission = "done" /\ ArmOf[owned] = arm
  /\ submission \in Entries => ArmOf[submission] = arm
  /\ poll # "idle" => owned # None
  /\ poll = "asking" => terminal = "none"
  /\ poll = "lock" => terminal = "attempted"
  /\ \A e \in Entries :
       /\ proofs[e] <= 1
       /\ Bound /\ ArmOf[e] = arm /\ proofs[e] > 0 =>
            e = owned /\ terminal # "none" /\ poll # "lock"

IInv == /\ TypeOK /\ Clean /\ Fenced /\ Sole /\ Limited /\ Pulled /\ Working /\ Holding
        /\ Shut /\ Refusals /\ Proving

-----------------------------------------------------------------------------
(* The steps by kind *)

Starting == \E a \in Arms : Start(a) \/ StartRefused(a)
Recovered == (\E b \in BOOLEAN : StartDone(b)) \/ StartUnresolved
Submitted == \E e \in Entries : SubmitExhausted(e) \/ Submit(e) \/ GiveUp(e) \/ Told(e)

\* A process in its first two phases only starts, recovers or dies.
LEMMA OnlyStarts ==
  ASSUME IInv, phase \in {"none", "starting"}
  PROVE  ~Submitted /\ ~WorkerNext /\ ~LoopNext /\ ~HostNext
<1>1. /\ worker = "none" /\ loop = "none" /\ submission = "none" /\ poll = "idle" /\ waiting = {}
      /\ \A e \in Entries : answer[e] = "none"
  BY DEF IInv, Clean
<1>2. ~WorkerNext
  BY <1>1 DEF WorkerNext, WorkerGet, WorkerLock, WorkerRefuse, EntryRefused, Stage, Handle, Inspected,
     WorkerDone, WorkerFails, WorkerTimeout, WorkerCancelled, WorkerEnds
<1>3. ~LoopNext
  BY <1>1 DEF LoopNext, LoopLock, LoopEnds, LoopFails, LoopTimeout, LoopEnding, LoopWakes, LoopCancelled
<1>4. ~HostNext
  BY <1>1 DEF HostNext, HostAdmit, HostRefuse, HostSubmit, Ask, Pending, ProviderFails, Evidence,
     ReconcileLock, ReconcileDone, ReconcileFails, HealthLost, Close, CloseDone, CloseUnresolved
<1>5. ~Submitted
  BY <1>1 DEF Submitted, SubmitExhausted, Submit, Enqueue, Submittable, GiveUp, Told
<1> QED
  BY <1>2, <1>3, <1>4, <1>5

-----------------------------------------------------------------------------
(* The queue *)

LEMMA Appended ==
  ASSUME NEW q \in Seq(Entries), NEW e \in Entries
  PROVE  /\ Append(q, e) \in Seq(Entries) /\ Len(Append(q, e)) = Len(q) + 1
         /\ Append(q, e)[Len(q) + 1] = e
         /\ \A i \in 1..Len(q) : Append(q, e)[i] = q[i]
  OBVIOUS

LEMMA Taken ==
  ASSUME NEW q \in Seq(Entries), q # <<>>
  PROVE  /\ Head(q) \in Entries /\ Head(q) = q[1] /\ Len(q) \in Nat \ {0}
         /\ Tail(q) \in Seq(Entries) /\ Len(Tail(q)) = Len(q) - 1
         /\ \A i \in 1..(Len(q) - 1) : Tail(q)[i] = q[i + 1]
  OBVIOUS

-----------------------------------------------------------------------------
(* Types *)

InboxTyped ==
  /\ queue \in Seq(Entries) /\ seen \subseteq Entries /\ waiting \subseteq Entries
  /\ answer \in [Entries -> {"none", "open", "result", "refusal", "unresolved", "stopped",
                             "abandoned"}]

LEMMA EnqueueTyped ==
  ASSUME InboxTyped, NEW e \in Entries, Enqueue(e)
  PROVE  InboxTyped'
<1>1. CASE Len(queue) < Capacity
  <2>1. /\ queue' = Append(queue, e) /\ answer' = [answer EXCEPT ![e] = "open"]
        /\ waiting' = waiting \cup {e} /\ seen' = seen \cup {e}
    BY <1>1 DEF Enqueue
  <2>2. queue' \in Seq(Entries)
    BY <2>1, Appended DEF InboxTyped
  <2>3. answer' \in [Entries -> {"none", "open", "result", "refusal", "unresolved", "stopped",
                                 "abandoned"}]
    BY <2>1 DEF InboxTyped
  <2> QED
    BY <2>1, <2>2, <2>3 DEF InboxTyped
<1>2. CASE ~(Len(queue) < Capacity)
  BY <1>2 DEF InboxTyped, Enqueue
<1> QED
  BY <1>1, <1>2

LEMMA TypeStep ==
  ASSUME IInv, [Next]_vars
  PROVE  TypeOK'
<1> USE SessionAssumption DEF TypeOK
<1>1. TypeOK /\ Proving /\ Working /\ Clean
  BY DEF IInv
<1>2. CASE Starting \/ Recovered \/ StartCancelled
  <2>1. UNCHANGED <<staged, handled, flat, queue, seen, answer, waiting, item, submission, owned,
                    terminal, poll, proofs>>
    BY <1>2 DEF Starting, Recovered, Start, StartRefused, StartDone, StartUnresolved, StartCancelled,
       durable, inbox, tasks, host, history
  <2>2. /\ phase' \in {"starting", "running", "closed"} /\ lock' \in {lock, "start", "free"}
        /\ worker' \in {worker, "get"} /\ loop' \in {loop, "lock"}
    BY <1>2 DEF Starting, Recovered, Start, StartRefused, StartDone, StartUnresolved, StartCancelled,
       tasks
  <2>3. usedArms' \subseteq Arms /\ arm' \in Arms \cup {None}
    BY <1>1, <1>2 DEF Starting, Recovered, Start, StartRefused, StartDone, StartUnresolved,
       StartCancelled, durable
  <2> QED
    BY <1>1, <2>1, <2>2, <2>3
<1>15. CASE Crash
  <2>1. UNCHANGED <<usedArms, staged, handled, flat, proofs>>
    BY <1>15 DEF Crash, durable
  <2>2. /\ phase' = "none" /\ arm' = None /\ lock' = "free" /\ seen' = {} /\ waiting' = {}
        /\ worker' = "none" /\ item' = None /\ loop' = "none" /\ submission' = "none"
        /\ owned' = None /\ terminal' = "none" /\ poll' = "idle"
    BY <1>15 DEF Crash
  <2>3. queue' \in Seq(Entries)
    BY <1>15 DEF Crash
  <2>4. answer' \in [Entries -> {"none", "open", "result", "refusal", "unresolved", "stopped",
                                 "abandoned"}]
    BY <1>15 DEF Crash
  <2> QED
    BY <1>1, <2>1, <2>2, <2>3, <2>4
<1>3. ASSUME NEW e \in Entries, SubmitExhausted(e) \/ Submit(e) PROVE TypeOK'
  <2>1. UNCHANGED <<durable, phase, arm, lock, tasks, host, history>>
    BY <1>3 DEF SubmitExhausted, Submit, service
  <2>2. (UNCHANGED inbox) \/ Enqueue(e)
    BY <1>3 DEF SubmitExhausted, Submit
  <2>3. InboxTyped'
    BY <1>1, <2>2, EnqueueTyped DEF inbox, InboxTyped
  <2> QED
    BY <1>1, <2>1, <2>3 DEF InboxTyped, durable, tasks, host, history
<1>4. ASSUME NEW e \in Entries, GiveUp(e) \/ Told(e) PROVE TypeOK'
  <2>1. UNCHANGED <<durable, phase, arm, lock, queue, seen, worker, item, loop, terminal, poll, proofs>>
    BY <1>4 DEF GiveUp, Told, tasks, history
  <2>2. waiting' \subseteq Entries /\ submission' \in {submission, "done"} /\ owned' \in {owned, e}
    BY <1>1, <1>4 DEF GiveUp, Told
  <2>3. answer' = answer \/ answer' = [answer EXCEPT ![e] = IF @ = "open" THEN "abandoned" ELSE @]
    BY <1>4 DEF GiveUp, Told, Set
  <2> QED
    BY <1>1, <2>1, <2>2, <2>3 DEF durable
<1>5. CASE WorkerGet
  BY <1>1, <1>5, Taken DEF WorkerGet, durable, service, host, history
<1>6. CASE WorkerLock \/ WorkerRefuse \/ EntryRefused \/ WorkerDone
  BY <1>1, <1>6 DEF WorkerLock, WorkerRefuse, EntryRefused, WorkerDone, WorkerUnresolved, Set, Unknown,
     durable, inbox, host, history
<1>7. CASE Stage \/ Handle \/ WorkerFails
  <2>1. item \in Entries
    BY <1>1, <1>7 DEF Working, Stage, Handle, Inspected, WorkerFails
  <2> QED
    BY <1>1, <1>7, <2>1 DEF Stage, Handle, Inspected, WorkerFails, WorkerUnresolved, Set, Unknown, Working,
       service, inbox, host, history
<1>8. CASE WorkerTimeout \/ WorkerCancelled \/ WorkerEnds
  <2>1. worker \notin {"none", "get", "dead"} => item \in Entries
    BY <1>1 DEF Working
  <2> QED
    <3>1. /\ UNCHANGED <<usedArms, handled, flat, phase, arm, queue, seen, waiting, loop, host, proofs>>
          /\ worker' \in {"get", "dead", "ending"} /\ item' \in {item, None}
          /\ lock' \in {lock, "free"}
      BY <1>8 DEF WorkerTimeout, WorkerCancelled, WorkerEnds, WorkerUnresolved, durable
    <3>2. staged' \in {staged, staged \cup {item}} /\ staged' \subseteq Entries
      BY <1>1, <1>8, <2>1 DEF WorkerTimeout, WorkerCancelled, WorkerEnds, durable
    <3>3. answer' = answer \/ answer' = [answer EXCEPT ![item] = IF @ = "open" THEN "unresolved" ELSE @]
      BY <1>8 DEF WorkerTimeout, WorkerCancelled, WorkerEnds, WorkerUnresolved, Set
    <3>4. answer' \in [Entries -> {"none", "open", "result", "refusal", "unresolved", "stopped",
                                   "abandoned"}]
      BY <1>1, <3>3
    <3> QED
      BY <1>1, <3>1, <3>2, <3>4 DEF host
<1>9. CASE LoopNext
  <2>1. UNCHANGED <<usedArms, staged, handled, phase, arm, inbox, worker, item, host, proofs>>
    BY <1>9 DEF LoopNext, LoopLock, LoopEnds, LoopFails, LoopTimeout, LoopEnding, LoopWakes,
       LoopCancelled, durable, service, history
  <2>2. /\ flat' \in {flat, handled} /\ lock' \in {lock, "free", "loop"}
        /\ loop' \in {"pass", "sleep", "ending", "dead", "lock"}
    BY <1>9 DEF LoopNext, LoopLock, LoopEnds, LoopFails, LoopTimeout, LoopEnding, LoopWakes,
       LoopCancelled, durable, service
  <2> QED
    BY <1>1, <2>1, <2>2 DEF inbox, host
<1>10. CASE HostAdmit \/ HostRefuse \/ \E e \in Entries : HostSubmit(e)
  <2>1. UNCHANGED <<durable, phase, arm, lock, tasks, owned, terminal, poll, history>>
    BY <1>10 DEF HostAdmit, HostRefuse, HostSubmit, service
  <2>2. submission' \in {"providing", "done"} \cup Entries
    BY <1>10 DEF HostAdmit, HostRefuse, HostSubmit
  <2>3. (UNCHANGED inbox) \/ \E e \in Entries : Enqueue(e)
    BY <1>10 DEF HostAdmit, HostRefuse, HostSubmit
  <2>4. InboxTyped'
    BY <1>1, <2>3, EnqueueTyped DEF inbox, InboxTyped
  <2> QED
    BY <1>1, <2>1, <2>2, <2>4 DEF InboxTyped, durable, tasks, history
<1>11. CASE (\E who \in {"run", "operator"} : Ask(who)) \/ Pending \/ ProviderFails \/ Evidence
  BY <1>1, <1>11 DEF Ask, Pending, ProviderFails, Evidence, durable, service, inbox, tasks, history
<1>12. CASE ReconcileLock \/ ReconcileDone \/ ReconcileFails
  BY <1>1, <1>12 DEF ReconcileLock, ReconcileDone, ReconcileFails, Unknown, Proving, durable, inbox, tasks,
     history
<1>13. CASE HealthLost \/ Close \/ CloseDone \/ CloseUnresolved
  <2>1. UNCHANGED <<durable, arm, lock, seen, waiting, worker, item, loop, submission, owned, terminal, poll>>
    BY <1>13 DEF HealthLost, Close, CloseDone, CloseUnresolved, inbox, tasks, host
  <2>2. phase' \in {"running", "closing", "closed", "unresolved"} /\ queue' \in {queue, <<>>} /\ proofs' = proofs
    BY <1>13 DEF HealthLost, Close, CloseDone, CloseUnresolved, inbox, history
  <2>3. answer' = answer \/ answer' = [e \in Entries |-> IF answer[e] = "open" THEN "stopped" ELSE answer[e]]
    BY <1>13 DEF HealthLost, Close, CloseDone, CloseUnresolved, inbox
  <2>4. queue' \in Seq(Entries)
    <3>1. queue \in Seq(Entries) /\ <<>> \in Seq(Entries)
      BY <1>1
    <3> QED
      BY <2>2, <3>1
  <2>5. answer' \in [Entries -> {"none", "open", "result", "refusal", "unresolved", "stopped",
                                 "abandoned"}]
    BY <1>1, <2>3
  <2> QED
    BY <1>1, <2>1, <2>2, <2>4, <2>5 DEF durable
<1>14. CASE UNCHANGED vars
  BY <1>1, <1>14 DEF vars, durable, service, inbox, tasks, host, history
<1> QED
  BY <1>2, <1>3, <1>4, <1>5, <1>6, <1>7, <1>8, <1>9, <1>10, <1>11, <1>12, <1>13, <1>14,
     <1>15 DEF Next, Starting, Recovered, WorkerNext, HostNext

-----------------------------------------------------------------------------
(* The process *)

\* Between its start and its death a process keeps its arm and its nonces, and
\* once closed it stays closed.
LEMMA SameProcess ==
  ASSUME IInv, Submitted \/ WorkerNext \/ LoopNext \/ HostNext
  PROVE  /\ phase \notin {"none", "starting"} /\ phase' \notin {"none", "starting"}
         /\ UNCHANGED <<arm, usedArms>> /\ (Bound' => Bound)
<1>1. phase \notin {"none", "starting"}
  BY OnlyStarts
<1>2. CASE Submitted
  BY <1>1, <1>2 DEF Submitted, SubmitExhausted, Submit, GiveUp, Told, durable, service, Bound
<1>3. CASE WorkerNext
  BY <1>1, <1>3 DEF WorkerNext, WorkerGet, WorkerLock, WorkerRefuse, EntryRefused, Stage, Handle,
     WorkerDone, WorkerFails, WorkerTimeout, WorkerCancelled, WorkerEnds, durable, service, Bound
<1>4. CASE LoopNext
  BY <1>1, <1>4 DEF LoopNext, LoopLock, LoopEnds, LoopFails, LoopTimeout, LoopEnding, LoopWakes,
     LoopCancelled, durable, service, Bound
<1>5. CASE HostNext
  BY <1>1, <1>5 DEF HostNext, HostAdmit, HostRefuse, HostSubmit, Ask, Pending, ProviderFails, Evidence,
     ReconcileLock, ReconcileDone, ReconcileFails, HealthLost, Close, CloseDone, CloseUnresolved,
     durable, service, Bound
<1> QED
  BY <1>1, <1>2, <1>3, <1>4, <1>5

\* A start, the end of a recovery, a death, a stutter, or a step of a live process.
LEMMA Kinds ==
  ASSUME [Next]_vars
  PROVE  \/ Starting \/ Recovered \/ StartCancelled \/ Crash \/ UNCHANGED vars
         \/ Submitted \/ WorkerNext \/ LoopNext \/ HostNext
  BY DEF Next, Starting, Recovered, Submitted

\* What a start leaves alone.
LEMMA StartFrame ==
  ASSUME Starting
  PROVE  /\ phase = "none" /\ UNCHANGED <<staged, handled, flat, inbox, tasks, host, history>>
         /\ phase' \in {"starting", "closed"}
  BY DEF Starting, Start, StartRefused, inbox, tasks, host, history

LEMMA RecoveryFrame ==
  ASSUME Recovered \/ StartCancelled
  PROVE  /\ phase = "starting" /\ phase' \in {"running", "closed"} /\ lock' = "free"
         /\ UNCHANGED <<durable, arm, inbox, item, submission, owned, terminal, poll, proofs>>
         /\ \/ phase' = "running" /\ worker' = "get" /\ loop' = "lock"
            \/ phase' = "closed" /\ UNCHANGED <<worker, loop>>
  BY DEF Recovered, StartDone, StartUnresolved, StartCancelled, durable, inbox, tasks, host, history

LEMMA CleanStep ==
  ASSUME IInv, [Next]_vars
  PROVE  Clean'
<1>1. Clean
  BY DEF IInv
<1>2. CASE Starting
  <2>1. PICK a \in Arms : Start(a) \/ StartRefused(a)
    BY <1>2 DEF Starting
  <2> QED
    BY <1>1, <1>2, <2>1, StartFrame DEF Clean, Start, StartRefused, inbox, tasks, host, history
<1>3. CASE Recovered \/ StartCancelled
  BY <1>3, RecoveryFrame DEF Clean
<1>4. CASE Crash
  BY <1>4 DEF Crash, Clean
<1>5. CASE UNCHANGED vars
  BY <1>1, <1>5 DEF vars, durable, service, inbox, tasks, host, history, Clean
<1>6. CASE Submitted \/ WorkerNext \/ LoopNext \/ HostNext
  BY <1>6, SameProcess DEF Clean
<1> QED
  BY <1>2, <1>3, <1>4, <1>5, <1>6, Kinds

LEMMA FencedStep ==
  ASSUME IInv, [Next]_vars
  PROVE  Fenced'
<1>1. Fenced /\ Clean
  BY DEF IInv
<1>2. CASE Starting
  <2>1. ~unknown /\ unknown' = unknown
    BY <1>1, <1>2, StartFrame DEF Clean, history
  <2> QED
    BY <2>1 DEF Fenced
<1>3. CASE Recovered \/ StartCancelled
  <2>1. ~unknown
    BY <1>1, <1>3, RecoveryFrame DEF Clean
  <2>2. unknown' = unknown \/ blocked' = TRUE
    BY <1>3 DEF Recovered, StartDone, StartUnresolved, StartCancelled, Unknown, history
  <2> QED
    BY <2>1, <2>2 DEF Fenced
<1>4. CASE Crash
  BY <1>4 DEF Crash, Fenced
<1>5. CASE UNCHANGED vars
  BY <1>1, <1>5 DEF vars, service, history, Fenced
<1>6. CASE Submitted
  BY <1>1, <1>6 DEF Submitted, SubmitExhausted, Submit, GiveUp, Told, Unknown, service, history, Fenced
<1>7. CASE WorkerNext
  BY <1>1, <1>7 DEF WorkerNext, WorkerGet, WorkerLock, WorkerRefuse, EntryRefused, Stage, Handle,
     WorkerDone, WorkerFails, WorkerTimeout, WorkerCancelled, WorkerEnds, WorkerUnresolved, Unknown,
     service, history, Fenced
<1>8. CASE LoopNext
  BY <1>1, <1>8 DEF LoopNext, LoopLock, LoopEnds, LoopFails, LoopTimeout, LoopEnding, LoopWakes,
     LoopCancelled, Unknown, service, history, Fenced
<1>9. CASE HostNext
  BY <1>1, <1>9 DEF HostNext, HostAdmit, HostRefuse, HostSubmit, Enqueue, Submittable, Ask, Pending,
     ProviderFails, Evidence, ReconcileLock, ReconcileDone, ReconcileFails, HealthLost, Close, CloseDone,
     CloseUnresolved, Unknown, service, history, Fenced
<1> QED
  BY <1>2, <1>3, <1>4, <1>5, <1>6, <1>7, <1>8, <1>9, Kinds

-----------------------------------------------------------------------------
(* What is staged, what is seen *)

\* Risk is staged by the worker alone, for the entry it has in hand.
LEMMA Staging ==
  ASSUME IInv, [Next]_vars
  PROVE  \/ staged' = staged
         \/ /\ staged' = staged \cup {item} /\ Busy /\ item \in Entries
            /\ UNCHANGED <<phase, arm, usedArms, seen, queue, proofs>>
            /\ answer'[item] \in {"open", "abandoned", "unresolved"}
            /\ \/ worker' = "inspecting" /\ item' = item
               \/ worker' \in {"get", "dead"} /\ item' = None
<1>1. CASE Starting
  BY <1>1, StartFrame
<1>2. CASE Recovered \/ StartCancelled
  BY <1>2, RecoveryFrame DEF durable
<1>3. CASE Crash \/ UNCHANGED vars
  BY <1>3 DEF Crash, vars, durable
<1>4. CASE Submitted
  BY <1>4 DEF Submitted, SubmitExhausted, Submit, GiveUp, Told, durable
<1>5. CASE LoopNext
  BY <1>5 DEF LoopNext, LoopLock, LoopEnds, LoopFails, LoopTimeout, LoopEnding, LoopWakes,
     LoopCancelled, durable
<1>6. CASE HostNext
  BY <1>6 DEF HostNext, HostAdmit, HostRefuse, HostSubmit, Ask, Pending, ProviderFails, Evidence,
     ReconcileLock, ReconcileDone, ReconcileFails, HealthLost, Close, CloseDone, CloseUnresolved,
     durable
<1>7. CASE WorkerGet \/ WorkerLock \/ WorkerRefuse \/ EntryRefused \/ Handle \/ WorkerDone
           \/ WorkerTimeout \/ WorkerCancelled
  BY <1>7 DEF WorkerGet, WorkerLock, WorkerRefuse, EntryRefused, Handle, WorkerDone, WorkerTimeout,
     WorkerCancelled, durable
<1>8. CASE Stage \/ WorkerFails \/ WorkerEnds
  <2>1. Busy /\ item \in Entries
    BY <1>8 DEF IInv, TypeOK, Working, Busy, Stage, WorkerFails, WorkerEnds
  <2>2. UNCHANGED <<phase, arm, usedArms, seen, queue, proofs>>
    BY <1>8 DEF Stage, WorkerFails, WorkerEnds, host
  <2>3. staged' = staged \/ staged' = staged \cup {item}
    BY <1>8 DEF Stage, WorkerFails, WorkerEnds
  <2>4. \/ worker' = "inspecting" /\ item' = item
        \/ worker' \in {"get", "dead"} /\ item' = None
    BY <1>8 DEF Stage, WorkerFails, WorkerEnds, WorkerUnresolved
  <2>5. answer[item] \in {"open", "abandoned"} /\ answer \in [Entries -> {"none", "open", "result",
          "refusal", "unresolved", "stopped", "abandoned"}]
    BY <2>1 DEF IInv, TypeOK, Pulled, Held
  <2>6. answer' = answer \/ answer' = [answer EXCEPT ![item] = IF @ = "open" THEN "unresolved" ELSE @]
    BY <1>8 DEF Stage, WorkerFails, WorkerEnds, WorkerUnresolved, Set
  <2>7. answer'[item] \in {"open", "abandoned", "unresolved"}
    BY <2>1, <2>5, <2>6
  <2> QED
    BY <2>1, <2>2, <2>3, <2>4, <2>7
<1> QED
  BY <1>1, <1>2, <1>3, <1>4, <1>5, <1>6, <1>7, <1>8, Kinds DEF WorkerNext

\* Identities are never evicted while the process lives.
LEMMA Seeing ==
  ASSUME IInv, [Next]_vars
  PROVE  \/ seen' = seen
         \/ phase' = "none" /\ seen' = {}
         \/ \E e \in Entries : seen' = seen \cup {e} /\ Cardinality(seen) < MaxAdmissions
<1>1. CASE Starting
  BY <1>1, StartFrame DEF inbox
<1>2. CASE Recovered \/ StartCancelled
  BY <1>2, RecoveryFrame DEF inbox
<1>3. CASE Crash \/ UNCHANGED vars
  BY <1>3 DEF Crash, vars, inbox
<1>4. CASE Submitted
  BY <1>4 DEF Submitted, SubmitExhausted, Submit, Enqueue, GiveUp, Told, inbox
<1>5. CASE WorkerNext
  BY <1>5 DEF WorkerNext, WorkerGet, WorkerLock, WorkerRefuse, EntryRefused, Stage, Handle,
     WorkerDone, WorkerFails, WorkerTimeout, WorkerCancelled, WorkerEnds, inbox
<1>6. CASE LoopNext
  BY <1>6 DEF LoopNext, LoopLock, LoopEnds, LoopFails, LoopTimeout, LoopEnding, LoopWakes,
     LoopCancelled, inbox
<1>7. CASE HostNext
  BY <1>7 DEF HostNext, HostAdmit, HostRefuse, HostSubmit, Enqueue, Ask, Pending, ProviderFails,
     Evidence, ReconcileLock, ReconcileDone, ReconcileFails, HealthLost, Close, CloseDone,
     CloseUnresolved, inbox
<1> QED
  BY <1>1, <1>2, <1>3, <1>4, <1>5, <1>6, <1>7, Kinds

\* A terminal proof is handed to the driver under the lock, once for the owned entry.
LEMMA Handing ==
  ASSUME IInv, [Next]_vars
  PROVE  \/ proofs' = proofs
         \/ /\ ReconcileLock /\ owned \in Entries /\ proofs' = [proofs EXCEPT ![owned] = @ + 1]
            /\ proofs[owned] = 0
<1>1. CASE Starting
  BY <1>1, StartFrame DEF history
<1>2. CASE Recovered \/ StartCancelled
  BY <1>2, RecoveryFrame
<1>3. CASE Crash \/ UNCHANGED vars
  BY <1>3 DEF Crash, vars, history
<1>4. CASE Submitted
  BY <1>4 DEF Submitted, SubmitExhausted, Submit, GiveUp, Told, history
<1>5. CASE WorkerNext
  BY <1>5 DEF WorkerNext, WorkerGet, WorkerLock, WorkerRefuse, EntryRefused, Stage, Handle,
     WorkerDone, WorkerFails, WorkerTimeout, WorkerCancelled, WorkerEnds, history
<1>6. CASE LoopNext
  BY <1>6 DEF LoopNext, LoopLock, LoopEnds, LoopFails, LoopTimeout, LoopEnding, LoopWakes,
     LoopCancelled, history
<1>7. CASE HostNext /\ ~ReconcileLock
  BY <1>7 DEF HostNext, HostAdmit, HostRefuse, HostSubmit, Ask, Pending, ProviderFails, Evidence,
     ReconcileDone, ReconcileFails, HealthLost, Close, CloseDone, CloseUnresolved, history
<1>8. CASE ReconcileLock
  <2>1. owned # None /\ ArmOf[owned] = arm /\ Bound /\ owned \in Entries /\ poll = "lock"
    BY <1>8 DEF IInv, TypeOK, Proving, ReconcileLock, Bound
  <2>2. proofs[owned] \in Nat /\ ~(proofs[owned] > 0)
    BY <2>1 DEF IInv, TypeOK, Proving
  <2> QED
    BY <1>8, <2>1, <2>2 DEF ReconcileLock
<1> QED
  BY <1>1, <1>2, <1>3, <1>4, <1>5, <1>6, <1>7, <1>8, Kinds

-----------------------------------------------------------------------------
(* The arm *)

LEMMA SameArm ==
  ASSUME IInv, [Next]_vars, Bound'
  PROVE  \/ Bound /\ UNCHANGED <<arm, usedArms>> /\ phase' # "none"
         \/ \E a \in Arms : Start(a)
<1>1. CASE Starting
  BY <1>1 DEF Starting, StartRefused, Bound
<1>2. CASE Recovered \/ StartCancelled
  BY <1>2, RecoveryFrame DEF Bound, durable
<1>3. CASE Crash \/ UNCHANGED vars
  BY <1>3 DEF Crash, vars, durable, service, Bound
<1>4. CASE Submitted \/ WorkerNext \/ LoopNext \/ HostNext
  BY <1>4, SameProcess DEF Bound
<1> QED
  BY <1>1, <1>2, <1>3, <1>4, Kinds

\* Nonces are durable.
LEMMA Spent ==
  ASSUME IInv, [Next]_vars
  PROVE  usedArms \subseteq usedArms'
<1>1. CASE Starting
  BY <1>1 DEF Starting, Start, StartRefused
<1>2. CASE Recovered \/ StartCancelled
  BY <1>2, RecoveryFrame DEF durable
<1>3. CASE Crash \/ UNCHANGED vars
  BY <1>3 DEF Crash, vars, durable
<1>4. CASE Submitted \/ WorkerNext \/ LoopNext \/ HostNext
  BY <1>4, SameProcess
<1> QED
  BY <1>1, <1>2, <1>3, <1>4, Kinds

\* What the worker has in hand beyond its admission is of the arm of the process.
LEMMA InHand ==
  ASSUME IInv, Busy
  PROVE  Bound /\ ArmOf[item] = arm /\ item \in seen /\ item \in Entries /\ arm \in usedArms
BY DEF IInv, TypeOK, Working, Pulled, Held, Sole, Busy, Bound

LEMMA SoleStep ==
  ASSUME IInv, [Next]_vars
  PROVE  Sole'
<1>1. Sole
  BY DEF IInv
<1>2. ASSUME Bound' PROVE arm' \in usedArms'
  BY <1>1, <1>2, SameArm DEF Sole, Start
<1>3. ASSUME NEW e \in Entries, ArmOf[e] \notin usedArms' PROVE e \notin staged' /\ proofs'[e] = 0
  <2>1. ArmOf[e] \notin usedArms /\ e \notin staged /\ proofs[e] = 0
    BY <1>1, <1>3, Spent DEF Sole
  <2>2. e \notin staged'
    BY <2>1, Staging, InHand
  <2>3. ASSUME ReconcileLock, owned \in Entries PROVE ArmOf[owned] \in usedArms
    BY <1>1, <2>3 DEF IInv, TypeOK, Proving, ReconcileLock, Sole, Bound
  <2>4. proofs'[e] = 0
    BY <2>1, <2>3, Handing DEF IInv, TypeOK
  <2> QED
    BY <2>2, <2>4
<1>4. ASSUME NEW e \in staged', Bound', ArmOf[e] = arm' PROVE e \in seen'
  <2>1. CASE \E a \in Arms : Start(a)
    <3>1. e \in staged /\ ArmOf[e] \notin usedArms /\ e \in Entries
      BY <1>4, <2>1 DEF Start, IInv, TypeOK
    <3> QED
      BY <1>1, <3>1 DEF Sole
  <2>2. CASE Bound /\ UNCHANGED <<arm, usedArms>> /\ phase' # "none"
    <3>1. e \in seen
      BY <1>1, <1>4, <2>2, Staging, InHand DEF Sole
    <3> QED
      BY <2>2, <3>1, Seeing
  <2> QED
    BY <1>4, <2>1, <2>2, SameArm
<1> QED
  BY <1>2, <1>3, <1>4 DEF Sole

LEMMA LimitedStep ==
  ASSUME IInv, [Next]_vars
  PROVE  Limited'
<1>1. Limited /\ MaxAdmissions \in Nat
  BY SessionAssumption DEF IInv
<1>2. IsFiniteSet(seen') /\ Cardinality(seen') <= MaxAdmissions
  <2>1. CASE seen' = seen
    BY <1>1, <2>1 DEF Limited
  <2>2. CASE seen' = {}
    BY <1>1, <2>2, FS_EmptySet
  <2>3. ASSUME NEW e \in Entries, seen' = seen \cup {e}, Cardinality(seen) < MaxAdmissions
        PROVE  IsFiniteSet(seen') /\ Cardinality(seen') <= MaxAdmissions
    <3>1. IsFiniteSet(seen) /\ Cardinality(seen) \in Nat
      BY <1>1, FS_CardinalityType DEF Limited
    <3>2. /\ IsFiniteSet(seen \cup {e})
          /\ Cardinality(seen \cup {e}) \in {Cardinality(seen), Cardinality(seen) + 1}
      BY <3>1, FS_AddElement
    <3> QED
      BY <1>1, <2>3, <3>1, <3>2
  <2> QED
    BY <2>1, <2>2, <2>3, Seeing
<1>3. ASSUME NEW a \in Arms PROVE Cardinality({e \in staged' : ArmOf[e] = a}) <= MaxAdmissions
  <2> DEFINE of(s) == {e \in s : ArmOf[e] = a}
  <2>1. Cardinality(of(staged)) <= MaxAdmissions
    BY <1>1 DEF Limited
  <2>2. CASE staged' = staged
    BY <2>1, <2>2
  <2>3. CASE staged' = staged \cup {item} /\ Busy /\ phase' = phase /\ arm' = arm
    <3>1. Bound /\ ArmOf[item] = arm /\ Bound'
      BY <2>3, InHand DEF Bound
    <3>2. CASE a = arm
      <4>1. of(staged') \subseteq seen'
        BY <2>3, <3>1, <3>2, SoleStep DEF Sole
      <4>2. Cardinality(of(staged')) <= Cardinality(seen')
        BY <1>2, <4>1, FS_Subset
      <4>3. Cardinality(of(staged')) \in Nat /\ Cardinality(seen') \in Nat
        BY <1>2, <4>1, FS_Subset, FS_CardinalityType
      <4> QED
        BY <1>1, <1>2, <4>2, <4>3
    <3>3. CASE a # arm
      <4>1. of(staged') = of(staged)
        BY <2>3, <3>1, <3>3
      <4> QED
        BY <2>1, <4>1
    <3> QED
      BY <3>2, <3>3
  <2> QED
    BY <2>2, <2>3, Staging
<1> QED
  BY <1>2, <1>3 DEF Limited

-----------------------------------------------------------------------------
(* The queue and the worker's hand *)

\* Every step leaves the queue and the hand, empties the hand, takes the head,
\* appends a new identity, or ends with neither.
Kept == /\ UNCHANGED <<queue, seen, item>> /\ staged' = staged
        /\ \A e \in Entries : answer'[e] = "open" => answer[e] = "open"
        /\ \A e \in Entries : answer[e] = "open" => answer'[e] \in {"open", "abandoned"}
        /\ \A e \in Entries : answer[e] = "abandoned" => answer'[e] = "abandoned"
        /\ worker \in {"inspecting", "handling", "ending"} =>
             worker' \in {"inspecting", "handling", "ending"}
StagedNow == /\ UNCHANGED <<queue, seen, item, answer>> /\ staged' = staged \cup {item}
             /\ worker = "staging" /\ worker' = "inspecting"
Emptied == /\ UNCHANGED <<queue, seen>> /\ item' = None /\ staged' \subseteq staged \cup {item}
           /\ \A e \in Entries : e # item => answer'[e] = answer[e]
           /\ item \in Entries => answer'[item] # "open"
Pull == /\ queue # <<>> /\ queue' = Tail(queue) /\ UNCHANGED <<staged, seen, answer>> /\ item = None
        /\ IF answer[Head(queue)] = "open" THEN item' = Head(queue) ELSE item' = item
Offered(e) == Enqueue(e) /\ UNCHANGED <<staged, item, worker>>
Drained == /\ queue' = <<>> /\ item' = None /\ \A e \in Entries : answer'[e] # "open"

LEMMA Hands ==
  ASSUME IInv, [Next]_vars
  PROVE  \/ Kept \/ StagedNow \/ Emptied \/ Pull \/ Drained
         \/ \E e \in Entries : Offered(e)
<1> USE DEF Set, WorkerUnresolved
<1>1. TypeOK /\ Clean /\ Working
  BY DEF IInv
<1>2. CASE Starting
  BY <1>1, <1>2, StartFrame DEF Clean, inbox, tasks, Drained
<1>3. CASE Recovered \/ StartCancelled
  BY <1>1, <1>3, RecoveryFrame DEF Clean, inbox, tasks, Drained
<1>4. CASE Crash
  BY <1>4 DEF Crash, Drained
<1>5. CASE UNCHANGED vars
  BY <1>5 DEF vars, durable, inbox, tasks, Kept
<1>6. ASSUME NEW e \in Entries, SubmitExhausted(e) \/ Submit(e) \/ Told(e)
      PROVE  Kept \/ Offered(e)
  BY <1>6 DEF SubmitExhausted, Submit, Told, durable, inbox, tasks, Kept, Offered
<1>7. ASSUME NEW e \in Entries, GiveUp(e) PROVE Kept
  <2>1. UNCHANGED <<queue, seen, item, staged, worker>>
    BY <1>7 DEF GiveUp, durable
  <2>2. answer' = [answer EXCEPT ![e] = IF @ = "open" THEN "abandoned" ELSE @]
    BY <1>7 DEF GiveUp
  <2>3. \A f \in Entries : answer'[f] = IF f = e /\ answer[f] = "open" THEN "abandoned" ELSE answer[f]
    BY <1>1, <2>2 DEF TypeOK
  <2> QED
    BY <2>1, <2>3 DEF Kept
<1>8. CASE WorkerGet
  BY <1>1, <1>8 DEF WorkerGet, Working, durable, Pull
<1>9. CASE WorkerLock \/ Handle
  BY <1>9 DEF WorkerLock, Handle, Inspected, durable, inbox, Kept
<1>10. CASE WorkerRefuse \/ EntryRefused \/ WorkerDone \/ WorkerFails \/ WorkerEnds
            \/ (Stage /\ ~Interlock(item)) \/ (WorkerTimeout /\ worker = "lock")
            \/ (WorkerCancelled /\ worker \in {"get", "lock"})
  <2>1. UNCHANGED <<queue, seen>> /\ item' = None /\ staged' \subseteq staged \cup {item}
    BY <1>10 DEF WorkerRefuse, EntryRefused, WorkerDone, WorkerFails, WorkerEnds, Stage, WorkerTimeout,
       WorkerCancelled, durable
  <2>2. \/ item = None /\ answer' = answer
        \/ \E v \in {"unresolved", "refusal", "result"} :
             answer' = [answer EXCEPT ![item] = IF @ = "open" THEN v ELSE @]
    BY <1>10 DEF WorkerRefuse, EntryRefused, WorkerDone, WorkerFails, WorkerEnds, Stage, WorkerTimeout,
       WorkerCancelled
  <2>3. \A e \in Entries : e # item => answer'[e] = answer[e]
    BY <1>1, <2>2 DEF TypeOK
  <2>4. item \in Entries => answer'[item] # "open"
    BY <1>1, <2>2, SessionAssumption DEF TypeOK
  <2> QED
    BY <2>1, <2>3, <2>4 DEF Emptied
<1>11. CASE Stage /\ Interlock(item)
  BY <1>11 DEF Stage, StagedNow
<1>12. CASE (WorkerTimeout /\ worker # "lock") \/ (WorkerCancelled /\ worker \notin {"get", "lock"})
  BY <1>12 DEF WorkerTimeout, WorkerCancelled, durable, Kept
<1>13. CASE LoopNext
  BY <1>13 DEF LoopNext, LoopLock, LoopEnds, LoopFails, LoopTimeout, LoopEnding, LoopWakes, LoopCancelled,
     durable, inbox, Kept
<1>14. CASE HostNext /\ ~CloseDone
  <2>1. CASE \E e \in Entries : HostSubmit(e)
    BY <2>1 DEF HostSubmit, durable, tasks, Offered
  <2>2. CASE ~\E e \in Entries : HostSubmit(e)
    BY <1>14, <2>2 DEF HostNext, HostAdmit, HostRefuse, Ask, Pending, ProviderFails, Evidence,
       ReconcileLock, ReconcileDone, ReconcileFails, HealthLost, Close, CloseUnresolved, durable, inbox,
       tasks, Kept
  <2> QED
    BY <2>1, <2>2
<1>15. CASE CloseDone
  BY <1>1, <1>15 DEF CloseDone, Working, tasks, Drained
<1> QED
  BY <1>2, <1>3, <1>4, <1>5, <1>6, <1>7, <1>8, <1>9, <1>10, <1>11, <1>12, <1>13, <1>14, <1>15, Kinds
     DEF Submitted, WorkerNext

\* Where the identities of the queue are after a step of it.
LEMMA AppendedQueued ==
  ASSUME IInv, NEW e \in Entries, queue' = Append(queue, e), NEW f
  PROVE  Queued(f)' <=> Queued(f) \/ f = e
<1>1. queue \in Seq(Entries) /\ Len(queue) \in Nat
  BY DEF IInv, TypeOK
<1>2. /\ Len(queue') = Len(queue) + 1 /\ queue'[Len(queue) + 1] = e
      /\ \A i \in 1..Len(queue) : queue'[i] = queue[i]
  BY <1>1, Appended
<1>3. \A i \in 1..Len(queue') : i \in 1..Len(queue) \/ i = Len(queue) + 1
  BY <1>1, <1>2
<1>4. \A i \in 1..(Len(queue) + 1) : i \in 1..Len(queue')
  BY <1>1, <1>2
<1>5. Len(queue) + 1 \in 1..(Len(queue) + 1) /\ 1..Len(queue) \subseteq 1..(Len(queue) + 1)
  BY <1>1
<1> QED
  BY <1>1, <1>2, <1>3, <1>4, <1>5 DEF Queued

LEMMA PulledQueued ==
  ASSUME IInv, queue # <<>>, queue' = Tail(queue), NEW f
  PROVE  /\ Queued(f) <=> Queued(f)' \/ f = Head(queue)
         /\ Queued(f)' => f # Head(queue)
         /\ Head(queue) \in Entries
         /\ \A i, j \in 1..Len(queue') : queue'[i] = queue'[j] => i = j
<1>1. queue \in Seq(Entries) /\ \A i, j \in 1..Len(queue) : queue[i] = queue[j] => i = j
  BY DEF IInv, TypeOK, Pulled
<1>2. /\ Head(queue) \in Entries /\ Head(queue) = queue[1] /\ Len(queue) \in Nat \ {0}
      /\ Len(queue') = Len(queue) - 1
      /\ \A i \in 1..(Len(queue) - 1) : queue'[i] = queue[i + 1]
  BY <1>1, Taken
<1>3. \A i \in 1..Len(queue') : i + 1 \in 1..Len(queue) /\ i + 1 # 1 /\ queue'[i] = queue[i + 1]
  BY <1>2
<1>4. \A i \in 1..Len(queue) : i # 1 => i - 1 \in 1..Len(queue') /\ queue'[i - 1] = queue[i]
  <2> TAKE i \in 1..Len(queue)
  <2>1. i # 1 => i - 1 \in 1..(Len(queue) - 1) /\ (i - 1) + 1 = i
    BY <1>2
  <2> QED
    BY <2>1, <1>2
<1>5. 1 \in 1..Len(queue)
  BY <1>2
<1>6. Queued(f) <=> Queued(f)' \/ f = Head(queue)
  BY <1>2, <1>3, <1>4, <1>5 DEF Queued
<1>7. Queued(f)' => f # Head(queue)
  BY <1>1, <1>2, <1>3, <1>5 DEF Queued
<1>8. \A i, j \in 1..Len(queue') : queue'[i] = queue'[j] => i = j
  <2> TAKE i, j \in 1..Len(queue')
  <2>1. queue'[i] = queue'[j] => i + 1 = j + 1
    BY <1>1, <1>3
  <2> QED
    BY <2>1
<1> QED
  BY <1>2, <1>6, <1>7, <1>8

LEMMA PulledStep ==
  ASSUME IInv, [Next]_vars
  PROVE  Pulled'
<1>1. Pulled /\ Working /\ TypeOK
  BY DEF IInv
<1>2. CASE Kept
  <2>1. \A e : (Queued(e)' <=> Queued(e)) /\ (Held(e)' <=> Held(e))
    BY <1>2 DEF Kept, Queued, Held
  <2>2. /\ \A i, j \in 1..Len(queue') : queue'[i] = queue'[j] => i = j
        /\ \A e \in Entries : Queued(e)' => e # item'
    BY <1>1, <1>2, <2>1 DEF Kept, Pulled
  <2>3. \A e \in Entries : Held(e)' => e \in seen' /\ answer'[e] \in {"open", "abandoned"}
    BY <1>1, <1>2, <2>1 DEF Kept, Pulled
  <2>4. \A e \in Entries : answer'[e] = "open" => Held(e)'
    BY <1>1, <1>2, <2>1 DEF Kept, Pulled
  <2>5. ASSUME NEW e \in staged', Bound', ArmOf[e] = arm', Held(e)'
        PROVE  e = item' /\ worker' \in {"inspecting", "handling", "ending"}
    <3>1. e \in staged /\ Held(e) /\ e \in Entries
      BY <1>1, <1>2, <2>1, <2>5 DEF Kept, TypeOK
    <3>2. Bound /\ ArmOf[e] = arm
      BY <2>5, <3>1, SameArm DEF Start, IInv, Sole
    <3> QED
      BY <1>1, <1>2, <3>1, <3>2 DEF Kept, Pulled
  <2> QED
    BY <2>2, <2>3, <2>4, <2>5 DEF Pulled
<1>3. CASE StagedNow
  <2>1. \A e : (Queued(e)' <=> Queued(e)) /\ (Held(e)' <=> Held(e))
    BY <1>3 DEF StagedNow, Queued, Held
  <2>2. /\ \A i, j \in 1..Len(queue') : queue'[i] = queue'[j] => i = j
        /\ \A e \in Entries : Queued(e)' => e # item'
        /\ \A e \in Entries : Held(e)' => e \in seen' /\ answer'[e] \in {"open", "abandoned"}
        /\ \A e \in Entries : answer'[e] = "open" => Held(e)'
    BY <1>1, <1>3, <2>1 DEF StagedNow, Pulled
  <2>3. ASSUME NEW e \in staged', Bound', ArmOf[e] = arm', Held(e)'
        PROVE  e = item' /\ worker' \in {"inspecting", "handling", "ending"}
    <3>1. CASE e = item
      BY <1>3, <3>1 DEF StagedNow
    <3>2. CASE e # item
      <4>1. e \in staged /\ Held(e) /\ e \in Entries
        BY <1>1, <1>3, <2>1, <2>3, <3>2 DEF StagedNow, TypeOK
      <4>2. Bound /\ ArmOf[e] = arm
        BY <2>3, <4>1, SameArm DEF Start, IInv, Sole
      <4> QED
        BY <1>1, <3>2, <4>1, <4>2 DEF Pulled
    <3> QED
      BY <3>1, <3>2
  <2> QED
    BY <2>2, <2>3 DEF Pulled
<1>4. CASE Emptied
  <2>1. \A e \in Entries : (Queued(e)' <=> Queued(e)) /\ (Held(e)' <=> Queued(e)) /\ e # None
    BY <1>4, SessionAssumption DEF Emptied, Queued, Held
  <2>2. \A e \in Entries : Queued(e) => e # item /\ Held(e) /\ answer'[e] = answer[e]
    BY <1>1, <1>4 DEF Emptied, Pulled, Held
  <2>3. /\ \A i, j \in 1..Len(queue') : queue'[i] = queue'[j] => i = j
        /\ \A e \in Entries : Queued(e)' => e # item'
    BY <1>1, <1>4, <2>1 DEF Emptied, Pulled
  <2>4. \A e \in Entries : Held(e)' => e \in seen' /\ answer'[e] \in {"open", "abandoned"}
    BY <1>1, <1>4, <2>1, <2>2 DEF Emptied, Pulled
  <2>5. \A e \in Entries : answer'[e] = "open" => Held(e)'
    BY <1>1, <1>4, <2>1 DEF Emptied, Pulled, Held
  <2>6. ASSUME NEW e \in staged', Bound', ArmOf[e] = arm', Held(e)' PROVE FALSE
    <3>1. e \in Entries
      BY TypeStep DEF TypeOK
    <3>2. e \in staged /\ Held(e) /\ e # item
      BY <1>4, <2>1, <2>2, <2>6, <3>1 DEF Emptied
    <3>3. Bound /\ ArmOf[e] = arm
      BY <2>6, <3>1, <3>2, SameArm DEF Start, IInv, Sole
    <3> QED
      BY <1>1, <3>2, <3>3 DEF Pulled
  <2> QED
    BY <2>3, <2>4, <2>5, <2>6 DEF Pulled
<1>5. CASE Pull
  <2>1. /\ \A f : Queued(f) <=> Queued(f)' \/ f = Head(queue)
        /\ \A f : Queued(f)' => f # Head(queue)
        /\ Head(queue) \in Entries
        /\ \A i, j \in 1..Len(queue') : queue'[i] = queue'[j] => i = j
    BY <1>5, PulledQueued DEF Pull
  <2>2. item = None /\ UNCHANGED <<staged, seen, answer>> /\ item' \in {item, Head(queue)}
    BY <1>5 DEF Pull
  <2>3. \A e \in Entries : (Held(e)' => Held(e)) /\ (Queued(e)' => e # item')
    BY <2>1, <2>2, SessionAssumption DEF Held
  <2>4. \A e \in Entries : Held(e)' => e \in seen' /\ answer'[e] \in {"open", "abandoned"}
    BY <1>1, <2>2, <2>3 DEF Pulled
  <2>5. \A e \in Entries : answer'[e] = "open" => Held(e)'
    BY <1>1, <1>5, <2>1, <2>2, SessionAssumption DEF Pulled, Held, Pull
  <2>6. ASSUME NEW e \in staged', Bound', ArmOf[e] = arm', Held(e)' PROVE FALSE
    <3>1. e \in Entries /\ e \in staged /\ Held(e) /\ e # item
      BY <1>1, <2>2, <2>3, <2>6, SessionAssumption DEF TypeOK
    <3>2. Bound /\ ArmOf[e] = arm
      BY <2>6, <3>1, SameArm DEF Start, IInv, Sole
    <3> QED
      BY <1>1, <3>1, <3>2 DEF Pulled
  <2> QED
    BY <2>1, <2>3, <2>4, <2>5, <2>6 DEF Pulled
<1>6. ASSUME NEW e \in Entries, Offered(e) PROVE Pulled'
  <2>1. UNCHANGED <<staged, item, worker>> /\ e \notin seen /\ seen' = seen \cup {e}
    BY <1>6 DEF Offered, Enqueue, Submittable
  <2>2. ~Held(e) /\ \A f \in Entries : Held(f) => f # e
    BY <1>1, <2>1 DEF Pulled
  <2>3. ASSUME NEW f \in staged', Bound', ArmOf[f] = arm'
        PROVE  f \in staged /\ f \in Entries /\ Bound /\ ArmOf[f] = arm /\ f # e
    <3>1. f \in staged /\ f \in Entries
      BY <1>1, <2>1, <2>3 DEF TypeOK
    <3>2. Bound /\ ArmOf[f] = arm
      BY <2>3, <3>1, SameArm DEF Start, IInv, Sole
    <3> QED
      BY <2>1, <3>1, <3>2 DEF IInv, Sole
  <2>4. CASE UNCHANGED <<queue, answer>>
    <3>1. \A f : (Queued(f)' <=> Queued(f)) /\ (Held(f)' <=> Held(f))
      BY <2>1, <2>4 DEF Queued, Held
    <3>2. /\ \A i, j \in 1..Len(queue') : queue'[i] = queue'[j] => i = j
          /\ \A f \in Entries : Queued(f)' => f # item'
          /\ \A f \in Entries : Held(f)' => f \in seen' /\ answer'[f] \in {"open", "abandoned"}
          /\ \A f \in Entries : answer'[f] = "open" => Held(f)'
      BY <1>1, <2>1, <2>4, <3>1 DEF Pulled
    <3>3. \A f \in staged' : Bound' /\ ArmOf[f] = arm' /\ Held(f)' =>
            f = item' /\ worker' \in {"inspecting", "handling", "ending"}
      BY <1>1, <2>1, <2>3, <3>1 DEF Pulled
    <3> QED
      BY <3>2, <3>3 DEF Pulled
  <2>5. CASE queue' = Append(queue, e) /\ answer' = [answer EXCEPT ![e] = "open"]
    <3>1. \A f : (Queued(f)' <=> Queued(f) \/ f = e) /\ (Held(f)' <=> Held(f) \/ f = e)
      BY <2>1, <2>5, AppendedQueued DEF Held
    <3>2. answer'[e] = "open" /\ \A f \in Entries : f # e => answer'[f] = answer[f]
      BY <1>1, <2>5 DEF TypeOK
    <3>3. \A i, j \in 1..Len(queue') : queue'[i] = queue'[j] => i = j
      <4>1. queue \in Seq(Entries) /\ Len(queue) \in Nat
        BY <1>1 DEF TypeOK
      <4>2. /\ Len(queue') = Len(queue) + 1 /\ queue'[Len(queue) + 1] = e
            /\ \A i \in 1..Len(queue) : queue'[i] = queue[i]
        BY <2>5, <4>1, Appended
      <4>3. \A i \in 1..Len(queue') : i \in 1..Len(queue) \/ i = Len(queue) + 1
        BY <4>1, <4>2
      <4>4. \A i \in 1..Len(queue) : queue[i] # e
        BY <2>2 DEF Held, Queued
      <4>5. \A i, j \in 1..Len(queue) : queue[i] = queue[j] => i = j
        BY <1>1 DEF Pulled
      <4> QED
        BY <4>2, <4>3, <4>4, <4>5
    <3>4. \A f \in Entries : Queued(f)' => f # item'
      BY <1>1, <2>1, <2>2, <3>1 DEF Pulled, Held
    <3>5. \A f \in Entries : Held(f)' => f \in seen' /\ answer'[f] \in {"open", "abandoned"}
      BY <1>1, <2>1, <2>2, <3>1, <3>2 DEF Pulled
    <3>6. \A f \in Entries : answer'[f] = "open" => Held(f)'
      BY <1>1, <3>1, <3>2 DEF Pulled
    <3>7. \A f \in staged' : Bound' /\ ArmOf[f] = arm' /\ Held(f)' =>
            f = item' /\ worker' \in {"inspecting", "handling", "ending"}
      BY <1>1, <2>1, <2>3, <3>1 DEF Pulled
    <3> QED
      BY <3>3, <3>4, <3>5, <3>6, <3>7 DEF Pulled
  <2> QED
    BY <1>6, <2>4, <2>5 DEF Offered, Enqueue
<1>7. CASE Drained
  <2>1. \A e \in Entries : ~Queued(e)' /\ ~Held(e)' /\ answer'[e] # "open"
    BY <1>7, SessionAssumption DEF Drained, Queued, Held
  <2>2. \A i, j \in 1..Len(queue') : queue'[i] = queue'[j] => i = j
    BY <1>7 DEF Drained
  <2>3. staged' \subseteq Entries
    BY TypeStep DEF TypeOK
  <2> QED
    BY <2>1, <2>2, <2>3 DEF Pulled
<1> QED
  BY <1>2, <1>3, <1>4, <1>5, <1>6, <1>7, Hands

-----------------------------------------------------------------------------
(* The tasks, the lock and the shutdown *)

\* Only the worker's own steps move the worker of a live process.
LEMMA WorkerFrame ==
  ASSUME IInv, Submitted \/ LoopNext \/ HostNext
  PROVE  /\ UNCHANGED <<worker, item, staged, arm, usedArms>>
         /\ phase' = phase \/ phase' \in {"closing", "unresolved"}
            \/ (phase' = "closed" /\ worker = "dead" /\ loop = "dead" /\ loop' = loop)
<1>1. UNCHANGED <<arm, usedArms>>
  BY SameProcess
<1>2. CASE Submitted
  BY <1>1, <1>2 DEF Submitted, SubmitExhausted, Submit, GiveUp, Told, durable, service, tasks
<1>3. CASE LoopNext
  BY <1>1, <1>3 DEF LoopNext, LoopLock, LoopEnds, LoopFails, LoopTimeout, LoopEnding, LoopWakes,
     LoopCancelled, durable, service
<1>4. CASE HostNext
  BY <1>1, <1>4 DEF HostNext, HostAdmit, HostRefuse, HostSubmit, Ask, Pending, ProviderFails, Evidence,
     ReconcileLock, ReconcileDone, ReconcileFails, HealthLost, Close, CloseDone, CloseUnresolved,
     durable, service, tasks
<1> QED
  BY <1>2, <1>3, <1>4

LEMMA WorkerPhase ==
  ASSUME WorkerNext
  PROVE  /\ UNCHANGED <<phase, arm, usedArms, seen, loop, host, proofs>>
         /\ worker \notin {"none", "dead"}
  BY DEF WorkerNext, WorkerGet, WorkerLock, WorkerRefuse, EntryRefused, Stage, Handle, Inspected,
     WorkerDone, WorkerFails, WorkerTimeout, WorkerCancelled, WorkerEnds, WorkerUnresolved, durable,
     service, inbox, history

LEMMA WorkingStep ==
  ASSUME IInv, [Next]_vars
  PROVE  Working'
<1>1. Working /\ Clean /\ TypeOK
  BY DEF IInv
<1>2. CASE Starting
  BY <1>1, <1>2, StartFrame DEF Working, Clean, Busy, tasks
<1>3. CASE Recovered \/ StartCancelled
  BY <1>1, <1>3, RecoveryFrame DEF Working, Clean, Busy
<1>4. CASE Crash
  BY <1>4 DEF Crash, Working, Busy
<1>5. CASE UNCHANGED vars
  BY <1>1, <1>5 DEF vars, durable, service, tasks, Working, Busy
<1>6. CASE Submitted \/ LoopNext \/ HostNext
  BY <1>1, <1>6, WorkerFrame, SameProcess DEF Working, Busy
<1>7. CASE WorkerNext
  <2>1. phase' = phase /\ arm' = arm /\ phase \in {"running", "closing", "unresolved"}
    BY <1>1, <1>7, WorkerPhase DEF Working
  <2>2. CASE WorkerGet
    BY <1>1, <2>1, <2>2, Taken, SessionAssumption DEF WorkerGet, Working, Busy, TypeOK, durable
  <2>3. CASE WorkerLock
    BY <1>1, <2>1, <2>3 DEF WorkerLock, Admitted, Working, Busy, inbox
  <2>4. CASE WorkerRefuse \/ EntryRefused \/ WorkerDone \/ WorkerFails \/ WorkerEnds
    BY <2>1, <2>4 DEF WorkerRefuse, EntryRefused, WorkerDone, WorkerFails, WorkerEnds, WorkerUnresolved,
       Working, Busy
  <2>5. CASE Stage
    BY <1>1, <2>1, <2>5 DEF Stage, WorkerUnresolved, Working, Busy
  <2>6. CASE Handle
    BY <1>1, <2>1, <2>6 DEF Handle, Inspected, Working, Busy, inbox
  <2>7. CASE WorkerTimeout \/ WorkerCancelled
    BY <1>1, <2>1, <2>7 DEF WorkerTimeout, WorkerCancelled, WorkerUnresolved, Working, Busy
  <2> QED
    BY <1>7, <2>2, <2>3, <2>4, <2>5, <2>6, <2>7 DEF WorkerNext
<1> QED
  BY <1>2, <1>3, <1>4, <1>5, <1>6, <1>7, Kinds

LEMMA HoldingStep ==
  ASSUME IInv, [Next]_vars
  PROVE  Holding'
<1>1. Holding /\ Working /\ TypeOK
  BY DEF IInv
<1>2. CASE Starting
  BY <1>2 DEF Starting, Start, StartRefused, IInv, Holding, Clean
<1>3. CASE Recovered \/ StartCancelled
  BY <1>3, RecoveryFrame DEF Holding
<1>4. CASE Crash
  BY <1>4 DEF Crash, Holding
<1>5. CASE UNCHANGED vars
  BY <1>1, <1>5 DEF vars, service, tasks, Holding, Busy
<1>6. ASSUME Submitted \/ WorkerNext \/ LoopNext \/ HostNext PROVE lock' # "start"
  <2>1. lock # "start"
    BY <1>1, <1>6, OnlyStarts DEF Holding
  <2>2. CASE Submitted
    BY <2>1, <2>2 DEF Submitted, SubmitExhausted, Submit, GiveUp, Told, service
  <2>3. CASE WorkerNext
    BY <2>1, <2>3 DEF WorkerNext, WorkerGet, WorkerLock, WorkerRefuse, EntryRefused, Stage, Handle,
       WorkerDone, WorkerFails, WorkerTimeout, WorkerCancelled, WorkerEnds, WorkerUnresolved, service
  <2>4. CASE LoopNext
    BY <2>1, <2>4 DEF LoopNext, LoopLock, LoopEnds, LoopFails, LoopTimeout, LoopEnding, LoopWakes,
       LoopCancelled, service
  <2>5. CASE HostNext
    BY <2>1, <2>5 DEF HostNext, HostAdmit, HostRefuse, HostSubmit, Ask, Pending, ProviderFails, Evidence,
       ReconcileLock, ReconcileDone, ReconcileFails, HealthLost, Close, CloseDone, CloseUnresolved,
       service
  <2> QED
    BY <1>6, <2>2, <2>3, <2>4, <2>5
<1>7. CASE Submitted
  <2>1. UNCHANGED <<lock, worker, loop>>
    BY <1>7 DEF Submitted, SubmitExhausted, Submit, GiveUp, Told, service, tasks
  <2> QED
    BY <1>1, <1>6, <1>7, <2>1 DEF Holding, Busy
<1>8. CASE HostNext
  <2>1. UNCHANGED <<worker, loop>> /\ lock' \in {lock, "host", "free"}
    BY <1>8 DEF HostNext, HostAdmit, HostRefuse, HostSubmit, Ask, Pending, ProviderFails, Evidence,
       ReconcileLock, ReconcileDone, ReconcileFails, HealthLost, Close, CloseDone, CloseUnresolved,
       service, tasks
  <2> QED
    BY <1>1, <1>6, <1>8, <2>1 DEF Holding, Busy
<1>9. CASE LoopNext
  <2>1. worker' = worker /\ (lock' = "worker" => lock = "worker")
    BY <1>9 DEF LoopNext, LoopLock, LoopEnds, LoopFails, LoopTimeout, LoopEnding, LoopWakes,
       LoopCancelled, service
  <2>2. lock' = "loop" => loop' \in {"pass", "ending"}
    BY <1>1, <1>9 DEF Holding, LoopNext, LoopLock, LoopEnds, LoopFails, LoopTimeout, LoopEnding,
       LoopWakes, LoopCancelled, service
  <2> QED
    BY <1>1, <1>6, <1>9, <2>1, <2>2 DEF Holding, Busy
<1>10. CASE WorkerNext
  <2>1. loop' = loop /\ (lock' = "loop" => lock = "loop")
    BY <1>10 DEF WorkerNext, WorkerGet, WorkerLock, WorkerRefuse, EntryRefused, Stage, Handle,
       WorkerDone, WorkerFails, WorkerTimeout, WorkerCancelled, WorkerEnds, WorkerUnresolved, service
  <2>2. CASE WorkerGet \/ WorkerLock \/ WorkerRefuse \/ EntryRefused \/ Stage
    BY <1>1, <2>2 DEF Holding, Busy, WorkerGet, WorkerLock, WorkerRefuse, EntryRefused, Stage,
       WorkerUnresolved, service
  <2>3. CASE Handle \/ WorkerDone \/ WorkerFails \/ WorkerTimeout \/ WorkerCancelled \/ WorkerEnds
    BY <1>1, <2>3 DEF Holding, Busy, Handle, WorkerDone, WorkerFails, WorkerTimeout, WorkerCancelled,
       WorkerEnds, WorkerUnresolved, service
  <2>4. lock' = "worker" => Busy'
    BY <1>10, <2>2, <2>3 DEF WorkerNext, Holding
  <2> QED
    BY <1>1, <1>6, <1>10, <2>1, <2>4 DEF Holding
<1> QED
  BY <1>2, <1>3, <1>4, <1>5, <1>7, <1>8, <1>9, <1>10, Kinds

LEMMA ShutStep ==
  ASSUME IInv, [Next]_vars
  PROVE  Shut'
<1>1. Shut /\ Clean /\ TypeOK
  BY DEF IInv
<1>2. CASE Starting
  BY <1>1, <1>2, StartFrame DEF Shut, Clean, inbox, tasks
<1>3. CASE Recovered \/ StartCancelled
  BY <1>1, <1>3, RecoveryFrame DEF Shut, Clean, inbox
<1>4. CASE Crash
  BY <1>4 DEF Crash, Shut
<1>5. CASE UNCHANGED vars
  BY <1>1, <1>5 DEF vars, service, inbox, tasks, Shut
<1>6. CASE Submitted
  <2>1. phase' = phase /\ UNCHANGED <<worker, loop>>
    BY <1>6 DEF Submitted, SubmitExhausted, Submit, GiveUp, Told, service, tasks
  <2>2. CASE phase = "closed"
    <3>1. PICK e \in Entries : GiveUp(e) \/ Told(e)
      BY <1>6, <2>2 DEF Submitted, SubmitExhausted, Submit, Enqueue, Submittable
    <3>2. queue' = queue /\ (answer' = answer
             \/ answer' = [answer EXCEPT ![e] = IF @ = "open" THEN "abandoned" ELSE @])
      BY <3>1 DEF GiveUp, Told, Set
    <3>3. \A f \in Entries : answer[f] # "open" => answer'[f] # "open"
      BY <1>1, <3>2 DEF TypeOK
    <3> QED
      BY <1>1, <2>1, <3>2, <3>3 DEF Shut
  <2> QED
    BY <2>1, <2>2 DEF Shut
<1>7. CASE WorkerNext
  BY <1>1, <1>7, WorkerPhase DEF Shut
<1>8. CASE LoopNext
  BY <1>1, <1>8 DEF Shut, LoopNext, LoopLock, LoopEnds, LoopFails, LoopTimeout, LoopEnding, LoopWakes,
     LoopCancelled, Closing, service
<1>9. CASE HostNext /\ ~CloseDone
  <2>1. /\ phase = "closed" => UNCHANGED <<worker, loop, inbox>>
        /\ phase' = "closed" => phase = "closed"
    BY <1>9 DEF HostNext, HostAdmit, HostRefuse, HostSubmit, Ask, Pending, ProviderFails, Evidence,
       ReconcileLock, ReconcileDone, ReconcileFails, HealthLost, Close, CloseUnresolved, Enqueue,
       Submittable, service, tasks
  <2> QED
    BY <1>1, <2>1 DEF Shut, inbox
<1>10. CASE CloseDone
  <2>1. worker' = "dead" /\ loop' = "dead" /\ queue' = <<>>
    BY <1>10 DEF CloseDone, tasks
  <2>2. \A e \in Entries : answer'[e] # "open"
    BY <1>10 DEF CloseDone
  <2> QED
    BY <2>1, <2>2 DEF Shut
<1> QED
  BY <1>2, <1>3, <1>4, <1>5, <1>6, <1>7, <1>8, <1>9, <1>10, Kinds

-----------------------------------------------------------------------------
(* What is answered *)

\* A refusal is answered out of the staging step, a stop by the shutdown.
LEMMA Answering ==
  ASSUME IInv, [Next]_vars, NEW e \in Entries, answer'[e] \in {"refusal", "stopped"}
  PROVE  \/ answer[e] = answer'[e]
         \/ worker = "staging" /\ e = item /\ staged' = staged
         \/ CloseDone /\ answer[e] = "open"
<1> USE DEF Set, WorkerUnresolved
<1>1. TypeOK
  BY DEF IInv
<1>2. CASE Starting \/ Recovered \/ StartCancelled
  BY <1>2, StartFrame, RecoveryFrame DEF inbox
<1>3. CASE Crash
  BY <1>3 DEF Crash
<1>4. CASE UNCHANGED vars
  BY <1>4 DEF vars, inbox
<1>5. ASSUME NEW f \in Entries, SubmitExhausted(f) \/ Submit(f) \/ GiveUp(f) \/ Told(f)
      PROVE  answer[e] = answer'[e]
  <2>1. \/ answer' = answer \/ answer' = [answer EXCEPT ![f] = "open"]
        \/ answer' = [answer EXCEPT ![f] = IF @ = "open" THEN "abandoned" ELSE @]
    BY <1>5 DEF SubmitExhausted, Submit, Enqueue, GiveUp, Told, inbox
  <2> QED
    BY <1>1, <2>1 DEF TypeOK
<1>6. CASE WorkerNext /\ ~EntryRefused
  <2>1. \/ answer' = answer
        \/ \E v \in {"unresolved", "result"} :
             answer' = [answer EXCEPT ![item] = IF @ = "open" THEN v ELSE @]
    BY <1>6 DEF WorkerNext, WorkerGet, WorkerLock, WorkerRefuse, Stage, Handle, WorkerDone, WorkerFails,
       WorkerTimeout, WorkerCancelled, WorkerEnds, inbox
  <2> QED
    BY <1>1, <2>1 DEF TypeOK
<1>7. CASE EntryRefused
  <2>1. worker = "staging" /\ staged' = staged
        /\ answer' = [answer EXCEPT ![item] = IF @ = "open" THEN "refusal" ELSE @]
    BY <1>7 DEF EntryRefused, durable
  <2> QED
    BY <1>1, <2>1 DEF TypeOK
<1>8. CASE LoopNext
  BY <1>8 DEF LoopNext, LoopLock, LoopEnds, LoopFails, LoopTimeout, LoopEnding, LoopWakes, LoopCancelled,
     inbox
<1>9. CASE HostNext /\ ~CloseDone
  <2>1. CASE \E f \in Entries : HostSubmit(f)
    <3>1. answer' = answer \/ \E f \in Entries : answer' = [answer EXCEPT ![f] = "open"]
      BY <2>1 DEF HostSubmit, Enqueue
    <3> QED
      BY <1>1, <3>1 DEF TypeOK
  <2>2. CASE ~\E f \in Entries : HostSubmit(f)
    BY <1>9, <2>2 DEF HostNext, HostAdmit, HostRefuse, Ask, Pending, ProviderFails, Evidence,
       ReconcileLock, ReconcileDone, ReconcileFails, HealthLost, Close, CloseUnresolved, inbox
  <2> QED
    BY <2>1, <2>2
<1>10. CASE CloseDone
  BY <1>10 DEF CloseDone
<1> QED
  BY <1>2, <1>3, <1>4, <1>5, <1>6, <1>7, <1>8, <1>9, <1>10, Kinds DEF Submitted

LEMMA RefusalsStep ==
  ASSUME IInv, [Next]_vars
  PROVE  Refusals'
<1> SUFFICES ASSUME NEW e \in Entries, ArmOf[e] = arm', answer'[e] \in {"refusal", "stopped"}
             PROVE  e \notin staged'
  BY DEF Refusals
<1>1. Pulled /\ Working /\ Refusals /\ Clean /\ TypeOK
  BY DEF IInv
<1>2. CASE Starting \/ Recovered \/ StartCancelled \/ Crash
  <2>1. answer'[e] = "none"
    BY <1>1, <1>2, StartFrame, RecoveryFrame DEF Clean, inbox, Crash
  <2> QED
    BY <2>1
<1>3. ~(Starting \/ Recovered \/ StartCancelled \/ Crash) => arm' = arm
  BY SameProcess, Kinds DEF vars, service
<1>4. ASSUME arm' = arm, e \notin staged PROVE e \notin staged'
  BY <1>4, Staging
<1>5. ASSUME arm' = arm, answer[e] = answer'[e] PROVE e \notin staged
  BY <1>1, <1>5 DEF Refusals
<1>6. ASSUME worker = "staging", e = item PROVE e \notin staged
  BY <1>1, <1>6, InHand DEF Pulled, Held, Busy
<1>7. ASSUME CloseDone, answer[e] = "open", arm' = arm PROVE e \notin staged
  <2>1. item = None /\ Bound /\ Held(e) /\ e # None
    BY <1>1, <1>7, SessionAssumption DEF CloseDone, Working, Bound, Pulled
  <2> QED
    BY <1>1, <1>7, <2>1 DEF Pulled
<1> QED
  BY <1>2, <1>3, <1>4, <1>5, <1>6, <1>7, Answering

-----------------------------------------------------------------------------
(* The host's trade and its proof *)

\* The trade of the session is owned once, out of the one submission.
LEMMA Owning ==
  ASSUME IInv, [Next]_vars, ~(Starting \/ Recovered \/ StartCancelled \/ Crash)
  PROVE  /\ \/ UNCHANGED <<submission, owned>>
            \/ /\ owned' = owned /\ owned = None
               /\ \/ submission' \in {"providing", "done"}
                  \/ submission' \in Entries /\ ArmOf[submission'] = arm
            \/ /\ owned = None /\ submission' = "done"
               /\ owned' \in Entries /\ ArmOf[owned'] = arm
<1>1. Proving /\ TypeOK
  BY DEF IInv
<1>2. CASE UNCHANGED vars \/ WorkerNext \/ LoopNext
  BY <1>2 DEF vars, host, WorkerNext, WorkerGet, WorkerLock, WorkerRefuse, EntryRefused, Stage, Handle,
     WorkerDone, WorkerFails, WorkerTimeout, WorkerCancelled, WorkerEnds, LoopNext, LoopLock, LoopEnds,
     LoopFails, LoopTimeout, LoopEnding, LoopWakes, LoopCancelled
<1>3. ASSUME NEW e \in Entries, SubmitExhausted(e) \/ Submit(e) PROVE UNCHANGED <<submission, owned>>
  BY <1>3 DEF SubmitExhausted, Submit, host
<1>4. ASSUME NEW e \in Entries, GiveUp(e) \/ Told(e), submission # e PROVE UNCHANGED <<submission, owned>>
  BY <1>4 DEF GiveUp, Told
<1>5. ASSUME NEW e \in Entries, GiveUp(e) \/ Told(e), submission = e
      PROVE  owned = None /\ submission' = "done" /\ (owned' = None \/ (owned' = e /\ ArmOf[e] = arm))
  <2>1. owned = None /\ ArmOf[e] = arm
    BY <1>1, <1>5, SessionAssumption DEF Proving
  <2> QED
    BY <1>5, <2>1 DEF GiveUp, Told
<1>6. CASE HostAdmit \/ HostRefuse \/ \E e \in Entries : HostSubmit(e)
  <2>1. owned' = owned /\ submission # "done"
    BY <1>6 DEF HostAdmit, HostRefuse, HostSubmit
  <2>2. \/ submission' \in {"providing", "done"}
        \/ submission' \in Entries /\ ArmOf[submission'] = arm
    BY <1>6 DEF HostAdmit, HostRefuse, HostSubmit
  <2> QED
    BY <1>1, <2>1, <2>2 DEF Proving
<1>7. CASE HostNext /\ ~(HostAdmit \/ HostRefuse \/ \E e \in Entries : HostSubmit(e))
  BY <1>7 DEF HostNext, Ask, Pending, ProviderFails, Evidence, ReconcileLock, ReconcileDone,
     ReconcileFails, HealthLost, Close, CloseDone, CloseUnresolved, host
<1> QED
  BY <1>2, <1>3, <1>4, <1>5, <1>6, <1>7, Kinds DEF Submitted

\* The attempt is consumed before the lock is asked for, and never given back.
LEMMA Attempting ==
  ASSUME IInv, [Next]_vars, ~(Starting \/ Recovered \/ StartCancelled \/ Crash)
  PROVE  /\ terminal # "none" => terminal' # "none"
         /\ \/ UNCHANGED <<terminal, poll>>
            \/ poll' = "idle"
            \/ poll' = "asking" /\ terminal' = "none" /\ owned # None
            \/ poll' = "lock" /\ terminal' = "attempted" /\ poll = "asking"
            \/ poll' = "reconciling" /\ terminal' = terminal /\ poll = "lock" /\ ReconcileLock
<1>1. Proving /\ TypeOK
  BY DEF IInv
<1>2. CASE UNCHANGED vars \/ WorkerNext \/ LoopNext
  BY <1>2 DEF vars, host, WorkerNext, WorkerGet, WorkerLock, WorkerRefuse, EntryRefused, Stage, Handle,
     WorkerDone, WorkerFails, WorkerTimeout, WorkerCancelled, WorkerEnds, LoopNext, LoopLock, LoopEnds,
     LoopFails, LoopTimeout, LoopEnding, LoopWakes, LoopCancelled
<1>3. CASE Submitted
  BY <1>3 DEF Submitted, SubmitExhausted, Submit, GiveUp, Told, host
<1>4. CASE \E who \in {"run", "operator"} : Ask(who)
  <2>1. owned # None
    BY <1>1, <1>4, SessionAssumption DEF Ask, TypeOK
  <2> QED
    BY <1>4, <2>1 DEF Ask
<1>5. CASE HostNext /\ ~\E who \in {"run", "operator"} : Ask(who)
  BY <1>5 DEF HostNext, HostAdmit, HostRefuse, HostSubmit, Pending, ProviderFails, Evidence,
     ReconcileLock, ReconcileDone, ReconcileFails, HealthLost, Close, CloseDone, CloseUnresolved, host
<1> QED
  BY <1>2, <1>3, <1>4, <1>5, Kinds

LEMMA ProvingStep ==
  ASSUME IInv, [Next]_vars
  PROVE  Proving'
<1>1. Proving /\ Clean /\ TypeOK /\ Sole
  BY DEF IInv
<1>2. \A e \in Entries : proofs'[e] <= 1
  BY <1>1, Handing DEF Proving, TypeOK
<1>3. ASSUME Starting \/ Recovered \/ StartCancelled \/ Crash
      PROVE  owned' = None /\ submission' = "none" /\ poll' = "idle" /\ proofs' = proofs
  BY <1>1, <1>3, StartFrame, RecoveryFrame DEF Clean, Crash, host, history
<1>4. ASSUME NEW e \in Entries, Bound', ArmOf[e] = arm', proofs'[e] > 0
      PROVE  e = owned' /\ terminal' # "none" /\ poll' # "lock"
  <2>1. CASE \E a \in Arms : Start(a)
    <3>1. ArmOf[e] \notin usedArms /\ proofs' = proofs
      BY <1>4, <2>1 DEF Start, history
    <3> QED
      BY <1>1, <1>4, <3>1 DEF Sole
  <2>2. CASE Bound /\ arm' = arm /\ (Starting \/ Recovered \/ StartCancelled \/ Crash)
    <3>1. e = owned /\ owned = None
      BY <1>1, <1>3, <1>4, <2>2, StartFrame, RecoveryFrame DEF Proving, Clean, Crash, Bound
    <3> QED
      BY <3>1, SessionAssumption
  <2>3. CASE Bound /\ arm' = arm /\ ~(Starting \/ Recovered \/ StartCancelled \/ Crash)
    <3>1. CASE proofs' = proofs
      <4>1. e = owned /\ terminal # "none" /\ poll # "lock"
        BY <1>1, <1>4, <2>3, <3>1 DEF Proving
      <4>2. owned' = owned /\ terminal' # "none"
        BY <2>3, <4>1, Owning, Attempting, SessionAssumption
      <4>3. poll' # "lock"
        BY <1>1, <2>3, <4>1, Attempting DEF Proving
      <4> QED
        BY <4>1, <4>2, <4>3
    <3>2. CASE ReconcileLock /\ owned \in Entries /\ proofs' = [proofs EXCEPT ![owned] = @ + 1]
      <4>1. terminal' = "attempted" /\ poll' = "reconciling" /\ owned' = owned
        BY <1>1, <3>2 DEF ReconcileLock, Proving
      <4>2. CASE e # owned
        BY <1>1, <1>4, <2>3, <3>2, <4>2 DEF Proving, TypeOK
      <4> QED
        BY <4>1, <4>2
    <3> QED
      BY <3>1, <3>2, Handing
  <2> QED
    BY <1>4, <2>1, <2>2, <2>3, SameArm
<1>5. CASE Starting \/ Recovered \/ StartCancelled \/ Crash
  BY <1>2, <1>3, <1>4, <1>5, SessionAssumption DEF Proving
<1>6. CASE ~(Starting \/ Recovered \/ StartCancelled \/ Crash)
  <2>1. arm' = arm
    BY <1>6, SameProcess, Kinds DEF vars, service
  <2>2. owned' # None => submission' = "done" /\ ArmOf[owned'] = arm'
    BY <1>1, <1>6, <2>1, Owning DEF Proving
  <2>3. submission' \in Entries => ArmOf[submission'] = arm'
    BY <1>1, <1>6, <2>1, Owning, SessionAssumption DEF Proving
  <2>4. owned # None => owned' # None
    BY <1>6, Owning
  <2>5. poll' # "idle" => owned' # None
    BY <1>1, <1>6, <2>4, Attempting DEF Proving
  <2>6. (poll' = "asking" => terminal' = "none") /\ (poll' = "lock" => terminal' = "attempted")
    BY <1>1, <1>6, Attempting DEF Proving
  <2> QED
    BY <1>2, <1>4, <2>2, <2>3, <2>5, <2>6 DEF Proving
<1> QED
  BY <1>5, <1>6

-----------------------------------------------------------------------------
(* The invariant of a session *)

LEMMA InitIInv == Init => IInv
<1> SUFFICES ASSUME Init PROVE IInv
  OBVIOUS
<1> USE SessionAssumption
<1>1. /\ queue = <<>> /\ item = None /\ staged = {} /\ seen = {} /\ phase = "none"
      /\ \A e \in Entries : answer[e] = "none"
      /\ \A e \in Entries : proofs[e] = 0
  BY DEF Init
<1>2. TypeOK
  BY DEF Init, TypeOK
<1>3. Clean /\ Fenced /\ Holding /\ Shut /\ Refusals
  BY <1>1 DEF Init, Clean, Fenced, Holding, Shut, Refusals
<1>4. Sole /\ Working
  BY <1>1 DEF Init, Sole, Working, Bound, Busy
<1>5. Limited
  <2>1. IsFiniteSet(seen) /\ Cardinality(seen) = 0
    BY <1>1, FS_EmptySet
  <2>2. \A a \in Arms : {e \in staged : ArmOf[e] = a} = {}
    BY <1>1
  <2>3. \A a \in Arms : Cardinality({e \in staged : ArmOf[e] = a}) = 0
    BY <2>2, FS_EmptySet
  <2> QED
    BY <2>1, <2>3 DEF Limited
<1>6. Pulled
  BY <1>1 DEF Pulled, Held, Queued
<1>7. Proving
  BY <1>1 DEF Init, Proving, Bound
<1> QED
  BY <1>2, <1>3, <1>4, <1>5, <1>6, <1>7 DEF IInv

LEMMA SessionInductive == Spec => []IInv
<1>1. IInv /\ [Next]_vars => IInv'
  BY TypeStep, CleanStep, FencedStep, SoleStep, LimitedStep, PulledStep, WorkingStep, HoldingStep,
     ShutStep, RefusalsStep, ProvingStep DEF IInv
<1> QED
  BY InitIInv, <1>1, PTL DEF Spec

-----------------------------------------------------------------------------
(* The theorems *)

\* An entry that its session answered as refused, or as stopped before it was
\* processed, is not staged and not handled (ProductionLiveEntryRefusal,
\* SERVICE_STOPPED_BEFORE_PROCESSING); after a clean close no task runs, no pass
\* holds the account and nobody waits for an answer.
THEOREM TrueAnswers == Spec => []AnswersAreTrue
<1>1. IInv => AnswersAreTrue
  <2> SUFFICES ASSUME IInv PROVE AnswersAreTrue
    OBVIOUS
  <2>1. TypeOK /\ Refusals /\ Shut /\ Holding
    BY DEF IInv
  <2>2. \A e \in Entries : ArmOf[e] = arm /\ answer[e] \in {"refusal", "stopped"} =>
          e \notin staged \cup handled
    BY <2>1 DEF TypeOK, Refusals
  <2>3. phase = "closed" => lock \in {"free", "host"}
    BY <2>1 DEF TypeOK, Shut, Holding, Busy
  <2> QED
    BY <2>1, <2>2, <2>3 DEF AnswersAreTrue, Shut, TypeOK
<1> QED
  BY SessionInductive, <1>1, PTL

\* One signed arm stages at most as many entries as one session admits, however
\* often a process is started, and the end of a trade is handed to the driver at
\* most once, whoever polls for it (NonceStore, maximum_admissions,
\* _terminal_attempted).
THEOREM UsedOnce == Spec => []OneUse
<1>1. IInv => OneUse
  BY DEF IInv, OneUse, Limited, Proving
<1> QED
  BY SessionInductive, <1>1, PTL

\* After the first operation of a process whose outcome is unknown, no entry is
\* taken to be staged and none is handled (_admitted, entry_interlock).
THEOREM NothingAfter == Spec => NothingAfterUnknown
<1> DEFINE P == (worker # "staging" /\ worker' = "staging") \/ handled' # handled
<1>1. IInv /\ [Next]_vars => [P => ~unknown]_vars
  <2> SUFFICES ASSUME IInv, Next, P PROVE ~unknown
    BY DEF vars
  <2>1. Fenced
    BY DEF IInv
  <2>2. CASE Starting \/ Recovered \/ StartCancelled
    BY <2>2, StartFrame, RecoveryFrame DEF tasks, durable
  <2>3. CASE Crash \/ UNCHANGED vars
    BY <2>3 DEF Crash, vars, tasks, durable
  <2>4. CASE Submitted
    BY <2>4 DEF Submitted, SubmitExhausted, Submit, GiveUp, Told, tasks, durable
  <2>5. CASE LoopNext
    BY <2>5 DEF LoopNext, LoopLock, LoopEnds, LoopFails, LoopTimeout, LoopEnding, LoopWakes,
       LoopCancelled, tasks, durable
  <2>6. CASE HostNext
    BY <2>6 DEF HostNext, HostAdmit, HostRefuse, HostSubmit, Ask, Pending, ProviderFails, Evidence,
       ReconcileLock, ReconcileDone, ReconcileFails, HealthLost, Close, CloseDone, CloseUnresolved,
       tasks, durable
  <2>7. CASE WorkerLock \/ Handle
    <3>1. ~blocked
      BY <2>7 DEF WorkerLock, Admitted, Handle, Inspected, Interlock
    <3> QED
      BY <2>1, <3>1 DEF Fenced
  <2>8. CASE WorkerNext /\ ~WorkerLock /\ ~Handle
    BY <2>8 DEF WorkerNext, WorkerGet, WorkerRefuse, EntryRefused, Stage, WorkerDone, WorkerFails,
       WorkerTimeout, WorkerCancelled, WorkerEnds, WorkerUnresolved, durable
  <2> QED
    BY <2>2, <2>3, <2>4, <2>5, <2>6, <2>7, <2>8, Kinds
<1> QED
  BY SessionInductive, <1>1, PTL DEF Spec, NothingAfterUnknown

=============================================================================
