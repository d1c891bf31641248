-------------------------- MODULE ProductionSession --------------------------
(***************************************************************************)
(* One manually armed production session: the host (ProductionHost), the   *)
(* assembly it starts once, and the service driver                         *)
(* (ProductionServiceDriver), which serializes one account between an      *)
(* entry worker, the maintenance loop and the terminal reconciliation.     *)
(*                                                                         *)
(*   arm -> nonce -> recovery -> {entries, maintenance, terminal proof}    *)
(*       -> shutdown                                                       *)
(*                                                                         *)
(* An action is what asyncio runs between two awaits.  Every operation     *)
(* may fail, hang until its timeout, or be cancelled; a cancelled one may  *)
(* need time to end, since the writes below it are shielded.  The process  *)
(* may die at every point, and another is started with the same arm or     *)
(* with a new one.                                                         *)
(***************************************************************************)
EXTENDS Integers, FiniteSets, Sequences

CONSTANTS
  Entries,        \* entry envelopes
  Arms,           \* signed owner arms
  ArmOf,          \* [Entries -> Arms]
  Capacity,       \* queue_capacity
  MaxAdmissions,  \* maximum_admissions
  None

ASSUME SessionAssumption ==
  /\ ArmOf \in [Entries -> Arms] /\ None \notin Entries \cup Arms
  /\ {"none", "providing", "done"} \cap Entries = {}
  /\ Capacity \in Nat \ {0} /\ MaxAdmissions \in Nat \ {0}

VARIABLES
  \* durable: nonces, staged risk, journals, accounting
  usedArms, staged, handled, flat, released,
  \* the driver
  phase,     \* none, starting, running, closing, unresolved or closed
  arm,       \* the arm it is bound to
  blocked,   \* entries are blocked
  jammed,    \* the engine waits for authoritative recovery
  lock,      \* holder of the account lock
  queue, seen,
  answer,    \* [Entries -> none (no future), open, or what the future holds:
             \*   result, refusal, unresolved, stopped, abandoned]
  waiting,   \* entries whose submitter awaits the future
  \* its tasks
  worker,    \* none, get, lock, staging, inspecting, handling, ending, dead
  item,      \* the entry the worker has taken
  stopping,  \* the worker is being cancelled
  loop,      \* none, sleep, lock, pass, ending, dead
  \* the host
  submission,  \* none, providing, an entry submitted, done
  owned,       \* the entry whose trade it watches
  terminal,    \* its one attempt: none, attempted, accepted, failed
  poll,        \* idle, asking, lock, reconciling
  poller, watching,
  \* history
  unknown,   \* some operation of this process has an unknown outcome
  proofs     \* [Entries -> terminal proofs handed to the driver]

durable == <<usedArms, staged, handled, flat, released>>
service == <<phase, arm, blocked, jammed, lock>>
inbox   == <<queue, seen, answer, waiting>>
tasks   == <<worker, item, stopping, loop>>
host    == <<submission, owned, terminal, poll, poller, watching>>
history == <<unknown, proofs>>
vars    == <<durable, service, inbox, tasks, host, history>>

Init ==
  /\ usedArms = {} /\ staged = {} /\ handled = {} /\ flat = {} /\ released = {}
  /\ proofs = [e \in Entries |-> 0]
  /\ phase = "none" /\ arm = None /\ blocked = TRUE /\ jammed = FALSE /\ lock = "free"
  /\ queue = <<>> /\ seen = {} /\ answer = [e \in Entries |-> "none"] /\ waiting = {}
  /\ worker = "none" /\ item = None /\ stopping = FALSE /\ loop = "none"
  /\ submission = "none" /\ owned = None /\ terminal = "none" /\ poll = "idle"
  /\ poller = "run" /\ watching = FALSE /\ unknown = FALSE

-----------------------------------------------------------------------------
(* Vocabulary *)

Closing == phase \in {"closing", "unresolved", "closed"}
Started == phase \in {"running", "closing", "unresolved"}

\* _unknown: entries stay blocked for the life of the process.
Unknown == blocked' = TRUE /\ unknown' = TRUE

\* entry_interlock, read by every _check_entry_interlock.
Interlock(e) == answer[e] = "open" /\ ~ Closing /\ ~ blocked

\* A future is set once.
Set(e, value) == answer' = [answer EXCEPT ![e] = IF @ = "open" THEN value ELSE @]

-----------------------------------------------------------------------------
(* Start: ProductionHost.start, start_technical_canary, driver.start *)

\* Mutant: the nonce of an arm may be used again.
StartRearmed(a) ==
  /\ phase = "none"
  /\ usedArms' = usedArms \cup {a}
  /\ phase' = "starting" /\ arm' = a /\ lock' = "start"
  /\ UNCHANGED <<staged, handled, flat, released, blocked, jammed, inbox, tasks, host, history>>

\* The nonce of the arm is consumed durably before anything starts.
Start(a) ==
  /\ phase = "none" /\ a \notin usedArms
  /\ usedArms' = usedArms \cup {a}
  /\ phase' = "starting" /\ arm' = a /\ lock' = "start"
  /\ UNCHANGED <<staged, handled, flat, released, blocked, jammed, inbox, tasks, host, history>>

\* A refused, expired or unacknowledged nonce ends the attempt for good.
StartRefused(a) ==
  /\ phase = "none"
  /\ usedArms' \in {usedArms, usedArms \cup {a}}
  /\ arm' = a /\ phase' = "closed"
  /\ UNCHANGED <<staged, handled, flat, released, blocked, jammed, lock, inbox, tasks, host, history>>

\* initialize_recovery ends, with or without blockers, or fails: the tasks
\* are created in every case.
StartDone(blockers) ==
  /\ phase = "starting"
  /\ phase' = "running" /\ lock' = "free"
  /\ blocked' = blockers /\ jammed' = blockers
  /\ worker' = "get" /\ loop' = "lock" /\ watching' = TRUE
  /\ UNCHANGED <<durable, arm, inbox, item, stopping, submission, owned, terminal, poll, poller, history>>

StartUnresolved ==
  /\ phase = "starting"
  /\ phase' = "running" /\ lock' = "free" /\ Unknown
  /\ jammed' \in BOOLEAN
  /\ worker' = "get" /\ loop' = "lock" /\ watching' = TRUE
  /\ UNCHANGED <<durable, arm, inbox, item, stopping, submission, owned, terminal, poll, poller, proofs>>

\* Cancelled in its recovery, the driver is closed before it has tasks.
StartCancelled ==
  /\ phase = "starting"
  /\ phase' = "closed" /\ lock' = "free" /\ Unknown
  /\ UNCHANGED <<durable, arm, jammed, inbox, tasks, host, proofs>>

-----------------------------------------------------------------------------
(* submit, called by the host once and by whoever holds the driver *)

Submittable(e) == phase = "running" /\ ~ blocked /\ e \notin seen

\* Identities are never evicted: past the last one, entries are blocked.
SubmitExhausted(e) ==
  /\ Submittable(e) /\ Cardinality(seen) >= MaxAdmissions
  /\ blocked' = TRUE
  /\ UNCHANGED <<durable, phase, arm, jammed, lock, inbox, tasks, host, history>>

\* put_nowait: a full queue refuses, and the identity stays fenced.
Enqueue(e) ==
  /\ Submittable(e) /\ Cardinality(seen) < MaxAdmissions
  /\ seen' = seen \cup {e}
  /\ IF Len(queue) < Capacity
       THEN /\ queue' = Append(queue, e)
            /\ answer' = [answer EXCEPT ![e] = "open"]
            /\ waiting' = waiting \cup {e}
       ELSE UNCHANGED <<queue, answer, waiting>>

Submit(e) ==
  /\ Enqueue(e)
  /\ UNCHANGED <<durable, service, tasks, host, history>>

\* The submitter's ten seconds are over, or it is cancelled: its future is
\* cancelled with it, and so is the worker, whatever the worker is doing.
GiveUp(e) ==
  /\ e \in waiting
  /\ waiting' = waiting \ {e}
  /\ Set(e, "abandoned") /\ Unknown
  /\ stopping' = (worker \notin {"none", "dead"})
  /\ submission' = IF submission = e THEN "done" ELSE submission
  /\ UNCHANGED <<durable, phase, arm, jammed, lock, queue, seen, worker, item, loop,
                 owned, terminal, poll, poller, watching, proofs>>

\* The submitter is told.  The host owns the trade of its result, and blocks
\* entries after anything else than a result or a refusal.
Told(e) ==
  /\ e \in waiting /\ answer[e] # "open"
  /\ waiting' = waiting \ {e}
  /\ IF submission = e
       THEN /\ submission' = "done"
            /\ owned' = IF answer[e] = "result" THEN e ELSE owned
            /\ blocked' = (blocked \/ answer[e] \notin {"result", "refusal"})
       ELSE UNCHANGED <<submission, owned, blocked>>
  /\ UNCHANGED <<durable, phase, arm, jammed, lock, queue, seen, answer, tasks, terminal,
                 poll, poller, watching, history>>

-----------------------------------------------------------------------------
(* _entry_worker *)

\* An abandoned entry is skipped.
WorkerGet ==
  /\ worker = "get" /\ ~ stopping /\ queue # <<>>
  /\ queue' = Tail(queue)
  /\ IF answer[Head(queue)] = "open"
       THEN worker' = "lock" /\ item' = Head(queue)
       ELSE UNCHANGED <<worker, item>>
  /\ UNCHANGED <<durable, service, seen, answer, waiting, stopping, loop, host, history>>

\* The Exception path: the worker survives it.
WorkerUnresolved ==
  /\ Unknown /\ Set(item, "unresolved")
  /\ worker' = "get" /\ item' = None
  /\ lock' = IF lock = "worker" THEN "free" ELSE lock

\* _admitted and the bound arm, under the account lock.
Admitted(e) == Interlock(e) /\ ~ jammed /\ ArmOf[e] = arm

WorkerLock ==
  /\ worker = "lock" /\ ~ stopping /\ lock = "free" /\ Admitted(item)
  /\ lock' = "worker" /\ worker' = "staging"
  /\ UNCHANGED <<durable, phase, arm, blocked, jammed, inbox, item, stopping, loop, host, history>>

\* Not admitted, or an admission callback or a deadline that refuses.
WorkerRefuse ==
  /\ worker = "lock" /\ ~ stopping /\ lock = "free"
  /\ WorkerUnresolved
  /\ UNCHANGED <<durable, phase, arm, jammed, queue, seen, waiting, stopping, loop, host, proofs>>

\* evaluate_and_stage_entry: the complete negative evaluation stages nothing.
EntryRefused ==
  /\ worker = "staging" /\ ~ stopping /\ Interlock(item)
  /\ Set(item, "refusal")
  /\ worker' = "get" /\ item' = None /\ lock' = "free"
  /\ UNCHANGED <<durable, phase, arm, blocked, jammed, queue, seen, waiting, stopping, loop, host, history>>

\* Mutant: an evaluation that was already staged is answered as a refusal.
StageAndRefuse ==
  /\ worker = "staging" /\ ~ stopping /\ item \notin staged
  /\ staged' = staged \cup {item}
  /\ IF Interlock(item)
       THEN /\ worker' = "inspecting"
            /\ UNCHANGED <<item, answer, blocked, unknown, lock>>
       ELSE /\ Set(item, "refusal") /\ Unknown
            /\ worker' = "get" /\ item' = None /\ lock' = "free"
  /\ UNCHANGED <<usedArms, handled, flat, released, phase, arm, jammed, queue, seen, waiting,
                 stopping, loop, host, proofs>>

\* Risk and the binding are durable; the interlock is read again.
Stage ==
  /\ worker = "staging" /\ ~ stopping /\ item \notin staged
  /\ staged' = staged \cup {item}
  /\ IF Interlock(item)
       THEN /\ worker' = "inspecting"
            /\ UNCHANGED <<item, answer, blocked, unknown, lock>>
       ELSE WorkerUnresolved
  /\ UNCHANGED <<usedArms, handled, flat, released, phase, arm, jammed, queue, seen, waiting,
                 stopping, loop, host, proofs>>

\* Mutant: the interlock is not read after the inspection.
HandleUnchecked ==
  /\ worker = "inspecting" /\ ~ stopping
  /\ handled' = handled \cup {item} /\ worker' = "handling"
  /\ UNCHANGED <<usedArms, staged, flat, released, service, inbox, item, stopping, loop, host, history>>

\* _inspect_staged has found the authority whole, and the interlock still holds.
Inspected == worker = "inspecting" /\ Interlock(item)

Handle ==
  /\ Inspected /\ ~ stopping
  /\ handled' = handled \cup {item} /\ worker' = "handling"
  /\ UNCHANGED <<usedArms, staged, flat, released, service, inbox, item, stopping, loop, host, history>>

WorkerDone ==
  /\ worker = "handling" /\ ~ stopping
  /\ Set(item, "result")
  /\ worker' = "get" /\ item' = None /\ lock' = "free"
  /\ UNCHANGED <<durable, phase, arm, blocked, jammed, queue, seen, waiting, stopping, loop, host, history>>

\* A step of the entry path raises; the engine may be jammed by it.
WorkerFails ==
  /\ worker \in {"staging", "inspecting", "handling"} /\ ~ stopping
  /\ WorkerUnresolved
  /\ staged' \in {staged, IF worker = "staging" THEN staged \cup {item} ELSE staged}
  /\ jammed' \in {jammed, worker = "handling" \/ jammed}
  /\ UNCHANGED <<usedArms, handled, flat, released, phase, arm, queue, seen, waiting, stopping, loop,
                 host, proofs>>

\* The worker's ten seconds are over: cancelled inside, it ends like a failure.
WorkerTimeout ==
  /\ worker \in {"lock", "staging", "inspecting", "handling"} /\ ~ stopping
  /\ IF worker = "lock"
       THEN WorkerUnresolved
       ELSE worker' = "ending" /\ UNCHANGED <<blocked, unknown, answer, item, lock>>
  /\ UNCHANGED <<durable, phase, arm, jammed, queue, seen, waiting, stopping, loop, host, proofs>>

\* The cancellation of the task arrives: idle, it dies; inside, it ends first.
WorkerCancelled ==
  /\ stopping /\ worker \in {"get", "lock", "staging", "inspecting", "handling"}
  /\ IF worker \in {"get", "lock"}
       THEN /\ worker' = "dead" /\ item' = None
            /\ IF item = None THEN UNCHANGED <<answer, blocked, unknown>>
                              ELSE Set(item, "unresolved") /\ Unknown
       ELSE worker' = "ending" /\ UNCHANGED <<item, answer, blocked, unknown>>
  /\ UNCHANGED <<durable, phase, arm, jammed, lock, queue, seen, waiting, stopping, loop, host, proofs>>

\* The operation has ended; a cancelled task dies with it.
WorkerEnds ==
  /\ worker = "ending"
  /\ Set(item, "unresolved") /\ Unknown
  /\ worker' = IF stopping THEN "dead" ELSE "get"
  /\ item' = None /\ lock' = "free"
  /\ staged' \in {staged, staged \cup {item}}
  /\ jammed' \in {jammed, TRUE}
  /\ UNCHANGED <<usedArms, handled, flat, released, phase, arm, queue, seen, waiting, stopping, loop,
                 host, proofs>>

-----------------------------------------------------------------------------
(* _lifecycle_loop *)

LoopLock ==
  /\ loop = "lock" /\ ~ Closing /\ lock = "free"
  /\ lock' = "loop" /\ loop' = "pass"
  /\ UNCHANGED <<durable, phase, arm, blocked, jammed, inbox, worker, item, stopping, host, history>>

\* The pass ends.  It may have closed positions, unless the engine is jammed.
LoopEnds ==
  /\ loop = "pass" /\ ~ Closing
  /\ flat' \in {flat, IF jammed THEN flat ELSE handled}
  /\ jammed' \in {jammed, TRUE}
  /\ IF jammed' THEN Unknown ELSE UNCHANGED <<blocked, unknown>>
  /\ loop' = "sleep" /\ lock' = "free"
  /\ UNCHANGED <<usedArms, staged, handled, released, phase, arm, inbox, worker, item, stopping, host, proofs>>

\* A failed pass, or a wait for the lock that took its ten seconds.
LoopFails ==
  /\ loop = "pass" \/ (loop = "lock" /\ lock # "free")
  /\ ~ Closing
  /\ Unknown
  /\ loop' = "sleep" /\ lock' = IF loop = "pass" THEN "free" ELSE lock
  /\ UNCHANGED <<durable, phase, arm, jammed, inbox, worker, item, stopping, host, proofs>>

\* Mutant: maintenance has no timeout of its own.
LoopHangs == FALSE /\ UNCHANGED vars

LoopTimeout ==
  /\ loop = "pass" /\ ~ Closing
  /\ loop' = "ending"
  /\ UNCHANGED <<durable, service, inbox, worker, item, stopping, host, history>>

LoopEnding ==
  /\ loop = "ending"
  /\ Unknown
  /\ loop' = IF Closing THEN "dead" ELSE "sleep"
  /\ lock' = "free"
  /\ UNCHANGED <<durable, phase, arm, jammed, inbox, worker, item, stopping, host, proofs>>

LoopWakes ==
  /\ loop = "sleep" /\ ~ Closing
  /\ loop' = "lock"
  /\ UNCHANGED <<durable, service, inbox, worker, item, stopping, host, history>>

LoopCancelled ==
  /\ Closing /\ loop \in {"sleep", "lock", "pass"}
  /\ IF loop = "sleep"
       THEN loop' = "dead" /\ UNCHANGED <<blocked, unknown>>
       ELSE /\ loop' = IF loop = "pass" THEN "ending" ELSE "dead"
            /\ Unknown
  /\ UNCHANGED <<durable, phase, arm, jammed, lock, inbox, worker, item, stopping, host, proofs>>

-----------------------------------------------------------------------------
(* ProductionHost: one submission *)

Alive == worker # "dead" /\ loop # "dead"

\* submit_one asks its provider for the one envelope.
HostAdmit ==
  /\ phase = "running" /\ submission = "none" /\ Alive /\ ~ blocked
  /\ submission' = "providing"
  /\ UNCHANGED <<durable, service, inbox, tasks, owned, terminal, poll, poller, watching, history>>

\* The attempt is spent on lost health, blocked entries, a failed provider,
\* another arm, an expired envelope or a driver that refuses.
HostRefuse ==
  /\ phase = "running" /\ submission \in {"none", "providing"}
  /\ submission' = "done"
  /\ blocked' = TRUE
  /\ UNCHANGED <<durable, phase, arm, jammed, lock, inbox, tasks, owned, terminal, poll, poller,
                 watching, history>>

HostSubmit(e) ==
  /\ submission = "providing" /\ ArmOf[e] = arm
  /\ Enqueue(e)
  /\ submission' = IF e \in waiting' THEN e ELSE "done"
  /\ blocked' = (e \notin waiting')
  /\ UNCHANGED <<durable, phase, arm, jammed, lock, tasks, owned, terminal, poll, poller,
                 watching, history>>

-----------------------------------------------------------------------------
(* ProductionHost: the terminal proof of the owned trade *)

\* reconcile_owned_if_closed, by run or by an explicit call: the trade is
\* FLAT and no proof was attempted.  _reconcile_lock admits one of them.
Ask(who) ==
  /\ phase = "running" /\ poll = "idle" /\ terminal = "none"
  /\ owned \in flat
  /\ who = "run" => watching
  /\ poll' = "asking" /\ poller' = who
  /\ UNCHANGED <<durable, service, inbox, tasks, submission, owned, terminal, watching, history>>

\* PendingTerminalEvidence consumes nothing.
Pending ==
  /\ poll = "asking"
  /\ poll' = "idle"
  /\ UNCHANGED <<durable, service, inbox, tasks, submission, owned, terminal, poller, watching, history>>

\* A failed provider, or ten minutes without a proof: never asked again.
ProviderFails ==
  /\ poll = "asking"
  /\ poll' = "idle" /\ terminal' = "failed" /\ blocked' = TRUE
  /\ UNCHANGED <<durable, phase, arm, jammed, lock, inbox, tasks, submission, owned, poller,
                 watching, history>>

\* Final evidence consumes the one attempt before it is used.
Evidence ==
  /\ poll = "asking"
  /\ poll' = "lock" /\ terminal' = "attempted"
  /\ UNCHANGED <<durable, service, inbox, tasks, submission, owned, poller, watching, history>>

\* driver.reconcile_closed_account.
ReconcileLock ==
  /\ poll = "lock" /\ phase = "running" /\ lock = "free"
  /\ lock' = "host" /\ poll' = "reconciling"
  /\ proofs' = [proofs EXCEPT ![owned] = @ + 1]
  /\ UNCHANGED <<durable, phase, arm, blocked, jammed, inbox, tasks, submission, owned, terminal,
                 poller, watching, unknown>>

\* The accounting accepted the receipt.
ReconcileDone ==
  /\ poll = "reconciling"
  /\ released' = released \cup {owned}
  /\ terminal' = "accepted" /\ poll' = "idle" /\ lock' = "free"
  /\ UNCHANGED <<usedArms, staged, handled, flat, phase, arm, blocked, jammed, inbox, tasks,
                 submission, owned, poller, watching, history>>

\* Refused, failed, timed out or cancelled; the receipt may be durable.
ReconcileFails ==
  /\ poll \in {"lock", "reconciling"}
  /\ released' \in {released, IF poll = "lock" THEN released ELSE released \cup {owned}}
  /\ terminal' = IF terminal = "attempted" THEN "failed" ELSE terminal
  /\ poll' = "idle"
  /\ lock' = IF lock = "host" THEN "free" ELSE lock
  /\ Unknown
  /\ UNCHANGED <<usedArms, staged, handled, flat, phase, arm, jammed, inbox, tasks,
                 submission, owned, poller, watching, proofs>>

-----------------------------------------------------------------------------
(* Supervision, shutdown and death *)

\* run sees a dead task: it blocks entries and only waits for its stop.
HealthLost ==
  /\ phase = "running" /\ watching /\ ~ Alive
  /\ poll = "idle" \/ poller # "run"
  /\ watching' = FALSE /\ blocked' = TRUE
  /\ UNCHANGED <<durable, phase, arm, jammed, lock, inbox, tasks, submission, owned, terminal,
                 poll, poller, history>>

\* run leaves: driver.close cancels both tasks.
Close ==
  /\ phase = "running"
  /\ poll = "idle" \/ poller # "run"
  /\ phase' = "closing" /\ blocked' = TRUE /\ watching' = FALSE
  /\ stopping' = (worker # "dead")
  /\ UNCHANGED <<durable, arm, jammed, lock, inbox, worker, item, loop, submission, owned, terminal,
                 poll, poller, history>>

\* Both tasks are done: what is still queued is told that it was not processed.
CloseDone ==
  /\ phase = "closing" /\ worker = "dead" /\ loop = "dead"
  /\ phase' = "closed" /\ queue' = <<>>
  /\ answer' = [e \in Entries |-> IF answer[e] = "open" THEN "stopped" ELSE answer[e]]
  /\ UNCHANGED <<durable, arm, blocked, jammed, lock, seen, waiting, tasks, host, history>>

\* A task has not ended in five seconds: SHUTDOWN_UNRESOLVED.
CloseUnresolved ==
  /\ phase = "closing" /\ (worker # "dead" \/ loop # "dead")
  /\ phase' = "unresolved" /\ Unknown
  /\ UNCHANGED <<durable, arm, jammed, lock, inbox, tasks, host, proofs>>

\* The process dies, and another one may start.
Crash ==
  /\ phase # "none"
  /\ phase' = "none" /\ arm' = None /\ blocked' = TRUE /\ jammed' = FALSE /\ lock' = "free"
  /\ queue' = <<>> /\ seen' = {} /\ answer' = [e \in Entries |-> "none"] /\ waiting' = {}
  /\ worker' = "none" /\ item' = None /\ stopping' = FALSE /\ loop' = "none"
  /\ submission' = "none" /\ owned' = None /\ terminal' = "none" /\ poll' = "idle"
  /\ poller' = "run" /\ watching' = FALSE /\ unknown' = FALSE
  /\ UNCHANGED <<durable, proofs>>

WorkerNext ==
  \/ WorkerGet \/ WorkerLock \/ WorkerRefuse \/ EntryRefused \/ Stage \/ Handle \/ WorkerDone
  \/ WorkerFails \/ WorkerTimeout \/ WorkerCancelled \/ WorkerEnds

LoopNext == LoopLock \/ LoopEnds \/ LoopFails \/ LoopTimeout \/ LoopEnding \/ LoopWakes \/ LoopCancelled

HostNext ==
  \/ HostAdmit \/ HostRefuse \/ (\E e \in Entries : HostSubmit(e))
  \/ (\E who \in {"run", "operator"} : Ask(who)) \/ Pending \/ ProviderFails \/ Evidence
  \/ ReconcileLock \/ ReconcileDone \/ ReconcileFails
  \/ HealthLost \/ Close \/ CloseDone \/ CloseUnresolved

Next ==
  \/ \E a \in Arms : Start(a) \/ StartRefused(a)
  \/ (\E b \in BOOLEAN : StartDone(b)) \/ StartUnresolved \/ StartCancelled
  \/ \E e \in Entries : SubmitExhausted(e) \/ Submit(e) \/ GiveUp(e) \/ Told(e)
  \/ WorkerNext \/ LoopNext \/ HostNext \/ Crash

Spec == Init /\ [][Next]_vars

\* Timers fire, cancellations arrive and the writes below them, bounded by
\* timeouts of their own, end.  No operation needs to succeed.
FairSpec ==
  /\ Spec
  /\ WF_vars(StartUnresolved)
  /\ WF_vars(WorkerTimeout) /\ WF_vars(WorkerCancelled) /\ WF_vars(WorkerEnds)
  /\ WF_vars(LoopLock) /\ WF_vars(LoopTimeout) /\ WF_vars(LoopEnding) /\ WF_vars(LoopWakes)
  /\ WF_vars(LoopCancelled) /\ WF_vars(ReconcileFails)

-----------------------------------------------------------------------------
(* Properties *)

\* After the first unknown outcome in a process, of an entry, a maintenance
\* pass or a reconciliation, it begins to stage no entry and to handle none
\* (_admitted, entry_interlock and the checks of admit_and_handle_entry).
NothingAfterUnknown ==
  [][((worker # "staging" /\ worker' = "staging") \/ handled' # handled) => ~ unknown]_vars

\* What submitters are told is so.  An entry that the session of its arm answered
\* as refused, or as stopped before processing, left nothing behind: no staged
\* risk, no order (ProductionLiveEntryRefusal.mutation_started); and after a clean
\* close no task runs, no pass holds the account and nobody waits (close).
AnswersAreTrue ==
  /\ \A e \in Entries :
       ArmOf[e] = arm /\ answer[e] \in {"refusal", "stopped"} => e \notin staged \cup handled
  /\ phase = "closed" =>
       /\ worker \in {"none", "dead"} /\ loop \in {"none", "dead"}
       /\ lock \in {"free", "host"} /\ queue = <<>>
       /\ \A e \in waiting : answer[e] # "open"

\* What may be used once is, whatever fails and however often a process starts:
\* one owner arm stages at most as many entries as one session admits (the
\* durable nonce, the identities that are never evicted, the exact bound arm),
\* and the proof that a trade is closed is attempted once, whoever polls
\* (_terminal_attempted).
OneUse ==
  /\ \A a \in Arms : Cardinality({e \in staged : ArmOf[e] = a}) <= MaxAdmissions
  /\ \A e \in Entries : proofs[e] <= 1

\* Maintenance goes on while the service runs, behind hung entries, dead
\* workers and blocked admission (_lifecycle_loop and the operation timeout).
MaintenanceContinues ==
  /\ (phase = "running" /\ loop = "sleep") ~> (loop = "pass" \/ phase # "running")
  /\ (loop = "pass") ~> (loop = "sleep" \/ phase # "running")

=============================================================================
