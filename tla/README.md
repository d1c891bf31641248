# A TLA+ development of kairos-execution-engine

This directory models the execution engine of Kairos: the program that turns an
approved risk decision into a protected position at the EVEDEX venue, and closes
it again. It holds TLA+ modules translated from the source, the TLC runs that
check them on small instances, and TLAPS proofs of the properties that matter
most, for every value of the constants.

The account the engine trades is real state that it does not own. Every
guarantee the source claims is about that gap: an order that was sent and not
acknowledged, a process that died between a call and its journal row, a
projection of the venue that is behind, a stop that triggers while a timeout
closes the same position. Those are the steps the models are cut into.

## Inventory

Paths are relative to `src/kairos_execution/`. The last column names the module
that models the component, or says that none does.

| Component | State it keeps | Operations | Hard behaviour | Modelled |
|---|---|---|---|---|
| PAPER engine, `paper_engine.py` | durable trades and effect journal, recovery flag in the database and one per process, process lock | `handle`, `initialize_recovery`, `reconcile_once`, `account_snapshot`, `block_entries` | ambiguous effects, crashes, redelivery, several processes, venue races, lagging projections | `PaperEngine` |
| Service loops, `service.py` | refresh queue, session accounting | consume decisions or orders, snapshots, reconciliation, control, journal recovery | loops interleave; a failure revokes entries under fresh locks; at-least-once delivery | PAPER loops in `PaperEngine`, legacy loops in `LegacyExecution` |
| Legacy engine, `engine.py`, `journaled_adapter.py` | duplicate cache, system mode, recovery blockers, effect journal | `handle`, `recover_pending`, `set_mode` | ambiguous calls, compensation, cache eviction, recovery beside new orders | `LegacyExecution` |
| Wire dispatch and claims, `production_dispatch.py`, `production_claims.py` | insert-only claims and terminals | `dispatch_one`, `claim_wire_once`, `finish_wire` | lost commit answers, deadlines, shielded writes | `ProductionDispatch` |
| Signing, `managed_signer.py`, `signing_authorization.py`, with `dispatch_one_response` of `production_runtime.py` | none of its own | `sign_async`, `verify_request_async`, `verify_effect_async` | threads that outlive their call, evidence that is stale when used | `ProductionDispatch` |
| Production state, risk, reconciliation, accounting: `production_state.py`, `production_risk.py`, `production_reconciliation.py`, `production_accounting.py` | append-only evidence, decisions, reservations, receipts, releases | `evaluate_and_stage_entry`, `reserve_entry_async`, `reconcile_terminal`, `accept_terminal_receipt` | concurrent reservations against shared caps, evidence that is a snapshot | `AccountCapital` |
| Cancellation, `production_cancellation.py` | one claim and outcome per cancelled target | `cancel_entry`, `cancel_tpsl` | facts that change between the proof and the call, shielded writes, retries | `ProductionCancellation` |
| Service driver and its host: `production_service.py`, `production_host.py`, `production_assembly.py`, `production_path.py`, `technical_canary_service.py` | queue, seen identities, latches, account lock, the one owned trade | `start`, `submit`, `_entry_worker`, `reconcile_once`, `close`, `run` | timeouts that kill the worker, shutdown, full queue, hung operations | `ProductionSession` |
| Production lifecycle, `production_lifecycle*.py` | binding store | admit and handle an entry | PAPER lifecycle over one-use signed effects | its state machine in `PaperEngine`, its wire in `OneShotEffect`, its uses in `AccountCapital` and `ProductionSession` |
| Simulation, `simulation/` | commands, receipts, journals, depth already spent | `submit_entry`, `process_closed_bar`, `recover_prepared` | crashes between prepare, complete and result; lookahead | `SimulationController` |
| Transport and sidecars, `production_transport.py`, `sidecar.py`, `adapters/evedex_sidecar.py` | child process, latch, cached preflight, lock | start, call, abort, close | a call without an answer, answers out of step, a child that is left running | `SidecarClient`; as the wire of `PaperEngine` |
| Node side of the sidecars, `evedex_sidecar/` | cache of served effects, mutation budget | one line in, one line out | | external in `SidecarClient` |
| Order states and limits, `state_machine.py`, `ratelimit.py` | one state, one bucket | transition, acquire | | order identities in `LegacyExecution` |
| Vendor adapters, local custody, evidence, readiness, recorder, configuration | little or none | validation, parsing, cryptography, I/O | none that a state machine shows | no |

How they interact. The PAPER service delivers decisions from a bus at least once;
a failed decision is not acknowledged and comes again. `handle`, the reconciliation
loop and the snapshot loop run in one process as concurrent tasks and take the
same process lock, then a database lock of the account, then one of the trade.
The engine writes the journal row of an effect before it calls the sidecar and
confirms it after the answer. Every lifecycle transition commits with its public
fact in one transaction. The sidecar forwards calls to the venue; its answers and
the venue's projections (open orders, order history, positions, protections) are
all the engine ever knows. The legacy route has the same shape with a thinner
journal: one task handles orders, another recovers the journal, and a lock of each
effect is all they share.

In production a host starts one session under a signed, one-use owner arm. The
driver admits entries from a bounded queue; each is staged against the account's
caps (`AccountCapital`), reserved, signed and sent through one-use claims
(`ProductionDispatch`), protected by the lifecycle, perhaps cancelled in parts
(`ProductionCancellation`), and finally proved closed by a registered evidence
source, which alone frees its capital. All of it reaches the venue over the one
child process of `SidecarClient`.

What makes each component correct: for the PAPER engine, the properties listed
below; for the legacy engine, that no acknowledged entry is unprotected and no order
is executed twice; for the dispatcher, that a claimed effect reaches the wire at
most once and its claim is never reused; for reservations, that committed and
open risk stay within the caps and are freed only when nothing is live; for
cancellations, that each happens once and none takes a stop from a bare position;
for the driver, that what submitters are told is true and nothing new begins after an
unknown outcome; for the clients of a child process, that an answer belongs to its
request and an abandoned mutation does not leave later; for the simulation, that
depth is spent once, fills see no future and every finished trade has its result.

## Modules

- `TradeLifecycle`: the abstract specification. The documented state machine of a
  trade (`RECEIVED -> ENTRY_PENDING -> PROTECTING -> ACTIVE -> EXITING_* -> FLAT`),
  joined to the money at risk at the venue: a trade is engaged once, while it is
  pending and alone, and ends only when nothing of it is at risk.
- `PaperEngine`: `paper_engine.py` with the journal, the venue, the clock, crashes
  and the service loops around it. It implements `TradeLifecycle`.
- `OneShotEffect`: the abstract specification of the production wire: an effect is
  claimed once and for ever, sent at most once and only before its outcome is
  recorded, and its outcome never changes.
- `ProductionDispatch`: one production order from the inspection of its authority to
  the record of its outcome, in concurrent calls, with the claims database, the
  operator's record, custody, the venue and the clocks. It implements `OneShotEffect`.
- `ProductionCancellation`: the cancellation of the entry and the protections of one
  production trade, with the claims, the journal and the venue. It implements
  `OneShotEffect` too.
- `AccountCapital`: what one account may risk: decisions, reservations, receipts and
  releases under several policy contexts.
- `ProductionSession`: one armed session, its host, its driver and their tasks.
- `SidecarClient`: the two clients that own a Node child process.
- `SimulationController`: the simulator and its fill kernel.
- `LegacyExecution`: the legacy engine over its journaled adapter.
- `MC*` and their `.cfg` files: the TLC instances.
- `PaperEngineProofs`, `ProductionDispatchProofs`, `AccountCapitalProofs`,
  `ProductionCancellationProofs`, `ProductionSessionProofs`, `SidecarClientProofs`,
  `SimulationControllerProofs`, `LegacyExecutionProofs`: the theorems.

### PaperEngine and the code

State. `state`, `filled`, `exit`, `prot` are the trade record: lifecycle state,
cumulative filled quantity in lots, exit reason, and the protections whose
exchange identity is durable. `eff` is the status of each effect in the journal
(entry, its cancel, stop, target, their cancels, timeout close, emergency close);
`closeQty` the quantity in a close's request. `ripe` is the set of ambiguous
effects older than the grace period, `allowed` the account's durable entry
authority, `blocked` the recovery blockers in each process, and `revoke` says the
service of a process has caught a failure and is about to call `block_entries`.
`ord`, `pos`, `tp`, `trig`, `clo` are the venue's truth and `ord.at`, `shown` its
projections. `wire` holds requests sent and not served, `answered` the answer not
yet read; `sends` counts sends, for the properties.

`eng` is the operation that holds the locks, with its place in the code (`pc`) and
its local variables: `t` the trade, `e` the effect being performed and `ret` where
it returns, `qty` the quantity it measured, `r` and `snap` the role and the read of
the venue of the cleanup, `todoE` and `todoT` what its loops have left, `bad` that
a recovery met a failure. One operation at a time is what the locks give; a
process that dies loses them.

Actions. One step is one read of the venue with the decision taken on it, one
durable commit, or one request sent.

| Code | Actions |
|---|---|
| `_handle_once` | `DeliverNew`, `DeliverReceived`, `Received`, `AdmitEntry`, `SendEffect`, `AckEntry`, `FirstFill`, `EntryDead` |
| `_settle_or_cancel_ioc_entry` | `Settle`, `Settled` |
| its `except` branch | `Ambiguous`, `AmbiguousExposure` |
| `_reconcile_redelivery_locked` | `Redeliver`, then the loops |
| `_protect` | `RecordProtection`, `VerifyProtection`, `Activate` |
| every effect | `PrepareEffect`, `ReplayEffect`, `SendEffect`, `AckEffect` |
| `_emergency_close`, `_timeout_close`, `_resume_close_exit` | `CancelRemainder`, `MeasurePosition`, `TriggerEmergency`, `CloseFailed`, `ClosedFlat`, `FinishExit` |
| `_cancel_remaining_protection` | `BeginCleanup`, `AdoptProtection`, `SkipProtection`, `CancelProtection`, `ProtectionCancelled` |
| `_finish_venue_exit` | `FinishExit`, then the cleanup, then `Flatten` |
| `_initialize_recovery_unlocked` | `BeginRecovery`, `PickEffect`, `ResolveEffect`, `PickTrade`, `RecoveryDone` |
| `_reconcile_once_unlocked` | `BeginReconcile`, `PickTrade`, `PassDone` |
| `_reconcile_trade` | `RecoverGap`, `ReconcileFirstFill`, `RecordFill`, `CancelExpiredEntry`, `ReconcileDead`, `MarkReconciled`, `ReconcileProtecting`, `VenueExit`, `TimeoutClose`, `ResumeExit` |
| exceptions | `Raise`: `Refused` are the explicit raises, any other failing call is a fault; `Unwind` is what catches it |
| venue and clock | `Venue*`, `Expire`, `TimeOut`, `Grace` |

Bounds. `Q` is the approved quantity, so every quantity is at most `Q`; `Faults`
bounds crashes, failing calls, refused or partial closes and lost requests
together. Nothing else is bounded: redeliveries, passes, recoveries and snapshots
happen any number of times.

Assumptions. `Grace` lets two minutes pass for an effect only when its request has
been served or lost and, for the entry, the venue's projections have caught up:
this is what the code takes `_EFFECT_AMBIGUITY_GRACE` to buy, and nothing enforces
it. The journal and the lifecycle repository commit atomically. A protection
closes the whole position (the code creates it with quantity 0), and the venue
closes reduce-only.

### ProductionDispatch and the code

State. A call is one run of `dispatch_one_response`: `pc` is the await it is at,
`req` its request, `dl` the monotonic deadline of its stage, `hw` its last reading of
the wall clock, `seen` and `seenAt` the evidence it has read and when it was resolved,
`reply` the answer of what it awaits. `reserved`, `signClaim`, `signTerm`,
`wireClaim` and `wireTerm` are the insert-only tables, keyed by the request identity,
which determines the effect (`signing_effect_id`); a request is the identity and the
rest of its content, as a digest keeps them apart. `tx` is the set of transactions
that have begun: one may commit after its call is over, and the answer of one that
committed may be lost. `threads` are the signing threads. `operator`, `usedArms` and
`exposed` are what the evidence is about. `sigs`, `signBy`, `wireBy` and `wireArm`
record history for the properties.

| Code | Actions |
|---|---|
| `inspect_authority` | `Start`, `ReadEvidence`, `Inspected` |
| `verify_request_async`, `reserve_entry_async` | `ReadEvidence`, `AuthorizedEntry`, `CommitReserve` |
| `sign_async` | `ClaimSigning`, `Sign`, `BackendSigns`, `Signed`, `SignFailed`, `Dispatch` |
| `claim`, `claim_once_async`, `claim_wire_once_async` | `CommitSignClaim`, `CommitWireClaim` |
| `finish_signing_async`, `finish_wire_async` | `CommitSignTerminal`, `CommitWireTerminal` |
| a transaction that is refused or lost | `Drop` |
| `_dispatch_one_bounded` | `Loaded`, `Verified`, `ClaimWire`, `WireClaimed`, `Post`, `Responded`, `FinishCompleted`, `Return` |
| exceptions, cancellation, timeouts, `_finish_shielded` | `Stop`; `Forget` where `fresh_time` raises outside every `try` |
| `append_operator_observation_async` and its trigger | `Arm`, `Disarm` |
| `append_exposure_async` | `Expose` |

Every await can end in `Stop`: a refusal, an error of the awaited call, a
cancellation or a timeout all take the same way out. The document checks, the limits
of the owner and the caps of the account therefore appear as refusals; what is
modelled exactly is the evidence the properties speak of, which arm is in force and
which position is exposed. Four things are taken as given: the owner's arm and the
risk decision of a request are in the tables when it starts, the database's clock is
the monotonic one, the wall clock may be behind it and is never ahead, and the venue
answers a POST with a JSON object only if it executed it. The last one is what the code
takes for granted too: it records COMPLETED for any dict
(`production_dispatch.py:424-438`) without looking into it, so that `HonestOutcome` says
as much about the venue's answers as the code does.

Bounds. `MaxTime` bounds the clock and `MaxBack` the error of the wall clock.
Deadlines, ages and expiries are two ticks at most: enough for one to pass at any
await and for one request to outlive the other.

### AccountCapital and the code

State. The tables are `decision`, `bound`, `reserved`, `receipt`, `released` and
`operator` with `usedArms`; they only grow, except that `operator` is the latest row
of each context. `open` and `charged` stand for the sums of the totals query, over
rows that are not released and over accepted charges. A caller has `pc`, `effect` and
the arm it read (`armed`). `sent`, `order`, `pos`, `bought` and `charge` are the venue;
`behind` is what the account projection does not show yet, `flat` the trades the
lifecycle has ended, `proof` the terminal evidence a collector holds.

| Code | Actions |
|---|---|
| `evaluate_and_stage_entry`, `append_risk_decision_async`, the binding store | `StageRisk`, `Bind`, `GoStale` |
| `append_operator_observation_async` and its trigger | `Arm`, `Disarm` |
| `reserve_entry_async` | `Begin`, `Replay`, `Check`, `Insert` (with `enforce_risk_reservation`), `Commit`, `Abandon` |
| the lifecycle and the venue | `Send`, `Fill`, `Die`, `Close`, `Project`, `Flatten` |
| `VenueTerminalEvidenceV1` and `_verify_venue_evidence` | `Collect`, `Outdate`, `Terminal` |
| `reconcile_closed_account`, `reconcile_terminal` | `Reconcile` |
| `accept_terminal_receipt`, `enforce_release` | `Accept` |

Every writer takes the advisory lock of the account, whose key (`LockKey`) leaves the
context out; a reservation holds it over several steps. The evidence of the venue is
assumed truthful when it is collected and may be two minutes old when it is used; that
the filled quantities of receipt and journal agree is left out. The capital of an entry
that never filled is never freed: the code has no receipt for it. The ratchet over all
rows ever reserved (`WithinCaps`) is the code's, and is conservative.

### ProductionCancellation and the code

`owned`, `journal`, `claimed`, `terminal`, `writes` and `sent` are the durable side;
`position`, `remainder`, `live`, `exit` and `cancelled` the venue. `Prove` and `Reprove`
are `_prove` with `_validate_effect`, `_validate_origin`, the lineage in
`production_state.py` and `_validate_venue` (`Prepared`, `Origin`, `Entered`, `MayGo`).
The lineage is read from the databases when it is proved; the facts of the venue are not.
Either proof accepts a snapshot observed up to five seconds earlier
(`production_cancellation.py:42`, `121-122`, `921-930`, `950`), also one from before the
claim, and the second proof may be given the snapshot of the first. So `age` counts, for
each target, the ticks since a snapshot would have let it go; `Tick` lets time pass,
`Shown` starts the count again whenever the venue shows it, and `Shows` is the test of the
lease: a proof succeeds if there is any snapshot young enough to pass, not only one of
this moment. `Lease` is the five seconds in ticks. `bareFor` is how long no close has
covered the position, counted to the same lease.
`Claim`, `ClaimUnresolved`, `Send`, `Complete`, `Fail`, `Recording` and `Confirm` are
`_cancel` line by line; `Record` and `Lose` the shielded task of `_finish_shielded`. The
engine that owns the trade appears by what it does to it: `Own`, `Close`, `Prepare`,
`Settle`. Protections' cancellations are prepared only after the entry is over, since it
is sent immediate-or-cancel (`managed_signer.py:43`). The venue answers CANCELED only
for a cancellation it executed. What the two proofs cannot exclude is recorded in
`slipped`: a competing close that died after the second proof, or less than a lease before
it (`Escapes`), before or after the claim. `StopGoesCovered` is therefore a statement
about the second proof: a position that had been bare for a whole lease when it was made
keeps its stop, however long the claim took after the first. Without the second proof
(the mutant `ReproveNothing`) it loses it.

### ProductionSession and the code

An action is what asyncio runs between two awaits. `phase`, `blocked`, `jammed`, `lock`,
`queue`, `seen` and `answer` are the driver, `worker`, `item`, `loop` and `stopping` its
tasks, `submission`, `owned`, `terminal`, `poll`, `poller` and `watching` the host,
`usedArms`, `staged`, `handled`, `flat` and `released` what is durable.

| Code | Actions |
|---|---|
| `TechnicalCanaryService.start`, `start_technical_canary`, `driver.start` | `Start`, `StartRefused`, `StartDone`, `StartUnresolved`, `StartCancelled` |
| `submit` | `Submit`, `SubmitExhausted`, `GiveUp`, `Told` |
| `_entry_worker`, `_admitted`, `admit_and_handle_entry` | `WorkerGet`, `WorkerLock`, `WorkerRefuse`, `EntryRefused`, `Stage`, `Handle`, `WorkerDone`, `WorkerFails`, `WorkerTimeout`, `WorkerCancelled`, `WorkerEnds` |
| `_lifecycle_loop`, `reconcile_once` | `LoopLock`, `LoopEnds`, `LoopFails`, `LoopTimeout`, `LoopEnding`, `LoopWakes`, `LoopCancelled` |
| `submit_one`, `reconcile_owned_if_closed`, `reconcile_closed_account` | `HostAdmit`, `HostRefuse`, `HostSubmit`, `Ask`, `Pending`, `ProviderFails`, `Evidence`, `ReconcileLock`, `ReconcileDone`, `ReconcileFails` |
| `run`, `check_health`, `close` | `HealthLost`, `Close`, `CloseDone`, `CloseUnresolved` |

`recovery_complete` is the negation of `blocked`. The shutdown bounds of host and driver
are one. An explicit reconciliation of an operator may still hold the account when
`close` returns (`lock = "host"`), as in the code. Deadlines and the admission clock may
refuse at any time (`WorkerRefuse`).

### SidecarClient and the code

`prod` chooses the client and never changes. `process`, `failed`, `closed`, `proven` and
`leaving` are its attributes, `pc`, `on` and `result` its calls, `node` the children with
their pipes. `Enter*` are what a call finds when it gets the lock, `Started` and
`StartFails` the start of a child, `Return`, `Mismatch`, `Eof`, `RefusedProd`,
`RefusedPlain`, `WrongAccount` and `Unusable` what it does with a line, `GiveUp` its
deadline or cancellation, `Abort` and `Aborted` the end of the child, `Close` and
`CloseEnds` the shutdown. A child is named by the call that started it; it reads in
order, hands mutations to the venue and answers once, and may die or print a stray line.
`EnterWriting` also covers a dead child whose return code is not yet set. A read whose
answer its validator rejects ends in an error without a latch (`Unusable`), as the code
has it; so does a signed POST acknowledged with a list (`Malformed`,
`production_transport.py:572-575`): the client accepts objects and lists, the transport
over it only objects, and by then nothing latches. Its child has answered and no pipe is
left to clean up; the outcome stays unresolved in the claims. `Take`, `Reply`, `Post` and
`Leave` are the Node programs (`evedex_sidecar/src/main.js`, `prod_main.js`), which
serialize their requests in one promise chain.

### SimulationController and the code

The repository (`trade`, `journal`, `prepared`, `pending`, `receipts`, `liquidity`,
`result`) is external and each of its calls is one commit; the runner is `at`, `cmd`,
`asOf`, `recovering` and `todo`. `Ioc`, `Walk`, `FrameIssue`, `Capacity` and `Slipped` are
the kernel; `Trigger`, `ExitCommand`, `CloseBar` the bars; `Arrival`, `Seen`, `Outcome`,
`After`, `Complete` and `Reject` the evaluation of a command; `Record` and `EnsureResult`
the result; `Recover`, `Resume`, `Repair` and `Recovered` the recovery. One runner drives
a session (`docs/SIMULATION_MODEL.md`). Prices are ticks and quantities steps; every
continuity issue of the book is the barrier.

### LegacyExecution and the code

`held`, `working`, `stops` and `late` are the venue, `status`, `answer` and `fresh` the
journal, `queue` and `acked` the bus. Two tasks, `orders` and `recovery`, have their place
(`at`), effect (`doing`) and lock (`lock`).

| Code | Actions |
|---|---|
| `handle`, `_handle_once` | `Take`, `PlaceOrder`, `SendPlace`, `ConfirmPlace`, `Classify`, `SetStop`, `SendStop`, `ConfirmStop`, `Protected`, `Complete` |
| `_compensate_unprotected`, `_cancel_if_active` | `CancelOrder`, `Cancelled`, `Active`, `ClosePosition`, `SendExit`, `ConfirmExit`, `Exited`, `Tidy`, `Finish` |
| `_close_to_desired_state` | `Flat`, `Active`, `ClosePosition`, `Exited` |
| `_recover_prepared_*` | `RecoverPlace`, `RecoverClose`, `RecoverStop`, `Cancel`, `StopLost` |
| `_consume_orders`, `_consume_control` | `Publish`, `Ack`, `SetMode` |
| `recover_pending`, `_recover_execution_journal` | `Scan`, `RecoverEffect`, `Scanned`, `ScanFails` |

An entry fills whole or not at all, so that lots need no count. CONFIRMED and RECONCILED
are both SETTLED. `fresh` is the grace of two minutes inside which recovery does not
settle a row (`README.md:147-148`); `Ripen` ends it. Orders are handled one after the
other, as the consumer does. A scan whose query fails at startup ends the process, which
is a `Crash`. `RecoverStop` is that of an adapter whose lookup of protective stops is
authoritative, as both EVEDEX adapters declare; the branch for others
(`journaled_adapter.py:304-315`) never sends and settles only when flat. The cache evicts
the order used longest ago (`Refreshed`); the run's cache of one cannot tell that from the
oldest, and the theorems hold for any size.

## Runs

| Run | Instance | Question |
|---|---|---|
| `faults` | 2 processes, 1 trade, `Q` = 2, orders projected late, 1 fault | at most one send of each effect, nothing left behind a finished trade, a stop under every active position, one attributed exit, no fill in a cancelled trade, every request journalled, and the refinement of `TradeLifecycle` |
| `trades` | 1 process, 2 trades, `Q` = 1, no fault | one exposure at a time |
| `resting` | 1 trade, `Q` = 2, remainders keep working, positions late, 1 fault | later fills are recorded as they are, the stop outlives the entry |
| `liveness` | 1 trade, `Q` = 1, 1 fault, `FairSpec` | operations end, entries end, exposure is covered, timeouts close |
| `flat` | 1 trade, `Q` = 1, positions projected late, 1 fault | violation, see Findings |
| `dispatch_calls` | 2 calls, each of an entry, its reissue or an exit, one arm | no second signature or POST, nothing signed or sent beyond its authority, honest outcomes, and the refinement of `OneShotEffect` |
| `account` | 2 callers, 2 entries in 2 contexts, an arm each, early and late snapshots | held and lost capital within every cap, nothing live released, no disarm between check and commit |
| `cancel` | 2 calls, 1 lot, 3 targets, a lease of 1 | a stop goes only under a close that works or did within the lease, confirmations are true, the refinement of `OneShotEffect` |
| `session` | 3 entries, queue of 2, arm of 2, restarts | true answers, one use of arms and proofs, nothing after an unknown outcome, maintenance continues |
| `simulation` | 2 trades, 3 frames, 3 bars, clock to 5 | depth spent once, no hindsight, exits match entries, results follow |
| `legacy` | 1 OPEN and 1 CLOSE, cache of 1, 1 to 3 faults | sent once, acknowledged entries protected or gone, one stop |
| `sidecar` | 2 preflights, 1 mutation, 1 read, 1 fault, both clients | own answers, the latch, nothing after giving up, calls end |

Why these are enough to be interesting. Two lots give a partial fill and a
remainder. One fault is enough to put any operation into its failure branch, and
the faults a venue owes anyway (a refused entry or protection, an order dead on
arrival, a late projection) are not counted. Two processes give the stale private
flag, the redelivery to another process and the restart during someone else's
operation; each trade is on its own symbol, so two of them show the account-wide
rules. Symmetry is used where processes, trades or callers are interchangeable and
never with liveness.

In `account` one lot of capital more than fits is asked for: the two contexts' entries
compete, and their decisions may show the account before or after it lost. In `cancel`
one lot is enough: the quantity only decides whether a close covers the position, and
the entry, the close and the protections each appear and go. A lease of one tick is enough
to let a snapshot from before the claim pass both proofs, and another expire between them.
Its view (`Relevant`) leaves out the age of a target that is claimed and past its second
proof, and how long the position has been bare once that is so of the stop or it slipped:
a call that comes after the claim ends without any effect, whatever it proves, and nothing
else reads them. In `session` the third
entry meets a full queue and an exhausted arm, and a hung handler leaves two submitters
behind it. In `trades` one process is
enough to bring redelivery and recovery between two trades; what two processes add is in
`faults`, and `OneExposure` is proved for any number of processes and faults. In
`simulation` the trades are long (a short one mirrors them, and the theorems hold for
both); they compete for every level, one bar hits stop and target at once, and a command
can outlive the frames that were durable when it was made.
In `legacy` two orders and a cache of one make every completed order forgotten when the
next one completes; the fault bound is 3 when one order is on the bus and 1 when both
are. In `sidecar` a mutation and a read beside a preflight, and another that may be
answered from what the first proved, fill the pipe with answers of every kind.

Properties. `AtMostOnceSend`, `TerminalIsClean`, `ExitIsAttributed` and
`CancelledBoughtNothing` relate durable records to the venue's truth, which the
code never sees directly. `ActiveIsProtected` and `StopOutlivesEntry` are about
the stop under a position, in the orders of events that `_protect` and recovery
allow. `WireIsJournaled` is the rule that makes recovery sound: a request that can
still happen is never settled. `Refinement` says the whole of it implements
`TradeLifecycle`, with `engaged` the trades whose entry was sent and `risk` those
with a request, an order or a position.

Fairness. `FairSpec` assumes that an operation that can go on does (`Operate`: it
is a coroutine with timeouts on every call), that the venue serves what it was sent
(`Service`), that the grace period ends (`Ripen`) and that each process's
reconciliation loop comes round (`Periodic`: `_reconcile_paper_lifecycle` sleeps and
repeats for ever). The last two are strong: they are disabled whenever another
operation holds the locks, and the locks are granted in turn. No fairness is
assumed of deliveries, of the market, of deadlines or of faults. `ExposureIsCovered`
and `TimeoutCloses` have a way out: the account takes no entries any more. It is
what the code does when a protection cannot be created or a close fails
(`FAILED_BLOCKED` and the recovery blockers ask for an operator).

`AccountCapital`: `CapsHold` relates sums that many transactions made to limits that
different owners signed; it needs one lock over the whole account. `LiveIsHeld` needs
evidence that is a snapshot to stay true. `ProductionCancellation`: `StopGoesCovered`
needs the second proof, whose facts may be a lease old, and cannot hold where the close
died later than that, which `slipped` records. `ProductionSession`: `AnswersAreTrue` ties what a submitter was told to what is
durable, through cancellations that arrive late; `MaintenanceContinues` is the promise
that a hung entry or pass never ends supervision. `SidecarClient`: `NothingAfterGivingUp`
is about the child: what it already handed to the venue may of course be executed later.
`SimulationController`: `NoHindsight` and `DepthSpentOnce` relate a receipt to the whole
tape and to every other receipt; `PoisonLasts`, which is proved and not run, says that the
exception `ResultsFollow` allows is for ever: a prepared command that was overtaken, or
whose trade moved on, makes every later recovery raise before it repairs results. `LegacyExecution`: `AckedOpenIsSafe` relates the bus to
the venue across redeliveries, evictions and restarts; `dropped` and `slipped` are its
two exceptions, named in the next section.

In `ProductionDispatch` calls may share one identity, which is where calls meet;
the reissued request has the same identity, another digest and a later expiry, so that
rebound claims and late retries both occur. `ImplementsOneShot` and `OneSignature` hold
although a call whose claim was not acknowledged never learns whether it owns it;
`DisarmStopsPost` needs the second check after the claim and the rule that a revoked
arm never returns; `ChainOfAuthority` relates five tables written by different
transactions.

Fairness of the others. `ProductionSession`: timers fire and cancellations arrive and
end, because the writes below them have timeouts of their own; the maintenance task gets
the lock when it is free; no operation need succeed. `SidecarClient`: asyncio resumes a
task that can go on and every wait has a deadline; nothing is assumed of the child.
`SimulationController`: a call that was begun goes on, recovery is run again, and the
runner is not killed for ever.

Deadlock is checked except in `account`, `cancel` and `dispatch_calls`: there calls,
effects or the clock are finite and everything really may be over.

## Findings

- `flat`. `paper_engine.py:600-603` takes a fill in the order history for exposure
  while the positions projection lags. The compensation measures the projection
  only: it finds nothing, cancels the protection and commits `FLAT` over an open
  position.

Observations made while modelling, which no run claims:

- `README.md:134-135`: "Partial fills are protected immediately and the remaining entry
  is cancelled at expiry". When a stop or a target closes a partly filled position
  first, `_finish_venue_exit` cleans up the protections, commits `FLAT`, and nothing
  cancels the entry again. The sidecar asks for IOC orders, so the venue must leave a
  remainder working for this to happen.
- `paper_engine.py:1488-1490`: "Keeping EXITING_EMERGENCY durable until every protection
  is proven terminal makes restart recovery retry cleanup". If the emergency measured no
  position there is no close effect, and the retry goes through
  `_assert_manual_close_won`, which refuses it every time.
- An OPEN whose first attempt placed the entry and failed is dropped and acknowledged
  when it comes again in LOCAL_QUANT_MODE (`engine.py:82`): its compensation is left to
  nobody. `AckedOpenIsSafe` excepts it (`dropped`).
- `README.md:162-166`: "A prepared protective mutation is never retried" beside
  `journaled_adapter.py:335-346`, which sends a prepared stop again once a lookup has
  proved it absent. That re-send can meet a CLOSE of the same position and leave a stop
  on a flat symbol (`slipped`); the legacy close does not cancel the stop either.
- A simulated exit built while an earlier one waits leaves a prepared command that can
  never complete; `recover_prepared` raises on it before it repairs any result, which is
  why `ResultsFollow` names `Poisoned`.
- A PAPER child that is being started while `close()` runs is left running: that client
  has no closed flag.
- `block_new_entries` during `start()` would be undone by the end of `start()`
  (`production_service.py:189-198`); the model has no caller that does it.

## Proofs

`PaperEngineProofs` proves, for any sets of processes and trades, any quantity,
either kind of venue, any lag and any number of faults:

- `TypeCorrect`: `Spec => []TypeOK`,
- `AtMostOnce`: `Spec => []AtMostOnceSend`,
- `WireJournal`: `Spec => []WireIsJournaled`,
- `FillsAreReal`: `Spec => []FilledIsReal`.

They rest on the four assumptions of `PaperEngine` (`QAssumption`,
`NoneAssumption`, `VenueAssumption`, `FaultsAssumption`) and on one inductive
invariant, `IInv`. `AtMostOnceSend` alone is not inductive: that a send raises the
count from zero follows from where the operation is. `Grounded` says what the
operation has in hand at each place (a process, a trade, an effect of the right
kind). `Journaled` ties the journal to the history: an effect that is not in the
journal was never sent, and one that was sent is in it. `InFlight` says that the
operation about to send has an unsent `PREPARED` effect, and that a request on the
wire belongs to an unresolved row, which also keeps `ripe` free of anything still
under way. `Bought` bounds what the venue shows by what the entry order filled, and
`Filling` does the same for the quantity the operation carries, which together give
`FilledIsReal`. The lemma `IInvStep` has one step for every action, and `Inductive`
joins it to the initial states.

The second half of `PaperEngineProofs` proves every other safety property of
`PaperEngine`, and the refinement. What holds depends on what the venue does, and each theorem assumes no more
than it needs:

| Theorem | Property | Assumes |
|---|---|---|
| `StopOutlives` | `StopOutlivesEntry` | nothing more |
| `CancelledIsUnbought` | `CancelledBoughtNothing` | `Prompt` |
| `EndedIsClean` | `TerminalIsClean` | `Once` |
| `ActiveStops` | `ActiveIsProtected` | `Once` |
| `ExitsAreAttributed` | `ExitIsAttributed` | `Once` |
| `OneExposure` | `SingleExposure` | `Once` |
| `EngineImplementsLifecycle` | `Refinement` | `Once` |

`Prompt` says that the position projection does not lag, `Once` that moreover an entry
leaves no remainder at the venue (`Resting = FALSE`, immediate or cancel). Every other
projection may lag, effects may be unknown and processes may die under both. Neither
can be dropped: the run `flat` is the counterexample where the position lags, and a
position closed while a remainder of its entry still works (`paper_engine.py:2752`) is
the one where it rests.

The inductive invariant is `IInv /\ SInv` (`SafetyInductive`). `Control` says that the
place where the operation is, together with the place a mutation returns to (`Stage`),
determines the durable state of its trade, which makes the guards that the code does
not repeat after its reads unnecessary. `Opened`: before the first fill only the entry
and its cancel were ever journaled, so the position is what the entry bought. `Ordered`
and `Entering`: an entry that the code calls dead is dead. `Guarding` and `Guarded`:
the stop of an ACTIVE trade was verified and nothing cancels it. `Leaving` and `Exited`:
a position that is gone never comes back, so what an exit concluded from it (its
reason, its close, the protections it still has to cancel) stays true up to `FLAT` and
after it. `LifecycleNext` maps every action to a step of the lifecycle or to a stutter.

The lifecycle by itself is well typed (`LifecycleTypeOK`) and has at most one trade with
money at risk, which has not ended (`LifecycleOneRisk`); both are stated of the lifecycle
as the engine instantiates it, so that `EngineOwnsItsRisk` can conclude the same of the
engine from `EngineImplementsLifecycle`.

`ProductionDispatchProofs` proves every safety property of `ProductionDispatch` and the
refinement, for any sets of calls, identities, requests and arms and any bounds of the
clocks, from `ConstantsAssumption`: `DispatchTypeOK`, `DispatchAtMostOnePost`,
`DispatchOneSignature`, `DispatchChainOfAuthority`, `DispatchDisarmStopsPost`,
`DispatchHonestOutcome` and `DispatchImplementsOneShot`. The inductive invariant names
the owner of each claim, the call whose INSERT won. `Pending` says that a transaction
belongs to a call that awaits it or is over, so an answer is never taken for that of
another operation. `Signing` and `SignOwner` follow the one signature from its claim
through its thread to its terminal; `Wiring` and `WireOwner` follow the one POST from
its claim to its terminal, which no other call can write before it. `Chained` says
that what a call found in the insert-only tables is still there, and `Armed` that an
arm that is in force now, and was used before the claim, was in force at the claim.
There is one lemma per part of the invariant and group of actions; `OneShotNext` maps
every step to a step of `OneShotEffect` or to a stutter.

`AccountCapitalProofs` proves every property of `AccountCapital`, for any sets of
callers, entries, contexts, arms, decisions and charges, from its five named assumptions:
`AccountTypeOK`, `AccountCapsHold`, `AccountLiveIsHeld` and `AccountReservedUnderArm`. Its
invariant follows the lock. `Alone`: at most one reservation is between its check and its
commit, since every key is the account's. `UnderArm` and `Capped`: what the check found
still holds, because no operator and no other total can move under the lock. `Sourced`
and `Settled`: an order that is gone never returns and a position grows only out of an
order, so what terminal evidence says stays true until the release. Only then does the
arithmetic of `CapsHold` close: a commit adds what was checked, a release takes off what
was reserved and adds at most that and the recorded slip.

`ProductionCancellationProofs` proves every property of `ProductionCancellation`, for any
set of callers, any quantity and any lease, from `CallersAssumption`, `QuantityAssumption`
and `LeaseAssumption`:
`CancelTypesOK`, `CancelConfirmed`, `CancelCoversStop` and `CancelImplementsOneShot`.
`Owns` says that the call whose claim was inserted is alone past the claim of its target,
and `Knows` that there is no outcome until that call writes one. `Backed` then follows an
outcome back: what is or will be recorded as completed was cancelled, what was cancelled
was sent, what was sent was claimed. `Aging` says that a snapshot which would have let the
stop go is at least as old as the position has been bare: a second proof of a bare position
is one of a position that got bare within the lease. `Covering` is the part that rests on
the second proof: from there on the entry is over, so the position cannot grow again, and
the close covers it until the close itself dies.

`ProductionSessionProofs` proves every safety property of `ProductionSession`, for any
sets of entries and arms, any queue and any number of processes, from
`SessionAssumption`: `TrueAnswers`, `UsedOnce` and `NothingAfter`. The durable nonce
gives an arm to one process, so what was staged for the arm of this session was staged
by it and is among the identities it never forgets (`Sole`, `Limited`). An identity is
queued once and what waits, or has just been taken from the queue, has staged nothing
(`Pulled`); together with what the worker may still do to the entry in hand (`Working`,
`Holding`) this makes refusals and stops true (`Refusals`, `Shut`). The terminal attempt
is consumed before the lock is asked for (`Proving`), and an unknown outcome has blocked
entries for the life of the process (`Fenced`).

`SidecarClientProofs` proves every safety property of `SidecarClient`, for both clients,
any calls and any number of stray lines and deaths: `AnswersAreOwn`, `LatchHolds` and
`NothingLate`. The lock gives the pipes to one call (`Exclusive`). A call lets go of them
only when its own line was read, or its child was discarded or is dead, so whatever a
child still has belongs to the call that reads from it (`Attended`) and is there once
(`Orderly`). `Latching` says that a PROD client that could not learn an outcome is
latched.

`SimulationControllerProofs` proves every safety property of `SimulationController`, for
any trades, bars and tape, any latency, slippage and participation and a clock without
bound: `SimulationDepthSpentOnce`, `SimulationNoHindsight`, `SimulationExposureConserved`
and `SimulationPoisonLasts`. `SimulationAssumption` asks of the data what the code
validates: frames with positive prices and quantities and sides in strict order of price
(`simulation/models.py:88-101`), in the order in which they were persisted, and a
participation of at most the whole. The invariant: a command is pending from its
preparation to its one receipt (`Work`, `Reports`), and the runner evaluates only a
pending one, so that no receipt is written twice; an exit command asks for all that its
trade bought (`Sized`), so that of several prepared exits only the first still fits; hence
what a trade holds, what its receipts add up to and what its result says follow from its
state (`Stands`). `Settled` is what one evaluation guarantees: its frame is the last seen
at the arrival, the private state grows by what the receipt took, and a level is taken
from only while the total stays below what it displays. `SimulationWalk` is about the
algorithm alone: best prices first, within the cap, no more than is offered or asked, and
nothing left that might be taken. Sums are folds over finite sets; that they do not depend
on the order of the fold (`PartialAny`) and what a walk adds up to (`WalkTakes`) are proved
by induction over a set of numbers, from the well-foundedness of the naturals
(`LeastNumber`, `Induction`). `PoisonLasts` needs one fact more, `Begun`: an entry command
belongs to a trade that exists, and no trade ever goes back to `PENDING` or `ACTIVE`.

`LegacyExecutionProofs` proves every property of `LegacyExecution`, for any sets of
orders, any size of the cache and any number of faults, from `LegacyAssumption` and
`EffectAssumption` (`None` is no effect): `SendsOnce`, `StopsOnce` and `AckedIsSafe`. The
two tasks share only a lock of each effect, so the invariant says what each knows while
the other moves. `Ripe` and `Prepared`: what the handler is about to send is inside its
grace and was never sent, so the recovery scan is about something else; hence only a stop
is ever sent again. `Locked` and `Looked`: what a recovery procedure read of the venue
under the lock of its effect is still so when it acts on it. `EntryKnown` and `ExitKnown`
say what each place of the handler knows of the entry: its row is settled, and it is
withdrawn, gone, or has its stop. `Truthful` is the same for the answers in the journal, since a
redelivery believes them. `Ended` carries that knowledge into the cache and past the
acknowledgement. The key lemma is `WorldStep`: whatever the venue, the other task or a
crash does, such knowledge stays true (`Steady`), unless the venue did what no reading of
it could have told (`slipped`). Every action has a lemma for what it does to the handler
and one that assembles the whole invariant (`NextKeeps`).

Every invariant and every action property of the runs is a theorem, and so are the three
refinements. What stays with TLC is what needs fairness or `ENABLED`, which this prover does
not treat: `OperationEnds`, `EntryEnds`, `ExposureIsCovered` and `TimeoutCloses` of
`PaperEngine`, `MaintenanceContinues` of `ProductionSession`, `CallsEnd` of `SidecarClient`
and `ResultsFollow` of `SimulationController`.

## Not modelled

In `PaperEngine`:
- A position larger than the approved quantity, and the emergency it causes.
- Protections the venue forgets, and the sidecar events that stand in for them.
- The public facts: they commit with their transition, so the audit of recovery
  finds them.
- The recovery epoch: recoveries hold the account lock from begin to end.
- `FAILED` effects: nothing in the PAPER path writes one.
- Health, mutation budget, instrument rules, operator and canary leases: each can
  refuse a call, and the model lets any call be refused (`Fails`, `FreshMarket`).
- Prices, fees, signatures and identities as data.

In `ProductionDispatch`: the contents of the evidence (owner signatures, geometry,
staleness of single rows, caps), which can only refuse; the manual-nonce claim that
arming consumes (`usedArms` stands for what it gives); the response itself, whose
malformed forms are refused like a failed call; several databases.

In `AccountCapital`: the roll-over of the daily stop, the release of an entry that never
filled (there is none), untruthful evidence. In `ProductionCancellation`: reads that
disagree with each other, which refuse. In `ProductionSession`: what the lifecycle does
inside a pass. In `SidecarClient`: the child's cache of served effects, its mutation
budget and its reserve for compensation, the validation of payloads. In
`SimulationController`: the bridge, hashes, and concurrent runners. In `LegacyExecution`:
REDUCE, trailing stops, partial fills and adapters without an authoritative lookup of
protective stops.

Not at all: the parsing and validation of production evidence and market inputs
(`production_inputs.py`, `production_native_*.py` and their kin), which keep no protocol
state and whose only effect on the models is a refusal; cryptography and the custody
worker; vendor adapters beyond their contract; the read-only recorder; the token bucket;
configuration and readiness checklists.

## Plan

Lagging open orders together with resting remainders, once an instance is found that can be
searched; the mutation budget as a small module.
