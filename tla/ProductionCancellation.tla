----------------------- MODULE ProductionCancellation -----------------------
(***************************************************************************)
(* The cancellation boundary of one production trade                       *)
(* (ProductionCancellationVerifier): it cancels the open remainder of the  *)
(* entry, the stop or the target, each at most once whoever asks and       *)
(* however often.                                                          *)
(*                                                                         *)
(*   prove the ownership and the venue's facts -> claim -> prove again ->  *)
(*   one transport call -> record the outcome of the claim -> confirm the  *)
(*   journal                                                               *)
(*                                                                         *)
(* The facts are read, not locked: fills, triggers and a dying exit order  *)
(* may fall between a proof and the cancellation that rests on it.  They   *)
(* may also be old: a snapshot of the venue counts for the length of its   *)
(* lease (_MAX_AGE), so that the second proof may rest on one taken before *)
(* the claim.  A call may be cancelled, time out or die at every await;    *)
(* the write of an outcome is shielded and may commit after its caller is  *)
(* gone.                                                                   *)
(***************************************************************************)
EXTENDS Integers

CONSTANTS
  Callers,   \* tasks that may be inside _cancel
  Quantity,  \* lots of the trade
  Lease,     \* ticks for which a snapshot of the venue is accepted
  None       \* no target

ASSUME CallersAssumption == None \notin {"ENTRY", "STOP_LOSS", "TAKE_PROFIT"}
ASSUME QuantityAssumption == Quantity \in Nat \ {0}
ASSUME LeaseAssumption == Lease \in Nat \ {0}

\* The roles whose effect can be cancelled.
Protections == {"STOP_LOSS", "TAKE_PROFIT"}
Targets == {"ENTRY"} \cup Protections

VARIABLES
  \* the venue
  position,   \* lots held
  remainder,  \* lots of the entry still working
  live,       \* active protections; each covers the whole position
  exit,       \* lots of a reduce-only close that still works
  cancelled,  \* targets the venue cancelled for us
  age,        \* [Targets -> ticks since a snapshot would have let the target go]
  bareFor,    \* ticks for which no close has covered the position
  \* the durable journal and the claims database
  owned,      \* targets whose placing is confirmed, with completed claims
  journal,    \* [Targets -> effect status], the cancel effects
  claimed,    \* targets with a wire claim of the cancellation namespace
  terminal,   \* [Targets -> outcome of the claim]
  writes,     \* outcome writes in flight: <<target, outcome>>
  sent,       \* targets with a transport call
  \* the calls
  step,       \* [Callers -> where the call is]
  target,     \* [Callers -> Targets \cup {None}]
  \* history
  slipped     \* the position got bare too late for the last proof of a stop's cancellation

venue     == <<position, remainder, live, exit, cancelled, age, bareFor>>
database  == <<owned, journal, claimed, terminal, writes, sent>>
cancelVars == <<venue, database, step, target, slipped>>

Steps == {"idle", "proving", "proved", "claimed", "reproved", "waiting",
          "failing", "completing", "confirming"}
Outcomes == {"none", "COMPLETED", "UNRESOLVED"}
Statuses == {"NONE", "PREPARED", "CONFIRMED", "RECONCILED"}

CancelInit ==
  /\ position = 0 /\ remainder = Quantity /\ live = {} /\ exit = 0 /\ cancelled = {}
  /\ age = [x \in Targets |-> IF x = "ENTRY" THEN 0 ELSE Lease] /\ bareFor = 0
  /\ owned = {} /\ journal = [x \in Targets |-> "NONE"]
  /\ claimed = {} /\ terminal = [x \in Targets |-> "none"] /\ writes = {} /\ sent = {}
  /\ step = [c \in Callers |-> "idle"] /\ target = [c \in Callers |-> None]
  /\ slipped = FALSE

-----------------------------------------------------------------------------
(* What a venue snapshot must show, and for how long it counts *)

\* _validate_venue, ENTRY: a remainder of exactly what is not held, which
\* leaves no naked part when it goes.
EntryMayGo ==
  /\ remainder > 0 /\ remainder = Quantity - position
  /\ position > 0 => Protections \subseteq live

\* _validate_venue, STOP_LOSS: flat, or a close works for all that is held.
StopMayGo == "STOP_LOSS" \in live /\ (position = 0 \/ exit >= position)

\* _validate_venue, TAKE_PROFIT: flat, or the stop stays.
TargetMayGo == "TAKE_PROFIT" \in live /\ (position = 0 \/ "STOP_LOSS" \in live)

MayGo(x) ==
  \/ x = "ENTRY" /\ EntryMayGo
  \/ x = "STOP_LOSS" /\ StopMayGo
  \/ x = "TAKE_PROFIT" /\ TargetMayGo

\* No close works for what is held.
Bare == position > 0 /\ exit < position

\* Ages end at the lease: from there a snapshot is refused, however old.
Older(n) == IF n < Lease THEN n + 1 ELSE Lease

\* The venue moved: what it shows now can be observed now.
Shown ==
  /\ age' = [x \in Targets |-> IF MayGo(x)' THEN 0 ELSE age[x]]
  /\ bareFor' = IF Bare' THEN bareFor ELSE 0

-----------------------------------------------------------------------------
(* The venue, and the engine that owns the trade (both external here) *)

\* A target the venue could still cancel.
Working(x) == IF x = "ENTRY" THEN remainder > 0 ELSE x \in live

\* Time passes: every snapshot already taken gets older.
Tick ==
  /\ age' = [x \in Targets |-> IF MayGo(x) THEN 0 ELSE Older(age[x])]
  /\ bareFor' = IF Bare THEN Older(bareFor) ELSE 0
  /\ UNCHANGED <<position, remainder, live, exit, cancelled, database, step, target, slipped>>

Fill ==
  /\ remainder > 0
  /\ remainder' = remainder - 1 /\ position' = position + 1
  /\ UNCHANGED <<live, exit, cancelled, database, step, target, slipped>>
  /\ Shown

\* The entry is immediate-or-cancel: the venue ends what it did not fill.
Expire ==
  /\ remainder > 0
  /\ remainder' = 0
  /\ UNCHANGED <<position, live, exit, cancelled, database, step, target, slipped>>
  /\ Shown

\* The engine confirms what it placed: the entry, then the stop, then the target.
Own(x) ==
  /\ x \notin owned
  /\ x # "ENTRY" => position > 0 /\ exit = 0 /\ x \notin sent
  /\ x = "TAKE_PROFIT" => "STOP_LOSS" \in live
  /\ owned' = owned \cup {x}
  /\ live' = IF x = "ENTRY" THEN live ELSE live \cup {x}
  /\ UNCHANGED <<position, remainder, exit, cancelled, journal, claimed, terminal, writes, sent,
                 step, target, slipped>>
  /\ Shown

\* A stop or a target closes the position, with what a close still works.
Trigger(x) ==
  /\ x \in live /\ position > 0
  /\ position' = 0 /\ exit' = 0 /\ live' = live \ {x}
  /\ UNCHANGED <<remainder, cancelled, database, step, target, slipped>>
  /\ Shown

\* A timeout or emergency close of the whole position, once the entry is over.
Close ==
  /\ position > 0 /\ remainder = 0 /\ exit = 0
  /\ exit' = position
  /\ UNCHANGED <<position, remainder, live, cancelled, database, step, target, slipped>>
  /\ Shown

ExitFill ==
  /\ exit > 0
  /\ exit' = exit - 1 /\ position' = position - 1
  /\ UNCHANGED <<remainder, live, cancelled, database, step, target, slipped>>
  /\ Shown

\* The venue ends the close unfilled: no proof that it works protects from that.
ExitDies ==
  /\ exit > 0
  /\ exit' = 0
  /\ slipped' = (\/ slipped \/ "STOP_LOSS" \in sent
                 \/ \E c \in Callers : target[c] = "STOP_LOSS" /\ step[c] \in {"reproved", "waiting"})
  /\ UNCHANGED <<position, remainder, live, cancelled, database, step, target>>
  /\ Shown

\* The engine prepares the cancel effect, a protection's only once the entry is over.
Prepare(x) ==
  /\ journal[x] = "NONE"
  /\ x # "ENTRY" => x \in owned /\ remainder = 0
  /\ journal' = [journal EXCEPT ![x] = "PREPARED"]
  /\ UNCHANGED <<venue, owned, claimed, terminal, writes, sent, step, target, slipped>>

\* Recovery settles a prepared cancellation of something that works no more.
Settle(x) ==
  /\ journal[x] = "PREPARED" /\ ~ Working(x)
  /\ journal' = [journal EXCEPT ![x] = "RECONCILED"]
  /\ UNCHANGED <<venue, owned, claimed, terminal, writes, sent, step, target, slipped>>

-----------------------------------------------------------------------------
(* _prove: the durable lineage, and a venue snapshot within its lease *)

\* _validate_effect: the prepared cancel effect of this trade and role.
Prepared(x) == journal[x] = "PREPARED"

\* _validate_origin, _verify_origin_binding, _verify_completed_origin_claims: what
\* placed x is confirmed, and both its claims are completed.
Origin(x) == x \in owned

\* resolve_owner_lineage, resolve_entry_reservation: the entry the position comes
\* from was accepted from the owner, reserved, and sent.
Entered == Origin("ENTRY")

Lineage(x) == Prepared(x) /\ Origin(x) /\ Entered

\* _read_venue, _validate_venue: any snapshot observed within the lease counts, be it
\* from before the claim or the one of the first proof.
Shows(x) == age[x] < Lease

Proven(x) == Lineage(x) /\ Shows(x)

-----------------------------------------------------------------------------
(* One call of _cancel *)

Go(c, s) == step' = [step EXCEPT ![c] = s]
Leave(c) == /\ step' = [step EXCEPT ![c] = "idle"]
            /\ target' = [target EXCEPT ![c] = None]

\* cancel_entry and cancel_tpsl: the role comes from the journal.
Cancel(c, x) ==
  /\ step[c] = "idle" /\ journal[x] # "NONE"
  /\ step' = [step EXCEPT ![c] = "proving"]
  /\ target' = [target EXCEPT ![c] = x]
  /\ UNCHANGED <<venue, database, slipped>>

Prove(c) ==
  /\ step[c] = "proving" /\ Proven(target[c])
  /\ Go(c, "proved")
  /\ UNCHANGED <<venue, database, target, slipped>>

\* Refused, or a read failed, before anything was claimed.
Refuse(c) ==
  /\ step[c] \in {"proving", "proved"}
  /\ Leave(c)
  /\ UNCHANGED <<venue, database, slipped>>

\* Mutant: an unresolved claim may be claimed again.
ClaimIfUnresolved(c) ==
  /\ step[c] = "proved" /\ (target[c] \notin claimed \/ terminal[target[c]] = "UNRESOLVED")
  /\ claimed' = claimed \cup {target[c]}
  /\ Go(c, "claimed")
  /\ UNCHANGED <<venue, owned, journal, terminal, writes, sent, target, slipped>>

\* claim_wire_once_async.
Claim(c) ==
  /\ step[c] = "proved" /\ target[c] \notin claimed
  /\ claimed' = claimed \cup {target[c]}
  /\ Go(c, "claimed")
  /\ UNCHANGED <<venue, owned, journal, terminal, writes, sent, target, slipped>>

\* The claim is committed and its acknowledgement lost: never tried again.
ClaimUnresolved(c) ==
  /\ step[c] = "proved" /\ target[c] \notin claimed
  /\ claimed' = claimed \cup {target[c]}
  /\ Leave(c)
  /\ UNCHANGED <<venue, owned, journal, terminal, writes, sent, slipped>>

\* The stop is proved to go though nothing covers the position any more.
Escapes(c) == target[c] = "STOP_LOSS" /\ Bare /\ bareFor < Lease

\* Mutant: the proof from before the claim is used.
ReproveNothing(c) ==
  /\ step[c] = "claimed"
  /\ slipped' = (slipped \/ Escapes(c))
  /\ Go(c, "reproved")
  /\ UNCHANGED <<venue, database, target>>

\* The second proof: a position that got bare within the lease escapes it.
Reprove(c) ==
  /\ step[c] = "claimed" /\ Proven(target[c])
  /\ slipped' = (slipped \/ Escapes(c))
  /\ Go(c, "reproved")
  /\ UNCHANGED <<venue, database, target>>

\* The single transport call.
Send(c) ==
  /\ step[c] = "reproved"
  /\ sent' = sent \cup {target[c]}
  /\ Go(c, "waiting")
  /\ UNCHANGED <<venue, owned, journal, claimed, terminal, writes, target, slipped>>

\* The venue executes the cancellation, at any time after it was sent.
Land(x) ==
  /\ x \in sent /\ Working(x)
  /\ cancelled' = cancelled \cup {x}
  /\ remainder' = IF x = "ENTRY" THEN 0 ELSE remainder
  /\ live' = live \ {x}
  /\ UNCHANGED <<position, exit, database, step, target, slipped>>
  /\ Shown

\* The answer says CANCELED and names the target.
Acknowledged(c) == target[c] \in cancelled

\* The outcome is written in a task of its own, which no cancellation reaches.
Finish(c, s, outcome) ==
  /\ Go(c, s)
  /\ writes' = writes \cup {<<target[c], outcome>>}
  /\ UNCHANGED <<venue, owned, journal, claimed, terminal, sent, target, slipped>>

Complete(c) ==
  /\ step[c] = "waiting" /\ Acknowledged(c)
  /\ Finish(c, "completing", "COMPLETED")

\* A failed second proof, another answer, no answer in ten seconds, a
\* cancelled task: all of them are final.
Fail(c) ==
  /\ step[c] \in {"claimed", "reproved", "waiting"}
  /\ Finish(c, "failing", "UNRESOLVED")

\* finish_wire_async: a claim has one outcome for ever.
Record(x, outcome) ==
  /\ <<x, outcome>> \in writes
  /\ writes' = writes \ {<<x, outcome>>}
  /\ terminal' = IF x \in claimed /\ terminal[x] = "none"
                 THEN [terminal EXCEPT ![x] = outcome] ELSE terminal
  /\ UNCHANGED <<venue, owned, journal, claimed, sent, step, target, slipped>>

\* The write failed.
Lose(x, outcome) ==
  /\ <<x, outcome>> \in writes
  /\ writes' = writes \ {<<x, outcome>>}
  /\ UNCHANGED <<venue, owned, journal, claimed, terminal, sent, step, target, slipped>>

\* Mutant: the journal is confirmed though the outcome is not recorded.
RecordedOrLost(c) == \A o \in Outcomes : <<target[c], o>> \notin writes

\* The caller of the write learned that it committed.
Recorded(c) == terminal[target[c]] = "COMPLETED"

Recording(c) ==
  /\ step[c] = "completing" /\ Recorded(c)
  /\ Go(c, "confirming")
  /\ UNCHANGED <<venue, database, target, slipped>>

\* effects.confirm: only a prepared effect is confirmed.
Confirm(c) ==
  /\ step[c] = "confirming"
  /\ journal' = [journal EXCEPT ![target[c]] = IF @ = "PREPARED" THEN "CONFIRMED" ELSE @]
  /\ Leave(c)
  /\ UNCHANGED <<venue, owned, claimed, terminal, writes, sent, slipped>>

\* The call ends with an error: its outcome was written as unresolved, its
\* write or the confirmation failed, ten seconds passed, or it was cancelled.
GiveUp(c) ==
  /\ step[c] \in {"failing", "completing", "confirming"}
  /\ Leave(c)
  /\ UNCHANGED <<venue, database, slipped>>

\* The process dies; a write that reached the database may still commit.
CancelCrash ==
  /\ step' = [c \in Callers |-> "idle"] /\ target' = [c \in Callers |-> None]
  /\ UNCHANGED <<venue, database, slipped>>

\* What happens whoever calls.
WorldNext ==
  \/ Tick \/ Fill \/ Expire \/ Close \/ ExitFill \/ ExitDies
  \/ \E x \in Targets : Own(x) \/ Trigger(x) \/ Prepare(x) \/ Settle(x) \/ Land(x)
  \/ \E x \in Targets, outcome \in {"COMPLETED", "UNRESOLVED"} : Record(x, outcome) \/ Lose(x, outcome)

\* A step of a call that has begun.
CallNext(c) ==
  \/ Prove(c) \/ Refuse(c) \/ Claim(c) \/ ClaimUnresolved(c) \/ Reprove(c) \/ Send(c)
  \/ Complete(c) \/ Fail(c) \/ Recording(c) \/ Confirm(c) \/ GiveUp(c)

CancelNext ==
  \/ WorldNext
  \/ \E c \in Callers : CallNext(c) \/ \E x \in Targets : Cancel(c, x)
  \/ CancelCrash

CancelSpec == CancelInit /\ [][CancelNext]_cancelVars

-----------------------------------------------------------------------------
(* Properties *)

\* The state of every variable, which the proofs rest on.
CancelTypeOK ==
  /\ position \in 0..Quantity /\ remainder \in 0..Quantity /\ exit \in 0..Quantity
  /\ live \subseteq Protections /\ cancelled \subseteq Targets
  /\ age \in [Targets -> 0..Lease] /\ bareFor \in 0..Lease
  /\ owned \subseteq Targets /\ journal \in [Targets -> Statuses]
  /\ claimed \subseteq Targets /\ sent \subseteq Targets
  /\ terminal \in [Targets -> Outcomes] /\ writes \subseteq Targets \X (Outcomes \ {"none"})
  /\ step \in [Callers -> Steps] /\ target \in [Callers -> Targets \cup {None}]
  /\ slipped \in BOOLEAN

\* A position whose stop this boundary cancelled is covered by a working close,
\* unless it got bare less than a lease before the last proof of the
\* cancellation, or after it: a position that has been bare for the lease when
\* the claim is proved again keeps its stop, whatever was proved before the
\* claim (_MAX_AGE, _read_venue, _validate_venue and the second _prove).
StopGoesCovered ==
  "STOP_LOSS" \in cancelled /\ position > 0 => exit >= position \/ slipped

\* What the journal confirms was cancelled by the venue and is recorded as
\* completed, whichever of the calls, retries and late writes came first
\* (_cancel: the claim is finished before effects.confirm).
ConfirmedIsCancelled ==
  \A x \in Targets : journal[x] = "CONFIRMED" => x \in cancelled /\ terminal[x] = "COMPLETED"

\* The claims and the transport are the one-shot effect of OneShotEffect:
\* claimed once, sent at most once and before any outcome, never resent
\* whatever a caller, a retry or a restart does, COMPLETED only if executed.
OneShot == INSTANCE OneShotEffect WITH
  Effects <- Targets, executed <- cancelled, outcome <- terminal

CancelsOnce == OneShot!Spec

=============================================================================
