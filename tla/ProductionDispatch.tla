------------------------- MODULE ProductionDispatch -------------------------
(***************************************************************************)
(* One production order on its way to the venue:                           *)
(*                                                                         *)
(*   inspect the authority -> authorize and reserve risk -> claim the      *)
(*   signing -> sign -> record the signing -> check the signing record ->  *)
(*   verify -> check the authority -> claim the wire -> check the          *)
(*   authority again -> POST -> record the outcome                         *)
(*                                                                         *)
(* (production_runtime, managed_signer, signing_authorization,             *)
(* production_claims, production_dispatch), run by concurrent calls that   *)
(* share the claims database, the operator's record and one clock.  A call *)
(* may be cancelled, time out or die at every await; a transaction may     *)
(* commit after its caller is gone, its acknowledgement may be lost, the   *)
(* wall clock may step back, and the operator may disarm at any moment.    *)
(***************************************************************************)
EXTENDS Integers

CONSTANTS
  Calls,      \* runs of ProductionExecutionRuntime.dispatch_one_response
  Ids,        \* request identities; a request id determines its effect id
  Requests,   \* signing requests: an identity and its remaining content
  IdOf,       \* [Requests -> Ids]
  Exits,      \* the identities that close or protect a position
  Arms,       \* owner arms, one nonce each
  ArmOf,      \* [Requests -> Arms], manual_request_sha256
  ExpiresAt,  \* [Requests -> Nat], wall time
  Lease,      \* the 30-second bound
  MaxAge,     \* max_state_age
  MaxTime,    \* bound of the clock
  MaxBack,    \* bound of the wall clock's error
  None        \* no request, no call, no arm (DISARMED)

ASSUME ConstantsAssumption ==
  /\ IdOf \in [Requests -> Ids]
  /\ Exits \subseteq Ids
  /\ ArmOf \in [Requests -> Arms]
  /\ ExpiresAt \in [Requests -> Nat]
  /\ Lease \in Nat /\ MaxAge \in Nat /\ MaxTime \in Nat /\ MaxBack \in Nat
  /\ None \notin Requests \cup Calls \cup Arms

VARIABLES
  \* the world
  mono,       \* loop.time(), and the database server's clock
  back,       \* how far the wall clock is behind it
  operator,   \* the arm of the latest operator observation, None if DISARMED
  usedArms,   \* the arms of all ARMED observations
  exposed,    \* exits with a current exposure observation
  \* the databases
  reserved,   \* [Ids -> Requests \cup {None}], risk_reservations
  signClaim,  \* [Ids -> Requests \cup {None}], claims of kind TYPED_SIGNING
  signTerm,   \* [Ids -> Outcomes], terminals
  wireClaim,  \* [Ids -> Requests \cup {None}], claims of kind WIRE_DISPATCH
  wireTerm,   \* [Ids -> Outcomes], wire_terminals
  tx,         \* transactions in progress: a kind and the call that began it
  \* custody and venue
  threads,    \* calls whose signing thread runs
  posts,      \* [Ids -> Nat], POSTs issued
  executed,   \* [Ids -> Nat], orders the venue made of them
  \* the calls
  pc,         \* what a call awaits
  req,        \* its request
  dl,         \* its current monotonic deadline
  hw,         \* its latest reading of the wall clock
  seen,       \* the evidence it has read: "none", "good" or "bad"
  seenAt,     \* resolved_at of that evidence
  reply,      \* what its awaited operation answered
  \* history, for checking only
  sigs,       \* [Ids -> Nat], signatures the custody backend produced
  signBy, wireBy,  \* the call that inserted each claim
  wireArm     \* the operator's arm when the wire claim was committed

world == <<mono, back, operator, usedArms, exposed>>
tables == <<reserved, signClaim, signTerm, wireClaim, wireTerm>>
venue == <<posts, executed>>
history == <<sigs, signBy, wireBy, wireArm>>
local == <<req, dl, hw, seen, seenAt, reply>>
vars == <<world, tables, tx, threads, venue, pc, local, history>>

Outcomes == {"none", "COMPLETED", "UNRESOLVED"}
Writes == {"reserve", "sign_claim", "sign_done", "sign_unres",
           "wire_claim", "wire_done", "wire_unres"}
Checks == {"inspect", "authorize", "precheck", "recheck"}
Awaits == Writes \cup Checks \cup {"signing", "load", "verify", "sending", "responded"}
Over   == {"returned", "failed"}
Replies == {"none", "ok", "no", "error"}

wall == mono - back
Least(a, b) == IF a < b THEN a ELSE b
Id(c) == IdOf[req[c]]

Init ==
  /\ mono = 0 /\ back = 0
  /\ operator = None /\ usedArms = {} /\ exposed = {}
  /\ reserved  = [i \in Ids |-> None]
  /\ signClaim = [i \in Ids |-> None] /\ signTerm = [i \in Ids |-> "none"]
  /\ wireClaim = [i \in Ids |-> None] /\ wireTerm = [i \in Ids |-> "none"]
  /\ tx = {} /\ threads = {}
  /\ posts = [i \in Ids |-> 0] /\ executed = [i \in Ids |-> 0]
  /\ pc = [c \in Calls |-> "idle"]
  /\ req = [c \in Calls |-> None]
  /\ dl = [c \in Calls |-> 0] /\ hw = [c \in Calls |-> 0]
  /\ seen = [c \in Calls |-> "none"] /\ seenAt = [c \in Calls |-> 0]
  /\ reply = [c \in Calls |-> "none"]
  /\ sigs = [i \in Ids |-> 0]
  /\ signBy = [i \in Ids |-> None] /\ wireBy = [i \in Ids |-> None]
  /\ wireArm = [i \in Ids |-> None]

-----------------------------------------------------------------------------
(* The world: clocks, the operator's record, the exposure observations *)

Tick ==
  /\ mono < MaxTime
  /\ mono' = mono + 1
  /\ UNCHANGED <<back, operator, usedArms, exposed>>

\* The wall clock is stepped back, and corrected.
StepWall ==
  /\ back' \in {back - 1, back + 1} \cap 0..Least(MaxBack, mono)
  /\ UNCHANGED <<mono, operator, usedArms, exposed>>

\* A revision may only arm from DISARMED, and never with a nonce used before.
Arm(a) ==
  /\ operator = None /\ a \notin usedArms
  /\ operator' = a
  /\ usedArms' = usedArms \cup {a}
  /\ UNCHANGED <<mono, back, exposed>>

Disarm ==
  /\ operator # None
  /\ operator' = None
  /\ UNCHANGED <<mono, back, usedArms, exposed>>

\* The position of an exit is observed, or observed no more.
Expose(i) ==
  /\ exposed' = IF i \in exposed THEN exposed \ {i} ELSE exposed \cup {i}
  /\ UNCHANGED <<mono, back, operator, usedArms>>

World ==
  /\ Tick \/ StepWall \/ Disarm \/ (\E a \in Arms : Arm(a)) \/ (\E i \in Exits : Expose(i))
  /\ UNCHANGED <<tables, tx, threads, venue, pc, local, history>>

-----------------------------------------------------------------------------
(* The databases: a transaction commits or is lost, and so is its answer *)

\* Only a call that still awaits the operation k hears of it.
Answer(c, k, a) ==
  reply' = IF pc[c] = k THEN [reply EXCEPT ![c] = a] ELSE reply

Settle(c, k, a) ==
  /\ <<k, c>> \in tx
  /\ tx' = tx \ {<<k, c>>}
  /\ Answer(c, k, a) \/ Answer(c, k, "error")
  /\ UNCHANGED <<world, threads, venue, pc, req, dl, hw, seen, seenAt>>

\* INSERT ... ON CONFLICT DO NOTHING RETURNING, then the comparison.
Verdict(claims, c) ==
  IF claims[Id(c)] = None THEN "ok" ELSE IF claims[Id(c)] = req[c] THEN "no" ELSE "error"
Insert(claims, c) == IF claims[Id(c)] = None THEN [claims EXCEPT ![Id(c)] = req[c]] ELSE claims
Mark(by, claims, c, v) == IF claims[Id(c)] = None THEN [by EXCEPT ![Id(c)] = v] ELSE by

CommitReserve(c) ==
  LET current == operator = ArmOf[req[c]]
      exact   == reserved[Id(c)] \in {None, req[c]}
  IN /\ Settle(c, "reserve", IF current /\ exact THEN "ok" ELSE "error")
     /\ reserved' = IF current THEN Insert(reserved, c) ELSE reserved
     /\ UNCHANGED <<signClaim, signTerm, wireClaim, wireTerm, history>>

CommitSignClaim(c) ==
  /\ Settle(c, "sign_claim", Verdict(signClaim, c))
  /\ signClaim' = Insert(signClaim, c)
  /\ signBy' = Mark(signBy, signClaim, c, c)
  /\ UNCHANGED <<reserved, signTerm, wireClaim, wireTerm, sigs, wireBy, wireArm>>

CommitWireClaim(c) ==
  /\ Settle(c, "wire_claim", Verdict(wireClaim, c))
  /\ wireClaim' = Insert(wireClaim, c)
  /\ wireBy' = Mark(wireBy, wireClaim, c, c)
  /\ wireArm' = Mark(wireArm, wireClaim, c, operator)
  /\ UNCHANGED <<reserved, signClaim, signTerm, wireTerm, sigs, signBy>>

\* A terminal needs its exact claim, and the first one stays.
Terminal(claims, terms, c, o) ==
  IF claims[Id(c)] = req[c] /\ terms[Id(c)] = "none" THEN [terms EXCEPT ![Id(c)] = o] ELSE terms
Terminated(claims, terms, c, o) ==
  IF claims[Id(c)] = req[c] /\ terms[Id(c)] \in {"none", o} THEN "ok" ELSE "error"

CommitSignTerminal(c, k, o) ==
  /\ Settle(c, k, Terminated(signClaim, signTerm, c, o))
  /\ signTerm' = Terminal(signClaim, signTerm, c, o)
  /\ UNCHANGED <<reserved, signClaim, wireClaim, wireTerm, history>>

CommitWireTerminal(c, k, o) ==
  /\ Settle(c, k, Terminated(wireClaim, wireTerm, c, o))
  /\ wireTerm' = Terminal(wireClaim, wireTerm, c, o)
  /\ UNCHANGED <<reserved, signClaim, signTerm, wireClaim, history>>

Drop(c, k) == Settle(c, k, "error") /\ UNCHANGED <<tables, history>>

Database(c) ==
  \/ CommitReserve(c) \/ CommitSignClaim(c) \/ CommitWireClaim(c)
  \/ CommitSignTerminal(c, "sign_done", "COMPLETED")
  \/ CommitSignTerminal(c, "sign_unres", "UNRESOLVED")
  \/ CommitWireTerminal(c, "wire_done", "COMPLETED")
  \/ CommitWireTerminal(c, "wire_unres", "UNRESOLVED")
  \/ \E k \in Writes : Drop(c, k)

-----------------------------------------------------------------------------
(* Custody and venue *)

\* The signing thread ends, whether or not its call still waits.
BackendSigns(c) ==
  /\ c \in threads
  /\ threads' = threads \ {c}
  /\ \/ sigs' = [sigs EXCEPT ![Id(c)] = @ + 1] /\ (Answer(c, "signing", "ok") \/ Answer(c, "signing", "error"))
     \/ sigs' = sigs /\ Answer(c, "signing", "error")
  /\ UNCHANGED <<world, tables, tx, venue, pc, req, dl, hw, seen, seenAt, signBy, wireBy, wireArm>>

\* The venue makes an order of a POST, perhaps after its call is over.
VenueExecutes(i) ==
  /\ executed[i] < posts[i]
  /\ executed' = [executed EXCEPT ![i] = @ + 1]
  /\ UNCHANGED <<world, tables, tx, threads, posts, pc, local, history>>

-----------------------------------------------------------------------------
(* The authorization: a snapshot of the evidence, judged when it arrives *)

\* _verify_exit: the exposure the exit reduces is observed.
ExitAuthorized(r) == IdOf[r] \in exposed
\* _verify_evidence: the operator is armed by the arm the entry was signed for.
EntryAuthorized(r) == operator = ArmOf[r]
Authorized(r) == IF IdOf[r] \in Exits THEN ExitAuthorized(r) ELSE EntryAuthorized(r)
\* _read_snapshot: one transaction reads all of it.
Snapshot(r) == IF Authorized(r) THEN "good" ELSE "bad"

ReadEvidence(c) ==
  /\ pc[c] \in Checks /\ seen[c] = "none"
  /\ seen' = [seen EXCEPT ![c] = Snapshot(req[c])]
  /\ seenAt' = [seenAt EXCEPT ![c] = mono]
  /\ UNCHANGED <<world, tables, tx, threads, venue, pc, req, dl, hw, reply, history>>

InLease(r) == wall < ExpiresAt[r] /\ ExpiresAt[r] <= wall + Lease
Judged(c) ==
  /\ seen[c] = "good"
  /\ hw[c] <= wall /\ InLease(req[c])
  /\ seenAt[c] <= wall /\ wall - seenAt[c] <= MaxAge

\* fresh_time() of the dispatcher
FreshTime(c) == hw[c] <= wall /\ wall < ExpiresAt[req[c]] /\ mono < dl[c]

-----------------------------------------------------------------------------
(* The call *)

\* The call goes on to await p, with a new reading of the wall clock.
Move(c, p) ==
  /\ pc' = [pc EXCEPT ![c] = p]
  /\ hw' = [hw EXCEPT ![c] = wall]
  /\ reply' = [reply EXCEPT ![c] = "none"]
  /\ UNCHANGED <<world, tables, history>>
\* The evidence of a check is used once, but for the reservation.
Forward(c, p) ==
  /\ Move(c, p)
  /\ seen' = [seen EXCEPT ![c] = "none"] /\ seenAt' = [seenAt EXCEPT ![c] = 0]
Await(c, p) == Forward(c, p) /\ UNCHANGED <<venue, req, dl>>
\* The call is over; what is left of it is its request and its transactions.
End(c, p) ==
  /\ pc' = [pc EXCEPT ![c] = p]
  /\ reply' = [reply EXCEPT ![c] = "none"]
  /\ hw' = [hw EXCEPT ![c] = 0] /\ dl' = [dl EXCEPT ![c] = 0]
  /\ seen' = [seen EXCEPT ![c] = "none"] /\ seenAt' = [seenAt EXCEPT ![c] = 0]
  /\ UNCHANGED <<world, tables, venue, req, history>>

Quiet == UNCHANGED <<tx, threads>>
Write(c, k) == tx' = tx \cup {<<k, c>>} /\ UNCHANGED threads
\* A stage with a deadline of its own begins.
Enter(c, p) ==
  /\ Forward(c, p) /\ UNCHANGED <<venue, req>> /\ Quiet
  /\ dl' = [dl EXCEPT ![c] = mono + Least(Lease, ExpiresAt[req[c]] - wall)]

Start(c, r) ==
  /\ pc[c] = "idle" /\ InLease(r)
  /\ req' = [req EXCEPT ![c] = r]
  /\ dl' = [dl EXCEPT ![c] = mono + ExpiresAt[r] - wall]
  /\ Forward(c, "inspect") /\ Quiet /\ UNCHANGED venue

Inspected(c) ==
  /\ pc[c] = "inspect" /\ Judged(c)
  /\ Enter(c, "authorize")

\* verify_request_async: an entry also reserves its risk.
AuthorizedEntry(c) ==
  /\ pc[c] = "authorize" /\ Judged(c) /\ Id(c) \notin Exits
  /\ Move(c, "reserve") /\ Write(c, "reserve")
  /\ UNCHANGED <<venue, req, dl, seen, seenAt>>

\* Mutant: the reservation is not waited for.
ClaimUnreserved(c) ==
  /\ pc[c] = "authorize"
  /\ Judged(c) /\ mono < dl[c]
  /\ Await(c, "sign_claim") /\ Write(c, "sign_claim")
ClaimSigning(c) ==
  /\ \/ pc[c] = "authorize" /\ Id(c) \in Exits
     \/ pc[c] = "reserve" /\ reply[c] = "ok"
  /\ Judged(c) /\ mono < dl[c]
  /\ Await(c, "sign_claim") /\ Write(c, "sign_claim")

\* Mutant: a request that is already claimed is signed all the same.
SignOnConflict(c) ==
  /\ pc[c] = "sign_claim" /\ reply[c] \in {"ok", "no"} /\ mono < dl[c]
  /\ threads' = threads \cup {c} /\ UNCHANGED tx
  /\ Await(c, "signing")
Sign(c) ==
  /\ pc[c] = "sign_claim" /\ reply[c] = "ok" /\ mono < dl[c]
  /\ threads' = threads \cup {c} /\ UNCHANGED tx
  /\ Await(c, "signing")

Signed(c) ==
  /\ pc[c] = "signing" /\ reply[c] = "ok" /\ mono < dl[c]
  /\ Await(c, "sign_done") /\ Write(c, "sign_done")

SignFailed(c) ==
  /\ pc[c] = "signing" /\ reply[c] = "error"
  /\ Await(c, "sign_unres") /\ Write(c, "sign_unres")

\* The signature is returned, and dispatch_one begins.
Dispatch(c) ==
  /\ pc[c] = "sign_done" /\ reply[c] = "ok" /\ mono < dl[c]
  /\ InLease(req[c])
  /\ Enter(c, "load")

\* load_claim finds the exact signing claim, completed.
Completed(c) == signClaim[Id(c)] = req[c] /\ signTerm[Id(c)] = "COMPLETED"

Loaded(c) ==
  /\ pc[c] = "load" /\ FreshTime(c) /\ Completed(c)
  /\ Await(c, "verify") /\ Quiet

Verified(c) ==
  /\ pc[c] = "verify" /\ FreshTime(c)
  /\ Await(c, "precheck") /\ Quiet

ClaimWire(c) ==
  /\ pc[c] = "precheck" /\ Judged(c) /\ FreshTime(c)
  /\ Await(c, "wire_claim") /\ Write(c, "wire_claim")

\* Mutant: a call whose check failed tries again after recording UNRESOLVED.
WireClaimedRetry(c) ==
  /\ pc[c] \in {"wire_claim", "wire_unres"} /\ reply[c] = "ok" /\ FreshTime(c)
  /\ Await(c, "recheck") /\ Quiet

WireClaimed(c) ==
  /\ pc[c] = "wire_claim" /\ reply[c] = "ok" /\ FreshTime(c)
  /\ Await(c, "recheck") /\ Quiet

\* Mutant: the authority is not read again after the claim.
PostUnchecked(c) ==
  /\ pc[c] = "recheck" /\ FreshTime(c)
  /\ posts' = [posts EXCEPT ![Id(c)] = @ + 1]
  /\ Forward(c, "sending") /\ Quiet /\ UNCHANGED <<executed, req, dl>>
\* The token is consumed and the POST issued.
Post(c) ==
  /\ pc[c] = "recheck" /\ Judged(c) /\ FreshTime(c)
  /\ posts' = [posts EXCEPT ![Id(c)] = @ + 1]
  /\ Forward(c, "sending") /\ Quiet /\ UNCHANGED <<executed, req, dl>>

\* Any response that is a dict counts as success; the venue is assumed to give
\* one only for a POST that it executed.
Responded(c) ==
  /\ pc[c] = "sending" /\ executed[Id(c)] > 0 /\ FreshTime(c)
  /\ Await(c, "responded") /\ Quiet

FinishCompleted(c) ==
  /\ pc[c] = "responded" /\ FreshTime(c)
  /\ Await(c, "wire_done") /\ Write(c, "wire_done")

\* Mutant: the response is returned before its outcome is recorded.
ReturnEarly(c) ==
  /\ pc[c] = "responded" /\ FreshTime(c)
  /\ End(c, "returned") /\ Quiet
Return(c) ==
  /\ pc[c] = "wire_done" /\ reply[c] = "ok" /\ FreshTime(c)
  /\ End(c, "returned") /\ Quiet

\* What the call awaits raises, or the call is cancelled or times out.  After
\* the wire claim it tries, before its deadline, to record UNRESOLVED.
Stop(c) ==
  /\ pc[c] \in Awaits \ {"responded"}
  /\ IF pc[c] \in {"recheck", "sending"} /\ mono < dl[c]
     THEN Await(c, "wire_unres") /\ Write(c, "wire_unres")
     ELSE End(c, "failed") /\ Quiet

\* fresh_time() between the response and its recording raises outside any try.
Forget(c) ==
  /\ pc[c] = "responded" /\ ~FreshTime(c)
  /\ End(c, "failed") /\ Quiet

\* The process of the call dies, with its signing thread.
Crash(c) ==
  /\ pc[c] \in Awaits
  /\ threads' = threads \ {c} /\ UNCHANGED tx
  /\ End(c, "failed")

Proceed(c) ==
  \/ (\E r \in Requests : Start(c, r))
  \/ ReadEvidence(c) \/ Inspected(c) \/ AuthorizedEntry(c) \/ ClaimSigning(c)
  \/ Sign(c) \/ Signed(c) \/ SignFailed(c) \/ Dispatch(c) \/ Loaded(c) \/ Verified(c)
  \/ ClaimWire(c) \/ WireClaimed(c) \/ Post(c) \/ Responded(c) \/ FinishCompleted(c)
  \/ Return(c) \/ Forget(c)

Next ==
  \/ World
  \/ \E c \in Calls : Proceed(c) \/ Stop(c) \/ Crash(c) \/ Database(c) \/ BackendSigns(c)
  \/ \E i \in Ids : VenueExecutes(i)

Spec == Init /\ [][Next]_vars

-----------------------------------------------------------------------------
(* Properties *)

TypeOK ==
  /\ mono \in 0..MaxTime /\ back \in 0..MaxBack
  /\ operator \in Arms \cup {None} /\ usedArms \subseteq Arms /\ exposed \subseteq Exits
  /\ reserved \in [Ids -> Requests \cup {None}]
  /\ signClaim \in [Ids -> Requests \cup {None}] /\ signTerm \in [Ids -> Outcomes]
  /\ wireClaim \in [Ids -> Requests \cup {None}] /\ wireTerm \in [Ids -> Outcomes]
  /\ tx \subseteq Writes \X Calls /\ threads \subseteq Calls
  /\ posts \in [Ids -> Nat] /\ executed \in [Ids -> Nat] /\ sigs \in [Ids -> Nat]
  /\ pc \in [Calls -> {"idle"} \cup Awaits \cup Over]
  /\ req \in [Calls -> Requests \cup {None}]
  /\ \A c \in Calls : pc[c] # "idle" => req[c] \in Requests
  /\ dl \in [Calls -> Int] /\ hw \in [Calls -> Int] /\ seenAt \in [Calls -> Int]
  /\ seen \in [Calls -> {"none", "good", "bad"}]
  /\ reply \in [Calls -> Replies]
  /\ signBy \in [Ids -> Calls \cup {None}] /\ wireBy \in [Ids -> Calls \cup {None}]
  /\ wireArm \in [Ids -> Arms \cup {None}]

\* An effect is sent at most once and becomes at most one order, whatever is
\* retried, cancelled, lost or late (dispatch_one: "never retries a sender
\* call"; claim_wire_once_async).
AtMostOnePost == \A i \in Ids : posts[i] <= 1 /\ executed[i] <= posts[i]

\* Custody signs a request identity at most once, even when the signing thread
\* outlives its call and others try again (sign_async: "Durable CLAIMED is
\* honest UNKNOWN, not retry permission").
OneSignature == \A i \in Ids : sigs[i] <= 1

\* Nothing is signed before its claim and, for an entry, before its risk is
\* reserved; nothing is sent but on the one completed signing and the wire
\* claim of exactly the same request (reserve_entry_async: "Commit one
\* account-scoped entry reservation before signing").
ChainOfAuthority == \A i \in Ids :
  /\ sigs[i] > 0 => signClaim[i] # None /\ (i \notin Exits => reserved[i] = signClaim[i])
  /\ posts[i] > 0 => /\ sigs[i] = 1 /\ signTerm[i] = "COMPLETED"
                     /\ wireClaim[i] = signClaim[i]

\* An entry whose arm was no longer in force when its wire claim committed is
\* never sent: the authority is read again after the claim, and a revoked arm
\* never returns (verify_effect_async after claim_wire_once_async; the nonce
\* rule of enforce_operator_append).
DisarmStopsPost == \A i \in Ids \ Exits :
  posts[i] > 0 => wireArm[i] = ArmOf[wireClaim[i]]

\* COMPLETED is recorded, and a response is returned to the caller, only when
\* the venue made the order; and UNRESOLVED is never what the caller of a
\* returned response finds recorded (_finish_shielded).
HonestOutcome ==
  /\ \A i \in Ids : wireTerm[i] = "COMPLETED" => executed[i] = 1
  /\ \A c \in Calls : pc[c] = "returned" => wireTerm[Id(c)] = "COMPLETED" /\ wireBy[Id(c)] = c

\* The dispatcher implements the one-shot effect: claimed for ever, sent at
\* most once and never after its outcome is recorded, the outcome final.
OneShot == INSTANCE OneShotEffect WITH
  Effects  <- Ids,
  claimed  <- {i \in Ids : wireClaim[i] # None},
  sent     <- {i \in Ids : posts[i] > 0},
  executed <- {i \in Ids : executed[i] > 0},
  outcome  <- wireTerm
ImplementsOneShot == OneShot!Spec

=============================================================================
