---------------------------- MODULE SidecarClient ----------------------------
(***************************************************************************)
(* The two Python clients that own a Node child process and speak one line *)
(* of JSON at a time with it: ProductionEvedexSdkClient (PROD, which never *)
(* restarts a child and latches after an ambiguous outcome) and            *)
(* EvedexSidecarClient (PAPER, which starts a fresh child whenever the     *)
(* last one is gone).  Callers are concurrent tasks that share the client, *)
(* its lock and the child's pipes; the child, the deadline of every call,  *)
(* the cancellation of a caller and close() run beside them.               *)
(*                                                                         *)
(* A call is made once; a child is named by the call that started it.  The *)
(* child is an external program: it takes requests in order, and prints    *)
(* one answer for each, but it may die, and a line that is no answer may   *)
(* reach its output.                                                       *)
(***************************************************************************)
EXTENDS Naturals, Sequences

CONSTANTS
    Calls,      \* the calls the service makes
    KindOf,     \* [Calls -> {"preflight", "mutation", "read"}]
    MaxFaults,  \* bound on stray lines and deaths of children
    None        \* no call, no child

ASSUME KindAssumption == KindOf \in [Calls -> {"preflight", "mutation", "read"}]
ASSUME FaultAssumption == MaxFaults \in Nat
ASSUME NoneAssumption == None \notin Calls

VARIABLES
    prod,       \* which client: TRUE for PROD, FALSE for PAPER; never changes
    pc,         \* [Calls -> step]: where the task that makes the call is
    on,         \* the child of the call that holds the lock: the local of _call
    result,     \* [Calls -> request]: whose answer was returned to the caller
    process,    \* self._process: the child in use, or None
    failed,     \* self._failed (PROD only)
    closed,     \* self._closed (PROD); PAPER has no such flag
    proven,     \* the preflight whose identity is kept, or None
    leaving,    \* the child close() waits for, or None
    node,       \* [Calls -> child]: the children and their pipes
    posted,     \* the mutations a child handed to the venue
    faults      \* faults so far

client == <<prod, on, result, process, failed, closed, proven, leaving>>
vars == <<client, pc, node, posted, faults>>

Mutation(c) == KindOf[c] = "mutation"
Preflight(c) == KindOf[c] = "preflight"

(***************************************************************************)
(* The child process and its pipes                                         *)
(***************************************************************************)
Unborn == [alive |-> FALSE, shut |-> FALSE, in |-> <<>>, busy |-> None, out |-> <<>>]

\* A child just spawned, with one request in its input
Born(c) == [Unborn EXCEPT !.alive = TRUE, !.in = <<c>>]

\* A child that is killed or dies stops at once: what it printed stays readable.
Dead(child) == [child EXCEPT !.alive = FALSE, !.in = <<>>, !.busy = None]

Killed(n, p) == [n EXCEPT ![p] = Dead(@)]

\* Mutant: the child is forgotten and left running
Forgotten(n, p) == n

\* A child given up on is killed, and nobody reads its output again.
Discarded(n, p) == [n EXCEPT ![p] = Unborn]

\* The child reads its next request.
Take(p) ==
    /\ node[p].alive /\ node[p].busy = None /\ node[p].in # <<>>
    /\ node' = [node EXCEPT ![p].busy = Head(node[p].in), ![p].in = Tail(@)]
    /\ UNCHANGED <<client, pc, posted, faults>>

\* It hands a mutation to the venue.
Post(p) ==
    /\ node[p].busy # None /\ Mutation(node[p].busy) /\ node[p].busy \notin posted
    /\ posted' = posted \cup {node[p].busy}
    /\ UNCHANGED <<client, pc, node, faults>>

\* It answers; only a mutation the venue took is answered with ok.
Reply(p) ==
    /\ node[p].busy # None
    /\ \E ok \in BOOLEAN :
         /\ ok /\ Mutation(node[p].busy) => node[p].busy \in posted
         /\ node' = [node EXCEPT ![p].busy = None,
                                 ![p].out = Append(@, [of |-> node[p].busy, ok |-> ok])]
    /\ UNCHANGED <<client, pc, posted, faults>>

\* It ends once its input is closed and it has nothing left to do.
Leave(p) ==
    /\ node[p].alive /\ node[p].shut /\ node[p].busy = None /\ node[p].in = <<>>
    /\ node' = Killed(node, p)
    /\ UNCHANGED <<client, pc, posted, faults>>

\* A fault: a line that answers nothing, or the death of the child.
Fault(p) ==
    /\ faults < MaxFaults /\ node[p].alive
    /\ \/ node' = [node EXCEPT ![p].out = Append(@, [of |-> None, ok |-> FALSE])]
       \/ node' = Killed(node, p)
    /\ faults' = faults + 1
    /\ UNCHANGED <<client, pc, posted>>

(***************************************************************************)
(* Making a call                                                           *)
(***************************************************************************)
\* The tasks between the acquisition and the release of self._lock
Holding == {"starting", "reading", "aborting"}
LockFree == \A c \in Calls : pc[c] \notin Holding

Goto(c, step) == pc' = [pc EXCEPT ![c] = step]

\* The PROD transport refuses every operation before its preflight, with no call.
AskProd(c) ==
    /\ pc[c] = "idle" /\ prod
    /\ Goto(c, IF Preflight(c) \/ proven # None THEN "lock" ELSE "refused")
    /\ UNCHANGED <<client, node, posted, faults>>

\* The PAPER adapter turns each operation into one call.
AskPaper(c) ==
    /\ pc[c] = "idle" /\ ~prod
    /\ Goto(c, "lock")
    /\ UNCHANGED <<client, node, posted, faults>>

\* What a call to the PROD client finds once it has the lock
Latched == prod /\ (failed \/ closed)
Cached(c) == prod /\ Preflight(c) /\ proven # None
Unproven(c) == prod /\ ~Preflight(c) /\ proven = None

\* The child is known to be dead (its returncode is set).
Gone(p) == p # None /\ ~node[p].alive

\* The preflight is answered from the identity it has already proven.
EnterCached(c) ==
    /\ pc[c] = "lock" /\ LockFree /\ ~Latched /\ Cached(c)
    /\ result' = [result EXCEPT ![c] = proven]
    /\ Goto(c, "done")
    /\ UNCHANGED <<prod, on, process, failed, closed, proven, leaving, node, posted, faults>>

\* A latched client, or one whose child is known to be dead, refuses.
EnterRefused(c) ==
    /\ pc[c] = "lock" /\ LockFree
    /\ \/ Latched /\ UNCHANGED failed
       \/ Unproven(c) /\ UNCHANGED failed
       \/ /\ prod /\ ~Latched /\ ~Cached(c)
          /\ Gone(process)
          /\ failed' = TRUE
    /\ Goto(c, "refused")
    /\ UNCHANGED <<prod, on, result, process, closed, proven, leaving, node, posted, faults>>

\* A child is to be started: PROD has none yet; PAPER has none or a dead one.
EnterStarting(c) ==
    /\ pc[c] = "lock" /\ LockFree /\ ~Latched /\ ~Cached(c) /\ ~Unproven(c)
    /\ process = None \/ (~prod /\ Gone(process))
    /\ Goto(c, "starting")
    /\ UNCHANGED <<client, node, posted, faults>>

\* The request is written to the child in use.  Its death may not be known yet
\* (returncode is still None): the line is then lost.
EnterWriting(c) ==
    /\ pc[c] = "lock" /\ LockFree /\ ~Latched /\ ~Cached(c) /\ ~Unproven(c)
    /\ process # None
    /\ node' = IF node[process].alive
               THEN [node EXCEPT ![process].in = Append(@, c)]
               ELSE node
    /\ on' = process
    /\ Goto(c, "reading")
    /\ UNCHANGED <<prod, result, process, failed, closed, proven, leaving, posted, faults>>

\* The probe of the runtime is over: the child is spawned, becomes the one in use
\* and is sent the request, whatever close() did meanwhile.
Started(c) ==
    /\ pc[c] = "starting"
    /\ node' = [node EXCEPT ![c] = Born(c)]
    /\ process' = c
    /\ on' = c
    /\ Goto(c, "reading")
    /\ UNCHANGED <<prod, result, failed, closed, proven, leaving, posted, faults>>

\* The probe fails, times out or is cancelled: nothing was started or written.
StartFails(c) ==
    /\ pc[c] = "starting"
    /\ Goto(c, "refused")
    /\ UNCHANGED <<client, node, posted, faults>>

(***************************************************************************)
(* The outcome of a call                                                   *)
(***************************************************************************)
\* Mutant: _abort forgets to latch the PROD client
AbortUnlatched(c) ==
    /\ process' = IF process = on THEN None ELSE process
    /\ node' = Discarded(node, on)
    /\ Goto(c, "aborting")
    /\ UNCHANGED <<prod, on, result, failed, closed, proven, leaving, posted, faults>>

\* _abort, under the lock: latch (PROD), forget the child, kill it, wait for it
Abort(c) ==
    /\ failed' = (failed \/ prod)
    /\ process' = IF process = on THEN None ELSE process
    /\ node' = Discarded(node, on)
    /\ Goto(c, "aborting")
    /\ UNCHANGED <<prod, on, result, closed, proven, leaving, posted, faults>>

\* The child is gone: the caller gets its error and the lock is released.
Aborted(c) ==
    /\ pc[c] = "aborting"
    /\ Goto(c, "error")
    /\ UNCHANGED <<client, node, posted, faults>>

\* Mutant: only reads have a deadline
GiveUpOnRead(c) ==
    /\ pc[c] = "reading" /\ ~Mutation(c)
    /\ Abort(c)

\* The deadline passes, or the caller is cancelled, while the answer is awaited.
GiveUp(c) ==
    /\ pc[c] = "reading"
    /\ Abort(c)

Readable(c) == pc[c] = "reading" /\ node[on].out # <<>>
Line(c) == Head(node[on].out)
Consumed(c) == [node EXCEPT ![on].out = Tail(@)]

\* Mutant: the identity is not compared
MineUnchecked(c) == Readable(c)

\* The identity in the line is that of the request.
Mine(c) == Line(c).of = c

\* A line that is malformed or answers another request
Mismatch(c) ==
    /\ Readable(c) /\ ~Mine(c)
    /\ Abort(c)

\* The end of the output: the child died with the request.
Eof(c) == pc[c] = "reading" /\ ~node[on].alive /\ node[on].out = <<>>

EofProd(c) ==
    /\ Eof(c) /\ prod
    /\ Abort(c)

EofPaper(c) ==
    /\ Eof(c) /\ ~prod
    /\ Goto(c, "error")
    /\ UNCHANGED <<client, node, posted, faults>>

\* The child refused: PROD gives up on it unless the call was a read.
RefusedProd(c) ==
    /\ Readable(c) /\ Mine(c) /\ ~Line(c).ok /\ prod /\ KindOf[c] # "read"
    /\ Abort(c)

RefusedPlain(c) ==
    /\ Readable(c) /\ Mine(c) /\ ~Line(c).ok
    /\ ~prod \/ KindOf[c] = "read"
    /\ node' = Consumed(c)
    /\ Goto(c, "error")
    /\ UNCHANGED <<client, posted, faults>>

Succeeds(c) == Readable(c) /\ Mine(c) /\ Line(c).ok

\* The result is returned; PROD keeps the identity its preflight proved.
Return(c) ==
    /\ Succeeds(c)
    /\ result' = [result EXCEPT ![c] = Line(c).of]
    /\ proven' = IF prod /\ Preflight(c) THEN c ELSE proven
    /\ node' = Consumed(c)
    /\ Goto(c, "done")
    /\ UNCHANGED <<prod, on, process, failed, closed, leaving, posted, faults>>

\* The authenticated account is not the bound one: PROD latches.
WrongAccount(c) ==
    /\ Succeeds(c) /\ prod /\ Preflight(c)
    /\ Abort(c)

\* The result of a read does not have the form its caller requires.
Unusable(c) ==
    /\ Succeeds(c) /\ KindOf[c] = "read"
    /\ node' = Consumed(c)
    /\ Goto(c, "error")
    /\ UNCHANGED <<client, posted, faults>>

\* A signed POST is acknowledged in a form that the PROD transport refuses: the
\* client has returned it, and latches nothing.
Malformed(c) ==
    /\ Succeeds(c) /\ prod /\ Mutation(c)
    /\ node' = Consumed(c)
    /\ Goto(c, "malformed")
    /\ UNCHANGED <<client, posted, faults>>

(***************************************************************************)
(* Closing the client, which takes no lock                                 *)
(***************************************************************************)
Close ==
    /\ ~closed
    /\ closed' = TRUE
    /\ leaving' = process
    /\ process' = None
    /\ node' = IF process = None THEN node ELSE [node EXCEPT ![process].shut = TRUE]
    /\ UNCHANGED <<prod, pc, on, result, failed, proven, posted, faults>>

\* The child has left, or its time is up and it is killed.
CloseEnds ==
    /\ leaving # None
    /\ node' = Killed(node, leaving)
    /\ leaving' = None
    /\ UNCHANGED <<prod, pc, on, result, process, failed, closed, proven, posted, faults>>

(***************************************************************************)
(* The specification                                                       *)
(***************************************************************************)
Init ==
    /\ prod \in BOOLEAN
    /\ pc = [c \in Calls |-> "idle"]
    /\ on = None
    /\ result = [c \in Calls |-> None]
    /\ process = None
    /\ failed = FALSE
    /\ closed = FALSE
    /\ proven = None
    /\ leaving = None
    /\ node = [c \in Calls |-> Unborn]
    /\ posted = {}
    /\ faults = 0

Ask(c) == AskProd(c) \/ AskPaper(c)

Enter(c) == EnterCached(c) \/ EnterRefused(c) \/ EnterStarting(c) \/ EnterWriting(c)

Start(c) == Started(c) \/ StartFails(c)

Hear(c) ==
    \/ Mismatch(c) \/ EofProd(c) \/ EofPaper(c)
    \/ RefusedProd(c) \/ RefusedPlain(c)
    \/ Return(c) \/ WrongAccount(c) \/ Unusable(c) \/ Malformed(c)

Serve(p) == Take(p) \/ Post(p) \/ Reply(p) \/ Leave(p)

\* The steps at which a call is over
Over == {"done", "refused", "error", "malformed"}

Done == (\A c \in Calls : pc[c] \in Over) /\ UNCHANGED vars

Next ==
    \/ \E c \in Calls :
         Ask(c) \/ Enter(c) \/ Start(c) \/ Hear(c) \/ GiveUp(c) \/ Aborted(c) \/ Serve(c) \/ Fault(c)
    \/ Close \/ CloseEnds \/ Done

\* asyncio resumes a task that can go on, the lock is handed over in order, and
\* every wait of the client has a deadline.  Nothing is assumed of the child.
Fairness ==
    \A c \in Calls : WF_vars(Enter(c)) /\ WF_vars(Start(c)) /\ WF_vars(GiveUp(c)) /\ WF_vars(Aborted(c))

Spec == Init /\ [][Next]_vars
FairSpec == Spec /\ Fairness

(***************************************************************************)
(* Properties                                                              *)
(***************************************************************************)
\* A call that returns returns the answer to its own request (a preflight may
\* return that of an earlier preflight), although calls, stray lines and dead
\* children share the pipes; and a mutation so acknowledged did reach the venue.
OwnAnswer ==
    \A c \in Calls : pc[c] = "done" =>
        /\ result[c] = c \/ (Preflight(c) /\ result[c] # None /\ Preflight(result[c]))
        /\ Mutation(c) => c \in posted

\* The mutations that nothing acknowledged: one whose acknowledgement is malformed
\* has reached the venue, and is not among them
Unresolved == {c \in Calls : Mutation(c) /\ pc[c] \in {"aborting", "error"}}

\* Once the outcome of a PROD mutation is unknown, the client writes no request
\* again, of any kind, to any child: a fresh client has to be made.
LatchedAfterUnknown ==
    [][prod /\ Unresolved # {} => \A c \in Calls : pc'[c] = "reading" => pc[c] = "reading"]_vars

\* A child hands a mutation to the venue only while its caller still waits: after
\* a deadline, a cancellation, an error or a close no late effect leaves it.
NothingAfterGivingUp ==
    [][\A c \in posted' \ posted : pc[c] = "reading"]_vars

\* Every call ends, whatever the child does.
CallsEnd ==
    \A c \in Calls : pc[c] = "lock" ~> pc[c] \in Over
=============================================================================
