------------------------- MODULE SidecarClientProofs -------------------------
(***************************************************************************)
(* Theorems about the clients of the Node child processes, for any calls,  *)
(* any number of stray lines and deaths, and both clients.                 *)
(*                                                                         *)
(* The argument: the lock gives the pipes to one call at a time            *)
(* (Exclusive), and a call lets go of them only when its own line has been *)
(* read or its child was discarded or is dead.  So every request or answer *)
(* that a child still has belongs to the one call that is reading from it  *)
(* (Attended), and it is there once (Orderly).                             *)
(***************************************************************************)
EXTENDS SidecarClient, TLAPS

-----------------------------------------------------------------------------
(* The inductive invariant *)

Lines == [of : Calls \cup {None}, ok : BOOLEAN]
Child == [alive : BOOLEAN, shut : BOOLEAN, in : Seq(Calls), busy : Calls \cup {None}, out : Seq(Lines)]

TypeOK ==
  /\ prod \in BOOLEAN /\ failed \in BOOLEAN
  /\ pc \in [Calls -> {"idle", "lock", "starting", "reading", "aborting", "done", "refused", "error",
                      "malformed"}]
  /\ on \in Calls \cup {None} /\ process \in Calls \cup {None}
  /\ proven \in Calls \cup {None} /\ leaving \in Calls \cup {None}
  /\ result \in [Calls -> Calls \cup {None}]
  /\ node \in [Calls -> Child]
  /\ posted \subseteq Calls

\* What a child was asked is in its input, at work, or answered in its output.
Asked(child, c) ==
  \/ c = child.busy
  \/ \E i \in 1..Len(child.in) : child.in[i] = c
  \/ \E i \in 1..Len(child.out) : child.out[i].of = c

\* It is asked one thing at a time; a dead child only has what it printed.
Orderly(child) ==
  /\ ~child.alive => child.in = <<>> /\ child.busy = None
  /\ child.busy # None => child.in = <<>>
  /\ child.in # <<>> => Len(child.in) = 1
  /\ child.in # <<>> \/ child.busy # None => \A i \in 1..Len(child.out) : child.out[i].of = None
  /\ \A i, j \in 1..Len(child.out) : child.out[i].of # None /\ child.out[j].of # None => i = j

\* An answer with ok is to a request, and a mutation so answered was posted.
Truthful(child, taken) == \A i \in 1..Len(child.out) : child.out[i].ok =>
  child.out[i].of # None /\ (Mutation(child.out[i].of) => child.out[i].of \in taken)

\* The lock
Exclusive ==
  /\ \A c, d \in Calls : pc[c] \in Holding /\ pc[d] \in Holding => c = d
  /\ \A c \in Calls : pc[c] = "reading" => on # None

Pipes == \A p \in Calls : Orderly(node[p]) /\ Truthful(node[p], posted)

\* Whatever a child has belongs to the call that reads from it.
Attended == \A p, c \in Calls : Asked(node[p], c) => pc[c] = "reading" /\ on = p

\* The identity PROD keeps is that of a preflight.
Proven == proven # None => Preflight(proven)

\* A PROD client that could not learn the outcome of a mutation is latched,
\* and none that is latched starts a child.
Latching == prod =>
  /\ Unresolved # {} => failed
  /\ \A c \in Calls : pc[c] = "starting" => ~failed

IInv == TypeOK /\ Exclusive /\ Pipes /\ Attended /\ Proven /\ Latching /\ OwnAnswer

-----------------------------------------------------------------------------
(* A child *)

Fit(child, taken) == child \in Child /\ Orderly(child) /\ Truthful(child, taken)

LEMMA UnbornFit ==
  ASSUME NEW taken
  PROVE  Fit(Unborn, taken) /\ \A c \in Calls : ~Asked(Unborn, c)
<1>1. Unborn \in Child
  BY DEF Unborn, Child
<1> QED
  BY <1>1, NoneAssumption DEF Fit, Orderly, Truthful, Asked, Unborn

LEMMA BornFit ==
  ASSUME NEW taken, NEW c \in Calls
  PROVE  Fit(Born(c), taken) /\ \A d \in Calls : Asked(Born(c), d) => d = c
<1> DEFINE alive == [Unborn EXCEPT !.alive = TRUE]
<1>1. Unborn \in Child /\ Unborn.busy = None /\ Unborn.out = <<>>
  BY DEF Unborn, Child
<1>2. alive \in Child /\ alive.alive = TRUE /\ alive.busy = None /\ alive.out = <<>>
  BY <1>1 DEF Child
<1>3. Born(c) = [alive EXCEPT !.in = <<c>>] /\ <<c>> \in Seq(Calls)
  BY DEF Born
<1> HIDE DEF alive
<1>4. /\ Born(c) \in Child /\ Born(c).alive = TRUE /\ Born(c).in = <<c>>
      /\ Born(c).busy = None /\ Born(c).out = <<>>
  BY <1>2, <1>3 DEF Child
<1> QED
  BY <1>4, NoneAssumption DEF Fit, Orderly, Truthful, Asked

LEMMA DeadFit ==
  ASSUME NEW taken, NEW child, Fit(child, taken)
  PROVE  Fit(Dead(child), taken) /\ \A c \in Calls : Asked(Dead(child), c) => Asked(child, c)
<1> DEFINE one == [child EXCEPT !.alive = FALSE]
           two == [one EXCEPT !.in = <<>>]
<1>1. one \in Child /\ one.alive = FALSE /\ one.out = child.out
  BY DEF Fit, Child
<1>2. Dead(child) = [two EXCEPT !.busy = None] /\ <<>> \in Seq(Calls)
  BY DEF Dead
<1> HIDE DEF one
<1>3. two \in Child /\ two.alive = FALSE /\ two.in = <<>> /\ two.out = child.out
  BY <1>1, <1>2 DEF Child
<1> HIDE DEF two
<1>4. /\ Dead(child) \in Child /\ Dead(child).alive = FALSE /\ Dead(child).in = <<>>
      /\ Dead(child).busy = None /\ Dead(child).out = child.out
  BY <1>2, <1>3 DEF Child
<1> QED
  BY <1>4, NoneAssumption DEF Fit, Orderly, Truthful, Asked

LEMMA ShutFit ==
  ASSUME NEW taken, NEW child, Fit(child, taken)
  PROVE  LET new == [child EXCEPT !.shut = TRUE]
         IN  Fit(new, taken) /\ \A c \in Calls : Asked(new, c) => Asked(child, c)
<1> DEFINE new == [child EXCEPT !.shut = TRUE]
<1>1. /\ new \in Child /\ new.alive = child.alive /\ new.in = child.in
      /\ new.busy = child.busy /\ new.out = child.out
  BY DEF Fit, Child
<1> HIDE DEF new
<1>2. Fit(new, taken) /\ \A c \in Calls : Asked(new, c) => Asked(child, c)
  BY <1>1 DEF Fit, Orderly, Truthful, Asked
<1> QED
  BY <1>2 DEF new

\* A request is written to a child that was asked nothing.
LEMMA WrittenFit ==
  ASSUME NEW taken, NEW child, Fit(child, taken), NEW c \in Calls, child.alive,
         \A d \in Calls : ~Asked(child, d)
  PROVE  LET new == [child EXCEPT !.in = Append(@, c)]
         IN  Fit(new, taken) /\ \A d \in Calls : Asked(new, d) => d = c
<1> DEFINE new == [child EXCEPT !.in = Append(@, c)]
<1>1. child.in \in Seq(Calls) /\ child.busy \in Calls \cup {None} /\ child.out \in Seq(Lines)
  BY DEF Fit, Child
<1>2. child.busy = None
  BY <1>1 DEF Asked
<1>7. ASSUME NEW i \in 1..Len(child.out) PROVE child.out[i].of = None
  <2>1. child.out[i] \in Lines
    BY <1>1
  <2>2. child.out[i].of \in Calls \cup {None}
    BY <2>1 DEF Lines
  <2> QED
    BY <2>2 DEF Asked
<1>3. child.in = <<>>
  <2>1. Len(child.in) \in Nat /\ \A i \in 1..Len(child.in) : child.in[i] \in Calls
    BY <1>1
  <2>2. 1 \notin 1..Len(child.in)
    BY <2>1 DEF Asked
  <2> QED
    BY <1>1, <2>1, <2>2
<1>4. Append(child.in, c) = <<c>> /\ Append(child.in, c) \in Seq(Calls)
  BY <1>3
<1>5. /\ new \in Child /\ new.alive = child.alive /\ new.in = <<c>>
      /\ new.busy = child.busy /\ new.out = child.out
  BY <1>4 DEF Fit, Child
<1> HIDE DEF new
<1>6. Fit(new, taken) /\ \A d \in Calls : Asked(new, d) => d = c
  BY <1>2, <1>5, <1>7, NoneAssumption DEF Fit, Orderly, Truthful, Asked
<1> QED
  BY <1>6 DEF new

\* The child reads its request.
LEMMA TakenFit ==
  ASSUME NEW taken, NEW child, Fit(child, taken), child.alive, child.busy = None, child.in # <<>>
  PROVE  LET new == [child EXCEPT !.busy = Head(child.in), !.in = Tail(@)]
         IN  Fit(new, taken) /\ \A d \in Calls : Asked(new, d) => Asked(child, d)
<1> DEFINE one == [child EXCEPT !.busy = Head(child.in)]
           new == [one EXCEPT !.in = Tail(@)]
<1>1. child \in Child /\ child.in \in Seq(Calls) /\ Len(child.in) = 1
  BY DEF Fit, Orderly, Child
<1>2. /\ Head(child.in) \in Calls /\ Head(child.in) = child.in[1] /\ 1 \in 1..Len(child.in)
      /\ Tail(child.in) = <<>> /\ <<>> \in Seq(Calls)
  <2>1. \A s \in Seq(Calls) : Len(s) = 0 => s = <<>>
    OBVIOUS
  <2>2. PICK rest : rest = Tail(child.in)
    OBVIOUS
  <2>3. rest \in Seq(Calls) /\ Len(rest) = 0
    BY <1>1, <2>2
  <2>4. rest = <<>>
    BY <2>1, <2>3
  <2>5. Head(child.in) \in Calls /\ Head(child.in) = child.in[1] /\ 1 \in 1..Len(child.in)
    BY <1>1
  <2> QED
    BY <2>2, <2>4, <2>5
<1>3. /\ one \in Child /\ one.alive = TRUE /\ one.in = child.in /\ one.busy = Head(child.in)
      /\ one.out = child.out
  BY <1>1, <1>2 DEF Child
<1> HIDE DEF one
<1>4. /\ new \in Child /\ new.alive = TRUE /\ new.in = <<>> /\ new.busy = child.in[1]
      /\ new.out = child.out
  BY <1>2, <1>3 DEF Child
<1> HIDE DEF new
<1>5. Fit(new, taken) /\ \A d \in Calls : Asked(new, d) => Asked(child, d)
  BY <1>1, <1>2, <1>4 DEF Fit, Orderly, Truthful, Asked
<1> QED
  BY <1>5 DEF new, one

\* A line is printed: the answer to the request at work, or a stray one.
LEMMA PrintedOut ==
  ASSUME NEW child, child \in Child, NEW line \in Lines
  PROVE  /\ Append(child.out, line) \in Seq(Lines)
         /\ \A i \in 1..Len(Append(child.out, line)) :
              Append(child.out, line)[i] = line \/
              (i \in 1..Len(child.out) /\ Append(child.out, line)[i] = child.out[i])
         /\ \A i, j \in 1..Len(Append(child.out, line)) : i # j =>
              \/ i \in 1..Len(child.out) /\ Append(child.out, line)[i] = child.out[i]
              \/ j \in 1..Len(child.out) /\ Append(child.out, line)[j] = child.out[j]
<1>1. child.out \in Seq(Lines)
  BY DEF Child
<1>2. /\ Len(child.out) \in Nat /\ Len(Append(child.out, line)) = Len(child.out) + 1
      /\ \A i \in 1..Len(child.out) : Append(child.out, line)[i] = child.out[i]
      /\ Append(child.out, line)[Len(child.out) + 1] = line
      /\ Append(child.out, line) \in Seq(Lines)
  BY <1>1
<1>3. \A i \in 1..(Len(child.out) + 1) : i \in 1..Len(child.out) \/ i = Len(child.out) + 1
  BY <1>2
<1> QED
  BY <1>2, <1>3

LEMMA RepliedFit ==
  ASSUME NEW taken, NEW child, Fit(child, taken), child.busy # None, NEW ok \in BOOLEAN,
         ok /\ Mutation(child.busy) => child.busy \in taken
  PROVE  LET new == [child EXCEPT !.busy = None,
                                  !.out = Append(@, [of |-> child.busy, ok |-> ok])]
         IN  Fit(new, taken) /\ \A d \in Calls : Asked(new, d) => Asked(child, d)
<1> DEFINE one == [child EXCEPT !.busy = None]
           line == [of |-> child.busy, ok |-> ok]
           new == [one EXCEPT !.out = Append(@, line)]
<1>1. child \in Child /\ child.busy \in Calls /\ child.in = <<>>
      /\ \A i \in 1..Len(child.out) : child.out[i].of = None
  BY DEF Fit, Orderly, Child
<1>2. line \in Lines /\ line.of = child.busy /\ (line.ok <=> ok)
  BY <1>1 DEF Lines
<1>3. /\ one \in Child /\ one.alive = child.alive /\ one.in = <<>> /\ one.busy = None
      /\ one.out = child.out
  BY <1>1 DEF Child
<1>4. Append(child.out, line) \in Seq(Lines)
  BY <1>1, <1>2, PrintedOut
<1> HIDE DEF one
<1>5. /\ new \in Child /\ new.alive = child.alive /\ new.in = <<>> /\ new.busy = None
      /\ new.out = Append(child.out, line)
  BY <1>3, <1>4 DEF Child
<1> HIDE DEF new, line
<1>6. \A i \in 1..Len(new.out) :
        new.out[i] = line \/ (i \in 1..Len(child.out) /\ new.out[i] = child.out[i])
  BY <1>1, <1>2, <1>5, PrintedOut
<1>7. \A i, j \in 1..Len(new.out) : new.out[i].of # None /\ new.out[j].of # None => i = j
  BY <1>1, <1>2, <1>5, PrintedOut
<1>8. Orderly(new)
  BY <1>5, <1>7 DEF Orderly
<1>9. Truthful(new, taken)
  BY <1>1, <1>2, <1>6 DEF Truthful, Fit
<1>10. \A d \in Calls : Asked(new, d) => Asked(child, d)
  BY <1>1, <1>2, <1>5, <1>6, NoneAssumption DEF Asked
<1> QED
  BY <1>5, <1>8, <1>9, <1>10 DEF Fit, new, one, line

LEMMA StrayFit ==
  ASSUME NEW taken, NEW child, Fit(child, taken)
  PROVE  LET new == [child EXCEPT !.out = Append(@, [of |-> None, ok |-> FALSE])]
         IN  Fit(new, taken) /\ \A d \in Calls : Asked(new, d) => Asked(child, d)
<1> DEFINE line == [of |-> None, ok |-> FALSE]
           new == [child EXCEPT !.out = Append(@, line)]
<1>1. child \in Child
  BY DEF Fit
<1>2. line \in Lines /\ line.of = None /\ ~line.ok
  BY DEF Lines
<1>3. Append(child.out, line) \in Seq(Lines)
  BY <1>1, <1>2, PrintedOut
<1>4. /\ new \in Child /\ new.alive = child.alive /\ new.in = child.in /\ new.busy = child.busy
      /\ new.out = Append(child.out, line)
  BY <1>1, <1>3 DEF Child
<1> HIDE DEF new, line
<1>5. \A i \in 1..Len(new.out) :
        new.out[i] = line \/ (i \in 1..Len(child.out) /\ new.out[i] = child.out[i])
  BY <1>1, <1>2, <1>4, PrintedOut
<1>6. \A i \in 1..Len(new.out) : new.out[i].of # None =>
        i \in 1..Len(child.out) /\ new.out[i] = child.out[i]
  BY <1>2, <1>5
<1>7. Orderly(new)
  BY <1>4, <1>6 DEF Orderly, Fit
<1>8. Truthful(new, taken)
  BY <1>2, <1>5 DEF Truthful, Fit
<1>9. \A d \in Calls : Asked(new, d) => Asked(child, d)
  BY <1>4, <1>6, NoneAssumption DEF Asked
<1> QED
  BY <1>4, <1>7, <1>8, <1>9 DEF Fit, new, line

\* The line of the request is read: the child has nothing left of it.
LEMMA ConsumedFit ==
  ASSUME NEW taken, NEW child, Fit(child, taken), child.out # <<>>, Head(child.out).of \in Calls
  PROVE  LET new == [child EXCEPT !.out = Tail(@)]
         IN  Fit(new, taken) /\ \A d \in Calls : ~Asked(new, d)
<1> DEFINE new == [child EXCEPT !.out = Tail(@)]
<1>1. child \in Child /\ child.out \in Seq(Lines)
  BY DEF Fit, Child
<1>2. /\ Len(child.out) \in Nat \ {0} /\ Head(child.out) = child.out[1]
      /\ Tail(child.out) \in Seq(Lines) /\ Len(Tail(child.out)) = Len(child.out) - 1
      /\ \A i \in 1..(Len(child.out) - 1) : Tail(child.out)[i] = child.out[i + 1]
  BY <1>1
<1>3. /\ new \in Child /\ new.alive = child.alive /\ new.in = child.in /\ new.busy = child.busy
      /\ new.out = Tail(child.out)
  BY <1>1, <1>2 DEF Child
<1> HIDE DEF new
<1>4. \A i \in 1..Len(new.out) :
        i + 1 \in 1..Len(child.out) /\ i + 1 # 1 /\ new.out[i] = child.out[i + 1]
  BY <1>2, <1>3
<1>5. 1 \in 1..Len(child.out) /\ child.out[1].of # None
  BY <1>2, NoneAssumption
<1>6. child.in = <<>> /\ child.busy = None
  BY <1>5 DEF Fit, Orderly
<1>7. \A i \in 1..Len(new.out) : new.out[i].of = None
  BY <1>4, <1>5 DEF Fit, Orderly
<1>8. Orderly(new)
  BY <1>3, <1>6, <1>7 DEF Orderly
<1>9. Truthful(new, taken)
  BY <1>4 DEF Truthful, Fit
<1>10. \A d \in Calls : ~Asked(new, d)
  BY <1>3, <1>6, <1>7, NoneAssumption DEF Asked
<1> QED
  BY <1>3, <1>8, <1>9, <1>10 DEF Fit, new

-----------------------------------------------------------------------------
(* The pipes of all children *)

Wired == node \in [Calls -> Child] /\ Pipes
Silent == \A p, c \in Calls : ~Asked(node[p], c)

LEMMA Rewired ==
  ASSUME Wired, NEW p \in Calls, NEW new, Fit(new, posted), node' = [node EXCEPT ![p] = new],
         posted' = posted
  PROVE  Wired' /\ node'[p] = new /\ \A q \in Calls \ {p} : node'[q] = node[q]
<1>1. node' \in [Calls -> Child] /\ node'[p] = new /\ \A q \in Calls \ {p} : node'[q] = node[q]
  BY DEF Wired, Fit
<1>2. ASSUME NEW q \in Calls PROVE Orderly(node'[q]) /\ Truthful(node'[q], posted')
  <2>1. CASE q = p
    BY <1>1, <2>1 DEF Fit
  <2>2. CASE q # p
    BY <1>1, <2>2 DEF Wired, Pipes
  <2> QED
    BY <2>1, <2>2
<1> QED
  BY <1>1, <1>2 DEF Wired, Pipes

LEMMA ChildFit ==
  ASSUME Wired, NEW p \in Calls
  PROVE  Fit(node[p], posted)
  BY DEF Wired, Pipes, Fit

\* While nobody reads, and once the reader lets go, no child has anything left.
LEMMA SilentUnread ==
  ASSUME IInv, \A c \in Calls : pc[c] # "reading"
  PROVE  Silent
  BY DEF IInv, Attended, Silent

\* What a step may do to the pipes.
Calm == /\ on' = on /\ \A c \in Calls : pc[c] = "reading" => pc'[c] = "reading"
        /\ \A p, c \in Calls : Asked(node'[p], c) => Asked(node[p], c)
Begun == \E c, p \in Calls : /\ pc'[c] = "reading" /\ on' = p
                             /\ \A q, d \in Calls : Asked(node'[q], d) => q = p /\ d = c

LEMMA WiredNow == IInv => Wired
  BY DEF IInv, TypeOK, Wired

\* The child of the call that reads
LEMMA Reader ==
  ASSUME IInv, NEW c \in Calls, pc[c] = "reading"
  PROVE  /\ on \in Calls /\ \A q \in Calls \ {on} : \A d \in Calls : ~Asked(node[q], d)
         /\ \A d \in Calls : Asked(node[on], d) => d = c
<1>1. on \in Calls
  BY DEF IInv, TypeOK, Exclusive
<1>2. \A q, d \in Calls : Asked(node[q], d) => q = on /\ d = c
  BY DEF IInv, Attended, Exclusive, Holding
<1> QED
  BY <1>1, <1>2

LEMMA ServeWires ==
  ASSUME IInv, NEW p \in Calls, Serve(p) \/ Fault(p)
  PROVE  Wired' /\ Calm
<1>1. Wired /\ Fit(node[p], posted)
  BY WiredNow, ChildFit
<1>2. pc' = pc /\ on' = on
  BY DEF Serve, Take, Post, Reply, Leave, Fault, client
<1>3. CASE Post(p)
  <2>1. node' = node /\ posted \subseteq posted'
    BY <1>3 DEF Post
  <2>2. \A q \in Calls : Truthful(node'[q], posted')
    BY <1>1, <2>1 DEF Wired, Pipes, Truthful
  <2> QED
    BY <1>1, <1>2, <2>1, <2>2 DEF Wired, Pipes, Calm
<1>4. CASE ~Post(p)
  <2>1. posted' = posted
    BY <1>4 DEF Serve, Take, Reply, Leave, Fault
  <2>2. \E new : /\ node' = [node EXCEPT ![p] = new] /\ Fit(new, posted)
                 /\ \A d \in Calls : Asked(new, d) => Asked(node[p], d)
    <3>1. CASE Take(p)
      <4> DEFINE new == [node[p] EXCEPT !.busy = Head(node[p].in), !.in = Tail(@)]
      <4>1. Fit(new, posted) /\ \A d \in Calls : Asked(new, d) => Asked(node[p], d)
        BY <1>1, <3>1, TakenFit DEF Take
      <4>2. node' = [node EXCEPT ![p] = new]
        BY <1>1, <3>1 DEF Take, Wired
      <4> QED
        BY <4>1, <4>2
    <3>2. CASE Reply(p)
      <4>1. PICK ok \in BOOLEAN :
              /\ ok /\ Mutation(node[p].busy) => node[p].busy \in posted
              /\ node' = [node EXCEPT ![p].busy = None,
                                      ![p].out = Append(@, [of |-> node[p].busy, ok |-> ok])]
        BY <3>2 DEF Reply
      <4> DEFINE new == [node[p] EXCEPT !.busy = None,
                                        !.out = Append(@, [of |-> node[p].busy, ok |-> ok])]
      <4>2. Fit(new, posted) /\ \A d \in Calls : Asked(new, d) => Asked(node[p], d)
        BY <1>1, <3>2, <4>1, RepliedFit DEF Reply
      <4>3. node' = [node EXCEPT ![p] = new]
        BY <1>1, <4>1 DEF Wired
      <4> QED
        BY <4>2, <4>3
    <3>3. CASE node' = Killed(node, p)
      <4>1. node' = [node EXCEPT ![p] = Dead(node[p])]
        BY <3>3 DEF Killed
      <4> QED
        BY <1>1, <4>1, DeadFit
    <3>4. CASE node' = [node EXCEPT ![p].out = Append(@, [of |-> None, ok |-> FALSE])]
      <4> DEFINE new == [node[p] EXCEPT !.out = Append(@, [of |-> None, ok |-> FALSE])]
      <4>1. Fit(new, posted) /\ \A d \in Calls : Asked(new, d) => Asked(node[p], d)
        BY <1>1, StrayFit
      <4>2. node' = [node EXCEPT ![p] = new]
        BY <3>4
      <4> QED
        BY <4>1, <4>2
    <3> QED
      BY <1>4, <3>1, <3>2, <3>3, <3>4 DEF Serve, Leave, Fault
  <2>3. PICK new : /\ node' = [node EXCEPT ![p] = new] /\ Fit(new, posted)
                   /\ \A d \in Calls : Asked(new, d) => Asked(node[p], d)
    BY <2>2
  <2>4. Wired' /\ node'[p] = new /\ \A q \in Calls \ {p} : node'[q] = node[q]
    BY <1>1, <2>1, <2>3, Rewired
  <2> QED
    BY <1>2, <2>3, <2>4 DEF Calm
<1> QED
  BY <1>3, <1>4

LEMMA CloseWires ==
  ASSUME IInv, Close \/ CloseEnds
  PROVE  Wired' /\ Calm
<1>1. Wired
  BY WiredNow
<1>2. pc' = pc /\ on' = on /\ posted' = posted
  BY DEF Close, CloseEnds
<1>3. CASE node' = node
  BY <1>1, <1>2, <1>3 DEF Wired, Pipes, Calm
<1>4. CASE node' # node
  <2>1. \E p \in Calls : \/ node' = [node EXCEPT ![p].shut = TRUE]
                         \/ node' = [node EXCEPT ![p] = Dead(node[p])]
    BY <1>4 DEF Close, CloseEnds, Killed, IInv, TypeOK
  <2>2. PICK p \in Calls : \/ node' = [node EXCEPT ![p].shut = TRUE]
                           \/ node' = [node EXCEPT ![p] = Dead(node[p])]
    BY <2>1
  <2>3. Fit(node[p], posted)
    BY <1>1, ChildFit
  <2>4. \E new : /\ node' = [node EXCEPT ![p] = new] /\ Fit(new, posted)
                 /\ \A d \in Calls : Asked(new, d) => Asked(node[p], d)
    <3>1. CASE node' = [node EXCEPT ![p].shut = TRUE]
      <4> DEFINE new == [node[p] EXCEPT !.shut = TRUE]
      <4>1. Fit(new, posted) /\ \A d \in Calls : Asked(new, d) => Asked(node[p], d)
        BY <2>3, ShutFit
      <4>2. node' = [node EXCEPT ![p] = new]
        BY <3>1
      <4> QED
        BY <4>1, <4>2
    <3>2. CASE node' = [node EXCEPT ![p] = Dead(node[p])]
      BY <2>3, <3>2, DeadFit
    <3> QED
      BY <2>2, <3>1, <3>2
  <2>5. PICK new : /\ node' = [node EXCEPT ![p] = new] /\ Fit(new, posted)
                   /\ \A d \in Calls : Asked(new, d) => Asked(node[p], d)
    BY <2>4
  <2>6. Wired' /\ node'[p] = new /\ \A q \in Calls \ {p} : node'[q] = node[q]
    BY <1>1, <1>2, <2>5, Rewired
  <2> QED
    BY <1>2, <2>5, <2>6 DEF Calm
<1> QED
  BY <1>3, <1>4

\* A task that goes on without touching a child
LEMMA PlainWires ==
  ASSUME IInv, NEW c \in Calls,
         \/ Ask(c) \/ EnterCached(c) \/ EnterRefused(c) \/ EnterStarting(c) \/ StartFails(c) \/ Aborted(c)
         \/ UNCHANGED vars
  PROVE  Wired' /\ Calm
<1>1. node' = node /\ on' = on /\ posted' = posted
  BY DEF Ask, AskProd, AskPaper, EnterCached, EnterRefused, EnterStarting, StartFails, Aborted, client,
     vars
<1>2. \A d \in Calls : pc[d] = "reading" => pc'[d] = "reading"
  BY DEF Ask, AskProd, AskPaper, EnterCached, EnterRefused, EnterStarting, StartFails, Aborted, vars,
     Goto, IInv, TypeOK
<1>3. Wired
  BY WiredNow
<1> QED
  BY <1>1, <1>2, <1>3 DEF Wired, Pipes, Calm

LEMMA BegunWires ==
  ASSUME IInv, NEW c \in Calls, EnterWriting(c) \/ Started(c)
  PROVE  Wired' /\ (Silent' \/ Begun)
<1>1. Wired /\ posted' = posted
  BY WiredNow DEF EnterWriting, Started
<1>2. \A d \in Calls : pc[d] # "reading"
  BY DEF EnterWriting, Started, LockFree, Holding, IInv, Exclusive
<1>3. Silent
  BY <1>2, SilentUnread
<1>4. pc'[c] = "reading"
  BY DEF EnterWriting, Started, Goto, IInv, TypeOK
<1>5. CASE node' = node
  BY <1>1, <1>3, <1>5 DEF Silent, Wired, Pipes
<1>6. CASE EnterWriting(c) /\ node[process].alive
  <2> DEFINE new == [node[process] EXCEPT !.in = Append(@, c)]
  <2>1. process \in Calls /\ on' = process
    BY <1>6 DEF EnterWriting, IInv, TypeOK
  <2>2. Fit(new, posted) /\ \A d \in Calls : Asked(new, d) => d = c
    BY <1>1, <1>3, <1>6, <2>1, ChildFit, WrittenFit DEF Silent
  <2>3. node' = [node EXCEPT ![process] = new]
    BY <1>6 DEF EnterWriting
  <2> HIDE DEF new
  <2>4. Wired' /\ node'[process] = new /\ \A q \in Calls \ {process} : node'[q] = node[q]
    BY <1>1, <2>1, <2>2, <2>3, Rewired
  <2>5. \A q, d \in Calls : Asked(node'[q], d) => q = process /\ d = c
    BY <1>3, <2>2, <2>4 DEF Silent
  <2> QED
    BY <1>4, <2>1, <2>4, <2>5 DEF Begun
<1>7. CASE Started(c)
  <2>1. node' = [node EXCEPT ![c] = Born(c)] /\ on' = c
    BY <1>7 DEF Started
  <2>2. Fit(Born(c), posted) /\ \A d \in Calls : Asked(Born(c), d) => d = c
    BY BornFit
  <2>3. Wired' /\ node'[c] = Born(c) /\ \A q \in Calls \ {c} : node'[q] = node[q]
    BY <1>1, <2>1, <2>2, Rewired
  <2>4. \A q, d \in Calls : Asked(node'[q], d) => q = c /\ d = c
    BY <1>3, <2>2, <2>3 DEF Silent
  <2> QED
    BY <1>4, <2>1, <2>3, <2>4 DEF Begun
<1> QED
  BY <1>5, <1>6, <1>7 DEF EnterWriting

\* The call lets go of its child: discarded, read to the end, or found dead.
LEMMA AbortWires ==
  ASSUME IInv, NEW c \in Calls, pc[c] = "reading", Abort(c)
  PROVE  Wired' /\ Silent'
<1>1. node' = [node EXCEPT ![on] = Unborn] /\ posted' = posted
  BY DEF Abort, Discarded
<1>2. on \in Calls /\ \A q \in Calls \ {on} : \A d \in Calls : ~Asked(node[q], d)
  BY Reader
<1>3. Fit(Unborn, posted) /\ \A d \in Calls : ~Asked(Unborn, d)
  BY UnbornFit
<1>4. Wired' /\ node'[on] = Unborn /\ \A q \in Calls \ {on} : node'[q] = node[q]
  BY <1>1, <1>2, <1>3, WiredNow, Rewired
<1>5. \A q, d \in Calls : ~Asked(node'[q], d)
  BY <1>2, <1>3, <1>4
<1> QED
  BY <1>4, <1>5 DEF Silent

LEMMA ReadWires ==
  ASSUME IInv, NEW c \in Calls, Readable(c), Mine(c), node' = Consumed(c), posted' = posted
  PROVE  /\ Wired' /\ Silent'
         /\ Line(c).ok /\ Mutation(c) => c \in posted
<1>1. on \in Calls /\ \A q \in Calls \ {on} : \A d \in Calls : ~Asked(node[q], d)
  BY Reader DEF Readable
<1>2. Wired /\ Fit(node[on], posted)
  BY <1>1, WiredNow, ChildFit
<1> DEFINE new == [node[on] EXCEPT !.out = Tail(@)]
<1>3. node' = [node EXCEPT ![on] = new]
  BY DEF Consumed
<1>4. Fit(new, posted) /\ \A d \in Calls : ~Asked(new, d)
  BY <1>2, ConsumedFit DEF Readable, Mine, Line
<1> HIDE DEF new
<1>5. Wired' /\ node'[on] = new /\ \A q \in Calls \ {on} : node'[q] = node[q]
  BY <1>1, <1>2, <1>3, <1>4, Rewired
<1>6. \A q, d \in Calls : ~Asked(node'[q], d)
  BY <1>1, <1>4, <1>5
<1>7. ASSUME Line(c).ok, Mutation(c) PROVE c \in posted
  <2>1. node[on].out \in Seq(Lines) /\ node[on].out # <<>>
    BY <1>2 DEF Fit, Child, Readable
  <2>2. Line(c) = node[on].out[1] /\ 1 \in 1..Len(node[on].out)
    BY <2>1 DEF Line
  <2> QED
    BY <1>2, <1>7, <2>2 DEF Fit, Truthful, Mine
<1> QED
  BY <1>5, <1>6, <1>7 DEF Silent

LEMMA EofWires ==
  ASSUME IInv, NEW c \in Calls, EofPaper(c)
  PROVE  Wired' /\ Silent'
<1>1. on \in Calls /\ \A q \in Calls \ {on} : \A d \in Calls : ~Asked(node[q], d)
  BY Reader DEF EofPaper, Eof
<1>2. Wired /\ Orderly(node[on])
  BY <1>1, WiredNow DEF Wired, Pipes
<1>3. node[on].out = <<>> /\ node[on].in = <<>> /\ node[on].busy = None
  BY <1>2 DEF Orderly, EofPaper, Eof
<1>4. \A d \in Calls : ~Asked(node[on], d)
  BY <1>3, NoneAssumption DEF Asked
<1>5. node' = node /\ posted' = posted
  BY DEF EofPaper
<1> QED
  BY <1>1, <1>2, <1>4, <1>5 DEF Wired, Pipes, Silent

-----------------------------------------------------------------------------
(* The steps by kind *)

Plain(c) == Ask(c) \/ EnterCached(c) \/ EnterRefused(c) \/ EnterStarting(c) \/ StartFails(c) \/ Aborted(c)
Begin(c) == EnterWriting(c) \/ Started(c)
Aborts(c) == pc[c] = "reading" /\ Abort(c)
Reads(c) == RefusedPlain(c) \/ Return(c) \/ Unusable(c) \/ Malformed(c)

LEMMA Kinds ==
  ASSUME [Next]_vars
  PROVE  \/ UNCHANGED vars \/ Close \/ CloseEnds
         \/ \E c \in Calls : Plain(c) \/ Begin(c) \/ Aborts(c) \/ Reads(c) \/ EofPaper(c)
                             \/ Serve(c) \/ Fault(c)
  BY DEF Next, Done, Enter, Start, Hear, Mismatch, EofProd, RefusedProd, WrongAccount, GiveUp, Readable,
     Succeeds, Eof, Plain, Begin, Aborts, Reads

LEMMA WiresStep ==
  ASSUME IInv, [Next]_vars
  PROVE  Wired' /\ (Silent' \/ Calm \/ Begun)
<1>1. CASE Close \/ CloseEnds
  BY <1>1, CloseWires
<1>2. CASE UNCHANGED vars
  <2>1. node' = node /\ posted' = posted /\ pc' = pc /\ on' = on /\ Wired
    BY <1>2, WiredNow DEF vars, client
  <2> QED
    BY <2>1 DEF Wired, Pipes, Calm
<1>3. ASSUME NEW c \in Calls, Plain(c) PROVE Calm /\ Wired'
  BY <1>3, PlainWires DEF Plain
<1>4. ASSUME NEW c \in Calls, Begin(c) PROVE Wired' /\ (Silent' \/ Begun)
  BY <1>4, BegunWires DEF Begin
<1>5. ASSUME NEW c \in Calls, Aborts(c) PROVE Wired' /\ Silent'
  BY <1>5, AbortWires DEF Aborts
<1>6. ASSUME NEW c \in Calls, Reads(c) PROVE Wired' /\ Silent'
  BY <1>6, ReadWires DEF Reads, RefusedPlain, Return, Unusable, Malformed, Succeeds
<1>7. ASSUME NEW c \in Calls, EofPaper(c) PROVE Wired' /\ Silent'
  BY <1>7, EofWires
<1>8. ASSUME NEW c \in Calls, Serve(c) \/ Fault(c) PROVE Wired' /\ Calm
  BY <1>8, ServeWires
<1> QED
  BY <1>1, <1>2, <1>3, <1>4, <1>5, <1>6, <1>7, <1>8, Kinds

LEMMA AttendedStep ==
  ASSUME IInv, [Next]_vars
  PROVE  Attended'
<1>1. Attended
  BY DEF IInv
<1>2. CASE Silent'
  BY <1>2 DEF Silent, Attended
<1>3. CASE Calm
  BY <1>1, <1>3 DEF Calm, Attended
<1>4. CASE Begun
  BY <1>4 DEF Begun, Attended
<1> QED
  BY <1>2, <1>3, <1>4, WiresStep

LEMMA TypeStep ==
  ASSUME IInv, [Next]_vars
  PROVE  TypeOK'
<1>1. TypeOK
  BY DEF IInv
<1>2. node' \in [Calls -> Child]
  BY WiresStep DEF Wired
<1>3. posted' \subseteq Calls
  <2>1. ASSUME NEW p \in Calls, Post(p) PROVE posted' \subseteq Calls
    BY <1>1, <2>1 DEF Post, TypeOK, Child
  <2>2. (posted' = posted) \/ \E p \in Calls : Post(p)
    BY Kinds DEF vars, client, Close, CloseEnds, Plain, Begin, Aborts, Reads, Ask, AskProd, AskPaper,
       EnterCached, EnterRefused, EnterStarting, StartFails, Aborted, EnterWriting, Started, Abort,
       RefusedPlain, Return, Unusable, Malformed, EofPaper, Serve, Take, Reply, Leave, Fault
  <2> QED
    BY <1>1, <2>1, <2>2 DEF TypeOK
<1>4. CASE UNCHANGED vars \/ Close \/ CloseEnds \/ \E c \in Calls : Serve(c) \/ Fault(c)
  <2>1. UNCHANGED <<prod, pc, on, result, failed, proven>>
        /\ process' \in {process, None} /\ leaving' \in {leaving, process, None}
    BY <1>4 DEF vars, client, Close, CloseEnds, Serve, Take, Post, Reply, Leave, Fault
  <2> QED
    BY <1>1, <1>2, <1>3, <2>1 DEF TypeOK
<1>5. ASSUME NEW c \in Calls, Plain(c) \/ EofPaper(c) PROVE TypeOK'
  <2>1. UNCHANGED <<prod, on, process, proven, leaving>> /\ (failed' = failed \/ failed' = TRUE)
    BY <1>5 DEF Plain, Ask, AskProd, AskPaper, EnterCached, EnterRefused, EnterStarting, StartFails,
       Aborted, EofPaper, client
  <2>2. \E s \in {"lock", "refused", "done", "starting", "error"} : pc' = [pc EXCEPT ![c] = s]
    BY <1>5 DEF Plain, Ask, AskProd, AskPaper, EnterCached, EnterRefused, EnterStarting, StartFails,
       Aborted, EofPaper, Goto
  <2>3. result' = result \/ result' = [result EXCEPT ![c] = proven]
    BY <1>5 DEF Plain, Ask, AskProd, AskPaper, EnterCached, EnterRefused, EnterStarting, StartFails,
       Aborted, EofPaper, client
  <2> QED
    BY <1>1, <1>2, <1>3, <2>1, <2>2, <2>3 DEF TypeOK
<1>6. ASSUME NEW c \in Calls, Begin(c) PROVE TypeOK'
  <2>1. UNCHANGED <<prod, result, failed, proven, leaving>> /\ process' \in {process, c}
        /\ on' \in {process, c} /\ pc' = [pc EXCEPT ![c] = "reading"]
    BY <1>6 DEF Begin, EnterWriting, Started, Goto
  <2> QED
    BY <1>1, <1>2, <1>3, <2>1 DEF TypeOK
<1>7. ASSUME NEW c \in Calls, Aborts(c) PROVE TypeOK'
  <2>1. UNCHANGED <<prod, on, result, proven, leaving>> /\ process' \in {process, None}
        /\ failed' = (failed \/ prod) /\ pc' = [pc EXCEPT ![c] = "aborting"]
    BY <1>7 DEF Aborts, Abort, Goto
  <2> QED
    BY <1>1, <1>2, <1>3, <2>1 DEF TypeOK
<1>8. ASSUME NEW c \in Calls, Reads(c) PROVE TypeOK'
  <2>1. UNCHANGED <<prod, on, process, failed, leaving>> /\ proven' \in {proven, c}
        /\ \E s \in {"error", "done", "malformed"} : pc' = [pc EXCEPT ![c] = s]
        /\ (result' = result \/ result' = [result EXCEPT ![c] = c])
    BY <1>8 DEF Reads, RefusedPlain, Return, Unusable, Malformed, Succeeds, Mine, Goto, client
  <2> QED
    BY <1>1, <1>2, <1>3, <2>1 DEF TypeOK
<1> QED
  BY <1>4, <1>5, <1>6, <1>7, <1>8, Kinds

-----------------------------------------------------------------------------
(* The lock, the latch and the answers *)

\* A task moves alone; it takes the lock when nobody has it.
LEMMA Moves ==
  ASSUME IInv, [Next]_vars
  PROVE  \/ pc' = pc /\ on' = on
         \/ \E c \in Calls : /\ \A d \in Calls \ {c} : pc'[d] = pc[d]
                             /\ pc'[c] \in Holding => LockFree \/ pc[c] \in Holding
                             /\ pc'[c] = "reading" => on' \in Calls
                             /\ pc'[c] # "reading" => on' = on
<1>1. TypeOK
  BY DEF IInv
<1>2. CASE UNCHANGED vars \/ Close \/ CloseEnds \/ \E c \in Calls : Serve(c) \/ Fault(c)
  BY <1>2 DEF vars, client, Close, CloseEnds, Serve, Take, Post, Reply, Leave, Fault
<1>3. ASSUME NEW c \in Calls, Plain(c) \/ EofPaper(c)
      PROVE  /\ \A d \in Calls \ {c} : pc'[d] = pc[d]
             /\ pc'[c] \in Holding => LockFree
             /\ pc'[c] # "reading" /\ on' = on
  <2>1. on' = on /\ \E s \in {"lock", "refused", "done", "starting", "error"} :
                      pc' = [pc EXCEPT ![c] = s] /\ (s = "starting" => LockFree)
    BY <1>3 DEF Plain, Ask, AskProd, AskPaper, EnterCached, EnterRefused, EnterStarting, StartFails,
       Aborted, EofPaper, Goto, client
  <2> QED
    BY <1>1, <2>1 DEF TypeOK, Holding
<1>4. ASSUME NEW c \in Calls, Begin(c)
      PROVE  /\ \A d \in Calls \ {c} : pc'[d] = pc[d]
             /\ LockFree \/ pc[c] \in Holding
             /\ pc'[c] = "reading" /\ on' \in Calls
  BY <1>1, <1>4 DEF Begin, EnterWriting, Started, Goto, TypeOK, Holding
<1>5. ASSUME NEW c \in Calls, Aborts(c) \/ Reads(c)
      PROVE  /\ \A d \in Calls \ {c} : pc'[d] = pc[d]
             /\ pc[c] \in Holding /\ pc'[c] # "reading" /\ on' = on
  <2>1. on' = on /\ pc[c] = "reading" /\ \E s \in {"aborting", "error", "done", "malformed"} :
          pc' = [pc EXCEPT ![c] = s]
    BY <1>5 DEF Aborts, Abort, Reads, RefusedPlain, Return, Unusable, Malformed, Succeeds, Readable, Goto, client
  <2> QED
    BY <1>1, <2>1 DEF TypeOK, Holding
<1> QED
  BY <1>2, <1>3, <1>4, <1>5, Kinds

LEMMA ExclusiveStep ==
  ASSUME IInv, [Next]_vars
  PROVE  Exclusive'
<1>1. Exclusive
  BY DEF IInv
<1>2. CASE pc' = pc /\ on' = on
  BY <1>1, <1>2 DEF Exclusive
<1>3. ASSUME NEW c \in Calls, \A d \in Calls \ {c} : pc'[d] = pc[d],
             pc'[c] \in Holding => LockFree \/ pc[c] \in Holding,
             pc'[c] = "reading" => on' \in Calls, pc'[c] # "reading" => on' = on
      PROVE  Exclusive'
  <2>1. ASSUME NEW a \in Calls, NEW b \in Calls, pc'[a] \in Holding, pc'[b] \in Holding PROVE a = b
    BY <1>1, <1>3, <2>1 DEF Exclusive, LockFree
  <2>2. ASSUME NEW a \in Calls, pc'[a] = "reading" PROVE on' # None
    BY <1>1, <1>3, <2>2, NoneAssumption DEF Exclusive
  <2> QED
    BY <2>1, <2>2 DEF Exclusive
<1> QED
  BY <1>2, <1>3, Moves

\* Who returns what
LEMMA Returning ==
  ASSUME IInv, [Next]_vars, NEW c \in Calls, pc'[c] = "done"
  PROVE  \/ pc[c] = "done" /\ result'[c] = result[c]
         \/ EnterCached(c) \/ Return(c)
<1>1. TypeOK
  BY DEF IInv
<1>2. CASE UNCHANGED vars \/ Close \/ CloseEnds \/ \E d \in Calls : Serve(d) \/ Fault(d)
  BY <1>2 DEF vars, client, Close, CloseEnds, Serve, Take, Post, Reply, Leave, Fault
<1>3. ASSUME NEW d \in Calls, EnterCached(d) \/ Return(d), d # c
      PROVE  pc[c] = "done" /\ result'[c] = result[c]
  <2>1. (\E s \in {"done"} : pc' = [pc EXCEPT ![d] = s]) /\ \E r : result' = [result EXCEPT ![d] = r]
    BY <1>3 DEF EnterCached, Return, Goto
  <2> QED
    BY <1>1, <1>3, <2>1 DEF TypeOK
<1>4. ASSUME NEW d \in Calls, \/ Plain(d) /\ ~EnterCached(d)
                              \/ Begin(d) \/ Aborts(d) \/ EofPaper(d)
                              \/ Reads(d) /\ ~Return(d)
      PROVE  pc[c] = "done" /\ result'[c] = result[c]
  <2>1. result' = result /\ \E s \in {"lock", "refused", "starting", "reading", "aborting", "error",
                                         "malformed"} :
                              pc' = [pc EXCEPT ![d] = s]
    BY <1>4 DEF Plain, Ask, AskProd, AskPaper, EnterRefused, EnterStarting, StartFails, Aborted, EofPaper,
       Begin, EnterWriting, Started, Aborts, Abort, Reads, RefusedPlain, Unusable, Malformed, Goto, client
  <2> QED
    BY <1>1, <2>1 DEF TypeOK
<1> QED
  BY <1>2, <1>3, <1>4, Kinds DEF Plain, Reads

LEMMA OwnAnswerStep ==
  ASSUME IInv, [Next]_vars
  PROVE  OwnAnswer'
<1>1. TypeOK /\ Proven /\ OwnAnswer
  BY DEF IInv
<1>2. posted \subseteq posted'
  BY Kinds DEF vars, client, Close, CloseEnds, Plain, Begin, Aborts, Reads, Ask, AskProd, AskPaper,
     EnterCached, EnterRefused, EnterStarting, StartFails, Aborted, EnterWriting, Started, Abort,
     RefusedPlain, Return, Unusable, Malformed, EofPaper, Serve, Take, Post, Reply, Leave, Fault
<1>3. SUFFICES ASSUME NEW c \in Calls, pc'[c] = "done"
               PROVE  /\ \/ result'[c] = c
                         \/ Preflight(c) /\ result'[c] # None /\ Preflight(result'[c])
                      /\ Mutation(c) => c \in posted'
  BY DEF OwnAnswer
<1>4. CASE pc[c] = "done" /\ result'[c] = result[c]
  BY <1>1, <1>2, <1>4 DEF OwnAnswer
<1>5. CASE EnterCached(c)
  <2>1. result'[c] = proven /\ Preflight(c) /\ proven # None
    BY <1>1, <1>5 DEF EnterCached, Cached, TypeOK
  <2> QED
    BY <1>1, <2>1 DEF Proven, Preflight, Mutation
<1>6. CASE Return(c)
  <2>1. result'[c] = c
    BY <1>1, <1>6 DEF Return, Succeeds, Mine, TypeOK
  <2>2. Mutation(c) => c \in posted
    BY <1>6, ReadWires DEF Return, Succeeds
  <2> QED
    BY <1>2, <2>1, <2>2
<1> QED
  BY <1>3, <1>4, <1>5, <1>6, Returning

LEMMA ProvenStep ==
  ASSUME IInv, [Next]_vars
  PROVE  Proven'
<1>1. Proven
  BY DEF IInv
<1>2. proven' = proven \/ \E c \in Calls : Preflight(c) /\ proven' = c
  BY Kinds DEF vars, client, Close, CloseEnds, Plain, Begin, Aborts, Reads, Ask, AskProd, AskPaper,
     EnterCached, EnterRefused, EnterStarting, StartFails, Aborted, EnterWriting, Started, Abort,
     RefusedPlain, Return, Unusable, Malformed, EofPaper, Serve, Take, Post, Reply, Leave, Fault
<1> QED
  BY <1>1, <1>2 DEF Proven, Preflight

\* The latch of a PROD client is never taken back, and closes with every
\* outcome of a mutation that stays unknown.
LEMMA Latches ==
  ASSUME IInv, [Next]_vars, prod'
  PROVE  /\ prod /\ (failed => failed')
         /\ \A c \in Calls : Mutation(c) /\ pc'[c] \in {"aborting", "error"} =>
              failed' \/ pc[c] \in {"aborting", "error"}
         /\ \A c \in Calls : pc'[c] = "starting" =>
              failed' = failed /\ (pc[c] = "starting" \/ ~failed)
<1>1. TypeOK
  BY DEF IInv
<1>2. CASE UNCHANGED vars \/ Close \/ CloseEnds \/ \E d \in Calls : Serve(d) \/ Fault(d)
  <2>1. UNCHANGED <<prod, pc, failed>>
    BY <1>2 DEF vars, client, Close, CloseEnds, Serve, Take, Post, Reply, Leave, Fault
  <2> QED
    BY <2>1
<1>3. ASSUME NEW d \in Calls, Ask(d) \/ EnterCached(d) \/ StartFails(d) \/ Begin(d) \/ Return(d)
                              \/ Malformed(d)
      PROVE  /\ prod' = prod /\ failed' = failed
             /\ \A c \in Calls : pc'[c] \in {"aborting", "error", "starting"} => pc[c] = pc'[c]
  <2>1. prod' = prod /\ failed' = failed
        /\ \E s \in {"lock", "refused", "done", "reading", "malformed"} : pc' = [pc EXCEPT ![d] = s]
    BY <1>3 DEF Ask, AskProd, AskPaper, EnterCached, StartFails, Begin, EnterWriting, Started, Return,
       Malformed, Goto, client
  <2> QED
    BY <1>1, <2>1 DEF TypeOK
<1>4. ASSUME NEW d \in Calls, EnterRefused(d)
      PROVE  /\ prod' = prod /\ (failed => failed')
             /\ \A c \in Calls : pc'[c] \in {"aborting", "error"} => pc[c] = pc'[c]
             /\ \A c \in Calls : pc'[c] # "starting"
  <2>1. prod' = prod /\ pc' = [pc EXCEPT ![d] = "refused"] /\ LockFree
    BY <1>4 DEF EnterRefused, Goto
  <2>2. failed' = failed \/ failed' = TRUE
    BY <1>4 DEF EnterRefused
  <2>3. failed => failed'
    BY <2>2, Zenon
  <2>4. \A c \in Calls : pc[c] # "starting" /\ pc'[c] \in {pc[c], "refused"}
    BY <1>1, <2>1 DEF TypeOK, LockFree, Holding
  <2> QED
    BY <2>1, <2>3, <2>4
<1>5. ASSUME NEW d \in Calls, EnterStarting(d)
      PROVE  /\ prod' = prod /\ failed' = failed /\ (prod => ~failed)
             /\ \A c \in Calls : pc'[c] \in {"aborting", "error"} => pc[c] = pc'[c]
  <2>1. prod' = prod /\ failed' = failed /\ ~Latched /\ pc' = [pc EXCEPT ![d] = "starting"]
    BY <1>5 DEF EnterStarting, Goto, client
  <2> QED
    BY <1>1, <2>1 DEF TypeOK, Latched
<1>6. ASSUME NEW d \in Calls, Aborted(d) \/ EofPaper(d) \/ RefusedPlain(d) \/ Unusable(d)
      PROVE  /\ prod' = prod /\ failed' = failed
             /\ \A c \in Calls : pc'[c] = "starting" => pc[c] = "starting"
             /\ prod => \A c \in Calls : Mutation(c) /\ pc'[c] \in {"aborting", "error"} =>
                          pc[c] \in {"aborting", "error"}
  <2>1. prod' = prod /\ failed' = failed /\ pc' = [pc EXCEPT ![d] = "error"]
    BY <1>6 DEF Aborted, EofPaper, RefusedPlain, Unusable, Goto, client
  <2>2. prod /\ Mutation(d) => pc[d] = "aborting"
    BY <1>6 DEF Aborted, EofPaper, RefusedPlain, Unusable, Mutation
  <2> QED
    BY <1>1, <2>1, <2>2 DEF TypeOK
<1>7. ASSUME NEW d \in Calls, Aborts(d)
      PROVE  /\ prod' = prod /\ (prod => failed') /\ \A c \in Calls : pc'[c] # "starting"
  <2>1. prod' = prod /\ failed' = (failed \/ prod) /\ pc[d] = "reading"
        /\ pc' = [pc EXCEPT ![d] = "aborting"]
    BY <1>7 DEF Aborts, Abort, Goto
  <2>2. \A c \in Calls : pc[c] # "starting"
    BY <2>1 DEF IInv, Exclusive, Holding
  <2> QED
    BY <1>1, <2>1, <2>2 DEF TypeOK
<1> QED
  BY <1>2, <1>3, <1>4, <1>5, <1>6, <1>7, Kinds DEF Plain, Reads

LEMMA LatchingStep ==
  ASSUME IInv, [Next]_vars
  PROVE  Latching'
<1> SUFFICES ASSUME prod' PROVE /\ Unresolved' # {} => failed'
                                /\ \A c \in Calls : pc'[c] = "starting" => ~failed'
  BY DEF Latching
<1>1. Latching /\ prod
  BY Latches DEF IInv
<1>2. ASSUME NEW c \in Calls, Mutation(c), pc'[c] \in {"aborting", "error"} PROVE failed'
  <2>1. failed' \/ pc[c] \in {"aborting", "error"}
    BY <1>2, Latches
  <2>2. pc[c] \in {"aborting", "error"} => failed
    BY <1>1, <1>2 DEF Latching, Unresolved
  <2>3. failed => failed'
    BY Latches
  <2> QED
    BY <2>1, <2>2, <2>3
<1>3. ASSUME NEW c \in Calls, pc'[c] = "starting" PROVE ~failed'
  <2>1. failed' = failed /\ (pc[c] = "starting" \/ ~failed)
    BY <1>3, Latches
  <2>2. ~failed
    BY <1>1, <2>1 DEF Latching
  <2>3. failed' = failed
    BY <2>1
  <2> QED
    BY <2>2, <2>3, Zenon
<1>4. \A c \in Unresolved' : c \in Calls /\ Mutation(c) /\ pc'[c] \in {"aborting", "error"}
  BY DEF Unresolved, Mutation
<1> QED
  BY <1>2, <1>3, <1>4

-----------------------------------------------------------------------------
(* The invariant of a client *)

LEMMA InitIInv == Init => IInv
<1> SUFFICES ASSUME Init PROVE IInv
  OBVIOUS
<1>1. \A p \in Calls : node[p] = Unborn /\ Fit(Unborn, posted) /\ pc[p] = "idle"
  BY UnbornFit DEF Init
<1>2. \A p, c \in Calls : ~Asked(node[p], c)
  BY <1>1, UnbornFit
<1>3. TypeOK
  BY <1>1 DEF Init, TypeOK, Fit
<1>4. Exclusive /\ Pipes /\ Attended
  BY <1>1, <1>2 DEF Exclusive, Holding, Pipes, Attended, Fit
<1>5. Proven /\ OwnAnswer
  BY <1>1 DEF Init, Proven, OwnAnswer
<1>6. Latching
  BY <1>1 DEF Latching, Unresolved
<1> QED
  BY <1>3, <1>4, <1>5, <1>6 DEF IInv

LEMMA ClientInductive == Spec => []IInv
<1>1. IInv /\ [Next]_vars => IInv'
  <2> SUFFICES ASSUME IInv, [Next]_vars PROVE IInv'
    OBVIOUS
  <2>1. Pipes'
    BY WiresStep DEF Wired
  <2> QED
    BY <2>1, TypeStep, ExclusiveStep, AttendedStep, ProvenStep, LatchingStep, OwnAnswerStep DEF IInv
<1> QED
  BY InitIInv, <1>1, PTL DEF Spec

-----------------------------------------------------------------------------
(* The theorems *)

\* A call that returns returns the answer to its own request, or the identity
\* an earlier preflight proved, and an acknowledged mutation did reach the venue,
\* whatever the child prints and whoever shares the client (_call, _read_response).
THEOREM AnswersAreOwn == Spec => []OwnAnswer
<1>1. IInv => OwnAnswer
  BY DEF IInv
<1> QED
  BY ClientInductive, <1>1, PTL

\* Once the outcome of a PROD mutation is unknown, no request is written again,
\* not even by a call that was already starting a child (_abort, _failed).
THEOREM LatchHolds == Spec => LatchedAfterUnknown
<1> DEFINE Unread == \A c \in Calls : pc'[c] = "reading" => pc[c] = "reading"
<1>1. IInv /\ [Next]_vars => [prod /\ Unresolved # {} => Unread]_vars
  <2> SUFFICES ASSUME IInv, Next, prod, Unresolved # {}, NEW c \in Calls,
                      pc'[c] = "reading", pc[c] # "reading"
               PROVE  FALSE
    BY DEF vars
  <2>1. failed /\ TypeOK /\ \A d \in Calls : pc[d] # "starting"
    BY DEF IInv, Latching
  <2>2. CASE UNCHANGED vars \/ Close \/ CloseEnds \/ \E d \in Calls : Serve(d) \/ Fault(d)
    BY <2>2 DEF vars, client, Close, CloseEnds, Serve, Take, Post, Reply, Leave, Fault
  <2>3. ASSUME NEW d \in Calls, Plain(d) \/ EofPaper(d) \/ Aborts(d) \/ Reads(d) PROVE FALSE
    <3>1. \E s \in {"lock", "refused", "done", "starting", "error", "aborting", "malformed"} :
            pc' = [pc EXCEPT ![d] = s]
      BY <2>3 DEF Plain, Ask, AskProd, AskPaper, EnterCached, EnterRefused, EnterStarting, StartFails,
         Aborted, EofPaper, Aborts, Abort, Reads, RefusedPlain, Return, Unusable, Malformed, Goto
    <3> QED
      BY <2>1, <3>1 DEF TypeOK
  <2>4. ASSUME NEW d \in Calls, Begin(d) PROVE FALSE
    BY <2>1, <2>4 DEF Begin, EnterWriting, Started, Latched
  <2> QED
    BY <2>2, <2>3, <2>4, Kinds
<1> QED
  BY ClientInductive, <1>1, PTL DEF Spec, LatchedAfterUnknown

\* A child hands a mutation to the venue only while its caller still reads: no
\* late effect leaves a child that was given up on (_abort kills it under the lock).
THEOREM NothingLate == Spec => NothingAfterGivingUp
<1> DEFINE Awaited == \A c \in posted' \ posted : pc[c] = "reading"
<1>1. IInv /\ [Next]_vars => [Awaited]_vars
  <2> SUFFICES ASSUME IInv, Next, NEW c \in posted' \ posted PROVE pc[c] = "reading"
    BY DEF vars
  <2>1. (posted' = posted) \/ \E p \in Calls : Post(p)
    BY Kinds DEF vars, client, Close, CloseEnds, Plain, Begin, Aborts, Reads, Ask, AskProd, AskPaper,
       EnterCached, EnterRefused, EnterStarting, StartFails, Aborted, EnterWriting, Started, Abort,
       RefusedPlain, Return, Unusable, Malformed, EofPaper, Serve, Take, Reply, Leave, Fault
  <2>2. PICK p \in Calls : Post(p)
    BY <2>1
  <2>3. c = node[p].busy /\ c \in Calls
    BY <2>2 DEF Post, IInv, TypeOK, Child
  <2> QED
    BY <2>3 DEF IInv, Attended, Asked
<1> QED
  BY ClientInductive, <1>1, PTL DEF Spec, NothingAfterGivingUp

=============================================================================
