----------------------- MODULE LegacyExecutionProofs -----------------------
(***************************************************************************)
(* Theorems about the legacy route, for any orders, any size of the cache  *)
(* and any number of faults.                                               *)
(*                                                                         *)
(* The argument: an effect is prepared once and sent only by the handling  *)
(* that prepared it; inside its grace nobody else is about it (Prepared),  *)
(* so only a stop is ever sent again, under the lock of its effect and     *)
(* after it was proved absent (Looked).  A place of the handler says what  *)
(* is known of the entry: its row is settled, and the entry is withdrawn,  *)
(* gone, or has its stop.  Such knowledge is never undone by the venue,    *)
(* unless it does what no reading of it could have told (Steady).          *)
(***************************************************************************)
EXTENDS LegacyExecution, TLAPS

-----------------------------------------------------------------------------
(* The inductive invariant *)

\* Where the handler of orders is
Entering   == {"place", "send place", "confirm place", "rplace", "rplace flat", "classify"}
Protecting == {"protect", "send stop", "confirm stop", "stopped", "rstop", "rstop send",
               "rstop confirm", "compensate"}
Leaving    == {"flat", "active", "exit", "send exit", "confirm exit", "exited", "lost", "rclose"}
Closed     == {"tidy", "cancel exit", "finish"}
Cancelling == {"cancelling", "cancel verify", "cancelled"}
Reported   == {"result", "publish", "ack"}

OrderPlaces    == {"idle", "ambiguous"} \cup Entering \cup Protecting \cup Leaving \cup Closed
                    \cup Cancelling \cup Reported
RecoveryPlaces == {"idle", "scan", "rplace", "rplace flat", "rstop", "rstop send",
                   "rstop confirm", "rclose", "cancelling", "cancel verify"}

PlaceOf(o) == <<"place", o>>
StopOf(o)  == <<"stop", o>>
ExitOf(o)  == <<"exit", o>>
CancelOf(e) == <<"cancel", e>>

Acks    == {"open", "filled", "bad", "dead"}
Replies == {"none", "ok", "flat"} \cup Acks
Reports == {"none", "cached", "ambiguous", "canceled"} \cup Acks

TypeOK ==
  /\ held \subseteq Opens /\ working \subseteq Places \cup Exits
  /\ stops \in [Opens -> Nat] /\ late \subseteq Places \cup Exits \cup Stops
  /\ slipped \in BOOLEAN
  /\ status \in [Effects -> {"NONE", "PREPARED", "SETTLED"}]
  /\ answer \in [Effects -> Replies]
  /\ fresh \subseteq Effects /\ queue \subseteq Orders /\ acked \subseteq Orders
  /\ up \in BOOLEAN /\ cache \in Seq(Orders) /\ blocked \in BOOLEAN /\ quant \in BOOLEAN
  /\ at \in [Tasks -> OrderPlaces \cup RecoveryPlaces]
  /\ at["orders"] \in OrderPlaces /\ at["recovery"] \in RecoveryPlaces
  /\ doing \in [Tasks -> Effects \cup {None}] /\ lock \in [Tasks -> Effects \cup {None}]
  /\ order \in Orders \cup {None} /\ report \in Reports /\ reply \in Replies
  /\ scan \subseteq Effects /\ failed \in BOOLEAN
  /\ sent \subseteq Effects /\ resent \subseteq sent /\ dropped \subseteq Opens
  /\ faults \in Nat

\* What a task has in hand where it is.
Handles ==
  /\ at["orders"] # "idle" => order \in Orders
  /\ at["orders"] \in {"ambiguous"} \cup Entering \cup Protecting => order \in Opens
  /\ at["orders"] \in {"rplace", "rplace flat"} => doing["orders"] = PlaceOf(order)
  /\ at["orders"] \in {"rstop", "rstop send", "rstop confirm"} => doing["orders"] = StopOf(order)
  /\ at["orders"] = "rclose" => doing["orders"] = ExitOf(order)
  /\ at["orders"] \in Cancelling =>
       \/ doing["orders"] = CancelOf(PlaceOf(order)) /\ order \in Opens
       \/ doing["orders"] = CancelOf(ExitOf(order))
Recovers ==
  /\ at["recovery"] \in {"rplace", "rplace flat"} => doing["recovery"] \in Places
  /\ at["recovery"] \in {"rstop", "rstop send", "rstop confirm"} => doing["recovery"] \in Stops
  /\ at["recovery"] = "rclose" => doing["recovery"] \in Exits
  /\ at["recovery"] \in {"cancelling", "cancel verify"} => doing["recovery"] \in Cancels

\* A recovery procedure acts on what it read under the lock of its effect.
Locked ==
  /\ \A p \in Tasks :
       at[p] \in {"rplace flat", "rstop send", "rstop confirm", "cancel verify"} => lock[p] = doing[p]
  /\ lock["orders"] = lock["recovery"] => lock["orders"] = None

\* What was sent or is recovered was prepared, and its grace is over.
Ripe ==
  /\ \A e \in Effects : e \in sent \/ e \in scan \/ e = doing["recovery"] => status[e] # "NONE"
  /\ \A e \in fresh : e \notin scan /\ e # doing["recovery"]

\* The handler sends what it has just prepared.
Prepared ==
  /\ at["orders"] \in {"rplace", "rplace flat", "rstop", "rstop send", "rstop confirm", "rclose",
                       "cancelling", "cancel verify"} => status[doing["orders"]] # "NONE"
  /\ at["orders"] \in {"send place", "confirm place"} =>
       PlaceOf(order) \in fresh /\ status[PlaceOf(order)] = "PREPARED"
  /\ at["orders"] \in {"send stop", "confirm stop"} =>
       StopOf(order) \in fresh /\ status[StopOf(order)] = "PREPARED"
  /\ at["orders"] \in {"send exit", "confirm exit"} =>
       ExitOf(order) \in fresh /\ status[ExitOf(order)] = "PREPARED"
  /\ at["orders"] = "send place" => PlaceOf(order) \notin sent
  /\ at["orders"] = "send stop" => StopOf(order) \notin sent
  /\ at["orders"] = "send exit" => ExitOf(order) \notin sent

\* An entry is at one place of the venue, and only once it was sent.
EntryOnce == \A o \in Opens :
  /\ PlaceOf(o) \notin sent => PlaceOf(o) \notin working /\ PlaceOf(o) \notin late /\ o \notin held
  /\ PlaceOf(o) \in late => PlaceOf(o) \notin working /\ o \notin held
  /\ PlaceOf(o) \in working => o \notin held

\* A stop that was lost and not sent again has not landed.
StopOnce == \A o \in Opens :
  /\ StopOf(o) \notin sent => StopOf(o) \notin late /\ stops[o] = 0
  /\ StopOf(o) \in late /\ StopOf(o) \notin resent => stops[o] = 0

\* What is known of an entry: it will not fill, it is gone, or it has its stop.
Withdrawn(o) == PlaceOf(o) \notin working
Over(o) == o \notin held /\ Withdrawn(o)
Safe(o) == stops[o] > 0 \/ Over(o)

Closable(o) == status[PlaceOf(o)] = "SETTLED"
Good(o) == o \in dropped \/ status[PlaceOf(o)] = "NONE" \/ (Closable(o) /\ Safe(o))

\* The answers kept in the journal are true.
Honest(e, a) == \A o \in Opens :
  /\ e = PlaceOf(o) => a \in Acks
  /\ e = PlaceOf(o) /\ a = "dead" /\ ~slipped => Over(o)
  /\ e = PlaceOf(o) /\ a = "filled" /\ ~slipped => Withdrawn(o)
  /\ e = StopOf(o) /\ a # "flat" /\ ~slipped => Safe(o)
Truthful ==
  /\ \A o \in Opens : status[StopOf(o)] # "NONE" => Closable(o)
  /\ \A e \in Effects : Known(e) => Honest(e, answer[e])

\* What a recovery procedure has found is still so.
LookedAt(p) ==
  /\ at[p] = "rplace flat" => doing[p] \notin working
  /\ at[p] = "rstop send" => stops[doing[p][2]] = 0
  /\ at[p] = "rstop confirm" => Safe(doing[p][2])
Looked == ~slipped => \A p \in Tasks : LookedAt(p)

\* What the handler knows of the entry
EntryKnown ==
  /\ at["orders"] = "confirm place" =>
       /\ reply \in Acks /\ PlaceOf(order) \in sent /\ PlaceOf(order) \notin late
       /\ reply = "dead" => Over(order)
       /\ reply = "filled" => Withdrawn(order)
  /\ at["orders"] = "classify" => Closable(order) /\ Honest(PlaceOf(order), reply)
  /\ at["orders"] \in Protecting =>
       /\ Closable(order) /\ report \in {"open", "filled", "bad"}
       /\ report = "filled" /\ ~slipped => Withdrawn(order)
  /\ at["orders"] = "ambiguous" => report = "ambiguous"
  /\ at["orders"] = "confirm stop" /\ ~slipped => Safe(order)
  /\ at["orders"] = "stopped" /\ reply # "flat" /\ ~slipped => Safe(order)

\* The position was flat, and only the exit is tidied up.
Flattened == \/ at["orders"] \in Closed
             \/ at["orders"] \in Cancelling /\ doing["orders"] = CancelOf(ExitOf(order))
Withdrawing == at["orders"] \in Cancelling /\ doing["orders"] = CancelOf(PlaceOf(order))

ExitKnown == order \in Opens =>
  /\ Withdrawing => report \in {"open", "bad", "ambiguous"} /\ (report # "ambiguous" => Closable(order))
  /\ at["orders"] \in Leaving /\ report # "ambiguous" =>
       Closable(order) /\ (~slipped => Withdrawn(order))
  /\ Flattened /\ report # "ambiguous" => Closable(order) /\ (~slipped => Over(order))

\* A report says that the entry is protected, or gone.
Ended ==
  /\ order \notin acked
  /\ at["orders"] = "place" => ~Cached(order)
  /\ at["orders"] \in Reported /\ order \in Opens /\ ~slipped => Good(order)
  /\ \A o \in Opens : (o \in acked \/ Cached(o)) /\ ~slipped => Good(o)

World == SentOnce /\ EntryOnce /\ StopOnce /\ OneStop /\ Truthful
IInv  == /\ TypeOK /\ Handles /\ Recovers /\ Locked /\ Ripe /\ Prepared
         /\ World /\ Looked /\ EntryKnown /\ ExitKnown /\ Ended

-----------------------------------------------------------------------------
(* Effects and places *)

\* The kinds of effects exclude each other.
LEMMA Names ==
  /\ \A o \in Opens : /\ PlaceOf(o) \in Places /\ PlaceOf(o)[2] = o /\ PlaceOf(o)[1] = "place"
                      /\ StopOf(o) \in Stops /\ StopOf(o)[2] = o /\ StopOf(o)[1] = "stop"
  /\ \A o \in Orders : ExitOf(o) \in Exits /\ ExitOf(o)[2] = o /\ ExitOf(o)[1] = "exit"
  /\ \A e \in Places \cup Exits : /\ CancelOf(e) \in Cancels /\ CancelOf(e)[2] = e
                                  /\ CancelOf(e)[1] = "cancel"
  /\ \A e \in Places : e[2] \in Opens /\ e = PlaceOf(e[2]) /\ e[1] = "place"
  /\ \A e \in Stops : e[2] \in Opens /\ e = StopOf(e[2]) /\ e[1] = "stop"
  /\ \A e \in Exits : e[2] \in Orders /\ e = ExitOf(e[2]) /\ e[1] = "exit"
  /\ \A e \in Cancels : e[2] \in Places \cup Exits /\ e = CancelOf(e[2]) /\ e[1] = "cancel"
  /\ Opens \subseteq Orders /\ Closes \subseteq Orders /\ None \notin Orders /\ Opens \cap Closes = {}
  BY LegacyAssumption DEF Places, Stops, Exits, Cancels, PlaceOf, StopOf, ExitOf, CancelOf, Orders

LEMMA Sorts ==
  /\ Places \subseteq Effects /\ Stops \subseteq Effects /\ Exits \subseteq Effects
  /\ Cancels \subseteq Effects
  /\ Places \cap Stops = {} /\ Places \cap Exits = {} /\ Places \cap Cancels = {}
  /\ Stops \cap Exits = {} /\ Stops \cap Cancels = {} /\ Exits \cap Cancels = {}
  /\ \A e \in Effects : e \in Places \/ e \in Exits \/ e \in Stops \/ e \in Cancels
<1>1. Places \cap Stops = {} /\ Places \cap Exits = {} /\ Places \cap Cancels = {}
  BY Names
<1>2. Stops \cap Exits = {} /\ Stops \cap Cancels = {} /\ Exits \cap Cancels = {}
  BY Names
<1> QED
  BY <1>1, <1>2 DEF Effects

LEMMA MineNames ==
  /\ Mine("place") = PlaceOf(order) /\ Mine("stop") = StopOf(order) /\ Mine("exit") = ExitOf(order)
  /\ \A o : <<"place", o>> = PlaceOf(o)
  BY DEF Mine, PlaceOf, StopOf, ExitOf

LEMMA Apart ==
  /\ \A o, u \in Opens : PlaceOf(o) # StopOf(u) /\ StopOf(o) # PlaceOf(u)
  /\ \A o, u \in Opens : PlaceOf(o) = PlaceOf(u) \/ StopOf(o) = StopOf(u) => o = u
  /\ \A e \in Exits \cup Cancels, u \in Opens : e # PlaceOf(u) /\ e # StopOf(u)
  /\ \A o \in Opens : PlaceOf(o) \in Effects /\ StopOf(o) \in Effects
<1>1. \A o \in Opens : PlaceOf(o) \in Places /\ StopOf(o) \in Stops
  BY Names
<1>2. \A o, u \in Opens : PlaceOf(o) # StopOf(u) /\ StopOf(o) # PlaceOf(u)
  BY <1>1, Sorts
<1>3. \A o, u \in Opens : PlaceOf(o) = PlaceOf(u) \/ StopOf(o) = StopOf(u) => o = u
  BY DEF PlaceOf, StopOf
<1>4. \A e \in Exits \cup Cancels, u \in Opens : e # PlaceOf(u) /\ e # StopOf(u)
  BY <1>1, Sorts
<1>5. \A o \in Opens : PlaceOf(o) \in Effects /\ StopOf(o) \in Effects
  BY <1>1, Sorts
<1> QED
  BY <1>2, <1>3, <1>4, <1>5, Zenon

\* A landed order rests or fills; an exit takes the whole position.
LEMMA Landings ==
  /\ \A o \in Opens : Land(PlaceOf(o)) =>
       /\ stops' = stops
       /\ \/ working' = working \cup {PlaceOf(o)} /\ held' = held
          \/ held' = held \cup {o} /\ working' = working
  /\ \A o \in Opens : Land(StopOf(o)) =>
       stops' = [stops EXCEPT ![o] = @ + 1] /\ held' = held /\ working' = working
  /\ \A o \in Orders : Land(ExitOf(o)) =>
       /\ stops' = stops
       /\ \/ working' = working \cup {ExitOf(o)} /\ held' = held
          \/ held' = {} /\ working' = working
  BY DEF Land, PlaceOf, StopOf, ExitOf

-----------------------------------------------------------------------------
(* What a step does to the venue and to the journal *)

Sending == {"send place", "send stop", "send exit"}

Still == /\ UNCHANGED <<venue, status, answer, sent, resent>>
         /\ fresh' = fresh \/ (fresh' = {} /\ at["orders"] = "idle")
Preparing(e) ==
  /\ e \in Effects /\ status[e] = "NONE" /\ status' = [status EXCEPT ![e] = "PREPARED"]
  /\ fresh' = fresh \cup {e}
  /\ \A o \in Opens : e = StopOf(o) => Closable(o)
  /\ UNCHANGED <<venue, answer, sent, resent>>
Settling(e, a) ==
  /\ e \in Effects /\ status[e] = "PREPARED" /\ a \in Replies /\ Honest(e, a)
  /\ status' = [status EXCEPT ![e] = "SETTLED"] /\ answer' = [answer EXCEPT ![e] = a]
  /\ UNCHANGED <<venue, fresh, sent, resent>>
\* An order fills, dies or is withdrawn.
Passing(e) ==
  /\ e \in working /\ working' = working \ {e}
  /\ held' \in {held, {}, IF e \in Places THEN held \cup {e[2]} ELSE {}}
  /\ UNCHANGED <<stops, late, slipped, status, answer, fresh, sent, resent>>
Triggering(o) ==
  /\ o \in held /\ stops[o] > 0 /\ held' = held \ {o} /\ stops' = [stops EXCEPT ![o] = @ - 1]
  /\ UNCHANGED <<working, late, slipped, status, answer, fresh, sent, resent>>
Surfacing(e) ==
  /\ e \in late /\ late' = late \ {e} /\ Land(e)
  /\ slipped' = (slipped \/ status[e] # "PREPARED" \/ e \in resent \/ \E p \in Tasks : lock[p] = e)
  /\ UNCHANGED <<status, answer, fresh, sent, resent>>
\* A call reaches the venue, is refused, or is lost.
Reaching(e) ==
  \/ Land(e) /\ UNCHANGED late
  \/ UNCHANGED <<held, working, stops>> /\ late' \in {late, late \cup {e}}
Calling(e) ==
  /\ e \in Places \cup Stops \cup Exits /\ e \notin sent /\ status[e] = "PREPARED"
  /\ e # doing["recovery"] /\ at["orders"] \in Sending
  /\ Reaching(e) /\ Sent(e) /\ UNCHANGED <<slipped, status, answer, fresh>>
Resending(p) ==
  /\ doing[p] \in Stops /\ lock[p] = doing[p] /\ at[p] = "rstop send" /\ status[doing[p]] # "NONE"
  /\ Reaching(doing[p]) /\ Sent(doing[p]) /\ at' # at /\ UNCHANGED <<slipped, status, answer, fresh>>
  /\ \A q \in Tasks \ {p} : at'[q] = at[q]
  /\ at'[p] # "rstop send"

WorldMove ==
  \/ Still
  \/ \E e \in Effects : Preparing(e) \/ (\E a \in Replies : Settling(e, a))
  \/ \E e \in Effects : Passing(e) \/ Surfacing(e) \/ Calling(e)
  \/ \E o \in Opens : Triggering(o)
  \/ \E p \in Tasks : Resending(p)

\* What is known stays so, unless the venue did what no reading of it tells.
Steady ==
  /\ slipped => slipped'
  /\ \A e \in Effects : /\ status[e] # "NONE" => status'[e] # "NONE"
                        /\ status[e] = "SETTLED" => status'[e] = "SETTLED"
  /\ \A o \in Opens : Closable(o) /\ ~slipped' =>
       /\ Withdrawn(o) => Withdrawn(o)'
       /\ Over(o) => Over(o)'
       /\ Safe(o) => Safe(o)'
  /\ \A o \in Opens : PlaceOf(o) \in sent /\ PlaceOf(o) \notin late =>
       /\ PlaceOf(o) \in sent' /\ PlaceOf(o) \notin late'
       /\ Withdrawn(o) => Withdrawn(o)'
       /\ Over(o) => Over(o)'

LEMMA StillWorld == ASSUME World, Still PROVE World' /\ Steady
<1>1. status' = status /\ answer' = answer /\ sent' = sent /\ resent' = resent /\ late' = late
      /\ working' = working /\ held' = held /\ stops' = stops /\ slipped' = slipped
  BY DEF Still, venue
<1> QED
  BY <1>1 DEF World, SentOnce, EntryOnce, StopOnce, OneStop, Truthful, Honest, Known, Steady,
     Withdrawn, Over, Safe, Closable

LEMMA PreparingWorld == ASSUME TypeOK, World, NEW e \in Effects, Preparing(e) PROVE World' /\ Steady
<1>1. answer' = answer /\ sent' = sent /\ resent' = resent /\ late' = late
      /\ working' = working /\ held' = held /\ stops' = stops /\ slipped' = slipped
  BY DEF Preparing, venue
<1>2. /\ \A x \in Effects : x # e => status'[x] = status[x]
      /\ status[e] = "NONE" /\ status'[e] = "PREPARED"
      /\ \A o \in Opens : e = StopOf(o) => Closable(o)
  BY DEF Preparing, TypeOK
<1>3. SentOnce' /\ EntryOnce' /\ StopOnce' /\ OneStop'
  BY <1>1 DEF World, SentOnce, EntryOnce, StopOnce, OneStop
<1>4. \A o \in Opens : PlaceOf(o) \in Effects /\ StopOf(o) \in Effects
  BY Names, Sorts
<1>5. Truthful'
  BY <1>1, <1>2, <1>4 DEF World, Truthful, Honest, Known, Withdrawn, Over, Safe, Closable
<1>6. Steady
  BY <1>1, <1>2, <1>4 DEF Steady, Withdrawn, Over, Safe, Closable
<1> QED
  BY <1>3, <1>5, <1>6 DEF World

LEMMA SettlingWorld ==
  ASSUME TypeOK, World, NEW e \in Effects, NEW a \in Replies, Settling(e, a) PROVE World' /\ Steady
<1>1. sent' = sent /\ resent' = resent /\ late' = late
      /\ working' = working /\ held' = held /\ stops' = stops /\ slipped' = slipped
  BY DEF Settling, venue
<1>2. /\ \A x \in Effects : x # e => status'[x] = status[x] /\ answer'[x] = answer[x]
      /\ status[e] = "PREPARED" /\ status'[e] = "SETTLED" /\ answer'[e] = a
  BY DEF Settling, TypeOK
<1>3. SentOnce' /\ EntryOnce' /\ StopOnce' /\ OneStop'
  BY <1>1 DEF World, SentOnce, EntryOnce, StopOnce, OneStop
<1>4. \A o \in Opens : PlaceOf(o) \in Effects /\ StopOf(o) \in Effects
  BY Names, Sorts
<1>5. \A x \in Effects : \A b : Honest(x, b) => Honest(x, b)'
  BY <1>1 DEF Honest, Withdrawn, Over, Safe
<1>6. Honest(e, a)'
  BY <1>5 DEF Settling
<1>7. \A x \in Effects : Known(x)' => Honest(x, answer[x])'
  BY <1>1, <1>2, <1>5, <1>6 DEF World, Truthful, Known
<1>8. Truthful'
  BY <1>1, <1>2, <1>4, <1>7 DEF World, Truthful, Closable
<1>9. Steady
  BY <1>1, <1>2, <1>4 DEF Steady, Withdrawn, Over, Safe, Closable
<1> QED
  BY <1>3, <1>8, <1>9 DEF World

\* Steady knowledge keeps the journal truthful.
LEMMA TruthSteady ==
  ASSUME Truthful, Steady, UNCHANGED <<status, answer>> PROVE Truthful'
<1>1. status' = status /\ answer' = answer
  OBVIOUS
<1>2. \A o \in Opens : PlaceOf(o) \in Effects /\ StopOf(o) \in Effects
  BY Names, Sorts
<1>3. ASSUME NEW e \in Effects, Known(e) PROVE Honest(e, answer[e])'
  <2>1. Honest(e, answer[e])
    BY <1>3 DEF Truthful
  <2>2. \A o \in Opens : e = PlaceOf(o) \/ e = StopOf(o) => Closable(o)
    BY <1>3, <1>2 DEF Truthful, Known, Closable
  <2> QED
    BY <1>1, <2>1, <2>2 DEF Honest, Steady
<1> QED
  BY <1>1, <1>3 DEF Truthful, Known, Closable

LEMMA PassingWorld == ASSUME TypeOK, World, NEW e \in Effects, Passing(e) PROVE World' /\ Steady
<1>1. UNCHANGED <<stops, late, slipped, status, answer, sent, resent>>
  BY DEF Passing
<1>2. /\ e \in working /\ working' = working \ {e} /\ e \in Places \cup Exits
      /\ held' \in {held, {}, IF e \in Places THEN held \cup {e[2]} ELSE {}}
  BY DEF Passing, TypeOK
<1>3. \A o \in Opens : /\ Withdrawn(o) => Withdrawn(o)'
                       /\ o \in held' => o \in held \/ e = PlaceOf(o)
  BY <1>2, Names DEF Withdrawn
<1>4. \A o \in Opens : Over(o) => Over(o)'
  BY <1>2, <1>3 DEF Over, Withdrawn
<1>5. Steady
  BY <1>1, <1>3, <1>4 DEF Steady, Safe
<1>6. EntryOnce'
  BY <1>1, <1>2, <1>3, Names DEF World, EntryOnce
<1>7. SentOnce' /\ StopOnce' /\ OneStop'
  BY <1>1 DEF World, SentOnce, StopOnce, OneStop
<1>8. Truthful'
  BY <1>1, <1>5, TruthSteady DEF World
<1> QED
  BY <1>5, <1>6, <1>7, <1>8 DEF World

LEMMA TriggeringWorld == ASSUME TypeOK, World, NEW o \in Opens, Triggering(o) PROVE World' /\ Steady
<1>1. UNCHANGED <<working, late, slipped, status, answer, sent, resent>>
  BY DEF Triggering
<1>2. /\ o \in held /\ stops[o] > 0 /\ held' = held \ {o} /\ stops'[o] = stops[o] - 1
      /\ stops[o] \in Nat /\ \A u \in Opens : u # o => stops'[u] = stops[u]
  BY DEF Triggering, TypeOK
<1>3. \A u \in Opens : /\ Withdrawn(u) => Withdrawn(u)'
                       /\ Over(u) => Over(u)'
  BY <1>1, <1>2 DEF Withdrawn, Over
<1>4. \A u \in Opens : Safe(u) => Safe(u)'
  BY <1>1, <1>2 DEF Safe, Over, Withdrawn, World, EntryOnce
<1>5. Steady
  BY <1>1, <1>3, <1>4 DEF Steady
<1>6. EntryOnce' /\ SentOnce'
  BY <1>1, <1>2 DEF World, EntryOnce, SentOnce
<1>7. StopOnce' /\ OneStop'
  BY <1>1, <1>2 DEF World, StopOnce, OneStop, TypeOK
<1>8. Truthful'
  BY <1>1, <1>5, TruthSteady DEF World
<1> QED
  BY <1>5, <1>6, <1>7, <1>8 DEF World

\* What lands late was sent, and nobody reads the venue for it.
LEMMA SurfacingWorld ==
  ASSUME TypeOK, World, NEW e \in Effects, Surfacing(e) PROVE World' /\ Steady
<1>1. UNCHANGED <<status, answer, sent, resent>>
  BY DEF Surfacing
<1>2. /\ e \in late /\ late' = late \ {e} /\ Land(e) /\ slipped \in BOOLEAN
      /\ slipped' = (slipped \/ status[e] # "PREPARED" \/ e \in resent \/ \E p \in Tasks : lock[p] = e)
  BY DEF Surfacing, TypeOK
<1>3. SentOnce'
  BY <1>1 DEF World, SentOnce
<1>4. CASE e \in Places
  <2>1. PICK o \in Opens : e = PlaceOf(o)
    BY <1>4, Names
  <2>2. /\ stops' = stops
        /\ \/ working' = working \cup {PlaceOf(o)} /\ held' = held
           \/ held' = held \cup {o} /\ working' = working
    BY <1>2, <2>1, Landings
  <2>3. \A u \in Opens : u # o => /\ PlaceOf(u) \in working' => PlaceOf(u) \in working
                                  /\ u \in held' => u \in held
                                  /\ PlaceOf(u) # e
    BY <2>1, <2>2, Names
  <2>4. \A u \in Opens : StopOf(u) # e
    BY <1>4, Names, Sorts
  <2>5. PlaceOf(o) \in sent /\ PlaceOf(o) \notin working /\ o \notin held
    BY <1>2, <2>1 DEF World, EntryOnce
  <2>6. Closable(o) => slipped'
    BY <1>2, <2>1 DEF Closable
  <2>7. \A u \in Opens : u # o => /\ Withdrawn(u) => Withdrawn(u)'
                                  /\ Over(u) => Over(u)'
                                  /\ Safe(u) => Safe(u)'
    BY <2>2, <2>3 DEF Withdrawn, Over, Safe
  <2>8. Steady
    BY <1>1, <1>2, <2>1, <2>3, <2>6, <2>7 DEF Steady
  <2>9. EntryOnce'
    BY <1>1, <1>2, <2>1, <2>2, <2>3, <2>5 DEF World, EntryOnce
  <2>10. StopOnce' /\ OneStop'
    BY <1>1, <1>2, <2>2, <2>4 DEF World, StopOnce, OneStop
  <2> QED
    BY <1>1, <1>3, <2>8, <2>9, <2>10, TruthSteady DEF World
<1>5. CASE e \in Exits
  <2>1. PICK o \in Orders : e = ExitOf(o)
    BY <1>5, Names
  <2>2. /\ stops' = stops /\ held' \subseteq held
        /\ \A u \in Opens : PlaceOf(u) \in working' => PlaceOf(u) \in working
        /\ \A u \in Opens : StopOf(u) # e /\ PlaceOf(u) # e
    BY <1>2, <1>5, <2>1, Landings, Names, Sorts
  <2>3. \A u \in Opens : /\ Withdrawn(u) => Withdrawn(u)'
                         /\ Over(u) => Over(u)'
                         /\ Safe(u) => Safe(u)'
    BY <2>2 DEF Withdrawn, Over, Safe
  <2>4. Steady
    BY <1>1, <1>2, <2>2, <2>3 DEF Steady
  <2>5. EntryOnce'
    BY <1>1, <1>2, <2>2 DEF World, EntryOnce
  <2>6. StopOnce' /\ OneStop'
    BY <1>1, <1>2, <2>2 DEF World, StopOnce, OneStop
  <2> QED
    BY <1>1, <1>3, <2>4, <2>5, <2>6, TruthSteady DEF World
<1>6. CASE e \in Stops
  <2>1. PICK o \in Opens : e = StopOf(o)
    BY <1>6, Names
  <2>2. /\ held' = held /\ working' = working
        /\ stops'[o] = stops[o] + 1 /\ \A u \in Opens : u # o => stops'[u] = stops[u]
    BY <1>2, <2>1, Landings DEF TypeOK
  <2>3. \A u \in Opens : /\ PlaceOf(u) # e
                         /\ u # o => StopOf(u) # e
    BY <1>6, <2>1, Names, Sorts
  <2>4. stops[o] \in Nat /\ (~slipped' => stops[o] = 0)
    BY <1>2, <2>1 DEF World, StopOnce, TypeOK
  <2>5. \A u \in Opens : /\ Withdrawn(u) => Withdrawn(u)'
                         /\ Over(u) => Over(u)'
                         /\ Safe(u) => Safe(u)'
    BY <2>2, <2>4 DEF Withdrawn, Over, Safe
  <2>6. Steady
    BY <1>1, <1>2, <2>3, <2>5 DEF Steady
  <2>7. EntryOnce'
    BY <1>1, <1>2, <2>2, <2>3 DEF World, EntryOnce
  <2>8. e \in sent
    BY <1>2, <2>1 DEF World, StopOnce
  <2>9. StopOnce'
    BY <1>1, <1>2, <2>1, <2>2, <2>3, <2>8 DEF World, StopOnce
  <2>10. OneStop'
    BY <1>1, <1>2, <2>2, <2>4 DEF World, OneStop
  <2> QED
    BY <1>1, <1>3, <2>6, <2>7, <2>9, <2>10, TruthSteady DEF World
<1> QED
  BY <1>2, <1>4, <1>5, <1>6 DEF TypeOK

LEMMA CallingWorld ==
  ASSUME TypeOK, World, NEW e \in Effects, Calling(e) PROVE World' /\ Steady
<1>1. UNCHANGED <<slipped, status, answer>> /\ slipped \in BOOLEAN
  BY DEF Calling, TypeOK
<1>2. sent' = sent \cup {e} /\ resent' = resent /\ e \notin sent /\ status[e] = "PREPARED"
  BY DEF Calling, Sent
<1>3. SentOnce'
  BY <1>2 DEF World, SentOnce
<1>4. CASE e \in Places
  <2>1. PICK o \in Opens : e = PlaceOf(o)
    BY <1>4, Names
  <2>2. PlaceOf(o) \notin working /\ PlaceOf(o) \notin late /\ o \notin held /\ ~Closable(o)
    BY <1>2, <2>1 DEF World, EntryOnce, Closable
  <2>3. \A u \in Opens : StopOf(u) # e /\ (u # o => PlaceOf(u) # e)
    BY <1>4, <2>1, Names, Sorts
  <2>4. stops' = stops /\ late' \in {late, late \cup {e}} /\ working' \in {working, working \cup {e}}
        /\ held' \in {held, held \cup {o}}
    BY <2>1, Landings DEF Calling, Reaching
  <2>5. /\ e \in late' => e \notin working' /\ o \notin held'
        /\ e \in working' => o \notin held'
    BY <2>1, <2>2, Landings DEF Calling, Reaching
  <2>6. \A u \in Opens : u # o => /\ Withdrawn(u) => Withdrawn(u)'
                                  /\ Over(u) => Over(u)'
                                  /\ Safe(u) => Safe(u)'
    BY <2>3, <2>4 DEF Withdrawn, Over, Safe
  <2>7. Steady
    BY <1>1, <1>2, <2>1, <2>2, <2>3, <2>4, <2>6 DEF Steady
  <2>8. EntryOnce'
    BY <1>2, <2>1, <2>3, <2>4, <2>5 DEF World, EntryOnce
  <2>9. StopOnce' /\ OneStop'
    BY <1>1, <1>2, <2>3, <2>4 DEF World, StopOnce, OneStop
  <2> QED
    BY <1>1, <1>3, <2>7, <2>8, <2>9, TruthSteady DEF World
<1>5. CASE e \in Exits
  <2>1. PICK o \in Orders : e = ExitOf(o)
    BY <1>5, Names
  <2>2. \A u \in Opens : StopOf(u) # e /\ PlaceOf(u) # e
    BY <1>5, Names, Sorts
  <2>3. stops' = stops /\ late' \in {late, late \cup {e}} /\ working' \in {working, working \cup {e}}
        /\ held' \in {held, {}}
    BY <2>1, Landings DEF Calling, Reaching
  <2>4. \A u \in Opens : /\ Withdrawn(u) => Withdrawn(u)'
                         /\ Over(u) => Over(u)'
                         /\ Safe(u) => Safe(u)'
    BY <2>2, <2>3 DEF Withdrawn, Over, Safe
  <2>5. Steady
    BY <1>1, <1>2, <2>2, <2>3, <2>4 DEF Steady
  <2>6. EntryOnce'
    BY <1>2, <2>2, <2>3 DEF World, EntryOnce
  <2>7. StopOnce' /\ OneStop'
    BY <1>1, <1>2, <2>2, <2>3 DEF World, StopOnce, OneStop
  <2> QED
    BY <1>1, <1>3, <2>5, <2>6, <2>7, TruthSteady DEF World
<1>6. CASE e \in Stops
  <2>1. PICK o \in Opens : e = StopOf(o)
    BY <1>6, Names
  <2>2. \A u \in Opens : PlaceOf(u) # e /\ (u # o => StopOf(u) # e)
    BY <1>6, <2>1, Names, Sorts
  <2>3. stops[o] = 0 /\ e \notin late
    BY <1>2, <2>1 DEF World, StopOnce
  <2>4. /\ held' = held /\ working' = working /\ late' \in {late, late \cup {e}}
        /\ \A u \in Opens : u # o => stops'[u] = stops[u]
        /\ stops'[o] \in {0, 1} /\ (e \in late' => stops'[o] = 0)
    BY <2>1, <2>3, Landings DEF Calling, Reaching, TypeOK
  <2>5. \A u \in Opens : /\ Withdrawn(u) => Withdrawn(u)'
                         /\ Over(u) => Over(u)'
                         /\ Safe(u) => Safe(u)'
    BY <2>3, <2>4 DEF Withdrawn, Over, Safe
  <2>6. Steady
    BY <1>1, <1>2, <2>2, <2>4, <2>5 DEF Steady
  <2>7. EntryOnce'
    BY <1>2, <2>2, <2>4 DEF World, EntryOnce
  <2>8. StopOnce' /\ OneStop'
    BY <1>1, <1>2, <2>1, <2>2, <2>4 DEF World, StopOnce, OneStop
  <2> QED
    BY <1>1, <1>3, <2>6, <2>7, <2>8, TruthSteady DEF World
<1> QED
  BY <1>4, <1>5, <1>6 DEF Calling

\* Recovery sends a stop that it found absent.
LEMMA ResendingWorld ==
  ASSUME TypeOK, World, Looked, NEW p \in Tasks, Resending(p) PROVE World' /\ Steady
<1> DEFINE e == doing[p]
<1>1. UNCHANGED <<slipped, status, answer>> /\ slipped \in BOOLEAN
  BY DEF Resending, TypeOK
<1>2. PICK o \in Opens : e = StopOf(o) /\ e[2] = o
  BY Names DEF Resending
<1>3. \A u \in Opens : PlaceOf(u) # e /\ (u # o => StopOf(u) # e)
  BY <1>2, Names, Sorts
<1>4. /\ sent' = sent \cup {e}
      /\ \A x \in Effects : x # e => (x \in resent' <=> x \in resent)
      /\ e \in sent => e \in resent'
      /\ resent \subseteq resent' /\ resent' \subseteq resent \cup {e}
  BY DEF Resending, Sent
<1>5. ~slipped => stops[o] = 0
  BY <1>2 DEF Looked, LookedAt, Resending
<1>6. /\ held' = held /\ working' = working /\ late' \in {late, late \cup {e}}
      /\ \A u \in Opens : u # o => stops'[u] = stops[u]
      /\ stops[o] \in Nat /\ stops'[o] \in {stops[o], stops[o] + 1}
      /\ \/ stops'[o] = stops[o]
         \/ late' = late
  BY <1>2, Landings DEF Resending, Reaching, TypeOK
<1>7. SentOnce'
  <2>1. e \notin Places \cup Exits
    BY <1>2, Names, Sorts
  <2> QED
    BY <1>4, <2>1 DEF World, SentOnce
<1>8. \A u \in Opens : /\ Withdrawn(u) => Withdrawn(u)'
                       /\ Over(u) => Over(u)'
                       /\ Safe(u) => Safe(u)'
  BY <1>6 DEF Withdrawn, Over, Safe
<1>9. Steady
  BY <1>1, <1>3, <1>4, <1>6, <1>8 DEF Steady
<1>10. EntryOnce'
  BY <1>3, <1>4, <1>6 DEF World, EntryOnce
<1>11. \A u \in Opens : StopOf(u) \in Effects
  BY Names, Sorts
<1>12. StopOnce'
  BY <1>2, <1>3, <1>4, <1>6, <1>11 DEF World, StopOnce
<1>13. OneStop'
  BY <1>1, <1>5, <1>6 DEF World, OneStop
<1> QED
  BY <1>1, <1>7, <1>9, <1>10, <1>12, <1>13, TruthSteady DEF World

LEMMA WorldStep == ASSUME TypeOK, World, Looked, WorldMove PROVE World' /\ Steady
  BY StillWorld, PreparingWorld, SettlingWorld, PassingWorld, SurfacingWorld, CallingWorld,
     TriggeringWorld, ResendingWorld DEF WorldMove

-----------------------------------------------------------------------------
(* What a step does to the tasks *)

LEMMA TaskNames == Tasks = {"orders", "recovery"} /\ "orders" \in Tasks /\ "recovery" \in Tasks
  BY DEF Tasks

\* The effect that a recovery procedure is about.
LEMMA InHand ==
  ASSUME TypeOK, Handles, Recovers, NEW p \in Tasks
  PROVE  /\ at[p] \in {"rplace", "rplace flat"} => doing[p] \in Places
         /\ at[p] \in {"rstop", "rstop send", "rstop confirm"} => doing[p] \in Stops
         /\ at[p] = "rclose" => doing[p] \in Exits
         /\ at[p] \in {"cancelling", "cancel verify"} => doing[p] \in Cancels
<1>1. CASE p = "recovery"
  BY <1>1 DEF Recovers
<1>2. CASE p = "orders"
  <2>0. /\ \A o \in Opens : PlaceOf(o) \in Places /\ StopOf(o) \in Stops
        /\ \A o \in Orders : ExitOf(o) \in Exits
    BY Names
  <2>5. /\ \A o \in Opens : CancelOf(PlaceOf(o)) \in Cancels
        /\ \A o \in Orders : CancelOf(ExitOf(o)) \in Cancels
    BY <2>0, Names
  <2>1. at["orders"] \in {"rplace", "rplace flat"} => doing["orders"] \in Places
    BY <2>0 DEF Handles, Entering
  <2>2. at["orders"] \in {"rstop", "rstop send", "rstop confirm"} => doing["orders"] \in Stops
    BY <2>0 DEF Handles, Protecting
  <2>3. at["orders"] = "rclose" => doing["orders"] \in Exits
    BY <2>0 DEF Handles
  <2>4. at["orders"] \in Cancelling => doing["orders"] \in Cancels
    BY <2>5 DEF Handles, Cancelling
  <2> QED
    BY <1>2, <2>1, <2>2, <2>3, <2>4 DEF Cancelling
<1> QED
  BY <1>1, <1>2, TaskNames

Alone(p) == \A q \in Tasks \ {p} : at'[q] = at[q] /\ doing'[q] = doing[q] /\ lock'[q] = lock[q]

\* Task p goes to a place.
LEMMA Going ==
  ASSUME TypeOK, NEW p \in Tasks, NEW a, Go(p, a)
  PROVE  at'[p] = a /\ \A q \in Tasks \ {p} : at'[q] = at[q]
  BY DEF TypeOK, Go

LEMMA LeavingTask ==
  ASSUME TypeOK, NEW p \in Tasks, NEW a, Leave(p, a)
  PROVE  /\ Alone(p) /\ lock'[p] = None
         /\ at'[p] = IF p = "recovery" THEN "scan" ELSE a
         /\ doing'[p] = IF p = "orders" /\ a = "cancelled" THEN doing[p] ELSE None
  BY DEF TypeOK, Leave, Alone

\* An exception in the handler: the entry is ambiguous, its protection failed, the
\* exit is looked at, or the delivery stays pending.
LEMMA RaiseHandler ==
  ASSUME TypeOK, Raise("orders")
  PROVE  /\ Alone("orders") /\ lock'["orders"] = None /\ doing'["orders"] = None
         /\ \/ /\ at["orders"] \in {"place", "send place", "confirm place", "rplace", "rplace flat"}
               /\ at'["orders"] = "ambiguous" /\ report' = "ambiguous"
               /\ order' = order /\ reply' = reply
            \/ /\ at["orders"] \in {"protect", "send stop", "confirm stop", "rstop", "rstop send"}
               /\ at'["orders"] = "compensate" /\ report' = report
               /\ order' = order /\ reply' = reply
            \/ /\ at["orders"] \in {"exit", "send exit", "confirm exit", "rclose"}
               /\ at'["orders"] = "lost" /\ report' = report
               /\ order' = order /\ reply' = reply
            \/ /\ at'["orders"] = "idle" /\ report' = "none" /\ order' = None /\ reply' = "none"
<1>1. Leave("orders", OnError(at["orders"]))
  BY DEF Raise
<1>2. OnError(at["orders"]) # "cancelled"
  BY DEF OnError
<1>3. /\ Alone("orders") /\ lock'["orders"] = None /\ doing'["orders"] = None
      /\ at'["orders"] = OnError(at["orders"])
  BY <1>1, <1>2, TaskNames, LeavingTask
<1>4. /\ report' = IF Pending("orders") THEN "none"
                   ELSE IF OnError(at["orders"]) = "ambiguous" THEN "ambiguous" ELSE report
      /\ order' = IF Pending("orders") THEN None ELSE order
      /\ reply' = IF Pending("orders") THEN "none" ELSE reply
      /\ Pending("orders") <=> OnError(at["orders"]) = "idle"
  BY DEF Raise, Pending
<1>5. \/ /\ at["orders"] \in {"place", "send place", "confirm place", "rplace", "rplace flat"}
         /\ OnError(at["orders"]) = "ambiguous"
      \/ /\ at["orders"] \in {"protect", "send stop", "confirm stop", "rstop", "rstop send"}
         /\ OnError(at["orders"]) = "compensate"
      \/ /\ at["orders"] \in {"exit", "send exit", "confirm exit", "rclose"}
         /\ OnError(at["orders"]) = "lost"
      \/ OnError(at["orders"]) = "idle"
  BY DEF OnError
<1> QED
  BY <1>3, <1>4, <1>5

LEMMA RaiseRecovery ==
  ASSUME TypeOK, Raise("recovery")
  PROVE  /\ Alone("recovery") /\ lock'["recovery"] = None /\ doing'["recovery"] = None
         /\ at'["recovery"] = "scan" /\ report' = report /\ order' = order /\ reply' = reply
<1>1. Leave("recovery", OnError(at["recovery"])) /\ ~Pending("recovery")
  BY DEF Raise, Pending
<1>2. report' = report /\ order' = order /\ reply' = reply
  BY <1>1 DEF Raise
<1> QED
  BY <1>1, <1>2, TaskNames, LeavingTask

LEMMA RaiseStill == ASSUME NEW p \in Tasks, Raise(p)
                    PROVE  Still /\ UNCHANGED <<venue, journal, bus, cache, control, scan, wire>>
  BY DEF Raise, Still, journal, wire, venue

\* A settled row keeps its answer; another is settled with the new one.
LEMMA Settled ==
  ASSUME TypeOK, NEW e \in Effects, NEW a \in Replies, Settle(e, a), Honest(e, a), status[e] # "NONE",
         UNCHANGED <<venue, sent, resent>>
  PROVE  WorldMove /\ fresh' = fresh
<1>1. CASE Known(e)
  <2>1. Still /\ fresh' = fresh
    BY <1>1 DEF Settle, Still, journal
  <2> QED
    BY <2>1 DEF WorldMove
<1>2. CASE ~Known(e)
  <2>1. status[e] = "PREPARED"
    BY <1>2 DEF Known, TypeOK
  <2>2. Settling(e, a) /\ fresh' = fresh
    BY <1>2, <2>1 DEF Settle, Settling
  <2> QED
    BY <2>2 DEF WorldMove
<1> QED
  BY <1>1, <1>2

-----------------------------------------------------------------------------
(* Every step moves the venue and the journal in one of these ways *)

\* Parts of the invariant that the moves rest on
Base == TypeOK /\ Handles /\ Recovers /\ Locked /\ Ripe /\ Prepared /\ World /\ Looked /\ EntryKnown

LEMMA VenueMoves ==
  ASSUME Base, Venue \/ \E e \in Effects : LandLate(e)
  PROVE  WorldMove
<1>1. ASSUME NEW e \in Places \cup Exits, Fill(e) \/ Die(e) PROVE WorldMove
  <2>1. e \in Effects /\ (e \in Places <=> e[1] = "place")
    BY Names, Sorts
  <2>2. Passing(e)
    BY <1>1, <2>1 DEF Fill, Die, Passing, journal, wire
  <2> QED
    BY <2>1, <2>2 DEF WorldMove
<1>2. ASSUME NEW o \in Opens, Trigger(o) PROVE WorldMove
  <2>1. Triggering(o)
    BY <1>2 DEF Trigger, Triggering, journal, wire
  <2> QED
    BY <2>1 DEF WorldMove
<1>3. ASSUME NEW e \in Effects, LandLate(e) PROVE WorldMove
  <2>1. Surfacing(e)
    BY <1>3 DEF LandLate, Surfacing, journal, wire
  <2> QED
    BY <2>1 DEF WorldMove
<1> QED
  BY <1>1, <1>2, <1>3 DEF Venue

\* The handler sends what it has just prepared and nobody else is about.
LEMMA CallMoves ==
  ASSUME Base, NEW e \in Effects, Call(e), e \in Places \cup Stops \cup Exits,
         e \in fresh, status[e] = "PREPARED", e \notin sent, at["orders"] \in Sending
  PROVE  WorldMove
<1>1. e # doing["recovery"]
  BY DEF Base, Ripe
<1>2. Reaching(e)
  BY DEF Call, Reaching
<1>3. Sent(e) /\ UNCHANGED <<slipped, status, answer, fresh>>
  BY DEF Call, journal
<1>4. Calling(e)
  BY <1>1, <1>2, <1>3 DEF Calling
<1> QED
  BY <1>4 DEF WorldMove

LEMMA SendMoves == ASSUME Base, SendPlace \/ SendStop \/ SendExit PROVE WorldMove
<1>1. CASE SendPlace
  <2>1. order \in Opens /\ PlaceOf(order) \in Places /\ PlaceOf(order) \in Effects
    BY <1>1, Names, Sorts DEF SendPlace, Base, Handles, Entering
  <2>2. PlaceOf(order) \in fresh /\ status[PlaceOf(order)] = "PREPARED" /\ PlaceOf(order) \notin sent
    BY <1>1 DEF SendPlace, Base, Prepared
  <2> QED
    BY <1>1, <2>1, <2>2, CallMoves, MineNames DEF SendPlace, Sending
<1>2. CASE SendStop
  <2>1. order \in Opens /\ StopOf(order) \in Stops /\ StopOf(order) \in Effects
    BY <1>2, Names, Sorts DEF SendStop, Base, Handles, Protecting
  <2>2. StopOf(order) \in fresh /\ status[StopOf(order)] = "PREPARED" /\ StopOf(order) \notin sent
    BY <1>2 DEF SendStop, Base, Prepared
  <2> QED
    BY <1>2, <2>1, <2>2, CallMoves, MineNames DEF SendStop, Sending
<1>3. CASE SendExit
  <2>1. order \in Orders /\ ExitOf(order) \in Exits /\ ExitOf(order) \in Effects
    BY <1>3, Names, Sorts DEF SendExit, Base, Handles
  <2>2. ExitOf(order) \in fresh /\ status[ExitOf(order)] = "PREPARED" /\ ExitOf(order) \notin sent
    BY <1>3 DEF SendExit, Base, Prepared
  <2> QED
    BY <1>3, <2>1, <2>2, CallMoves, MineNames DEF SendExit, Sending
<1> QED
  BY <1>1, <1>2, <1>3

\* A stop is prepared for an entry whose answer is settled.
LEMMA PrepareMoves ==
  ASSUME Base, NEW e \in Effects, IsNew(e), Prepare(e), \A o \in Opens : e = StopOf(o) => Closable(o),
         UNCHANGED <<venue, sent, resent>>
  PROVE  WorldMove
<1>1. Preparing(e)
  BY DEF IsNew, Prepare, Preparing
<1> QED
  BY <1>1 DEF WorldMove

LEMMA MutateMoves ==
  ASSUME Base, PlaceOrder \/ SetStop \/ ClosePosition
  PROVE  WorldMove
<1>1. ASSUME NEW e \in Effects, NEW a, NEW s, NEW k, NEW r, Mutate(a, e, s, k, r),
             \A o \in Opens : e = StopOf(o) => Closable(o)
      PROVE  WorldMove
  <2>1. UNCHANGED <<venue, sent, resent>>
    BY <1>1 DEF Mutate, wire
  <2>2. CASE IsNew(e) /\ Prepare(e)
    BY <1>1, <2>1, <2>2, PrepareMoves
  <2>3. CASE UNCHANGED journal
    <3>1. Still
      BY <2>1, <2>3 DEF Still, journal
    <3> QED
      BY <3>1 DEF WorldMove
  <2> QED
    BY <1>1, <2>2, <2>3 DEF Mutate
<1>2. CASE PlaceOrder
  <2>1. order \in Opens
    BY <1>2 DEF PlaceOrder, Mutate, Base, Handles, Entering
  <2>2. PlaceOf(order) \in Effects /\ \A o \in Opens : PlaceOf(order) # StopOf(o)
    BY <2>1, Names, Sorts
  <2> QED
    BY <1>1, <1>2, <2>2, MineNames DEF PlaceOrder
<1>3. CASE SetStop
  <2>1. order \in Opens /\ Closable(order)
    BY <1>3 DEF SetStop, Mutate, Base, Handles, EntryKnown, Protecting
  <2>2. StopOf(order) \in Effects /\ \A o \in Opens : StopOf(order) = StopOf(o) => o = order
    BY <2>1, Names, Sorts
  <2>3. \A o \in Opens : StopOf(order) = StopOf(o) => Closable(o)
    BY <2>1, <2>2
  <2> QED
    BY <1>1, <1>3, <2>2, <2>3, MineNames DEF SetStop
<1>4. CASE ClosePosition
  <2>1. order \in Orders
    BY <1>4 DEF ClosePosition, Mutate, Base, Handles
  <2>2. ExitOf(order) \in Effects /\ \A o \in Opens : ExitOf(order) # StopOf(o)
    BY <2>1, Names, Sorts
  <2> QED
    BY <1>1, <1>4, <2>2, MineNames DEF ClosePosition
<1> QED
  BY <1>2, <1>3, <1>4

\* The handler confirms the answer it has just got.
LEMMA ConfirmMoves ==
  ASSUME Base, ConfirmPlace \/ ConfirmStop \/ ConfirmExit PROVE WorldMove
<1>1. ASSUME NEW e \in Effects, NEW a, NEW n, Confirm(a, e, n), status[e] # "NONE", Honest(e, reply)
      PROVE  WorldMove
  <2>1. Settle(e, reply) /\ UNCHANGED <<venue, sent, resent>> /\ reply \in Replies
    BY <1>1 DEF Confirm, wire, Base, TypeOK
  <2> QED
    BY <1>1, <2>1, Settled DEF Base
<1>2. CASE ConfirmPlace
  <2>1. order \in Opens /\ at["orders"] = "confirm place" /\ status[PlaceOf(order)] # "NONE"
    BY <1>2 DEF ConfirmPlace, Confirm, Base, Handles, Entering, Prepared
  <2>2. /\ PlaceOf(order) \in Effects
        /\ \A o \in Opens : PlaceOf(order) # StopOf(o) /\ (PlaceOf(order) = PlaceOf(o) => o = order)
    BY <2>1, Apart
  <2>3. Honest(PlaceOf(order), reply)
    BY <2>1, <2>2 DEF Base, EntryKnown, Honest
  <2> QED
    BY <1>1, <1>2, <2>1, <2>2, <2>3, MineNames DEF ConfirmPlace
<1>3. CASE ConfirmStop
  <2>1. order \in Opens /\ at["orders"] = "confirm stop" /\ status[StopOf(order)] # "NONE"
    BY <1>3 DEF ConfirmStop, Confirm, Base, Handles, Protecting, Prepared
  <2>2. /\ StopOf(order) \in Effects
        /\ \A o \in Opens : StopOf(order) # PlaceOf(o) /\ (StopOf(order) = StopOf(o) => o = order)
    BY <2>1, Apart
  <2>3. Honest(StopOf(order), reply)
    BY <2>1, <2>2 DEF Base, EntryKnown, Honest
  <2> QED
    BY <1>1, <1>3, <2>1, <2>2, <2>3, MineNames DEF ConfirmStop
<1>4. CASE ConfirmExit
  <2>1. order \in Orders /\ at["orders"] = "confirm exit" /\ status[ExitOf(order)] # "NONE"
    BY <1>4 DEF ConfirmExit, Confirm, Base, Handles, Prepared
  <2>2. /\ ExitOf(order) \in Effects
        /\ \A o \in Opens : ExitOf(order) # PlaceOf(o) /\ ExitOf(order) # StopOf(o)
    BY <2>1, Names, Sorts
  <2>3. Honest(ExitOf(order), reply)
    BY <2>2 DEF Honest
  <2> QED
    BY <1>1, <1>4, <2>1, <2>2, <2>3, MineNames DEF ConfirmExit
<1> QED
  BY <1>2, <1>3, <1>4

\* A recovery procedure is about a row that was prepared.
LEMMA InHandKnown ==
  ASSUME Base, NEW p \in Tasks,
         at[p] \in {"rplace", "rplace flat", "rstop", "rstop send", "rstop confirm", "rclose",
                    "cancelling", "cancel verify"}
  PROVE  doing[p] \in Effects /\ status[doing[p]] # "NONE"
<1>1. doing[p] \in Effects
  BY InHand, Sorts DEF Base
<1>2. CASE p = "orders"
  BY <1>1, <1>2 DEF Base, Prepared
<1>3. CASE p = "recovery"
  BY <1>1, <1>3 DEF Base, Ripe
<1> QED
  BY <1>1, <1>2, <1>3, TaskNames

LEMMA ReconcileMoves ==
  ASSUME Base, NEW p \in Tasks, NEW a \in Replies, NEW n, Reconcile(p, a, n), Honest(doing[p], a),
         at[p] \in {"rplace", "rplace flat", "rstop", "rstop send", "rstop confirm", "rclose",
                    "cancelling", "cancel verify"}
  PROVE  WorldMove
<1>1. doing[p] \in Effects /\ status[doing[p]] # "NONE"
  BY InHandKnown
<1>2. Settle(doing[p], a) /\ UNCHANGED <<venue, sent, resent>>
  BY DEF Reconcile, wire
<1> QED
  BY <1>1, <1>2, Settled DEF Base

LEMMA WithdrawMoves ==
  ASSUME NEW p \in Tasks, NEW e \in working, e \in Effects, NEW n, Withdraw(p, e, n) PROVE WorldMove
<1>1. Passing(e)
  BY DEF Withdraw, Passing, journal, wire
<1> QED
  BY <1>1 DEF WorldMove

LEMMA StillMoves ==
  ASSUME UNCHANGED <<venue, journal, wire>> PROVE WorldMove
<1>1. Still
  BY DEF Still, venue, journal, wire
<1> QED
  BY <1>1 DEF WorldMove

LEMMA RecoverPlaceMoves == ASSUME Base, NEW p \in Tasks, RecoverPlace(p) PROVE WorldMove
<1>1. CASE Locking(p, "rplace") \/ (Owned(p, "rplace") /\ doing[p] \notin working /\ Go(p, "rplace flat")
                                     /\ UNCHANGED <<venue, journal, wire>>)
  BY <1>1, StillMoves DEF Locking
<1>2. CASE Owned(p, "rplace") /\ doing[p] \in working /\ Withdraw(p, doing[p], "rplace")
  BY <1>2, InHandKnown, WithdrawMoves DEF Owned
<1>3. CASE Owned(p, "rplace flat") /\ PositionFlat /\ Reconcile(p, "dead", "classify")
  <2>1. at[p] = "rplace flat" /\ held = {} /\ doing[p] \in Places
    BY <1>3, InHand DEF Owned, PositionFlat, Base
  <2>6. doing[p][2] \in Opens /\ doing[p] = PlaceOf(doing[p][2])
    BY <2>1, Names
  <2>2. PICK o \in Opens : doing[p] = PlaceOf(o)
    BY <2>6
  <2>3. \A u \in Opens : PlaceOf(o) # StopOf(u) /\ (PlaceOf(o) = PlaceOf(u) => u = o)
    BY Apart
  <2>4. ~slipped => Over(o)
    BY <2>1, <2>2 DEF Base, Looked, LookedAt, Over, Withdrawn
  <2>5. Honest(doing[p], "dead")
    BY <2>2, <2>3, <2>4 DEF Honest, Acks
  <2> QED
    BY <1>3, <2>1, <2>5, ReconcileMoves DEF Replies, Acks
<1>4. CASE Raise(p)
  BY <1>4, RaiseStill, StillMoves
<1> QED
  BY <1>1, <1>2, <1>3, <1>4 DEF RecoverPlace

LEMMA RecoverCloseMoves == ASSUME Base, NEW p \in Tasks, RecoverClose(p) PROVE WorldMove
<1>1. CASE Locking(p, "rclose")
  BY <1>1, StillMoves DEF Locking
<1>2. ASSUME NEW a \in {"bad", "ok"}, Owned(p, "rclose"), Reconcile(p, a, "exited") PROVE WorldMove
  <2>1. at[p] = "rclose" /\ doing[p] \in Exits
    BY <1>2, InHand DEF Owned, Base
  <2>2. \A u \in Opens : doing[p] # StopOf(u) /\ doing[p] # PlaceOf(u)
    BY <2>1, Names, Sorts
  <2>3. Honest(doing[p], a)
    BY <2>2 DEF Honest
  <2> QED
    BY <1>2, <2>1, <2>3, ReconcileMoves DEF Replies, Acks
<1>3. CASE Raise(p)
  BY <1>3, RaiseStill, StillMoves
<1> QED
  BY <1>1, <1>2, <1>3 DEF RecoverClose

LEMMA ResendMoves ==
  ASSUME Base, NEW p \in Tasks, at[p] = "rstop send", lock[p] = doing[p],
         Reaching(doing[p]), Sent(doing[p]), UNCHANGED <<slipped, journal>>,
         at'[p] # "rstop send", \A q \in Tasks \ {p} : at'[q] = at[q]
  PROVE  WorldMove
<1>1. doing[p] \in Stops /\ status[doing[p]] # "NONE"
  BY InHand, InHandKnown DEF Base
<1>2. at' # at
  OBVIOUS
<1>3. Resending(p)
  BY <1>1, <1>2 DEF Resending, journal
<1> QED
  BY <1>3 DEF WorldMove

LEMMA RecoverStopMoves == ASSUME Base, NEW p \in Tasks, RecoverStop(p) \/ StopLost(p) PROVE WorldMove
<1>1. CASE Locking(p, "rstop")
  BY <1>1, StillMoves DEF Locking
<1>2. ASSUME at[p] \in {"rstop", "rstop confirm"}, NEW a,
             a = "flat" \/ at[p] = "rstop confirm" \/ stops[doing[p][2]] > 0
      PROVE  Honest(doing[p], a)
  <2>1. doing[p] \in Stops
    BY <1>2, InHand DEF Base
  <2>2. PICK o \in Opens : doing[p] = StopOf(o) /\ doing[p][2] = o
    BY <2>1, Names
  <2>3. \A u \in Opens : StopOf(o) # PlaceOf(u) /\ (StopOf(o) = StopOf(u) => u = o)
    BY Apart
  <2>4. a # "flat" /\ ~slipped => Safe(o)
    BY <1>2, <2>2 DEF Base, Looked, LookedAt, Safe
  <2> QED
    BY <2>2, <2>3, <2>4 DEF Honest
<1>3. CASE /\ Owned(p, "rstop send") /\ Land(doing[p]) /\ Sent(doing[p]) /\ Go(p, "rstop confirm")
           /\ UNCHANGED <<late, slipped, journal, bus, engine, control, recovery, doing, lock>>
  BY <1>3, Going, ResendMoves DEF Owned, Reaching, Base
<1>4. CASE StopLost(p)
  <2>1. /\ at[p] = "rstop send" /\ lock[p] = doing[p] /\ Leave(p, "compensate")
        /\ Reaching(doing[p]) /\ Sent(doing[p]) /\ UNCHANGED <<slipped, journal>>
    BY <1>4 DEF StopLost, Owned, Reaching
  <2>2. Alone(p) /\ at'[p] = IF p = "recovery" THEN "scan" ELSE "compensate"
    BY <2>1, LeavingTask DEF Base
  <2>3. at'[p] # "rstop send" /\ \A q \in Tasks \ {p} : at'[q] = at[q]
    BY <2>2 DEF Alone
  <2> QED
    BY <2>1, <2>3, ResendMoves
<1>5. CASE Owned(p, "rstop") /\ stops[doing[p][2]] > 0 /\ Reconcile(p, "ok", "stopped")
  BY <1>2, <1>5, ReconcileMoves DEF Owned, Replies
<1>6. CASE Owned(p, "rstop") /\ Reconcile(p, "flat", "compensate")
  BY <1>2, <1>6, ReconcileMoves DEF Owned, Replies
<1>7. CASE Owned(p, "rstop confirm") /\ Reconcile(p, "ok", "stopped")
  BY <1>2, <1>7, ReconcileMoves DEF Owned, Replies
<1>8. CASE /\ Owned(p, "rstop") /\ stops[doing[p][2]] = 0 /\ ~PositionFlat /\ Go(p, "rstop send")
           /\ UNCHANGED <<venue, journal, bus, engine, control, recovery, doing, lock, wire>>
  BY <1>8, StillMoves
<1>9. CASE RecoverStop(p)
  <2> USE <1>9
  <2>1. \/ Locking(p, "rstop")
        \/ Owned(p, "rstop") /\ stops[doing[p][2]] > 0 /\ Reconcile(p, "ok", "stopped")
        \/ Owned(p, "rstop") /\ Reconcile(p, "flat", "compensate")
        \/ /\ Owned(p, "rstop") /\ stops[doing[p][2]] = 0 /\ ~PositionFlat /\ Go(p, "rstop send")
           /\ UNCHANGED <<venue, journal, bus, engine, control, recovery, doing, lock, wire>>
        \/ /\ Owned(p, "rstop send") /\ Land(doing[p]) /\ Sent(doing[p]) /\ Go(p, "rstop confirm")
           /\ UNCHANGED <<late, slipped, journal, bus, engine, control, recovery, doing, lock>>
        \/ Owned(p, "rstop confirm") /\ Reconcile(p, "ok", "stopped")
    BY Zenon DEF RecoverStop
  <2> QED
    BY <2>1, <1>1, <1>3, <1>5, <1>6, <1>7, <1>8, Zenon
<1> QED
  BY <1>4, <1>9

LEMMA CancelMoves == ASSUME Base, NEW p \in Tasks, Cancel(p) PROVE WorldMove
<1>1. CASE Locking(p, "cancelling")
  BY <1>1, StillMoves DEF Locking
<1>2. ASSUME at[p] \in {"cancelling", "cancel verify"}, Reconcile(p, "ok", "cancelled") PROVE WorldMove
  <2>1. doing[p] \in Cancels
    BY <1>2, InHand DEF Base
  <2>2. \A u \in Opens : doing[p] # StopOf(u) /\ doing[p] # PlaceOf(u)
    BY <2>1, Names, Sorts
  <2>3. Honest(doing[p], "ok")
    BY <2>2 DEF Honest
  <2> QED
    BY <1>2, <2>3, ReconcileMoves DEF Replies, Acks
<1>3. CASE doing[p][2] \in working /\ Withdraw(p, doing[p][2], "cancel verify")
  <2>1. doing[p][2] \in Effects
    BY <1>3, Sorts DEF Base, TypeOK
  <2> QED
    BY <1>3, <2>1, WithdrawMoves
<1> QED
  BY <1>1, <1>2, <1>3 DEF Cancel, Owned

LEMMA CancelOrderMoves == ASSUME Base, CancelOrder PROVE WorldMove
<1> DEFINE e == <<"cancel", Mine(IF Compensating THEN "place" ELSE "exit")>>
<1>1. e \in Effects /\ \A o \in Opens : e # StopOf(o)
  <2>1. CASE Compensating
    <3>1. order \in Opens /\ PlaceOf(order) \in Places
      BY <2>1, Names DEF Compensating, Base, Handles, Protecting
    <3>2. e = CancelOf(PlaceOf(order))
      BY <2>1, MineNames DEF CancelOf
    <3>3. e \in Cancels
      BY <3>1, <3>2, Names
    <3> QED
      BY <3>3, Apart, Sorts
  <2>2. CASE ~Compensating
    <3>1. order \in Orders /\ ExitOf(order) \in Exits
      BY <2>2, Names DEF CancelOrder, Base, Handles
    <3>2. e = CancelOf(ExitOf(order))
      BY <2>2, MineNames DEF CancelOf
    <3>3. e \in Cancels
      BY <3>1, <3>2, Names
    <3> QED
      BY <3>3, Apart, Sorts
  <2> QED
    BY <2>1, <2>2
<1>2. UNCHANGED <<venue, wire>> /\ ((IsNew(e) /\ Prepare(e)) \/ UNCHANGED journal)
  BY DEF CancelOrder
<1> HIDE DEF e
<1>3. CASE IsNew(e) /\ Prepare(e)
  BY <1>1, <1>2, <1>3, PrepareMoves DEF wire
<1> QED
  BY <1>2, <1>3, StillMoves

LEMMA HandlingMoves == ASSUME Base, Handling PROVE WorldMove
<1>1. ASSUME NEW o \in Orders, Take(o) PROVE WorldMove
  <2>1. Still
    BY <1>1 DEF Take, Still, journal, venue
  <2> QED
    BY <2>1 DEF WorldMove
<1>2. CASE Classify \/ Protected \/ Flat \/ Tidy \/ Complete
  BY <1>2, StillMoves DEF Classify, Protected, Flat, Tidy, Complete, Engine
<1>3. CASE Cancelled \/ Active
  <2>1. Raise("orders") \/ UNCHANGED <<venue, journal, wire>>
    BY <1>3 DEF Cancelled, Active, Engine
  <2> QED
    BY <2>1, RaiseStill, StillMoves, TaskNames
<1>4. CASE Exited \/ Finish
  <2>1. Raise("orders") \/ UNCHANGED <<venue, journal, wire>>
    BY <1>4 DEF Exited, Finish, Engine
  <2> QED
    BY <2>1, RaiseStill, StillMoves, TaskNames
<1>5. CASE Publish \/ Ack
  BY <1>5, StillMoves DEF Publish, Ack
<1> QED
  BY <1>1, <1>2, <1>3, <1>4, <1>5, MutateMoves, ConfirmMoves, CancelOrderMoves DEF Handling

LEMMA RecoveringMoves == ASSUME Base, Recovering PROVE WorldMove
<1>1. CASE Scan \/ Scanned
  BY <1>1, StillMoves DEF Scan, Scanned
<1>2. ASSUME NEW e \in Effects, RecoverEffect(e) PROVE WorldMove
  BY <1>2, StillMoves DEF RecoverEffect
<1> QED
  BY <1>1, <1>2, RecoverPlaceMoves, RecoverCloseMoves, RecoverStopMoves, CancelMoves DEF Recovering

LEMMA NextMoves == ASSUME Base, Next PROVE WorldMove
<1>1. CASE Ripen
  <2>1. Still
    BY <1>1 DEF Ripen, Still, wire, venue
  <2> QED
    BY <2>1 DEF WorldMove
<1>2. CASE SetMode \/ ScanFails \/ Crash
  BY <1>2, StillMoves DEF SetMode, ScanFails, Crash
<1>3. ASSUME NEW p \in Tasks, Fail(p) PROVE WorldMove
  BY <1>3, RaiseStill, StillMoves DEF Fail
<1> QED
  BY <1>1, <1>2, <1>3, VenueMoves, HandlingMoves, RecoveringMoves, SendMoves, RecoverStopMoves DEF Next

-----------------------------------------------------------------------------
(* The other task *)

\* Only what is new is prepared, and only what was prepared is sent.
LEMMA Touched ==
  ASSUME TypeOK, WorldMove
  PROVE  /\ \A e \in fresh' : e \in fresh \/ (e \in Effects /\ status[e] = "NONE")
         /\ \A e \in sent' : e \in sent \/ status[e] # "NONE"
         /\ at["orders"] # "idle" => fresh \subseteq fresh'
<1>1. CASE Still
  BY <1>1 DEF Still
<1>2. ASSUME NEW e \in Effects, Preparing(e)
      PROVE  status[e] = "NONE" /\ fresh' = fresh \cup {e} /\ sent' = sent
  BY <1>2 DEF Preparing
<1>3. ASSUME NEW e \in Effects, NEW a \in Replies, Settling(e, a) PROVE fresh' = fresh /\ sent' = sent
  BY <1>3 DEF Settling
<1>4. ASSUME NEW e \in Effects, Passing(e) \/ Surfacing(e) PROVE fresh' = fresh /\ sent' = sent
  BY <1>4 DEF Passing, Surfacing
<1>5. ASSUME NEW e \in Effects, Calling(e)
      PROVE  fresh' = fresh /\ sent' = sent \cup {e} /\ status[e] # "NONE"
  BY <1>5 DEF Calling, Sent
<1>6. ASSUME NEW o \in Opens, Triggering(o) PROVE fresh' = fresh /\ sent' = sent
  BY <1>6 DEF Triggering
<1>7. ASSUME NEW p \in Tasks, Resending(p)
      PROVE  fresh' = fresh /\ sent' = sent \cup {doing[p]} /\ status[doing[p]] # "NONE"
  BY <1>7 DEF Resending, Sent
<1> QED
  BY <1>1, <1>2, <1>3, <1>4, <1>5, <1>6, <1>7 DEF WorldMove

\* A step of the handler leaves recovery and its effects alone.
LEMMA RecoveryKept ==
  ASSUME TypeOK, Recovers, Ripe, WorldMove, Steady, Alone("orders"), scan' = scan
  PROVE  Recovers' /\ Ripe'
<1>1. at'["recovery"] = at["recovery"] /\ doing'["recovery"] = doing["recovery"]
  BY TaskNames DEF Alone
<1>2. Recovers'
  BY <1>1 DEF Recovers
<1>3. /\ \A e \in fresh' : e \in fresh \/ (e \in Effects /\ status[e] = "NONE")
      /\ \A e \in sent' : e \in sent \/ status[e] # "NONE"
  BY Touched
<1>4. \A e \in Effects : status[e] # "NONE" => status'[e] # "NONE"
  BY DEF Steady
<1>5. Ripe'
  BY <1>1, <1>3, <1>4 DEF Ripe
<1> QED
  BY <1>2, <1>5

\* The invariant of the handler of orders
Handler == Handles /\ Prepared /\ EntryKnown /\ ExitKnown /\ Ended

LEMMA GoodKept ==
  ASSUME Steady, dropped \subseteq dropped', ~slipped', NEW o \in Opens, Good(o),
         status[PlaceOf(o)] = "NONE" => status'[PlaceOf(o)] = "NONE"
  PROVE  Good(o)'
<1>1. PlaceOf(o) \in Effects
  BY Apart
<1> QED
  BY <1>1 DEF Steady, Good, Closable

\* A step that leaves the handler where it is, and does not touch what it sends,
\* leaves it what it knows.
LEMMA HandlerKept ==
  ASSUME TypeOK, Handler, WorldMove, Steady,
         UNCHANGED <<order, report, reply, cache, acked, dropped>>,
         at'["orders"] = at["orders"], doing'["orders"] = doing["orders"],
         \A e \in fresh : status'[e] = status[e] /\ (e \in sent' => e \in sent),
         \A e \in Effects : status[e] = "NONE" => status'[e] = "NONE"
  PROVE  Handler'
<1>1. order' = order /\ report' = report /\ reply' = reply /\ cache' = cache /\ acked' = acked
      /\ dropped' = dropped
  OBVIOUS
<1>2. Handles'
  BY <1>1 DEF Handler, Handles
<1>3. at["orders"] # "idle" => fresh \subseteq fresh'
  BY Touched
<1>4. /\ slipped => slipped'
      /\ \A e \in Effects : status[e] # "NONE" => status'[e] # "NONE"
  BY DEF Steady
<1>5. Prepared'
  <2>1. doing["orders"] \in Effects \cup {None}
    BY TaskNames DEF TypeOK
  <2>2. at["orders"] \in {"rplace", "rplace flat", "rstop", "rstop send", "rstop confirm", "rclose",
                          "cancelling", "cancel verify"} => doing["orders"] \in Effects
    <3>1. at["orders"] # "idle" => order \in Orders
      BY DEF Handler, Handles
    <3>2. \A o \in Orders : ExitOf(o) \in Effects /\ CancelOf(ExitOf(o)) \in Effects
      BY Names, Sorts
    <3>3. \A o \in Opens : CancelOf(PlaceOf(o)) \in Effects /\ PlaceOf(o) \in Effects /\ StopOf(o) \in Effects
      BY Names, Sorts
    <3> QED
      BY <3>1, <3>2, <3>3 DEF Handler, Handles, Cancelling, Entering, Protecting
  <2>3. Prepared
    BY DEF Handler
  <2> QED
    BY <1>1, <1>3, <1>4, <2>2, <2>3 DEF Prepared
<1>6. \A o \in Opens : /\ Closable(o) => Closable(o)'
                       /\ Closable(o) /\ ~slipped' => /\ Withdrawn(o) => Withdrawn(o)'
                                                      /\ Over(o) => Over(o)'
                                                      /\ Safe(o) => Safe(o)'
  BY Apart DEF Steady, Closable
<1>7. \A o \in Opens : PlaceOf(o) \in sent /\ PlaceOf(o) \notin late =>
        /\ PlaceOf(o) \in sent' /\ PlaceOf(o) \notin late'
        /\ Withdrawn(o) => Withdrawn(o)'
        /\ Over(o) => Over(o)'
  BY DEF Steady
<1>8. at["orders"] \in {"ambiguous"} \cup Entering \cup Protecting => order \in Opens
  BY DEF Handler, Handles
<1>9. EntryKnown'
  <2>1. (at["orders"] = "confirm place" =>
           /\ reply \in Acks /\ PlaceOf(order) \in sent /\ PlaceOf(order) \notin late
           /\ reply = "dead" => Over(order)
           /\ reply = "filled" => Withdrawn(order))'
    BY <1>1, <1>7, <1>8 DEF Handler, EntryKnown, Entering
  <2>2. (at["orders"] = "classify" => Closable(order) /\ Honest(PlaceOf(order), reply))'
    <3>1. SUFFICES ASSUME at["orders"] = "classify" PROVE (Closable(order) /\ Honest(PlaceOf(order), reply))'
      OBVIOUS
    <3>2. order \in Opens /\ Closable(order) /\ Honest(PlaceOf(order), reply)
      BY <1>8, <3>1 DEF Handler, EntryKnown, Entering
    <3>3. \A o \in Opens : PlaceOf(order) # StopOf(o) /\ (PlaceOf(order) = PlaceOf(o) => o = order)
      BY <3>2, Apart
    <3>4. Honest(PlaceOf(order), reply)'
      BY <1>1, <1>4, <1>6, <3>2, <3>3 DEF Honest
    <3> QED
      BY <1>1, <1>6, <3>2, <3>4
  <2>3. (at["orders"] \in Protecting =>
           /\ Closable(order) /\ report \in {"open", "filled", "bad"}
           /\ report = "filled" /\ ~slipped => Withdrawn(order))'
    BY <1>1, <1>4, <1>6, <1>8 DEF Handler, EntryKnown
  <2>4. (at["orders"] = "ambiguous" => report = "ambiguous")'
    BY <1>1 DEF Handler, EntryKnown
  <2>5. (at["orders"] \in {"confirm stop", "stopped"} => order \in Opens /\ Closable(order))
    BY <1>8 DEF Handler, EntryKnown, Protecting
  <2>6. (/\ at["orders"] = "confirm stop" /\ ~slipped => Safe(order)
         /\ at["orders"] = "stopped" /\ reply # "flat" /\ ~slipped => Safe(order))'
    BY <1>1, <1>4, <1>6, <2>5 DEF Handler, EntryKnown
  <2> QED
    BY <2>1, <2>2, <2>3, <2>4, <2>6 DEF EntryKnown
<1>10. ExitKnown'
  BY <1>1, <1>4, <1>6 DEF Handler, ExitKnown, Withdrawing, Flattened
<1>11. \A o \in Opens : Good(o) /\ ~slipped' => Good(o)'
  BY <1>1, GoodKept, Apart
<1>12. Ended'
  BY <1>1, <1>4, <1>11 DEF Handler, Ended, Cached
<1> QED
  BY <1>2, <1>5, <1>9, <1>10, <1>12 DEF Handler

-----------------------------------------------------------------------------
(* The handler *)

\* The venue and the journal do not move.
Quiet == UNCHANGED <<venue, journal, sent, resent>>

LEMMA QuietFacts ==
  ASSUME Quiet
  PROVE  /\ held' = held /\ working' = working /\ stops' = stops /\ late' = late /\ slipped' = slipped
         /\ status' = status /\ answer' = answer /\ fresh' = fresh /\ sent' = sent /\ resent' = resent
  BY DEF Quiet, venue, journal

LEMMA QuietGood ==
  ASSUME Quiet, dropped \subseteq dropped', NEW o \in Opens, Good(o) PROVE Good(o)'
  BY QuietFacts DEF Good, Closable, Safe, Over, Withdrawn

\* What was good stays good; an order that is reported is good.
LEMMA EndedKept ==
  ASSUME Ended, UNCHANGED <<cache, acked>>, slipped => slipped', order' \notin acked,
         at'["orders"] # "place",
         \A o \in Opens : Good(o) /\ ~slipped' => Good(o)',
         at'["orders"] \in Reported /\ order' \in Opens /\ ~slipped' => Good(order)'
  PROVE  Ended'
<1>1. acked' = acked /\ cache' = cache
  OBVIOUS
<1>2. \A o \in Opens : (o \in acked' \/ Cached(o)') /\ ~slipped' => Good(o)'
  BY <1>1 DEF Ended, Cached
<1> QED
  BY <1>1, <1>2 DEF Ended

LEMMA QuietOrder ==
  ASSUME Quiet, order' = order
  PROVE  /\ Closable(order)' <=> Closable(order)
         /\ Withdrawn(order)' <=> Withdrawn(order)
         /\ Over(order)' <=> Over(order)
         /\ slipped' = slipped
  BY QuietFacts DEF Closable, Withdrawn, Over

\* The acknowledgement of the entry is classified: dead is reported, a bad one
\* compensated, the others protected.
LEMMA ClassifyKept == ASSUME IInv, Classify PROVE Handler'
<1>1. Quiet /\ dropped' = dropped /\ cache' = cache /\ acked' = acked
  BY DEF Classify, Engine, Quiet, wire, bus
<1>2. /\ at["orders"] = "classify" /\ report' = reply /\ order' = order /\ reply' = reply
      /\ doing' = doing
      /\ \/ reply = "dead" /\ at'["orders"] = "result"
         \/ reply = "bad" /\ at'["orders"] = "compensate"
         \/ reply \in {"open", "filled"} /\ at'["orders"] \in {"protect", "compensate"}
  BY Going, TaskNames DEF Classify, IInv
<1>3. order \in Opens /\ Closable(order) /\ Honest(PlaceOf(order), reply)
  BY <1>2 DEF IInv, Handles, Entering, EntryKnown
<1>4. /\ reply = "dead" /\ ~slipped => Over(order)
      /\ reply = "filled" /\ ~slipped => Withdrawn(order)
  BY <1>3 DEF Honest
<1>5. Handles'
  BY <1>2, <1>3, Names DEF Handles, Entering, Protecting, Cancelling
<1>6. Prepared'
  BY <1>2 DEF Prepared
<1>7. EntryKnown'
  BY <1>1, <1>2, <1>3, <1>4, QuietFacts DEF EntryKnown, Protecting, Closable, Withdrawn
<1>8. ExitKnown'
  BY <1>2 DEF ExitKnown, Withdrawing, Flattened, Leaving, Closed, Cancelling
<1>9. \A o \in Opens : Good(o) => Good(o)'
  BY <1>1, QuietGood
<1>10. reply = "dead" /\ ~slipped => Good(order)
  BY <1>3, <1>4 DEF Good, Safe
<1>11. Ended'
  BY <1>1, <1>2, <1>3, <1>9, <1>10, QuietFacts DEF IInv, Ended, Cached, Reported
<1> QED
  BY <1>5, <1>6, <1>7, <1>8, <1>11 DEF Handler

\* A stop answered from the journal is looked at: not required means unprotected.
LEMMA ProtectedKept == ASSUME IInv, Protected PROVE Handler'
<1>1. Quiet /\ dropped' = dropped /\ cache' = cache /\ acked' = acked
  BY DEF Protected, Engine, Quiet, wire, bus
<1>2. /\ at["orders"] = "stopped" /\ report' = report /\ order' = order /\ reply' = reply
      /\ doing' = doing
      /\ at'["orders"] = IF reply = "flat" THEN "compensate" ELSE "result"
  BY Going, TaskNames DEF Protected, IInv
<1>3. /\ order \in Opens /\ Closable(order) /\ report \in {"open", "filled", "bad"}
      /\ report = "filled" /\ ~slipped => Withdrawn(order)
      /\ reply # "flat" /\ ~slipped => Safe(order)
  BY <1>2 DEF IInv, Handles, Protecting, EntryKnown
<1>5. Handles'
  BY <1>2, <1>3, Names DEF Handles, Entering, Protecting, Cancelling
<1>6. Prepared'
  BY <1>2 DEF Prepared
<1>7. EntryKnown'
  BY <1>1, <1>2, <1>3, QuietFacts DEF EntryKnown, Protecting, Closable, Withdrawn
<1>8. ExitKnown'
  BY <1>2 DEF ExitKnown, Withdrawing, Flattened, Leaving, Closed, Cancelling
<1>9. \A o \in Opens : Good(o) => Good(o)'
  BY <1>1, QuietGood
<1>10. reply # "flat" /\ ~slipped => Good(order)
  BY <1>3 DEF Good
<1>11. Ended'
  BY <1>1, <1>2, <1>3, <1>9, <1>10, QuietFacts DEF IInv, Ended, Cached, Reported
<1> QED
  BY <1>5, <1>6, <1>7, <1>8, <1>11 DEF Handler

\* What the reads and the branches of a handler in compensation or exit lead to.
LEMMA BranchKept ==
  ASSUME IInv, Quiet, order \in Orders, UNCHANGED <<order, reply, cache, acked, dropped>>,
         at'["orders"] \in {"flat", "active", "exit", "lost"} \cup Closed,
         order \in Opens /\ report' # "ambiguous" =>
           /\ Closable(order)
           /\ ~slipped => Withdrawn(order)
           /\ ~slipped /\ at'["orders"] \in Closed => Over(order)
  PROVE  Handler'
<1>1. order' = order /\ reply' = reply /\ cache' = cache /\ acked' = acked /\ dropped' = dropped
  OBVIOUS
<1>2. /\ at'["orders"] \in {"flat", "active", "exit", "lost", "tidy", "cancel exit", "finish"}
      /\ at'["orders"] \in {"flat", "active", "exit", "lost"} \/ at'["orders"] \in Closed
  BY DEF Closed
<1>3. Handles'
  BY <1>1, <1>2 DEF Handles, Entering, Protecting, Cancelling
<1>4. Prepared'
  BY <1>2 DEF Prepared
<1>5. EntryKnown'
  BY <1>2 DEF EntryKnown, Protecting
<1>6. ExitKnown'
  <2>1. at'["orders"] \notin Cancelling
    BY <1>2 DEF Cancelling
  <2> QED
    BY <1>1, <1>2, <2>1, QuietOrder DEF ExitKnown, Withdrawing, Flattened
<1>7. \A o \in Opens : Good(o) => Good(o)'
  BY <1>1, QuietGood
<1>8. Ended'
  <2>1. Ended /\ order' \notin acked
    BY <1>1 DEF IInv, Ended
  <2>2. at'["orders"] # "place" /\ at'["orders"] \notin Reported
    BY <1>2 DEF Reported
  <2> QED
    BY <1>1, <1>7, <2>1, <2>2, QuietFacts, EndedKept
<1> QED
  BY <1>3, <1>4, <1>5, <1>6, <1>8 DEF Handler

\* An exception: what the handler knew is enough for the compensation.
LEMMA RaiseKept == ASSUME IInv, Raise("orders") PROVE Handler'
<1>1. Quiet /\ dropped' = dropped /\ cache' = cache /\ acked' = acked
  BY RaiseStill, TaskNames DEF Quiet, wire, bus
<1>2. /\ doing'["orders"] = None
      /\ \/ /\ at["orders"] \in {"place", "send place", "confirm place", "rplace", "rplace flat"}
            /\ at'["orders"] = "ambiguous" /\ report' = "ambiguous"
            /\ order' = order /\ reply' = reply
         \/ /\ at["orders"] \in {"protect", "send stop", "confirm stop", "rstop", "rstop send"}
            /\ at'["orders"] = "compensate" /\ report' = report
            /\ order' = order /\ reply' = reply
         \/ /\ at["orders"] \in {"exit", "send exit", "confirm exit", "rclose"}
            /\ at'["orders"] = "lost" /\ report' = report
            /\ order' = order /\ reply' = reply
         \/ /\ at'["orders"] = "idle" /\ report' = "none" /\ order' = None /\ reply' = "none"
  BY RaiseHandler DEF IInv
<1>3. None \notin Opens /\ None \notin acked
  BY Names DEF IInv, TypeOK
<1>4. \A o \in Opens : Good(o) => Good(o)'
  BY <1>1, QuietGood
<1>5. Handles'
  BY <1>2, Names DEF IInv, Handles, Entering, Protecting, Cancelling
<1>6. Prepared'
  BY <1>2 DEF Prepared
<1>7. EntryKnown'
  BY <1>1, <1>2, QuietFacts DEF IInv, EntryKnown, Protecting, Closable, Withdrawn
<1>8. ExitKnown'
  <2>1. at'["orders"] \notin Cancelling /\ at'["orders"] \notin Closed
        /\ (at'["orders"] \in Leaving => at'["orders"] = "lost")
    BY <1>2 DEF Cancelling, Closed, Leaving
  <2>2. CASE at'["orders"] = "lost"
    <3>1. order' = order /\ report' = report /\ at["orders"] \in Leaving
      BY <1>2, <2>2 DEF Leaving
    <3>2. order \in Opens /\ report # "ambiguous" => Closable(order) /\ (~slipped => Withdrawn(order))
      BY <3>1 DEF IInv, ExitKnown
    <3> QED
      BY <1>1, <2>1, <3>1, <3>2, QuietOrder DEF ExitKnown, Withdrawing, Flattened
  <2> QED
    BY <2>1, <2>2 DEF ExitKnown, Withdrawing, Flattened
<1>9. Ended'
  <2>1. Ended /\ order' \notin acked
    BY <1>2, <1>3 DEF IInv, Ended
  <2>2. at'["orders"] # "place" /\ at'["orders"] \notin Reported
    BY <1>2 DEF Reported
  <2> QED
    BY <1>1, <1>4, <2>1, <2>2, QuietFacts, EndedKept
<1> QED
  BY <1>5, <1>6, <1>7, <1>8, <1>9 DEF Handler

\* The cancellation is read again: the order must be inactive.
LEMMA CancelledKept == ASSUME IInv, Cancelled PROVE Handler'
<1>1. CASE Raise("orders")
  BY <1>1, RaiseKept
<1>2. CASE /\ doing["orders"][2] \notin working /\ UNCHANGED <<Engine, engine, doing>>
           /\ Go("orders", IF doing["orders"][2][1] = "place" THEN "flat" ELSE "finish")
  <2>1. /\ Quiet /\ UNCHANGED <<order, reply, cache, acked, dropped>> /\ report' = report
        /\ at'["orders"] = IF doing["orders"][2][1] = "place" THEN "flat" ELSE "finish"
    BY <1>2, Going, TaskNames DEF Engine, engine, Quiet, wire, bus, IInv
  <2>2. at["orders"] = "cancelled" /\ at["orders"] \in Cancelling /\ order \in Orders
    BY DEF Cancelled, IInv, Handles, Cancelling
  <2>3. CASE doing["orders"] = CancelOf(PlaceOf(order)) /\ order \in Opens
    <3>1. doing["orders"][2] = PlaceOf(order) /\ PlaceOf(order)[1] = "place"
      BY <2>3, Names
    <3>2. at'["orders"] = "flat" /\ Withdrawn(order)
      BY <1>2, <2>1, <3>1 DEF Withdrawn
    <3>3. report # "ambiguous" => Closable(order)
      BY <2>2, <2>3 DEF IInv, ExitKnown, Withdrawing
    <3> QED
      BY <2>1, <2>2, <3>2, <3>3, BranchKept DEF Leaving, Closed
  <2>4. CASE doing["orders"] = CancelOf(ExitOf(order))
    <3>1. doing["orders"][2] = ExitOf(order) /\ ExitOf(order)[1] = "exit"
      BY <2>2, <2>4, Names
    <3>2. at'["orders"] = "finish"
      BY <2>1, <3>1
    <3>3. order \in Opens /\ report # "ambiguous" => Closable(order) /\ (~slipped => Over(order))
      BY <2>2, <2>4 DEF IInv, ExitKnown, Flattened
    <3> QED
      BY <2>1, <2>2, <3>2, <3>3, BranchKept DEF Leaving, Closed, Over
  <2> QED
    BY <2>2, <2>3, <2>4 DEF IInv, Handles
<1> QED
  BY <1>1, <1>2 DEF Cancelled

\* The reads of the position and of the exit order
LEMMA ReadsKept == ASSUME IInv, Flat \/ Active \/ Exited \/ Tidy PROVE Handler'
<1>1. ASSUME NEW a, Go("orders", a), UNCHANGED <<Engine, engine, doing>>
      PROVE  /\ Quiet /\ UNCHANGED <<order, reply, cache, acked, dropped>> /\ report' = report
             /\ at'["orders"] = a
  BY <1>1, Going, TaskNames DEF Engine, engine, Quiet, wire, bus, IInv
<1>2. at["orders"] # "idle" => order \in Orders
  BY DEF IInv, Handles
<1>3. order \in Opens /\ at["orders"] \in Leaving /\ report # "ambiguous" =>
        Closable(order) /\ (~slipped => Withdrawn(order))
  BY DEF IInv, ExitKnown
<1>4. CASE Flat
  <2> DEFINE a == IF ~PositionFlat THEN "active" ELSE IF Opening THEN "finish" ELSE "tidy"
  <2>1. Go("orders", a) /\ UNCHANGED <<Engine, engine, doing>>
    BY <1>4 DEF Flat
  <2> HIDE DEF a
  <2>2. at'["orders"] = a /\ Quiet /\ UNCHANGED <<order, reply, cache, acked, dropped>> /\ report' = report
    BY <1>1, <2>1
  <2>3. a \in {"active", "finish", "tidy"} /\ (a \in Closed => held = {})
    BY DEF a, PositionFlat, Closed
  <2>4. at["orders"] # "idle"
    BY <1>4 DEF Flat, Compensating
  <2>5. order \in Opens /\ report # "ambiguous" => Closable(order) /\ (~slipped => Withdrawn(order))
    <3>1. CASE at["orders"] = "flat"
      BY <1>3, <3>1 DEF Leaving
    <3>2. CASE Compensating /\ ~MayBeActive
      BY <3>2 DEF Compensating, MayBeActive, IInv, EntryKnown, Protecting
    <3> QED
      BY <1>4, <3>1, <3>2 DEF Flat
  <2> QED
    BY <1>2, <2>2, <2>3, <2>4, <2>5, BranchKept DEF Leaving, Closed, Over
<1>5. CASE Active
  <2>1. CASE Raise("orders")
    BY <2>1, RaiseKept
  <2>2. CASE Go("orders", "exit") /\ UNCHANGED <<Engine, engine, doing>>
    <3>1. at'["orders"] = "exit" /\ Quiet /\ UNCHANGED <<order, reply, cache, acked, dropped>>
          /\ report' = report
      BY <1>1, <2>2
    <3> QED
      BY <1>2, <1>3, <1>5, <3>1, BranchKept DEF Active, Leaving, Closed
  <2> QED
    BY <1>5, <2>1, <2>2 DEF Active
<1>6. CASE Exited
  <2>1. CASE Raise("orders")
    BY <2>1, RaiseKept
  <2>2. CASE PositionFlat /\ Go("orders", "tidy") /\ UNCHANGED <<Engine, engine, doing>>
    <3>1. at'["orders"] = "tidy" /\ Quiet /\ UNCHANGED <<order, reply, cache, acked, dropped>>
          /\ report' = report /\ held = {}
      BY <1>1, <2>2 DEF PositionFlat
    <3> QED
      BY <1>2, <1>3, <1>6, <3>1, BranchKept DEF Exited, Leaving, Closed, Over
  <2> QED
    BY <1>6, <2>1, <2>2 DEF Exited
<1>7. CASE Tidy
  <2> DEFINE a == IF Mine("exit") \in working THEN "cancel exit" ELSE "finish"
  <2>1. Go("orders", a) /\ UNCHANGED <<Engine, engine, doing>> /\ at["orders"] = "tidy"
    BY <1>7 DEF Tidy
  <2>2. a \in {"cancel exit", "finish"}
    OBVIOUS
  <2> HIDE DEF a
  <2>3. at'["orders"] = a /\ Quiet /\ UNCHANGED <<order, reply, cache, acked, dropped>> /\ report' = report
    BY <1>1, <2>1
  <2>4. order \in Opens /\ report # "ambiguous" => Closable(order) /\ (~slipped => Over(order))
    BY <2>1 DEF IInv, ExitKnown, Flattened, Closed
  <2> QED
    BY <1>2, <2>1, <2>2, <2>3, <2>4, BranchKept DEF Leaving, Closed, Over
<1> QED
  BY <1>4, <1>5, <1>6, <1>7

-----------------------------------------------------------------------------
(* The locks, and what is read under them *)

LEMMA Moving == ASSUME IInv, Next PROVE WorldMove /\ World' /\ Steady
<1>1. WorldMove
  BY NextMoves DEF Base, IInv
<1> QED
  BY <1>1, WorldStep DEF IInv

\* A landed order puts only itself at the venue.
LEMMA LandsOnly ==
  ASSUME TypeOK, NEW e \in Places \cup Exits \cup Stops, Land(e)
  PROVE  /\ working' \subseteq working \cup {e}
         /\ \A o \in Opens : e # StopOf(o) => stops'[o] = stops[o]
<1>1. CASE e \in Places
  <2>1. PICK o \in Opens : e = PlaceOf(o)
    BY <1>1, Names
  <2> QED
    BY <2>1, Landings
<1>2. CASE e \in Exits
  <2>1. PICK o \in Orders : e = ExitOf(o)
    BY <1>2, Names
  <2> QED
    BY <2>1, Landings
<1>3. CASE e \in Stops
  <2>1. PICK o \in Opens : e = StopOf(o)
    BY <1>3, Names
  <2>2. stops' = [stops EXCEPT ![o] = @ + 1] /\ working' = working
    BY <2>1, Landings
  <2> QED
    BY <2>1, <2>2 DEF TypeOK
<1> QED
  BY <1>1, <1>2, <1>3

\* What a move puts at the venue.
LEMMA Arrivals ==
  ASSUME TypeOK, WorldMove,
         NEW x \in Effects, ~slipped', \A p \in Tasks : Resending(p) => doing[p] # x,
         \A e \in Effects : Calling(e) => e # x, \E p \in Tasks : lock[p] = x
  PROVE  /\ x \in working' => x \in working
         /\ \A o \in Opens : x = StopOf(o) /\ stops[o] = 0 => stops'[o] = 0
<1>1. CASE Still
  BY <1>1 DEF Still, venue
<1>2. CASE \E e \in Effects : Preparing(e) \/ (\E a \in Replies : Settling(e, a))
  <2>1. working' = working /\ stops' = stops
    BY <1>2 DEF Preparing, Settling, venue
  <2> QED
    BY <2>1
<1>3. CASE \E e \in Effects : Passing(e)
  BY <1>3 DEF Passing
<1>4. ASSUME NEW e \in Effects, Surfacing(e) PROVE e # x /\ e \in Places \cup Exits \cup Stops /\ Land(e)
  BY <1>4 DEF Surfacing, TypeOK
<1>5. ASSUME NEW e \in Effects, e # x, e \in Places \cup Exits \cup Stops,
             Land(e) \/ UNCHANGED <<held, working, stops>>
      PROVE  /\ x \in working' => x \in working
             /\ \A o \in Opens : x = StopOf(o) /\ stops[o] = 0 => stops'[o] = 0
  BY <1>5, LandsOnly
<1>6. CASE \E e \in Effects : Surfacing(e)
  BY <1>4, <1>5, <1>6
<1>7. CASE \E e \in Effects : Calling(e)
  BY <1>5, <1>7 DEF Calling, Reaching
<1>8. CASE \E o \in Opens : Triggering(o)
  BY <1>8 DEF Triggering, TypeOK
<1>9. CASE \E p \in Tasks : Resending(p)
  <2>1. PICK p \in Tasks : Resending(p)
    BY <1>9
  <2>2. doing[p] # x /\ doing[p] \in Stops /\ doing[p] \in Effects
    BY <2>1, Sorts DEF Resending
  <2> QED
    BY <1>5, <2>1, <2>2 DEF Resending, Reaching
<1> QED
  BY <1>1, <1>2, <1>3, <1>6, <1>7, <1>8, <1>9 DEF WorldMove

\* What a task has read under its lock stays so while it does not move.
LEMMA LookedStays ==
  ASSUME IInv, WorldMove, Steady, ~slipped', NEW p \in Tasks, at'[p] = at[p], doing'[p] = doing[p]
  PROVE  LookedAt(p)'
<1>1. ~slipped /\ LookedAt(p)
  BY DEF Steady, IInv, Looked
<1>2. at[p] \in {"rplace flat", "rstop send"} =>
        /\ lock[p] = doing[p] /\ doing[p] \in Effects
        /\ \A e \in Effects : Calling(e) => e # doing[p]
  <2>1. \A e \in Effects : Calling(e) /\ at[p] \in {"rplace flat", "rstop send"} => e # doing[p]
    BY TaskNames DEF Calling, Sending
  <2> QED
    BY <2>1, InHand, Sorts DEF IInv, Locked
<1>3. ASSUME at[p] \in {"rplace flat", "rstop send"}, NEW q \in Tasks, Resending(q) PROVE doing[q] # doing[p]
  <2>1. lock[q] = doing[q] /\ doing[q] # None /\ lock[p] = doing[p]
    BY <1>2, <1>3, EffectAssumption, Sorts DEF Resending
  <2>2. CASE q = p
    BY <1>3, <2>2, InHand, Names, Sorts DEF Resending, IInv
  <2>3. CASE q # p
    <3>1. (p = "orders" /\ q = "recovery") \/ (p = "recovery" /\ q = "orders")
      BY <2>3, TaskNames
    <3>2. lock["orders"] = lock["recovery"] => lock["orders"] = None
      BY DEF IInv, Locked
    <3> QED
      BY <2>1, <3>1, <3>2
  <2> QED
    BY <2>2, <2>3
<1>4. CASE at[p] = "rplace flat"
  BY <1>1, <1>2, <1>3, <1>4, Arrivals DEF LookedAt, IInv
<1>5. CASE at[p] = "rstop send"
  <2>1. PICK o \in Opens : doing[p] = StopOf(o) /\ doing[p][2] = o
    BY <1>5, InHand, Names DEF IInv
  <2>2. stops[o] = 0
    BY <1>1, <1>5, <2>1 DEF LookedAt
  <2>3. stops'[o] = 0
    BY <1>2, <1>3, <1>5, <2>1, <2>2, Arrivals DEF IInv
  <2> QED
    BY <1>5, <2>1, <2>3 DEF LookedAt
<1>6. CASE at[p] = "rstop confirm"
  <2>1. PICK o \in Opens : doing[p] = StopOf(o) /\ doing[p][2] = o
    BY <1>6, InHand, Names DEF IInv
  <2>2. Closable(o)
    BY <1>6, <2>1, InHandKnown DEF IInv, Base, World, Truthful
  <2>3. Safe(o)'
    BY <1>1, <1>6, <2>1, <2>2 DEF LookedAt, Steady
  <2> QED
    BY <1>6, <2>1, <2>3 DEF LookedAt
<1> QED
  BY <1>4, <1>5, <1>6 DEF LookedAt

\* Where a task acts on what it has read.
Acting == {"rplace flat", "rstop send", "rstop confirm", "cancel verify"}

LEMMA TaskStep ==
  ASSUME IInv, Next, NEW p \in Tasks, Alone(p), lock'[p] \in {None, lock[p]},
         at'[p] \in Acting => lock'[p] = doing'[p], ~slipped' => LookedAt(p)'
  PROVE  Locked' /\ Looked'
<1>1. WorldMove /\ Steady
  BY Moving
<1>2. \A q \in Tasks \ {p} : at'[q] = at[q] /\ doing'[q] = doing[q] /\ lock'[q] = lock[q]
  BY DEF Alone
<1>3. \A q \in Tasks \ {p} : ~slipped' => LookedAt(q)'
  BY <1>1, <1>2, LookedStays
<1>4. Looked'
  BY <1>3 DEF Looked
<1>5. \A q \in Tasks : at'[q] \in Acting => lock'[q] = doing'[q]
  BY <1>2 DEF IInv, Locked, Acting
<1>6. lock'["orders"] = lock'["recovery"] => lock'["orders"] = None
  BY <1>2, TaskNames DEF IInv, Locked
<1>7. Locked'
  BY <1>5, <1>6 DEF Locked, Acting
<1> QED
  BY <1>4, <1>7

LEMMA Elsewhere ==
  ASSUME IInv, Next, NEW p \in Tasks, Alone(p), lock'[p] \in {None, lock[p]}, at'[p] \notin Acting
  PROVE  Locked' /\ Looked'
<1>1. LookedAt(p)'
  BY DEF LookedAt, Acting
<1> QED
  BY <1>1, TaskStep

LEMMA Unmoved ==
  ASSUME IInv, Next, UNCHANGED tasks
  PROVE  Locked' /\ Looked'
<1>1. at' = at /\ doing' = doing /\ lock' = lock
  BY DEF tasks
<1>2. WorldMove /\ Steady
  BY Moving
<1>3. Looked'
  BY <1>1, <1>2, LookedStays DEF Looked
<1>4. Locked'
  BY <1>1 DEF IInv, Locked
<1> QED
  BY <1>3, <1>4

LEMMA LockingStep ==
  ASSUME IInv, Next, NEW p \in Tasks, NEW a, Locking(p, a)
  PROVE  /\ Locked' /\ Looked' /\ lock'[p] = doing[p]
         /\ \A q \in Tasks \ {p} : lock'[q] = lock[q]
<1>1. at' = at /\ doing' = doing /\ (\A q \in Tasks : lock[q] # doing[p])
      /\ lock' = [lock EXCEPT ![p] = doing[p]]
  BY DEF Locking, Lock
<1>2. lock'[p] = doing[p] /\ \A q \in Tasks \ {p} : lock'[q] = lock[q]
  BY <1>1 DEF IInv, TypeOK
<1>3. WorldMove /\ Steady
  BY Moving
<1>4. Looked'
  BY <1>1, <1>3, LookedStays DEF Looked
<1>5. \A q \in Tasks : at'[q] \in Acting => lock'[q] = doing'[q]
  BY <1>1, <1>2 DEF IInv, Locked, Acting
<1>6. lock'["orders"] = lock'["recovery"] => lock'["orders"] = None
  <2>1. CASE p = "orders"
    BY <1>1, <1>2, <2>1, TaskNames
  <2>2. CASE p = "recovery"
    BY <1>1, <1>2, <2>2, TaskNames
  <2> QED
    BY <2>1, <2>2, TaskNames
<1>7. Locked'
  BY <1>5, <1>6 DEF Locked, Acting
<1> QED
  BY <1>2, <1>4, <1>7

-----------------------------------------------------------------------------
(* The types *)

\* The parts of the type invariant that the venue and the journal do not touch
Data ==
  /\ queue \subseteq Orders /\ acked \subseteq Orders
  /\ up \in BOOLEAN /\ cache \in Seq(Orders) /\ blocked \in BOOLEAN /\ quant \in BOOLEAN
  /\ order \in Orders \cup {None} /\ report \in Reports /\ reply \in Replies
  /\ scan \subseteq Effects /\ failed \in BOOLEAN /\ dropped \subseteq Opens
Posts ==
  /\ at \in [Tasks -> OrderPlaces \cup RecoveryPlaces]
  /\ at["orders"] \in OrderPlaces /\ at["recovery"] \in RecoveryPlaces
  /\ doing \in [Tasks -> Effects \cup {None}] /\ lock \in [Tasks -> Effects \cup {None}]

LEMMA LandTyped ==
  ASSUME TypeOK, NEW e \in Places \cup Exits \cup Stops, Land(e)
  PROVE  held' \subseteq Opens /\ working' \subseteq Places \cup Exits /\ stops' \in [Opens -> Nat]
<1>1. CASE e \in Places
  <2>1. PICK o \in Opens : e = PlaceOf(o)
    BY <1>1, Names
  <2> QED
    BY <1>1, <2>1, Landings DEF TypeOK
<1>2. CASE e \in Exits
  <2>1. PICK o \in Orders : e = ExitOf(o)
    BY <1>2, Names
  <2> QED
    BY <1>2, <2>1, Landings DEF TypeOK
<1>3. CASE e \in Stops
  <2>1. PICK o \in Opens : e = StopOf(o)
    BY <1>3, Names
  <2> QED
    BY <2>1, Landings DEF TypeOK
<1> QED
  BY <1>1, <1>2, <1>3

LEMMA ReachTyped ==
  ASSUME TypeOK, NEW e \in Places \cup Exits \cup Stops, Reaching(e)
  PROVE  /\ held' \subseteq Opens /\ working' \subseteq Places \cup Exits
         /\ stops' \in [Opens -> Nat] /\ late' \subseteq Places \cup Exits \cup Stops
<1>1. CASE Land(e) /\ UNCHANGED late
  BY <1>1, LandTyped DEF TypeOK
<1>2. CASE UNCHANGED <<held, working, stops>> /\ late' \in {late, late \cup {e}}
  BY <1>2 DEF TypeOK
<1> QED
  BY <1>1, <1>2 DEF Reaching

LEMMA SentTyped ==
  ASSUME TypeOK, NEW e \in Effects, Sent(e) PROVE sent' \subseteq Effects /\ resent' \subseteq sent'
  BY DEF Sent, TypeOK

LEMMA TypeStep == ASSUME TypeOK, WorldMove, Data', Posts', faults' \in Nat PROVE TypeOK'
<1> DEFINE Rest == /\ held' \subseteq Opens /\ working' \subseteq Places \cup Exits
                   /\ stops' \in [Opens -> Nat] /\ late' \subseteq Places \cup Exits \cup Stops
                   /\ slipped' \in BOOLEAN
                   /\ status' \in [Effects -> {"NONE", "PREPARED", "SETTLED"}]
                   /\ answer' \in [Effects -> Replies] /\ fresh' \subseteq Effects
                   /\ sent' \subseteq Effects /\ resent' \subseteq sent'
<1>1. ASSUME Still PROVE Rest
  BY <1>1 DEF Still, TypeOK, venue
<1>2. ASSUME NEW e \in Effects, Preparing(e) PROVE Rest
  BY <1>2 DEF Preparing, TypeOK, venue
<1>3. ASSUME NEW e \in Effects, NEW a \in Replies, Settling(e, a) PROVE Rest
  BY <1>3 DEF Settling, TypeOK, venue
<1>4. ASSUME NEW e \in Effects, Passing(e) PROVE Rest
  <2>1. UNCHANGED <<stops, late, slipped, status, answer, fresh, sent, resent>>
        /\ working' \subseteq working
    BY <1>4 DEF Passing
  <2>2. held' \subseteq Opens
    BY <1>4, Names DEF Passing, TypeOK
  <2> QED
    BY <2>1, <2>2 DEF TypeOK
<1>5. ASSUME NEW e \in Effects, Surfacing(e) PROVE Rest
  <2>1. UNCHANGED <<status, answer, fresh, sent, resent>> /\ late' \subseteq late /\ slipped' \in BOOLEAN
        /\ e \in late /\ Land(e)
    BY <1>5 DEF Surfacing, TypeOK
  <2> QED
    BY <2>1, LandTyped DEF TypeOK
<1>6. ASSUME NEW e \in Effects, Calling(e) PROVE Rest
  <2>1. UNCHANGED <<slipped, status, answer, fresh>> /\ e \in Places \cup Exits \cup Stops
        /\ Reaching(e) /\ Sent(e)
    BY <1>6 DEF Calling
  <2> QED
    BY <2>1, ReachTyped, SentTyped DEF TypeOK
<1>7. ASSUME NEW o \in Opens, Triggering(o) PROVE Rest
  BY <1>7 DEF Triggering, TypeOK
<1>8. ASSUME NEW p \in Tasks, Resending(p) PROVE Rest
  <2>1. UNCHANGED <<slipped, status, answer, fresh>> /\ doing[p] \in Stops
        /\ Reaching(doing[p]) /\ Sent(doing[p])
    BY <1>8 DEF Resending
  <2> QED
    BY <2>1, ReachTyped, SentTyped, Sorts DEF TypeOK
<1>9. Rest
  <2>1. CASE Still
    BY <1>1, <2>1
  <2> HIDE DEF Rest
  <2>2. CASE \E e \in Effects : Preparing(e) \/ (\E a \in Replies : Settling(e, a))
    BY <1>2, <1>3, <2>2
  <2>3. CASE \E e \in Effects : Passing(e) \/ Surfacing(e) \/ Calling(e)
    BY <1>4, <1>5, <1>6, <2>3
  <2>4. CASE (\E o \in Opens : Triggering(o)) \/ (\E p \in Tasks : Resending(p))
    BY <1>7, <1>8, <2>4
  <2> QED
    BY <2>1, <2>2, <2>3, <2>4 DEF WorldMove
<1> QED
  BY <1>9 DEF Data, Posts, TypeOK

-----------------------------------------------------------------------------
(* The handler prepares, sends and confirms *)

\* A mutation is prepared, answered from the journal, or recovered.
Mutated(a, e, s, k, r) ==
  /\ UNCHANGED <<venue, sent, resent, dropped, cache, order, report, acked, queue, control,
                 recovery, lock>>
  /\ at["orders"] = a
  /\ \A q \in Tasks \ {"orders"} : at'[q] = at[q]
  /\ \A x \in Effects : x # e => status'[x] = status[x]
  /\ \/ /\ status[e] = "NONE" /\ status'[e] = "PREPARED" /\ e \in fresh' /\ e \notin sent'
        /\ at'["orders"] = s /\ reply' = reply /\ doing' = doing
     \/ /\ status[e] = "SETTLED" /\ UNCHANGED journal /\ reply' = answer[e]
        /\ at'["orders"] = k /\ doing' = doing
     \/ /\ status[e] = "PREPARED" /\ UNCHANGED journal /\ reply' = reply
        /\ at'["orders"] = r /\ doing'["orders"] = e
        /\ \A q \in Tasks \ {"orders"} : doing'[q] = doing[q]

LEMMA MutateFacts ==
  ASSUME TypeOK, Ripe, NEW e \in Effects, NEW a, NEW s, NEW k, NEW r, Mutate(a, e, s, k, r)
  PROVE  Mutated(a, e, s, k, r)
<1>1. /\ UNCHANGED <<venue, sent, resent, dropped, cache, order, report, acked, queue, control,
                     recovery, lock>>
      /\ at["orders"] = a
  BY DEF Mutate, wire, bus
<1>2. CASE IsNew(e) /\ Prepare(e) /\ Go("orders", s) /\ UNCHANGED <<reply, doing>>
  <2>1. /\ status[e] = "NONE" /\ status' = [status EXCEPT ![e] = "PREPARED"] /\ e \in fresh'
    BY <1>2 DEF IsNew, Prepare
  <2>2. status'[e] = "PREPARED" /\ \A x \in Effects : x # e => status'[x] = status[x]
    BY <2>1 DEF TypeOK
  <2>3. e \notin sent'
    BY <1>1, <2>1 DEF Ripe
  <2> QED
    BY <1>1, <1>2, <2>1, <2>2, <2>3, Going, TaskNames DEF Mutated
<1>3. CASE Known(e) /\ reply' = answer[e] /\ Go("orders", k) /\ UNCHANGED <<journal, doing>>
  BY <1>1, <1>3, Going, TaskNames DEF Known, journal, Mutated
<1>4. CASE /\ status[e] = "PREPARED" /\ Go("orders", r)
           /\ doing' = [doing EXCEPT !["orders"] = e] /\ UNCHANGED <<journal, reply>>
  <2>1. doing'["orders"] = e /\ \A q \in Tasks \ {"orders"} : doing'[q] = doing[q]
    BY <1>4, TaskNames DEF TypeOK
  <2> QED
    BY <1>1, <1>4, <2>1, Going, TaskNames DEF journal, Mutated
<1> QED
  BY <1>2, <1>3, <1>4 DEF Mutate

\* An entry whose row a mutation leaves alone stays good.
LEMMA MutateGood ==
  ASSUME TypeOK, UNCHANGED <<venue, dropped>>, NEW o \in Opens, status'[PlaceOf(o)] = status[PlaceOf(o)], Good(o)
  PROVE  Good(o)'
<1>1. held' = held /\ working' = working /\ stops' = stops /\ dropped' = dropped
  BY DEF venue
<1> QED
  BY <1>1 DEF Good, Closable, Safe, Over, Withdrawn

LEMMA PlaceOrderKept == ASSUME IInv, PlaceOrder PROVE Handler'
<1> DEFINE e == PlaceOf(order)
<1>0. TypeOK /\ Ripe
  BY DEF IInv
<1>1. at["orders"] = "place" /\ order \in Opens /\ e \in Effects
  BY Apart DEF PlaceOrder, Mutate, IInv, Handles, Entering
<1>2. Mutated("place", e, "send place", "classify", "rplace")
  BY <1>0, <1>1, MineNames, MutateFacts, Zenon DEF PlaceOrder
<1>3. /\ UNCHANGED <<venue, sent, resent, dropped, cache, order, report, acked, queue, control,
                     recovery, lock>>
      /\ \A x \in Effects : x # e => status'[x] = status[x]
      /\ \/ /\ status[e] = "NONE" /\ status'[e] = "PREPARED" /\ e \in fresh' /\ e \notin sent'
            /\ at'["orders"] = "send place"
         \/ /\ status[e] = "SETTLED" /\ UNCHANGED journal /\ reply' = answer[e]
            /\ at'["orders"] = "classify"
         \/ /\ status[e] = "PREPARED" /\ UNCHANGED journal
            /\ at'["orders"] = "rplace" /\ doing'["orders"] = e
  BY <1>2 DEF Mutated
<1>4. order' = order /\ slipped' = slipped /\ held' = held /\ working' = working /\ stops' = stops
      /\ acked' = acked /\ cache' = cache
  BY <1>3 DEF venue
<1>5. Handles'
  <2>1. order \in Orders
    BY <1>1, Names
  <2> QED
    BY <1>1, <1>3, <1>4, <2>1 DEF Handles, Entering, Protecting, Cancelling
<1>6. Prepared'
  BY <1>3, <1>4 DEF Prepared, journal
<1>7. EntryKnown'
  <2>1. CASE at'["orders"] = "classify"
    <3>1. status[e] = "SETTLED" /\ UNCHANGED journal /\ reply' = answer[e]
      BY <1>3, <2>1
    <3>2. Honest(e, answer[e])
      BY <1>1, <3>1 DEF IInv, World, Truthful, Known
    <3>3. Closable(order)' /\ Honest(e, answer[e])'
      BY <1>4, <3>1, <3>2 DEF Closable, Honest, Over, Withdrawn, Safe, journal
    <3> QED
      BY <1>4, <2>1, <3>1, <3>3 DEF EntryKnown, Protecting, journal
  <2>2. CASE at'["orders"] \in {"send place", "rplace"}
    BY <2>2 DEF EntryKnown, Protecting
  <2> QED
    BY <1>3, <2>1, <2>2
<1>8. ExitKnown'
  BY <1>3 DEF ExitKnown, Withdrawing, Flattened, Leaving, Closed, Cancelling
<1>9. order \notin acked /\ ~Cached(order)
  BY <1>1 DEF IInv, Ended
<1>10. \A o \in Opens : o # order => (Good(o) => Good(o)')
  <2>1. \A o \in Opens : o # order => PlaceOf(o) \in Effects /\ PlaceOf(o) # e
    BY <1>1, Apart
  <2> QED
    BY <1>3, <2>1, MutateGood DEF IInv
<1>11. Ended'
  <2>1. \A o : Cached(o)' <=> Cached(o)
    BY <1>4 DEF Cached
  <2> QED
    BY <1>3, <1>4, <1>9, <1>10, <2>1 DEF IInv, Ended, Reported
<1> QED
  BY <1>5, <1>6, <1>7, <1>8, <1>11 DEF Handler

LEMMA SetStopKept == ASSUME IInv, SetStop PROVE Handler'
<1> DEFINE e == StopOf(order)
<1>0. TypeOK /\ Ripe
  BY DEF IInv
<1>1. /\ at["orders"] = "protect" /\ order \in Opens /\ e \in Effects /\ Closable(order)
      /\ report \in {"open", "filled", "bad"} /\ (report = "filled" /\ ~slipped => Withdrawn(order))
  BY Apart DEF SetStop, Mutate, IInv, Handles, Protecting, EntryKnown
<1>2. Mutated("protect", e, "send stop", "stopped", "rstop")
  BY <1>0, <1>1, MineNames, MutateFacts, Zenon DEF SetStop
<1>3. /\ UNCHANGED <<venue, sent, resent, dropped, cache, order, report, acked, queue, control,
                     recovery, lock>>
      /\ \A x \in Effects : x # e => status'[x] = status[x]
      /\ \/ /\ status[e] = "NONE" /\ status'[e] = "PREPARED" /\ e \in fresh' /\ e \notin sent'
            /\ at'["orders"] = "send stop"
         \/ /\ status[e] = "SETTLED" /\ UNCHANGED journal /\ reply' = answer[e]
            /\ at'["orders"] = "stopped"
         \/ /\ status[e] = "PREPARED" /\ UNCHANGED journal
            /\ at'["orders"] = "rstop" /\ doing'["orders"] = e
  BY <1>2 DEF Mutated
<1>4. order' = order /\ slipped' = slipped /\ held' = held /\ working' = working /\ stops' = stops
      /\ acked' = acked /\ cache' = cache /\ report' = report
  BY <1>3 DEF venue
<1>5. Handles'
  <2>1. order \in Orders
    BY <1>1, Names
  <2> QED
    BY <1>1, <1>3, <1>4, <2>1 DEF Handles, Entering, Protecting, Cancelling
<1>6. Prepared'
  BY <1>3, <1>4 DEF Prepared, journal
<1>7. \A o \in Opens : status'[PlaceOf(o)] = status[PlaceOf(o)]
  BY <1>1, <1>3, Apart
<1>8. EntryKnown'
  <2>1. Closable(order)' /\ (report' = "filled" /\ ~slipped' => Withdrawn(order)')
    BY <1>1, <1>4, <1>7 DEF Closable, Withdrawn
  <2>2. at'["orders"] = "stopped" /\ reply' # "flat" /\ ~slipped' => Safe(order)'
    <3>1. SUFFICES ASSUME at'["orders"] = "stopped", reply' # "flat", ~slipped' PROVE Safe(order)'
      OBVIOUS
    <3>2. status[e] = "SETTLED" /\ reply' = answer[e]
      BY <1>3, <3>1
    <3>3. Honest(e, answer[e])
      BY <1>1, <3>2 DEF IInv, World, Truthful, Known
    <3>4. Safe(order)
      BY <1>1, <1>4, <3>1, <3>2, <3>3 DEF Honest
    <3> QED
      BY <1>4, <3>4 DEF Safe, Over, Withdrawn
  <2>3. at'["orders"] \in {"send stop", "stopped", "rstop"}
    BY <1>3
  <2> QED
    BY <1>1, <1>4, <2>1, <2>2, <2>3 DEF EntryKnown
<1>9. ExitKnown'
  BY <1>3 DEF ExitKnown, Withdrawing, Flattened, Leaving, Closed, Cancelling
<1>10. Ended'
  <2>1. \A o \in Opens : Good(o) => Good(o)'
    BY <1>3, <1>7, MutateGood DEF IInv
  <2>2. at'["orders"] # "place" /\ at'["orders"] \notin Reported
    BY <1>3 DEF Reported
  <2>3. Ended /\ order' \notin acked
    BY <1>4 DEF IInv, Ended
  <2> QED
    BY <1>4, <2>1, <2>2, <2>3, EndedKept
<1> QED
  BY <1>5, <1>6, <1>8, <1>9, <1>10 DEF Handler

LEMMA ClosePositionKept == ASSUME IInv, ClosePosition PROVE Handler'
<1> DEFINE e == ExitOf(order)
<1>0. TypeOK /\ Ripe
  BY DEF IInv
<1>1. /\ at["orders"] = "exit" /\ order \in Orders /\ e \in Effects /\ e \in Exits
      /\ order \in Opens /\ report # "ambiguous" => Closable(order) /\ (~slipped => Withdrawn(order))
  BY Names, Sorts DEF ClosePosition, Mutate, IInv, Handles, Leaving, ExitKnown
<1>2. Mutated("exit", e, "send exit", "exited", "rclose")
  BY <1>0, <1>1, MineNames, MutateFacts, Zenon DEF ClosePosition
<1>3. /\ UNCHANGED <<venue, sent, resent, dropped, cache, order, report, acked, queue, control,
                     recovery, lock>>
      /\ \A x \in Effects : x # e => status'[x] = status[x]
      /\ \/ /\ status[e] = "NONE" /\ status'[e] = "PREPARED" /\ e \in fresh' /\ e \notin sent'
            /\ at'["orders"] = "send exit"
         \/ /\ status[e] = "SETTLED" /\ UNCHANGED journal /\ at'["orders"] = "exited"
         \/ /\ status[e] = "PREPARED" /\ UNCHANGED journal
            /\ at'["orders"] = "rclose" /\ doing'["orders"] = e
  BY <1>2 DEF Mutated
<1>4. order' = order /\ slipped' = slipped /\ held' = held /\ working' = working /\ stops' = stops
      /\ acked' = acked /\ cache' = cache /\ report' = report
  BY <1>3 DEF venue
<1>5. Handles'
  BY <1>1, <1>3, <1>4 DEF Handles, Entering, Protecting, Cancelling
<1>6. Prepared'
  BY <1>3, <1>4 DEF Prepared, journal
<1>7. \A o \in Opens : status'[PlaceOf(o)] = status[PlaceOf(o)]
  BY <1>1, <1>3, Apart
<1>8. EntryKnown'
  BY <1>3 DEF EntryKnown, Protecting
<1>9. ExitKnown'
  BY <1>1, <1>3, <1>4, <1>7 DEF ExitKnown, Withdrawing, Flattened, Closed, Cancelling, Closable, Withdrawn
<1>10. Ended'
  <2>1. \A o \in Opens : Good(o) => Good(o)'
    BY <1>3, <1>7, MutateGood DEF IInv
  <2>2. at'["orders"] # "place" /\ at'["orders"] \notin Reported
    BY <1>3 DEF Reported
  <2>3. Ended /\ order' \notin acked
    BY <1>4 DEF IInv, Ended
  <2> QED
    BY <1>4, <2>1, <2>2, <2>3, EndedKept
<1> QED
  BY <1>5, <1>6, <1>8, <1>9, <1>10 DEF Handler

\* A confirmation settles the row of the answer in hand.
Confirmed(e, next) ==
  /\ UNCHANGED <<venue, sent, resent, dropped, cache, order, report, reply, acked, queue, control,
                 recovery, doing, lock>>
  /\ at'["orders"] = next /\ \A q \in Tasks \ {"orders"} : at'[q] = at[q]
  /\ status'[e] = "SETTLED" /\ \A x \in Effects : x # e => status'[x] = status[x]

LEMMA ConfirmFacts ==
  ASSUME TypeOK, NEW e \in Effects, NEW a, NEW n, Confirm(a, e, n)
  PROVE  Confirmed(e, n)
<1>1. /\ UNCHANGED <<venue, sent, resent, dropped, cache, order, report, reply, acked, queue, control,
                     recovery, doing, lock>>
      /\ Settle(e, reply) /\ Go("orders", n)
  BY DEF Confirm, wire, bus, engine
<1>2. status'[e] = "SETTLED" /\ \A x \in Effects : x # e => status'[x] = status[x]
  BY <1>1 DEF Settle, Known, journal, TypeOK
<1> QED
  BY <1>1, <1>2, Going, TaskNames DEF Confirmed

LEMMA ConfirmPlaceKept == ASSUME IInv, Steady, ConfirmPlace PROVE Handler'
<1> DEFINE e == PlaceOf(order)
<1>0. TypeOK
  BY DEF IInv
<1>1. at["orders"] = "confirm place" /\ order \in Opens /\ e \in Effects
  BY Apart DEF ConfirmPlace, Confirm, IInv, Handles, Entering
<1>2. Confirmed(e, "classify")
  BY <1>0, <1>1, ConfirmFacts, MineNames, Zenon DEF ConfirmPlace
<1>3. /\ order' = order /\ reply' = reply /\ acked' = acked /\ cache' = cache /\ dropped' = dropped
      /\ slipped' = slipped /\ held' = held /\ working' = working
      /\ at'["orders"] = "classify"
      /\ status'[e] = "SETTLED" /\ \A x \in Effects : x # e => status'[x] = status[x]
  BY <1>2 DEF Confirmed, venue
<1>4. order \in Orders
  BY <1>1, Names
<1>5. Handles'
  BY <1>1, <1>3, <1>4 DEF Handles, Entering, Protecting, Cancelling
<1>6. Prepared'
  BY <1>3 DEF Prepared
<1>7. EntryKnown'
  <2>1. /\ reply \in Acks /\ (reply = "dead" => Over(order)) /\ (reply = "filled" => Withdrawn(order))
    BY <1>1 DEF IInv, EntryKnown
  <2>2. \A o \in Opens : e # StopOf(o) /\ (e = PlaceOf(o) => o = order)
    BY <1>1, Apart
  <2>3. Closable(order)' /\ Honest(e, reply)'
    BY <1>3, <2>1, <2>2 DEF Honest, Over, Withdrawn, Closable
  <2> QED
    BY <1>3, <2>3 DEF EntryKnown, Protecting
<1>8. ExitKnown'
  BY <1>3 DEF ExitKnown, Withdrawing, Flattened, Leaving, Closed, Cancelling
<1>9. Ended'
  <2>1. status[e] = "PREPARED"
    BY <1>1 DEF IInv, Prepared
  <2>2. \A o \in Opens : status[PlaceOf(o)] = "NONE" => status'[PlaceOf(o)] = "NONE"
    BY <1>1, <1>3, <2>1, Apart
  <2>3. \A o \in Opens : Good(o) /\ ~slipped' => Good(o)'
    BY <1>3, <2>2, GoodKept
  <2>4. at'["orders"] # "place" /\ at'["orders"] \notin Reported /\ Ended /\ order' \notin acked
    BY <1>3 DEF Reported, IInv, Ended
  <2> QED
    BY <1>3, <2>3, <2>4, EndedKept
<1> QED
  BY <1>5, <1>6, <1>7, <1>8, <1>9 DEF Handler

LEMMA ConfirmStopKept == ASSUME IInv, Steady, ConfirmStop PROVE Handler'
<1> DEFINE e == StopOf(order)
<1>0. TypeOK
  BY DEF IInv
<1>1. /\ at["orders"] = "confirm stop" /\ order \in Opens /\ e \in Effects
      /\ Closable(order) /\ report \in {"open", "filled", "bad"}
      /\ (report = "filled" /\ ~slipped => Withdrawn(order)) /\ (~slipped => Safe(order))
  BY Apart DEF ConfirmStop, Confirm, IInv, Handles, Protecting, EntryKnown
<1>2. Confirmed(e, "stopped")
  BY <1>0, <1>1, ConfirmFacts, MineNames, Zenon DEF ConfirmStop
<1>3. /\ order' = order /\ reply' = reply /\ report' = report /\ acked' = acked /\ cache' = cache
      /\ dropped' = dropped /\ slipped' = slipped /\ held' = held /\ working' = working /\ stops' = stops
      /\ at'["orders"] = "stopped" /\ \A x \in Effects : x # e => status'[x] = status[x]
  BY <1>2 DEF Confirmed, venue
<1>4. order \in Orders
  BY <1>1, Names
<1>5. Handles'
  BY <1>1, <1>3, <1>4 DEF Handles, Entering, Protecting, Cancelling
<1>6. Prepared'
  BY <1>3 DEF Prepared
<1>7. \A o \in Opens : status'[PlaceOf(o)] = status[PlaceOf(o)]
  BY <1>1, <1>3, Apart
<1>8. EntryKnown'
  BY <1>1, <1>3, <1>7 DEF EntryKnown, Closable, Withdrawn, Over, Safe
<1>9. ExitKnown'
  BY <1>3 DEF ExitKnown, Withdrawing, Flattened, Leaving, Closed, Cancelling
<1>10. Ended'
  <2>1. \A o \in Opens : Good(o) /\ ~slipped' => Good(o)'
    BY <1>3, <1>7, GoodKept
  <2>2. at'["orders"] # "place" /\ at'["orders"] \notin Reported /\ Ended /\ order' \notin acked
    BY <1>3 DEF Reported, IInv, Ended
  <2> QED
    BY <1>3, <2>1, <2>2, EndedKept
<1> QED
  BY <1>5, <1>6, <1>8, <1>9, <1>10 DEF Handler

LEMMA ConfirmExitKept == ASSUME IInv, Steady, ConfirmExit PROVE Handler'
<1> DEFINE e == ExitOf(order)
<1>0. TypeOK
  BY DEF IInv
<1>1. /\ at["orders"] = "confirm exit" /\ order \in Orders /\ e \in Effects /\ e \in Exits
      /\ order \in Opens /\ report # "ambiguous" => Closable(order) /\ (~slipped => Withdrawn(order))
  BY Names, Sorts DEF ConfirmExit, Confirm, IInv, Handles, Leaving, ExitKnown
<1>2. Confirmed(e, "exited")
  BY <1>0, <1>1, ConfirmFacts, MineNames, Zenon DEF ConfirmExit
<1>3. /\ order' = order /\ reply' = reply /\ report' = report /\ acked' = acked /\ cache' = cache
      /\ dropped' = dropped /\ slipped' = slipped /\ held' = held /\ working' = working /\ stops' = stops
      /\ at'["orders"] = "exited" /\ \A x \in Effects : x # e => status'[x] = status[x]
  BY <1>2 DEF Confirmed, venue
<1>4. Handles'
  BY <1>1, <1>3 DEF Handles, Entering, Protecting, Cancelling
<1>5. Prepared'
  BY <1>3 DEF Prepared
<1>6. \A o \in Opens : status'[PlaceOf(o)] = status[PlaceOf(o)]
  BY <1>1, <1>3, Apart
<1>7. EntryKnown'
  BY <1>3 DEF EntryKnown, Protecting
<1>8. ExitKnown'
  BY <1>1, <1>3, <1>6 DEF ExitKnown, Withdrawing, Flattened, Closed, Cancelling, Closable, Withdrawn
<1>9. Ended'
  <2>1. \A o \in Opens : Good(o) /\ ~slipped' => Good(o)'
    BY <1>3, <1>6, GoodKept
  <2>2. at'["orders"] # "place" /\ at'["orders"] \notin Reported /\ Ended /\ order' \notin acked
    BY <1>3 DEF Reported, IInv, Ended
  <2> QED
    BY <1>3, <2>1, <2>2, EndedKept
<1> QED
  BY <1>4, <1>5, <1>7, <1>8, <1>9 DEF Handler

\* A call is answered, refused, or lost.
Called(e, confirm, lost) ==
  /\ UNCHANGED <<slipped, status, answer, fresh, queue, acked, dropped, cache, order, control, recovery,
                 doing, lock>>
  /\ sent' = sent \cup {e} /\ \A q \in Tasks \ {"orders"} : at'[q] = at[q]
  /\ \/ /\ at'["orders"] = confirm /\ report' = report /\ late' = late /\ Land(e) /\ reply' \in Answers(e)
        /\ reply' = "filled" => e \notin working'
     \/ /\ at'["orders"] = confirm /\ report' = report /\ late' = late /\ reply' \in Refusals(e)
        /\ UNCHANGED <<held, working, stops>>
     \/ /\ at'["orders"] = lost /\ reply' = reply
        /\ report' = IF e[1] = "place" THEN "ambiguous" ELSE report
        /\ Land(e) \/ UNCHANGED <<held, working, stops>>

LEMMA CallFacts ==
  ASSUME TypeOK, NEW e, Call(e), NEW c, Answered(e) => Go("orders", c)
  PROVE  Called(e, c, OnError(at["orders"]))
<1>1. /\ UNCHANGED <<slipped, status, answer, fresh, queue, acked, dropped, cache, order, control, recovery,
                     doing, lock>>
      /\ sent' = sent \cup {e}
  BY DEF Call, Sent, journal, bus
<1>2. \A a : Go("orders", a) => at'["orders"] = a /\ \A q \in Tasks \ {"orders"} : at'[q] = at[q]
  BY Going, TaskNames
<1>3. CASE /\ Land(e) /\ \E a \in Answers(e) :
                /\ reply' = a
                /\ (a = "filled" => e \notin working') /\ (a = "open" => e \in working')
           /\ Answered(e) /\ UNCHANGED <<late, report, faults>>
  BY <1>1, <1>2, <1>3 DEF Called
<1>4. CASE /\ reply' \in Refusals(e)
           /\ Answered(e) /\ UNCHANGED <<held, working, stops, late, report, faults>>
  BY <1>1, <1>2, <1>4 DEF Called
<1>5. CASE /\ \/ Land(e) /\ UNCHANGED late
              \/ late' = late \cup {e} /\ UNCHANGED <<held, working, stops>>
           /\ Go("orders", OnError(at["orders"]))
           /\ report' = IF e[1] = "place" THEN "ambiguous" ELSE report
           /\ UNCHANGED reply
  BY <1>1, <1>2, <1>5 DEF Called
<1> QED
  BY <1>3, <1>4, <1>5 DEF Call

LEMMA SendPlaceKept == ASSUME IInv, Steady, SendPlace PROVE Handler'
<1> DEFINE e == PlaceOf(order)
<1>0. TypeOK
  BY DEF IInv
<1>1. /\ at["orders"] = "send place" /\ order \in Opens /\ e \in Effects /\ e[1] = "place"
      /\ e \in fresh /\ status[e] = "PREPARED" /\ e \notin sent /\ Call(e)
  BY Apart, Names, MineNames DEF SendPlace, IInv, Handles, Entering, Prepared
<1>2. Called(e, "confirm place", "ambiguous")
  <2>1. OnError(at["orders"]) = "ambiguous"
    BY <1>1 DEF OnError
  <2>2. Answered(e) => Go("orders", "confirm place")
    BY <1>1 DEF Answered
  <2> QED
    BY <1>0, <1>1, <2>1, <2>2, CallFacts
<1>3. /\ order' = order /\ acked' = acked /\ cache' = cache /\ dropped' = dropped
      /\ slipped' = slipped /\ status' = status /\ fresh' = fresh /\ e \in sent'
  BY <1>2 DEF Called
<1>4. \/ /\ at'["orders"] = "confirm place" /\ late' = late /\ reply' \in {"open", "filled", "bad"}
         /\ reply' = "filled" => e \notin working'
      \/ /\ at'["orders"] = "confirm place" /\ late' = late /\ reply' = "dead"
         /\ held' = held /\ working' = working
      \/ at'["orders"] = "ambiguous" /\ report' = "ambiguous"
  BY <1>1, <1>2 DEF Called, Answers, Refusals
<1>5. order \in Orders
  BY <1>1, Names
<1>6. Handles'
  BY <1>1, <1>3, <1>4, <1>5 DEF Handles, Entering, Protecting, Cancelling
<1>7. Prepared'
  BY <1>1, <1>3, <1>4 DEF Prepared
<1>8. EntryKnown'
  <2>1. e \notin late /\ Over(order)
    BY <1>1 DEF IInv, World, EntryOnce, Over, Withdrawn
  <2> QED
    BY <1>3, <1>4, <2>1 DEF EntryKnown, Protecting, Over, Withdrawn, Acks
<1>9. ExitKnown'
  BY <1>4 DEF ExitKnown, Withdrawing, Flattened, Leaving, Closed, Cancelling
<1>10. Ended'
  <2>1. \A o \in Opens : Good(o) /\ ~slipped' => Good(o)'
    BY <1>3, GoodKept
  <2>2. at'["orders"] # "place" /\ at'["orders"] \notin Reported /\ Ended /\ order' \notin acked
    BY <1>3, <1>4 DEF Reported, IInv, Ended
  <2> QED
    BY <1>3, <2>1, <2>2, EndedKept
<1> QED
  BY <1>6, <1>7, <1>8, <1>9, <1>10 DEF Handler

LEMMA SendStopKept == ASSUME IInv, Steady, SendStop PROVE Handler'
<1> DEFINE e == StopOf(order)
<1>0. TypeOK
  BY DEF IInv
<1>1. /\ at["orders"] = "send stop" /\ order \in Opens /\ e \in Effects /\ e[1] = "stop"
      /\ e \in fresh /\ status[e] = "PREPARED" /\ Call(e)
      /\ Closable(order) /\ report \in {"open", "filled", "bad"}
      /\ (report = "filled" /\ ~slipped => Withdrawn(order))
  BY Apart, Names, MineNames DEF SendStop, IInv, Handles, Protecting, Prepared, EntryKnown
<1>2. Called(e, "confirm stop", "compensate")
  <2>1. OnError(at["orders"]) = "compensate"
    BY <1>1 DEF OnError
  <2>2. Answered(e) => Go("orders", "confirm stop")
    BY <1>1 DEF Answered
  <2> QED
    BY <1>0, <1>1, <2>1, <2>2, CallFacts
<1>3. /\ order' = order /\ acked' = acked /\ cache' = cache /\ dropped' = dropped
      /\ slipped' = slipped /\ status' = status /\ fresh' = fresh
  BY <1>2 DEF Called
<1>4. \/ at'["orders"] = "confirm stop" /\ report' = report /\ Land(e)
      \/ at'["orders"] = "compensate" /\ report' = report /\ (Land(e) \/ working' = working)
  BY <1>1, <1>2 DEF Called, Refusals
<1>5. Land(e) => working' = working /\ stops'[order] > 0
  <2>1. Land(e) => stops' = [stops EXCEPT ![order] = @ + 1] /\ working' = working
    BY <1>1, Landings
  <2>2. stops \in [Opens -> Nat] /\ order \in Opens
    BY <1>0, <1>1 DEF TypeOK
  <2>3. stops' = [stops EXCEPT ![order] = @ + 1] => stops'[order] > 0
    BY <2>2
  <2> QED
    BY <2>1, <2>3
<1>6. order \in Orders
  BY <1>1, Names
<1>7. Handles'
  BY <1>1, <1>3, <1>4, <1>6 DEF Handles, Entering, Protecting, Cancelling
<1>8. Prepared'
  BY <1>1, <1>3, <1>4 DEF Prepared
<1>9. EntryKnown'
  BY <1>1, <1>3, <1>4, <1>5 DEF EntryKnown, Safe, Withdrawn, Closable
<1>10. ExitKnown'
  BY <1>4 DEF ExitKnown, Withdrawing, Flattened, Leaving, Closed, Cancelling
<1>11. Ended'
  <2>1. \A o \in Opens : Good(o) /\ ~slipped' => Good(o)'
    BY <1>3, GoodKept
  <2>2. at'["orders"] # "place" /\ at'["orders"] \notin Reported /\ Ended /\ order' \notin acked
    BY <1>3, <1>4 DEF Reported, IInv, Ended
  <2> QED
    BY <1>3, <2>1, <2>2, EndedKept
<1> QED
  BY <1>7, <1>8, <1>9, <1>10, <1>11 DEF Handler

LEMMA SendExitKept == ASSUME IInv, Steady, SendExit PROVE Handler'
<1> DEFINE e == ExitOf(order)
<1>0. TypeOK
  BY DEF IInv
<1>1. /\ at["orders"] = "send exit" /\ order \in Orders /\ e \in Effects /\ e[1] = "exit"
      /\ e \in fresh /\ status[e] = "PREPARED" /\ Call(e)
      /\ order \in Opens /\ report # "ambiguous" => Closable(order) /\ (~slipped => Withdrawn(order))
  BY Names, Sorts, MineNames DEF SendExit, IInv, Handles, Leaving, Prepared, ExitKnown
<1>2. Called(e, "confirm exit", "lost")
  <2>1. OnError(at["orders"]) = "lost"
    BY <1>1 DEF OnError
  <2>2. Answered(e) => Go("orders", "confirm exit")
    BY <1>1 DEF Answered
  <2> QED
    BY <1>0, <1>1, <2>1, <2>2, CallFacts
<1>3. /\ order' = order /\ acked' = acked /\ cache' = cache /\ dropped' = dropped /\ report' = report
      /\ slipped' = slipped /\ status' = status /\ fresh' = fresh
      /\ at'["orders"] \in {"confirm exit", "lost"}
  BY <1>1, <1>2 DEF Called
<1>4. Handles'
  BY <1>1, <1>3 DEF Handles, Entering, Protecting, Cancelling
<1>5. Prepared'
  BY <1>1, <1>3 DEF Prepared
<1>6. EntryKnown'
  BY <1>3 DEF EntryKnown, Protecting
<1>7. ExitKnown'
  <2>1. Closable(order) => Closable(order)'
    BY <1>3 DEF Closable
  <2>2. order \in Opens /\ Closable(order) /\ ~slipped' /\ Withdrawn(order) => PlaceOf(order) \notin working'
    BY DEF Steady, Withdrawn
  <2>3. Withdrawn(order)' <=> PlaceOf(order) \notin working'
    BY <1>3 DEF Withdrawn
  <2> QED
    BY <1>1, <1>3, <2>1, <2>2, <2>3 DEF ExitKnown, Withdrawing, Flattened, Closed, Cancelling
<1>8. Ended'
  <2>1. \A o \in Opens : Good(o) /\ ~slipped' => Good(o)'
    BY <1>3, GoodKept
  <2>2. at'["orders"] # "place" /\ at'["orders"] \notin Reported /\ Ended /\ order' \notin acked
    BY <1>3 DEF Reported, IInv, Ended
  <2> QED
    BY <1>3, <2>1, <2>2, EndedKept
<1> QED
  BY <1>4, <1>5, <1>6, <1>7, <1>8 DEF Handler

-----------------------------------------------------------------------------
(* The handler takes an order, cancels, reports and acknowledges *)

\* An answer from the cache only reorders it.
LEMMA RefreshedKeeps ==
  ASSUME cache \in Seq(Orders), NEW o \in Orders, Cached(o)
  PROVE  /\ Refreshed(o) \in Seq(Orders)
         /\ \A u : (\E i \in 1..Len(Refreshed(o)) : Refreshed(o)[i] = u) <=> Cached(u)
<1> DEFINE n == Len(cache)
           i == CHOOSE i \in 1..n : cache[i] = o
           f == [j \in 1..n |-> IF j = n THEN o ELSE cache[IF j < i THEN j ELSE j + 1]]
<1>1. i \in 1..n /\ cache[i] = o /\ n \in Nat
  BY DEF Cached
<1>2. Refreshed(o) = f
  BY DEF Refreshed
<1> HIDE DEF i
<1>3. \A j \in 1..n : cache[j] \in Orders
  OBVIOUS
<1>4. f \in Seq(Orders) /\ Len(f) = n
  BY <1>1, <1>3
<1>5. ASSUME NEW u, NEW j \in 1..n, f[j] = u PROVE Cached(u)
  BY <1>1, <1>5 DEF Cached
<1>6. ASSUME NEW u, NEW j \in 1..n, cache[j] = u PROVE \E k \in 1..n : f[k] = u
  <2>1. CASE j = i
    BY <1>1, <1>6, <2>1
  <2>2. CASE j < i
    BY <1>1, <1>6, <2>2
  <2>3. CASE j > i
    <3>1. j - 1 \in 1..n /\ f[j - 1] = u
      BY <1>1, <1>6, <2>3
    <3> QED
      BY <3>1
  <2> QED
    BY <1>1, <2>1, <2>2, <2>3
<1> HIDE DEF f
<1> QED
  BY <1>2, <1>4, <1>5, <1>6 DEF Cached

LEMMA TakeCaches ==
  ASSUME IInv, NEW o \in Orders, Take(o)
  PROVE  cache' \in Seq(Orders) /\ \A u : Cached(u)' <=> Cached(u)
<1>1. cache \in Seq(Orders) /\ cache' = IF Cached(o) THEN Refreshed(o) ELSE cache
  BY DEF IInv, TypeOK, Take
<1>2. CASE Cached(o)
  <2>1. cache' = Refreshed(o)
    BY <1>1, <1>2
  <2>2. \A u : Cached(u)' <=> \E i \in 1..Len(Refreshed(o)) : Refreshed(o)[i] = u
    BY <2>1 DEF Cached
  <2> QED
    BY <1>1, <1>2, <2>1, <2>2, RefreshedKeeps
<1>3. CASE ~Cached(o)
  BY <1>1, <1>3 DEF Cached
<1> QED
  BY <1>2, <1>3

LEMMA TakeKept == ASSUME IInv, NEW o \in Orders, Take(o) PROVE Handler'
<1>1. /\ Quiet /\ dropped \subseteq dropped' /\ acked' = acked /\ order' = o
      /\ o \notin acked
  BY DEF Take, Quiet, bus
<1>2. \/ at'["orders"] = "publish" /\ Cached(o)
      \/ /\ at'["orders"] = "result" /\ o \in Opens
         /\ status[PlaceOf(o)] # "NONE" => o \in dropped'
      \/ at'["orders"] = "place" /\ o \in Opens /\ ~Cached(o)
      \/ at'["orders"] = "flat" /\ o \notin Opens
  <2>1. CASE Cached(o) /\ Go("orders", "publish")
    BY <2>1, Going, TaskNames DEF IInv
  <2>2. CASE ~Cached(o) /\ o \in Opens /\ quant /\ Go("orders", "result")
    BY <2>2, Going, TaskNames, MineNames DEF IInv, Take
  <2>3. CASE ~Cached(o) /\ o \in Opens /\ Go("orders", "place")
    BY <2>3, Going, TaskNames DEF IInv
  <2>4. CASE o \in Closes /\ Go("orders", "flat")
    BY <2>4, Going, TaskNames, Names DEF IInv
  <2> QED
    BY <2>1, <2>2, <2>3, <2>4 DEF Take
<1>3. Handles'
  BY <1>1, <1>2 DEF Handles, Entering, Protecting, Cancelling
<1>4. Prepared'
  BY <1>2 DEF Prepared
<1>5. EntryKnown'
  BY <1>2 DEF EntryKnown, Protecting
<1>6. ExitKnown'
  BY <1>1, <1>2 DEF ExitKnown, Withdrawing, Flattened, Leaving, Closed, Cancelling
<1>7. \A u \in Opens : Good(u) => Good(u)'
  BY <1>1, QuietGood
<1>8. \A u : Cached(u)' <=> Cached(u)
  BY TakeCaches
<1>9. slipped' = slipped /\ status' = status
  BY <1>1, QuietFacts
<1>10. at'["orders"] \in Reported /\ o \in Opens /\ ~slipped' => Good(o)'
  <2>1. CASE at'["orders"] = "publish" /\ Cached(o)
    BY <1>7, <1>9, <2>1 DEF IInv, Ended
  <2>2. CASE status[PlaceOf(o)] # "NONE" => o \in dropped'
    BY <1>9, <2>2 DEF Good
  <2> QED
    BY <1>2, <2>1, <2>2 DEF Reported
<1>11. Ended'
  BY <1>1, <1>2, <1>7, <1>8, <1>9, <1>10 DEF IInv, Ended
<1> QED
  BY <1>3, <1>4, <1>5, <1>6, <1>11 DEF Handler

\* A cancellation is prepared, resumed, or known.
LEMMA CancelOrderKept == ASSUME IInv, Steady, CancelOrder PROVE Handler'
<1> DEFINE e == <<"cancel", Mine(IF Compensating THEN "place" ELSE "exit")>>
<1>1. /\ UNCHANGED <<venue, dropped, acked, cache, order, report, reply>> /\ (Compensating => MayBeActive)
      /\ doing' = [doing EXCEPT !["orders"] = e]
      /\ \/ IsNew(e) /\ Prepare(e) /\ Go("orders", "cancelling")
         \/ status[e] = "PREPARED" /\ Go("orders", "cancelling") /\ UNCHANGED journal
         \/ Known(e) /\ Go("orders", "cancelled") /\ UNCHANGED journal
      /\ Compensating \/ at["orders"] = "cancel exit"
  BY DEF CancelOrder, wire, bus, engine, Compensating
<1>2. /\ order \in Orders
      /\ \/ Compensating /\ order \in Opens /\ e = CancelOf(PlaceOf(order))
         \/ ~Compensating /\ e = CancelOf(ExitOf(order))
  <2>1. CASE Compensating
    <3>1. order \in Opens
      BY <2>1 DEF Compensating, IInv, Handles, Protecting
    <3> QED
      BY <2>1, <3>1, MineNames, Names DEF CancelOf
  <2>2. CASE ~Compensating
    <3>1. order \in Orders
      BY <1>1, <2>2 DEF IInv, Handles
    <3> QED
      BY <2>2, <3>1, MineNames DEF CancelOf
  <2> QED
    BY <2>1, <2>2
<1>3. e \in Effects /\ e \in Cancels /\ (order \in Opens => CancelOf(PlaceOf(order)) # CancelOf(ExitOf(order)))
  <2>1. \A o \in Opens : PlaceOf(o) \in Places
    BY Names
  <2>2. \A x \in Places \cup Exits : CancelOf(x) \in Cancels /\ CancelOf(x)[2] = x
    BY Names
  <2>3. ExitOf(order) \in Exits
    BY <1>2, Names
  <2> HIDE DEF e
  <2>4. e \in Cancels
    BY <1>2, <2>1, <2>2, <2>3
  <2>5. order \in Opens => CancelOf(PlaceOf(order)) # CancelOf(ExitOf(order))
    BY <2>1, <2>2, <2>3, Sorts
  <2> QED
    BY <2>4, <2>5, Sorts
<1> HIDE DEF e
<1>4. /\ order' = order /\ report' = report /\ reply' = reply /\ acked' = acked /\ cache' = cache
      /\ dropped' = dropped /\ slipped' = slipped /\ held' = held /\ working' = working /\ stops' = stops
  BY <1>1 DEF venue
<1>5. /\ doing'["orders"] = e
      /\ \A x \in Effects : x # e => status'[x] = status[x]
      /\ \/ at'["orders"] = "cancelling" /\ status'[e] # "NONE"
         \/ at'["orders"] = "cancelled"
  <2>1. doing'["orders"] = e
    BY <1>1, TaskNames DEF IInv, TypeOK
  <2>2. CASE IsNew(e) /\ Prepare(e) /\ Go("orders", "cancelling")
    BY <1>3, <2>1, <2>2, Going, TaskNames DEF Prepare, IInv, TypeOK
  <2>3. CASE status[e] = "PREPARED" /\ Go("orders", "cancelling") /\ UNCHANGED journal
    BY <1>3, <2>1, <2>3, Going, TaskNames DEF journal, IInv
  <2>4. CASE Known(e) /\ Go("orders", "cancelled") /\ UNCHANGED journal
    BY <1>3, <2>1, <2>4, Going, TaskNames DEF journal, IInv
  <2> QED
    BY <1>1, <2>2, <2>3, <2>4
<1>6. Handles'
  BY <1>2, <1>4, <1>5 DEF Handles, Entering, Protecting, Cancelling
<1>7. Prepared'
  BY <1>5 DEF Prepared
<1>8. EntryKnown'
  BY <1>5 DEF EntryKnown, Protecting
<1>9. \A o \in Opens : status'[PlaceOf(o)] = status[PlaceOf(o)]
  BY <1>3, <1>5, Apart
<1>10. ExitKnown'
  <2>1. SUFFICES ASSUME order \in Opens
                 PROVE  /\ Withdrawing' => /\ report \in {"open", "bad", "ambiguous"}
                                           /\ report # "ambiguous" => Closable(order)
                        /\ Flattened' /\ report # "ambiguous" => Closable(order) /\ (~slipped => Over(order))
    BY <1>4, <1>5, <1>9 DEF ExitKnown, Leaving, Closable, Over, Withdrawn
  <2>2. at'["orders"] \in Cancelling /\ at'["orders"] \notin Closed
    BY <1>5 DEF Cancelling, Closed
  <2>3. CASE Compensating /\ e = CancelOf(PlaceOf(order))
    <3>1. ~Flattened'
      BY <1>3, <1>4, <1>5, <2>1, <2>2, <2>3 DEF Flattened
    <3>2. report \in {"open", "bad", "ambiguous"} /\ (report # "ambiguous" => Closable(order))
      BY <1>1, <2>3 DEF Compensating, MayBeActive, IInv, EntryKnown, Protecting
    <3> QED
      BY <3>1, <3>2
  <2>4. CASE ~Compensating /\ e = CancelOf(ExitOf(order))
    <3>1. ~Withdrawing'
      BY <1>3, <1>4, <1>5, <2>1, <2>2, <2>4 DEF Withdrawing
    <3>2. report # "ambiguous" => Closable(order) /\ (~slipped => Over(order))
      BY <1>1, <2>1, <2>4 DEF IInv, ExitKnown, Flattened, Closed
    <3> QED
      BY <3>1, <3>2
  <2> QED
    BY <1>2, <2>3, <2>4
<1>11. Ended'
  <2>1. \A o \in Opens : Good(o) /\ ~slipped' => Good(o)'
    BY <1>4, <1>9, GoodKept
  <2>2. at'["orders"] # "place" /\ at'["orders"] \notin Reported /\ Ended /\ order' \notin acked
    BY <1>4, <1>5 DEF Reported, IInv, Ended
  <2> QED
    BY <1>4, <2>1, <2>2, EndedKept
<1> QED
  BY <1>6, <1>7, <1>8, <1>10, <1>11 DEF Handler

\* A compensated entry is gone: its report is an end.
LEMMA FinishKept == ASSUME IInv, Finish PROVE Handler'
<1>1. CASE Raise("orders")
  BY <1>1, RaiseKept
<1>2. CASE /\ report # "ambiguous" /\ report' = "canceled" /\ Go("orders", "result")
           /\ UNCHANGED <<Engine, cache, order, reply, doing>>
  <2>1. /\ Quiet /\ dropped' = dropped /\ cache' = cache /\ acked' = acked /\ order' = order
        /\ at'["orders"] = "result"
    BY <1>2, Going, TaskNames DEF Engine, Quiet, wire, bus, IInv
  <2>2. at["orders"] = "finish" /\ order \in Orders
    BY DEF Finish, IInv, Handles
  <2>3. order \in Opens => Closable(order) /\ (~slipped => Over(order))
    BY <1>2, <2>2 DEF IInv, ExitKnown, Flattened, Closed
  <2>4. order \in Opens /\ ~slipped => Good(order)
    BY <2>3 DEF Good, Safe
  <2>5. \A o \in Opens : Good(o) => Good(o)'
    BY <2>1, QuietGood
  <2>6. Handles'
    BY <2>1, <2>2 DEF Handles, Entering, Protecting, Cancelling
  <2>7. Prepared' /\ EntryKnown'
    BY <2>1 DEF Prepared, EntryKnown, Protecting
  <2>8. ExitKnown'
    BY <2>1 DEF ExitKnown, Withdrawing, Flattened, Leaving, Closed, Cancelling
  <2>9. Ended'
    <3>1. slipped' = slipped
      BY <2>1, QuietFacts
    <3>2. at'["orders"] # "place" /\ Ended /\ order' \notin acked
      BY <2>1 DEF IInv, Ended
    <3> QED
      BY <2>1, <2>4, <2>5, <3>1, <3>2, EndedKept
  <2> QED
    BY <2>6, <2>7, <2>8, <2>9 DEF Handler
<1> QED
  BY <1>1, <1>2 DEF Finish

\* Only the order that is completed enters the cache.
LEMMA CompleteCache ==
  ASSUME TypeOK, Complete, NEW o, Cached(o)' PROVE Cached(o) \/ o = order
<1>1. /\ cache' = IF Len(cache) < CacheSize THEN Append(cache, order) ELSE Append(Tail(cache), order)
      /\ cache \in Seq(Orders) /\ CacheSize \in Nat \ {0}
  BY LegacyAssumption DEF Complete, TypeOK
<1>2. PICK i \in 1..Len(cache') : cache'[i] = o
  BY DEF Cached
<1>3. CASE Len(cache) < CacheSize
  <2>1. cache' = Append(cache, order) /\ Len(cache') = Len(cache) + 1
    BY <1>1, <1>3
  <2>2. CASE i \in 1..Len(cache)
    <3>1. cache[i] = o
      BY <1>1, <1>2, <2>1, <2>2
    <3> QED
      BY <2>2, <3>1 DEF Cached
  <2>3. CASE i = Len(cache) + 1
    BY <1>1, <1>2, <2>1, <2>3
  <2> QED
    BY <1>1, <1>2, <2>1, <2>2, <2>3
<1>4. CASE ~(Len(cache) < CacheSize)
  <2>1. Len(cache) \in Nat /\ Len(cache) > 0 /\ cache # <<>>
    BY <1>1, <1>4
  <2>2. /\ cache' = Append(Tail(cache), order) /\ Tail(cache) \in Seq(Orders)
        /\ Len(Tail(cache)) = Len(cache) - 1 /\ Len(cache') = Len(cache)
        /\ \A j \in 1..(Len(cache) - 1) : Tail(cache)[j] = cache[j + 1]
    BY <1>1, <1>4, <2>1
  <2>3. CASE i \in 1..(Len(cache) - 1)
    <3>1. cache[i + 1] = o /\ i + 1 \in 1..Len(cache)
      BY <1>2, <2>1, <2>2, <2>3
    <3> QED
      BY <3>1 DEF Cached
  <2>4. CASE i = Len(cache)
    BY <1>2, <2>1, <2>2, <2>4
  <2>5. i \in 1..(Len(cache) - 1) \/ i = Len(cache)
    <3>1. Len(cache') = Len(cache) /\ Len(cache) \in Nat
      BY <2>1, <2>2
    <3> HIDE DEF Cached
    <3> QED
      BY <1>2, <3>1
  <2> QED
    BY <2>3, <2>4, <2>5
<1> QED
  BY <1>3, <1>4

LEMMA ReportedKept == ASSUME IInv, Complete \/ Publish \/ Ack PROVE Handler'
<1>1. /\ Quiet /\ dropped' = dropped /\ slipped' = slipped
      /\ at["orders"] \in Reported /\ order \in Orders /\ order \notin acked
      /\ order \in Opens /\ ~slipped => Good(order)
  <2>1. Quiet /\ dropped' = dropped /\ at["orders"] \in Reported
    BY DEF Complete, Publish, Ack, Engine, Quiet, wire, Reported
  <2>2. at["orders"] # "idle"
    BY <2>1 DEF Reported
  <2> QED
    BY <2>1, <2>2, QuietFacts DEF IInv, Ended, Handles
<1>2. \A o \in Opens : Good(o) => Good(o)'
  BY <1>1, QuietGood
<1>3. /\ \/ at'["orders"] \in {"publish", "ack"} /\ order' = order /\ acked' = acked
         \/ at'["orders"] = "idle" /\ order' = None /\ acked' = acked \cup {order}
      /\ \A o : Cached(o)' => Cached(o) \/ o = order
  <2>1. CASE Complete
    <3>1. at'["orders"] \in {"publish", "ack"} /\ order' = order /\ acked' = acked
      BY <2>1, Going, TaskNames DEF Complete, Engine, bus, IInv
    <3> QED
      BY <2>1, <3>1, CompleteCache DEF IInv
  <2>2. CASE Publish
    BY <2>2, Going, TaskNames DEF Publish, engine, bus, IInv, Cached
  <2>3. CASE Ack
    BY <2>3, Going, TaskNames DEF Ack, IInv, Cached
  <2> QED
    BY <2>1, <2>2, <2>3
<1>4. Handles'
  BY <1>1, <1>3 DEF Handles, Entering, Protecting, Cancelling
<1>5. Prepared' /\ EntryKnown'
  BY <1>3 DEF Prepared, EntryKnown, Protecting
<1>6. ExitKnown'
  BY <1>3 DEF ExitKnown, Withdrawing, Flattened, Leaving, Closed, Cancelling
<1>7. \A o \in Opens : (o \in acked \/ Cached(o) \/ o = order) /\ ~slipped => Good(o)
  BY <1>1 DEF IInv, Ended
<1>8. \A o \in Opens : (o \in acked' \/ Cached(o)' \/ o = order) /\ ~slipped' => Good(o)'
  BY <1>1, <1>2, <1>3, <1>7
<1>9. Ended'
  <2>1. None \notin acked /\ order # None
    BY <1>1, Names DEF IInv, TypeOK
  <2>2. order' \notin acked' /\ at'["orders"] # "place"
    BY <1>1, <1>3, <2>1
  <2>3. at'["orders"] \in Reported => order' = order
    BY <1>3 DEF Reported
  <2> QED
    BY <1>8, <2>2, <2>3 DEF Ended
<1> QED
  BY <1>4, <1>5, <1>6, <1>9 DEF Handler

-----------------------------------------------------------------------------
(* The handler in a recovery procedure *)

\* What is known of an entry whose row is settled is carried along.
LEMMA CarryEnded ==
  ASSUME IInv, Steady, UNCHANGED <<order, cache, acked, dropped>>,
         at'["orders"] # "place", at'["orders"] \notin Reported,
         \A o \in Opens : status[PlaceOf(o)] = "NONE" => status'[PlaceOf(o)] = "NONE"
  PROVE  Ended'
<1>1. \A o \in Opens : Good(o) /\ ~slipped' => Good(o)'
  BY GoodKept
<1>2. Ended /\ order' \notin acked /\ (slipped => slipped')
  BY DEF IInv, Ended, Steady
<1> QED
  BY <1>1, <1>2, EndedKept

LEMMA CarryOrder ==
  ASSUME Steady, order' = order, order \in Opens
  PROVE  /\ Closable(order) => Closable(order)'
         /\ Closable(order) /\ ~slipped' => /\ ~slipped
                                            /\ Withdrawn(order) => Withdrawn(order)'
                                            /\ Over(order) => Over(order)'
                                            /\ Safe(order) => Safe(order)'
<1>1. PICK o \in Opens : o = order
  OBVIOUS
<1>2. PlaceOf(o) \in Effects
  BY Apart
<1>3. /\ Closable(o) => Closable(o)'
      /\ Closable(o) /\ ~slipped' => /\ ~slipped
                                     /\ Withdrawn(o) => Withdrawn(o)'
                                     /\ Over(o) => Over(o)'
                                     /\ Safe(o) => Safe(o)'
  BY <1>2 DEF Steady, Closable
<1>4. /\ Closable(order)' <=> Closable(o)'
      /\ Withdrawn(order)' <=> Withdrawn(o)'
      /\ Over(order)' <=> Over(o)'
      /\ Safe(order)' <=> Safe(o)'
  BY <1>1 DEF Closable, Withdrawn, Over, Safe
<1> QED
  BY <1>1, <1>3, <1>4

\* The entry that is looked up stays under the procedure.
LEMMA LookupCarried ==
  ASSUME IInv, Steady, UNCHANGED <<order, cache, acked, dropped>>, doing'["orders"] = doing["orders"],
         at["orders"] \in {"rplace", "rplace flat"}, at'["orders"] \in {"rplace", "rplace flat"},
         \A o \in Opens : status[PlaceOf(o)] = "NONE" => status'[PlaceOf(o)] = "NONE"
  PROVE  Handler'
<1>1. order \in Opens /\ order \in Orders /\ doing["orders"] = PlaceOf(order) /\ order' = order
      /\ PlaceOf(order) \in Effects
  BY Names, Apart DEF IInv, Handles, Entering
<1>2. Handles'
  BY <1>1 DEF Handles, Entering, Protecting, Cancelling
<1>3. Prepared'
  BY <1>1 DEF IInv, Prepared, Steady
<1>4. EntryKnown'
  BY DEF EntryKnown, Protecting
<1>5. ExitKnown'
  BY DEF ExitKnown, Withdrawing, Flattened, Leaving, Closed, Cancelling
<1>6. Ended'
  BY CarryEnded DEF Reported
<1> QED
  BY <1>2, <1>3, <1>4, <1>5, <1>6 DEF Handler

\* The stop of a settled entry is looked up, sent again or given up.
LEMMA ProtectionCarried ==
  ASSUME IInv, Steady, UNCHANGED <<order, report, cache, acked, dropped>>,
         at["orders"] \in {"rstop", "rstop send", "rstop confirm"},
         at'["orders"] \in {"rstop", "rstop send", "rstop confirm", "stopped", "compensate"},
         at'["orders"] \in {"rstop", "rstop send", "rstop confirm"} => doing'["orders"] = doing["orders"],
         at'["orders"] = "stopped" /\ reply' # "flat" /\ ~slipped' => Safe(order)',
         \A o \in Opens : status[PlaceOf(o)] = "NONE" => status'[PlaceOf(o)] = "NONE"
  PROVE  Handler'
<1>1. /\ order \in Opens /\ order \in Orders /\ doing["orders"] = StopOf(order) /\ order' = order
      /\ StopOf(order) \in Effects /\ report' = report /\ report \in {"open", "filled", "bad"}
      /\ Closable(order) /\ (report = "filled" /\ ~slipped => Withdrawn(order))
  BY Names, Apart DEF IInv, Handles, Protecting, EntryKnown
<1>2. Handles'
  BY <1>1 DEF Handles, Entering, Protecting, Cancelling
<1>3. Prepared'
  BY <1>1 DEF IInv, Prepared, Steady
<1>4. EntryKnown'
  BY <1>1, CarryOrder DEF EntryKnown
<1>5. ExitKnown'
  BY DEF ExitKnown, Withdrawing, Flattened, Leaving, Closed, Cancelling
<1>6. Ended'
  BY CarryEnded DEF Reported
<1> QED
  BY <1>2, <1>3, <1>4, <1>5, <1>6 DEF Handler

\* A cancellation goes on under its procedure.
LEMMA CancelCarried ==
  ASSUME IInv, Steady, UNCHANGED <<order, report, cache, acked, dropped>>,
         doing'["orders"] = doing["orders"], at["orders"] \in {"cancelling", "cancel verify"},
         at'["orders"] \in Cancelling,
         \A o \in Opens : status[PlaceOf(o)] = "NONE" => status'[PlaceOf(o)] = "NONE"
  PROVE  Handler'
<1>1. /\ order \in Orders /\ order' = order /\ report' = report /\ status[doing["orders"]] # "NONE"
      /\ at["orders"] \in Cancelling
  BY DEF IInv, Handles, Prepared, Cancelling
<1>2. doing["orders"] \in Effects
  BY InHandKnown, TaskNames DEF IInv, Base
<1>3. Handles'
  <2>1. \/ doing["orders"] = CancelOf(PlaceOf(order)) /\ order \in Opens
        \/ doing["orders"] = CancelOf(ExitOf(order))
    BY <1>1 DEF IInv, Handles
  <2> QED
    BY <1>1, <2>1 DEF Handles, Entering, Protecting, Cancelling
<1>4. Prepared'
  BY <1>1, <1>2 DEF Prepared, Steady, Cancelling
<1>5. EntryKnown'
  BY DEF EntryKnown, Protecting, Cancelling
<1>6. ExitKnown'
  <2>1. at'["orders"] \notin Leaving /\ at'["orders"] \notin Closed /\ at["orders"] \notin Closed
    BY DEF Leaving, Closed, Cancelling
  <2>2. (Withdrawing' => Withdrawing) /\ (Flattened' => Flattened)
    BY <1>1, <2>1 DEF Withdrawing, Flattened
  <2> QED
    BY <1>1, <2>1, <2>2, CarryOrder DEF IInv, ExitKnown
<1>7. Ended'
  BY CarryEnded DEF Reported, Cancelling
<1> QED
  BY <1>3, <1>4, <1>5, <1>6, <1>7 DEF Handler

\* The lost close is settled.
LEMMA CloseCarried ==
  ASSUME IInv, Steady, UNCHANGED <<order, report, cache, acked, dropped>>,
         at["orders"] = "rclose", at'["orders"] = "exited",
         \A o \in Opens : status[PlaceOf(o)] = "NONE" => status'[PlaceOf(o)] = "NONE"
  PROVE  Handler'
<1>1. /\ order \in Orders /\ order' = order /\ report' = report /\ at["orders"] \in Leaving
      /\ order \in Opens /\ report # "ambiguous" => Closable(order) /\ (~slipped => Withdrawn(order))
  BY DEF IInv, Handles, ExitKnown, Leaving
<1>2. Handles'
  BY <1>1 DEF Handles, Entering, Protecting, Cancelling
<1>3. Prepared' /\ EntryKnown'
  BY DEF Prepared, EntryKnown, Protecting
<1>4. ExitKnown'
  BY <1>1, CarryOrder DEF ExitKnown, Withdrawing, Flattened, Closed, Cancelling
<1>5. Ended'
  BY CarryEnded DEF Reported
<1> QED
  BY <1>2, <1>3, <1>4, <1>5 DEF Handler

\* A procedure settles the row in hand, and its task goes on.
Reconciled(p, a, n) ==
  /\ UNCHANGED <<venue, fresh, queue, cache, order, report, acked, control, recovery, sent, resent, dropped>>
  /\ reply' = IF p = "orders" THEN a ELSE reply
  /\ Alone(p) /\ lock'[p] = None
  /\ at'[p] = IF p = "recovery" THEN "scan" ELSE n
  /\ doing'[p] = IF p = "orders" /\ n = "cancelled" THEN doing[p] ELSE None
  /\ status'[doing[p]] = "SETTLED" /\ \A x \in Effects : x # doing[p] => status'[x] = status[x]

LEMMA ReconcileFacts ==
  ASSUME TypeOK, NEW p \in Tasks, doing[p] \in Effects, NEW a, NEW n, Reconcile(p, a, n)
  PROVE  Reconciled(p, a, n)
<1>1. /\ UNCHANGED <<venue, queue, cache, order, report, acked, control, recovery, sent, resent, dropped>>
      /\ reply' = IF p = "orders" THEN a ELSE reply
      /\ Settle(doing[p], a) /\ Leave(p, n)
  BY DEF Reconcile, bus, wire
<1>2. status'[doing[p]] = "SETTLED" /\ (\A x \in Effects : x # doing[p] => status'[x] = status[x])
      /\ fresh' = fresh
  BY <1>1 DEF Settle, Known, journal, TypeOK
<1>3. /\ Alone(p) /\ lock'[p] = None
      /\ at'[p] = IF p = "recovery" THEN "scan" ELSE n
      /\ doing'[p] = IF p = "orders" /\ n = "cancelled" THEN doing[p] ELSE None
  BY <1>1, LeavingTask
<1> QED
  BY <1>1, <1>2, <1>3 DEF Reconciled

\* A procedure of the handler about a row that was prepared.
LEMMA OrdersInHand ==
  ASSUME IInv, at["orders"] \in {"rplace", "rplace flat", "rstop", "rstop send", "rstop confirm", "rclose",
                                 "cancelling", "cancel verify"}
  PROVE  /\ TypeOK /\ doing["orders"] \in Effects /\ status[doing["orders"]] # "NONE"
         /\ order \in Orders
  BY InHandKnown, TaskNames DEF IInv, Base, Handles

LEMMA OrdersReconcile ==
  ASSUME IInv, at["orders"] \in {"rplace", "rplace flat", "rstop", "rstop send", "rstop confirm", "rclose",
                                 "cancelling", "cancel verify"},
         NEW a, NEW n, Reconcile("orders", a, n)
  PROVE  /\ UNCHANGED <<order, report, cache, acked, dropped>> /\ reply' = a /\ at'["orders"] = n
         /\ held' = held /\ working' = working /\ stops' = stops /\ slipped' = slipped
         /\ (n = "cancelled" => doing'["orders"] = doing["orders"])
         /\ status'[doing["orders"]] = "SETTLED"
         /\ \A o \in Opens : status[PlaceOf(o)] = "NONE" => status'[PlaceOf(o)] = "NONE"
<1>1. Reconciled("orders", a, n)
  BY OrdersInHand, ReconcileFacts, TaskNames
<1>2. \A o \in Opens : status[PlaceOf(o)] = "NONE" => status'[PlaceOf(o)] = "NONE"
  BY <1>1, OrdersInHand, Apart DEF Reconciled
<1> QED
  BY <1>1, <1>2 DEF Reconciled, venue

\* A lock taken changes nothing of what the handler knows.
LEMMA LockingKept ==
  ASSUME IInv, WorldMove, Steady, NEW p \in Tasks, NEW a, Locking(p, a) PROVE Handler'
<1>1. /\ UNCHANGED <<order, report, reply, cache, acked, dropped>> /\ at' = at /\ doing' = doing
      /\ status' = status /\ sent' = sent
  BY DEF Locking, engine, bus, wire, journal
<1> QED
  BY <1>1, HandlerKept DEF IInv, Handler

LEMMA RecoverPlaceKept == ASSUME IInv, WorldMove, Steady, RecoverPlace("orders") PROVE Handler'
<1>1. CASE Locking("orders", "rplace")
  BY <1>1, LockingKept, TaskNames
<1>2. CASE Owned("orders", "rplace") /\ Withdraw("orders", doing["orders"], "rplace")
  <2>1. at["orders"] = "rplace" /\ at'["orders"] = "rplace" /\ doing' = doing /\ status' = status
        /\ UNCHANGED <<order, cache, acked, dropped>>
    BY <1>2, Going, TaskNames DEF Owned, Withdraw, IInv, journal, engine, bus, wire
  <2> QED
    BY <2>1, LookupCarried
<1>3. CASE /\ Owned("orders", "rplace") /\ Go("orders", "rplace flat")
           /\ UNCHANGED <<venue, journal, bus, engine, control, recovery, doing, lock, wire>>
  <2>1. at["orders"] = "rplace" /\ at'["orders"] = "rplace flat" /\ doing' = doing /\ status' = status
        /\ UNCHANGED <<order, cache, acked, dropped>>
    BY <1>3, Going, TaskNames DEF Owned, IInv, journal, engine, bus, wire
  <2> QED
    BY <2>1, LookupCarried
<1>4. CASE Owned("orders", "rplace flat") /\ PositionFlat /\ Reconcile("orders", "dead", "classify")
  <2>1. /\ at["orders"] = "rplace flat" /\ held = {}
        /\ order \in Opens /\ doing["orders"] = PlaceOf(order)
    BY <1>4 DEF Owned, PositionFlat, IInv, Handles, Entering
  <2>2. /\ UNCHANGED <<order, report, cache, acked, dropped>> /\ reply' = "dead"
        /\ at'["orders"] = "classify" /\ held' = held /\ working' = working /\ slipped' = slipped
        /\ status'[doing["orders"]] = "SETTLED"
        /\ \A o \in Opens : status[PlaceOf(o)] = "NONE" => status'[PlaceOf(o)] = "NONE"
    BY <1>4, <2>1, OrdersReconcile
  <2>3. ~slipped => Over(order)
    BY <2>1, TaskNames DEF IInv, Looked, LookedAt, Over, Withdrawn
  <2>4. order' = order /\ order \in Orders
    BY <2>1, <2>2, Names
  <2>5. Handles'
    BY <2>1, <2>2, <2>4 DEF Handles, Entering, Protecting, Cancelling
  <2>6. Prepared'
    BY <2>2 DEF Prepared
  <2>7. EntryKnown'
    <3>1. \A o \in Opens : PlaceOf(order) # StopOf(o) /\ (PlaceOf(order) = PlaceOf(o) => o = order)
      BY <2>1, Apart
    <3>2. Honest(PlaceOf(order), "dead")'
      BY <2>2, <2>3, <2>4, <3>1 DEF Honest, Acks, Over, Withdrawn
    <3>3. Closable(order)'
      BY <2>1, <2>2, <2>4 DEF Closable
    <3>4. Honest(PlaceOf(order), reply)'
      BY <2>2, <3>2
    <3> QED
      BY <2>2, <3>3, <3>4 DEF EntryKnown, Protecting
  <2>8. ExitKnown'
    BY <2>2 DEF ExitKnown, Withdrawing, Flattened, Leaving, Closed, Cancelling
  <2>9. Ended'
    BY <2>2, CarryEnded DEF Reported
  <2> QED
    BY <2>5, <2>6, <2>7, <2>8, <2>9 DEF Handler
<1>5. CASE Raise("orders")
  BY <1>5, RaiseKept
<1>6. \/ Locking("orders", "rplace")
      \/ Owned("orders", "rplace") /\ Withdraw("orders", doing["orders"], "rplace")
      \/ /\ Owned("orders", "rplace") /\ Go("orders", "rplace flat")
         /\ UNCHANGED <<venue, journal, bus, engine, control, recovery, doing, lock, wire>>
      \/ Owned("orders", "rplace flat") /\ PositionFlat /\ Reconcile("orders", "dead", "classify")
      \/ Raise("orders")
  BY Zenon DEF RecoverPlace
<1> QED
  BY <1>1, <1>2, <1>3, <1>4, <1>5, <1>6, Zenon

LEMMA RecoverCloseKept == ASSUME IInv, WorldMove, Steady, RecoverClose("orders") PROVE Handler'
<1>1. CASE Locking("orders", "rclose")
  BY <1>1, LockingKept, TaskNames
<1>2. CASE /\ Owned("orders", "rclose")
           /\ Reconcile("orders", IF doing["orders"][2] \in Opens THEN "bad" ELSE "ok", "exited")
  <2>1. at["orders"] = "rclose"
    BY <1>2 DEF Owned
  <2> DEFINE a == IF doing["orders"][2] \in Opens THEN "bad" ELSE "ok"
  <2>2. Reconcile("orders", a, "exited")
    BY <1>2
  <2> HIDE DEF a
  <2>3. /\ UNCHANGED <<order, report, cache, acked, dropped>> /\ at'["orders"] = "exited"
        /\ \A o \in Opens : status[PlaceOf(o)] = "NONE" => status'[PlaceOf(o)] = "NONE"
    BY <2>1, <2>2, OrdersReconcile
  <2> QED
    BY <2>1, <2>3, CloseCarried
<1>3. CASE Raise("orders")
  BY <1>3, RaiseKept
<1>4. \/ Locking("orders", "rclose")
      \/ /\ Owned("orders", "rclose")
         /\ Reconcile("orders", IF doing["orders"][2] \in Opens THEN "bad" ELSE "ok", "exited")
      \/ Raise("orders")
  BY Zenon DEF RecoverClose
<1> QED
  BY <1>1, <1>2, <1>3, <1>4, Zenon

LEMMA RecoverStopKept ==
  ASSUME IInv, WorldMove, Steady, RecoverStop("orders") \/ StopLost("orders") PROVE Handler'
<1>1. CASE Locking("orders", "rstop")
  BY <1>1, LockingKept, TaskNames
<1>2. ASSUME at["orders"] \in {"rstop", "rstop confirm"}, NEW a, NEW n \in {"stopped", "compensate"},
             Reconcile("orders", a, n),
             n = "stopped" /\ ~slipped => stops[doing["orders"][2]] > 0 \/ Safe(doing["orders"][2])
      PROVE  Handler'
  <2>1. order \in Opens /\ doing["orders"] = StopOf(order) /\ doing["orders"][2] = order
    <3>1. order \in Opens /\ doing["orders"] = StopOf(order)
      BY <1>2 DEF IInv, Handles, Protecting
    <3>2. StopOf(order)[2] = order
      BY <3>1, Names
    <3> QED
      BY <3>1, <3>2
  <2>2. /\ UNCHANGED <<order, report, cache, acked, dropped>> /\ at'["orders"] = n
        /\ held' = held /\ working' = working /\ stops' = stops /\ slipped' = slipped
        /\ \A o \in Opens : status[PlaceOf(o)] = "NONE" => status'[PlaceOf(o)] = "NONE"
    BY <1>2, OrdersReconcile
  <2>3. n = "stopped" /\ ~slipped' => Safe(order)'
    BY <1>2, <2>1, <2>2 DEF Safe, Over, Withdrawn
  <2> QED
    BY <1>2, <2>2, <2>3, ProtectionCarried
<1>3. CASE Owned("orders", "rstop") /\ stops[doing["orders"][2]] > 0 /\ Reconcile("orders", "ok", "stopped")
  BY <1>2, <1>3 DEF Owned
<1>4. CASE Owned("orders", "rstop") /\ Reconcile("orders", "flat", "compensate")
  BY <1>2, <1>4 DEF Owned
<1>5. CASE Owned("orders", "rstop confirm") /\ Reconcile("orders", "ok", "stopped")
  BY <1>2, <1>5, TaskNames DEF Owned, IInv, Looked, LookedAt
<1>6. CASE /\ Owned("orders", "rstop") /\ Go("orders", "rstop send")
           /\ UNCHANGED <<venue, journal, bus, engine, control, recovery, doing, lock, wire>>
  <2>1. at["orders"] = "rstop" /\ at'["orders"] = "rstop send" /\ doing' = doing /\ status' = status
        /\ UNCHANGED <<order, report, cache, acked, dropped>>
    BY <1>6, Going, TaskNames DEF Owned, IInv, journal, engine, bus, wire
  <2> QED
    BY <2>1, ProtectionCarried
<1>7. CASE /\ Owned("orders", "rstop send") /\ Land(doing["orders"]) /\ Sent(doing["orders"])
           /\ Go("orders", "rstop confirm")
           /\ UNCHANGED <<late, slipped, journal, bus, engine, control, recovery, doing, lock>>
  <2>1. at["orders"] = "rstop send" /\ at'["orders"] = "rstop confirm" /\ doing' = doing /\ status' = status
        /\ UNCHANGED <<order, report, cache, acked, dropped>>
    BY <1>7, Going, TaskNames DEF Owned, IInv, journal, engine, bus, Sent
  <2> QED
    BY <2>1, ProtectionCarried
<1>8. CASE StopLost("orders")
  <2>1. at["orders"] = "rstop send" /\ at'["orders"] = "compensate" /\ status' = status
        /\ UNCHANGED <<order, report, cache, acked, dropped>>
    BY <1>8, LeavingTask, TaskNames DEF StopLost, Owned, IInv, journal, engine, bus, Sent
  <2> QED
    BY <2>1, ProtectionCarried
<1>9. \/ Locking("orders", "rstop")
      \/ Owned("orders", "rstop") /\ stops[doing["orders"][2]] > 0 /\ Reconcile("orders", "ok", "stopped")
      \/ Owned("orders", "rstop") /\ Reconcile("orders", "flat", "compensate")
      \/ /\ Owned("orders", "rstop") /\ Go("orders", "rstop send")
         /\ UNCHANGED <<venue, journal, bus, engine, control, recovery, doing, lock, wire>>
      \/ /\ Owned("orders", "rstop send") /\ Land(doing["orders"]) /\ Sent(doing["orders"])
         /\ Go("orders", "rstop confirm")
         /\ UNCHANGED <<late, slipped, journal, bus, engine, control, recovery, doing, lock>>
      \/ Owned("orders", "rstop confirm") /\ Reconcile("orders", "ok", "stopped")
      \/ StopLost("orders")
  BY Zenon DEF RecoverStop
<1> QED
  BY <1>1, <1>3, <1>4, <1>5, <1>6, <1>7, <1>8, <1>9, Zenon

LEMMA CancelKept == ASSUME IInv, WorldMove, Steady, Cancel("orders") PROVE Handler'
<1>1. CASE Locking("orders", "cancelling")
  BY <1>1, LockingKept, TaskNames
<1>2. ASSUME at["orders"] \in {"cancelling", "cancel verify"}, Reconcile("orders", "ok", "cancelled")
      PROVE  Handler'
  <2>1. /\ UNCHANGED <<order, report, cache, acked, dropped>> /\ at'["orders"] = "cancelled"
        /\ doing'["orders"] = doing["orders"]
        /\ \A o \in Opens : status[PlaceOf(o)] = "NONE" => status'[PlaceOf(o)] = "NONE"
    BY <1>2, OrdersReconcile
  <2> QED
    BY <1>2, <2>1, CancelCarried DEF Cancelling
<1>3. CASE Owned("orders", "cancelling") /\ Withdraw("orders", doing["orders"][2], "cancel verify")
  <2>1. /\ at["orders"] = "cancelling" /\ at'["orders"] = "cancel verify" /\ doing' = doing
        /\ status' = status /\ UNCHANGED <<order, report, cache, acked, dropped>>
    BY <1>3, Going, TaskNames DEF Owned, Withdraw, IInv, journal, engine, bus, wire
  <2> QED
    BY <2>1, CancelCarried DEF Cancelling
<1>4. \/ Locking("orders", "cancelling")
      \/ Owned("orders", "cancelling") /\ Reconcile("orders", "ok", "cancelled")
      \/ Owned("orders", "cancelling") /\ Withdraw("orders", doing["orders"][2], "cancel verify")
      \/ Owned("orders", "cancel verify") /\ Reconcile("orders", "ok", "cancelled")
  BY Zenon DEF Cancel
<1>5. CASE Owned("orders", "cancelling") /\ Reconcile("orders", "ok", "cancelled")
  BY <1>2, <1>5 DEF Owned
<1>6. CASE Owned("orders", "cancel verify") /\ Reconcile("orders", "ok", "cancelled")
  BY <1>2, <1>6 DEF Owned
<1> QED
  BY <1>1, <1>3, <1>4, <1>5, <1>6, Zenon

-----------------------------------------------------------------------------
(* The recovery scan *)

\* Recovery is about rows whose grace is over, which no handling has just prepared.
LEMMA RecoveryMoved ==
  ASSUME IInv, WorldMove, Steady, UNCHANGED <<order, report, reply, cache, acked, dropped>>,
         at'["orders"] = at["orders"], doing'["orders"] = doing["orders"],
         fresh' = fresh, scan' \subseteq scan,
         \A x \in Effects : x # doing["recovery"] => status'[x] = status[x],
         sent' \subseteq sent \cup {doing["recovery"]},
         doing'["recovery"] \in {None, doing["recovery"]} \cup scan
  PROVE  Handler' /\ Ripe'
<1>1. /\ fresh \subseteq Effects /\ \A e \in fresh : e # doing["recovery"] /\ e \notin scan
      /\ \A e \in Effects : e \in sent \/ e \in scan \/ e = doing["recovery"] => status[e] # "NONE"
  BY DEF IInv, TypeOK, Ripe
<1>2. \A e \in fresh : status'[e] = status[e] /\ (e \in sent' => e \in sent)
  BY <1>1
<1>3. \A e \in Effects : status[e] = "NONE" => status'[e] = "NONE"
  BY <1>1
<1>4. Handler'
  BY <1>2, <1>3, HandlerKept DEF IInv, Handler
<1>5. \A e \in Effects : e \in sent' \/ e \in scan' \/ e = doing'["recovery"] => status'[e] # "NONE"
  BY <1>1, EffectAssumption DEF Steady
<1>6. \A e \in fresh' : e \notin scan' /\ e # doing'["recovery"]
  BY <1>1, EffectAssumption
<1> QED
  BY <1>4, <1>5, <1>6 DEF Ripe

\* A procedure of recovery about a row that was prepared.
LEMMA RecoveryReconcile ==
  ASSUME IInv, WorldMove, Steady,
         at["recovery"] \in {"rplace", "rplace flat", "rstop", "rstop send", "rstop confirm", "rclose",
                             "cancelling", "cancel verify"},
         NEW a, NEW n, Reconcile("recovery", a, n)
  PROVE  Handler' /\ Recovers' /\ Ripe'
<1>1. TypeOK /\ doing["recovery"] \in Effects
  BY InHandKnown, TaskNames DEF IInv, Base
<1>2. Reconciled("recovery", a, n)
  BY <1>1, ReconcileFacts, TaskNames
<1>3. /\ UNCHANGED <<order, report, reply, cache, acked, dropped>> /\ fresh' = fresh /\ scan' = scan
      /\ sent' = sent /\ at'["orders"] = at["orders"] /\ doing'["orders"] = doing["orders"]
      /\ at'["recovery"] = "scan" /\ doing'["recovery"] = None
      /\ \A x \in Effects : x # doing["recovery"] => status'[x] = status[x]
  BY <1>2, TaskNames DEF Reconciled, recovery, Alone
<1>4. Handler' /\ Ripe'
  BY <1>3, RecoveryMoved
<1>5. Recovers'
  BY <1>3 DEF Recovers
<1> QED
  BY <1>4, <1>5

\* A procedure of recovery that moves on without settling its row.
LEMMA RecoveryGoes ==
  ASSUME IInv, WorldMove, Steady, UNCHANGED <<order, report, reply, cache, acked, dropped>>,
         at'["orders"] = at["orders"], doing' = doing, fresh' = fresh, scan' = scan, status' = status,
         sent' \subseteq sent \cup {doing["recovery"]},
         \/ at["recovery"] \in {"rplace", "rplace flat"} /\ at'["recovery"] \in {"rplace", "rplace flat"}
         \/ /\ at["recovery"] \in {"rstop", "rstop send", "rstop confirm"}
            /\ at'["recovery"] \in {"rstop", "rstop send", "rstop confirm"}
         \/ /\ at["recovery"] \in {"cancelling", "cancel verify"}
            /\ at'["recovery"] \in {"cancelling", "cancel verify"}
  PROVE  Handler' /\ Recovers' /\ Ripe'
<1>1. Handler' /\ Ripe'
  BY RecoveryMoved
<1>2. Recovers'
  BY DEF IInv, Recovers
<1> QED
  BY <1>1, <1>2

LEMMA RecoveryRaises == ASSUME IInv, WorldMove, Steady, Raise("recovery") PROVE Handler' /\ Recovers' /\ Ripe'
<1>1. Alone("recovery") /\ doing'["recovery"] = None /\ at'["recovery"] = "scan"
      /\ report' = report /\ order' = order /\ reply' = reply
  BY RaiseRecovery DEF IInv
<1>2. UNCHANGED <<cache, acked, dropped, fresh, scan, status, sent>>
  BY RaiseStill, TaskNames DEF bus, wire, journal
<1>3. at'["orders"] = at["orders"] /\ doing'["orders"] = doing["orders"]
  BY <1>1, TaskNames DEF Alone
<1>4. Handler' /\ Ripe'
  BY <1>1, <1>2, <1>3, RecoveryMoved
<1>5. Recovers'
  BY <1>1 DEF Recovers
<1> QED
  BY <1>4, <1>5

LEMMA RecoveryLocks ==
  ASSUME IInv, WorldMove, Steady, NEW p \in Tasks, NEW a, Locking(p, a) PROVE Recovers' /\ Ripe'
<1>1. at' = at /\ doing' = doing /\ UNCHANGED <<scan, sent, fresh, status>>
  BY DEF Locking, recovery, wire, journal
<1> QED
  BY <1>1 DEF IInv, Recovers, Ripe

LEMMA RecoverPlaceOther ==
  ASSUME IInv, WorldMove, Steady, RecoverPlace("recovery") PROVE Handler' /\ Recovers' /\ Ripe'
<1>1. CASE Locking("recovery", "rplace")
  BY <1>1, LockingKept, RecoveryLocks, TaskNames
<1>2. CASE Owned("recovery", "rplace") /\ Withdraw("recovery", doing["recovery"], "rplace")
  <2>1. /\ at["recovery"] = "rplace" /\ at'["recovery"] = "rplace" /\ at'["orders"] = at["orders"]
        /\ UNCHANGED <<doing, status, fresh, scan, sent>>
        /\ UNCHANGED <<order, report, reply, cache, acked, dropped>>
    BY <1>2, Going, TaskNames DEF Owned, Withdraw, IInv, journal, engine, bus, wire, recovery
  <2> QED
    BY <2>1, RecoveryGoes
<1>3. CASE /\ Owned("recovery", "rplace") /\ Go("recovery", "rplace flat")
           /\ UNCHANGED <<venue, journal, bus, engine, control, recovery, doing, lock, wire>>
  <2>1. /\ at["recovery"] = "rplace" /\ at'["recovery"] = "rplace flat" /\ at'["orders"] = at["orders"]
        /\ UNCHANGED <<doing, status, fresh, scan, sent>>
        /\ UNCHANGED <<order, report, reply, cache, acked, dropped>>
    BY <1>3, Going, TaskNames DEF Owned, IInv, journal, engine, bus, wire, recovery
  <2> QED
    BY <2>1, RecoveryGoes
<1>4. CASE Owned("recovery", "rplace flat") /\ Reconcile("recovery", "dead", "classify")
  BY <1>4, RecoveryReconcile DEF Owned
<1>5. CASE Raise("recovery")
  BY <1>5, RecoveryRaises
<1>6. \/ Locking("recovery", "rplace")
      \/ Owned("recovery", "rplace") /\ Withdraw("recovery", doing["recovery"], "rplace")
      \/ /\ Owned("recovery", "rplace") /\ Go("recovery", "rplace flat")
         /\ UNCHANGED <<venue, journal, bus, engine, control, recovery, doing, lock, wire>>
      \/ Owned("recovery", "rplace flat") /\ Reconcile("recovery", "dead", "classify")
      \/ Raise("recovery")
  BY Zenon DEF RecoverPlace
<1> QED
  BY <1>1, <1>2, <1>3, <1>4, <1>5, <1>6, Zenon

LEMMA RecoverCloseOther ==
  ASSUME IInv, WorldMove, Steady, RecoverClose("recovery") PROVE Handler' /\ Recovers' /\ Ripe'
<1>1. CASE Locking("recovery", "rclose")
  BY <1>1, LockingKept, RecoveryLocks, TaskNames
<1>2. CASE /\ Owned("recovery", "rclose")
           /\ Reconcile("recovery", IF doing["recovery"][2] \in Opens THEN "bad" ELSE "ok", "exited")
  BY <1>2, RecoveryReconcile DEF Owned
<1>3. CASE Raise("recovery")
  BY <1>3, RecoveryRaises
<1>4. \/ Locking("recovery", "rclose")
      \/ /\ Owned("recovery", "rclose")
         /\ Reconcile("recovery", IF doing["recovery"][2] \in Opens THEN "bad" ELSE "ok", "exited")
      \/ Raise("recovery")
  BY Zenon DEF RecoverClose
<1> QED
  BY <1>1, <1>2, <1>3, <1>4, Zenon

LEMMA RecoverStopOther ==
  ASSUME IInv, WorldMove, Steady, RecoverStop("recovery") \/ StopLost("recovery")
  PROVE  Handler' /\ Recovers' /\ Ripe'
<1>1. CASE Locking("recovery", "rstop")
  BY <1>1, LockingKept, RecoveryLocks, TaskNames
<1>2. CASE Owned("recovery", "rstop") /\ Reconcile("recovery", "ok", "stopped")
  BY <1>2, RecoveryReconcile DEF Owned
<1>3. CASE Owned("recovery", "rstop") /\ Reconcile("recovery", "flat", "compensate")
  BY <1>3, RecoveryReconcile DEF Owned
<1>4. CASE Owned("recovery", "rstop confirm") /\ Reconcile("recovery", "ok", "stopped")
  BY <1>4, RecoveryReconcile DEF Owned
<1>5. CASE /\ Owned("recovery", "rstop") /\ Go("recovery", "rstop send")
           /\ UNCHANGED <<venue, journal, bus, engine, control, recovery, doing, lock, wire>>
  <2>1. /\ at["recovery"] = "rstop" /\ at'["recovery"] = "rstop send" /\ at'["orders"] = at["orders"]
        /\ UNCHANGED <<doing, status, fresh, scan, sent>>
        /\ UNCHANGED <<order, report, reply, cache, acked, dropped>>
    BY <1>5, Going, TaskNames DEF Owned, IInv, journal, engine, bus, wire, recovery
  <2> QED
    BY <2>1, RecoveryGoes
<1>6. CASE /\ Owned("recovery", "rstop send") /\ Sent(doing["recovery"]) /\ Go("recovery", "rstop confirm")
           /\ UNCHANGED <<late, slipped, journal, bus, engine, control, recovery, doing, lock>>
  <2>1. /\ at["recovery"] = "rstop send" /\ at'["recovery"] = "rstop confirm" /\ at'["orders"] = at["orders"]
        /\ UNCHANGED <<doing, status, fresh, scan>> /\ sent' = sent \cup {doing["recovery"]}
        /\ UNCHANGED <<order, report, reply, cache, acked, dropped>>
    BY <1>6, Going, TaskNames DEF Owned, IInv, journal, engine, bus, Sent, recovery
  <2> QED
    BY <2>1, RecoveryGoes
<1>7. CASE StopLost("recovery")
  <2>1. Alone("recovery") /\ at'["recovery"] = "scan" /\ doing'["recovery"] = None
    BY <1>7, LeavingTask, TaskNames DEF StopLost, IInv
  <2>2. /\ UNCHANGED <<order, report, reply, cache, acked, dropped, fresh, scan, status>>
        /\ sent' = sent \cup {doing["recovery"]}
    BY <1>7 DEF StopLost, journal, engine, bus, Sent
  <2>3. at'["orders"] = at["orders"] /\ doing'["orders"] = doing["orders"]
    BY <2>1, TaskNames DEF Alone
  <2>4. Handler' /\ Ripe'
    BY <2>1, <2>2, <2>3, RecoveryMoved
  <2>5. Recovers'
    BY <2>1 DEF Recovers
  <2> QED
    BY <2>4, <2>5
<1>8. \/ Locking("recovery", "rstop")
      \/ Owned("recovery", "rstop") /\ Reconcile("recovery", "ok", "stopped")
      \/ Owned("recovery", "rstop") /\ Reconcile("recovery", "flat", "compensate")
      \/ /\ Owned("recovery", "rstop") /\ Go("recovery", "rstop send")
         /\ UNCHANGED <<venue, journal, bus, engine, control, recovery, doing, lock, wire>>
      \/ /\ Owned("recovery", "rstop send") /\ Sent(doing["recovery"]) /\ Go("recovery", "rstop confirm")
         /\ UNCHANGED <<late, slipped, journal, bus, engine, control, recovery, doing, lock>>
      \/ Owned("recovery", "rstop confirm") /\ Reconcile("recovery", "ok", "stopped")
      \/ StopLost("recovery")
  BY Zenon DEF RecoverStop
<1> QED
  BY <1>1, <1>2, <1>3, <1>4, <1>5, <1>6, <1>7, <1>8, Zenon

LEMMA CancelOther == ASSUME IInv, WorldMove, Steady, Cancel("recovery") PROVE Handler' /\ Recovers' /\ Ripe'
<1>1. CASE Locking("recovery", "cancelling")
  BY <1>1, LockingKept, RecoveryLocks, TaskNames
<1>2. CASE Owned("recovery", "cancelling") /\ Reconcile("recovery", "ok", "cancelled")
  BY <1>2, RecoveryReconcile DEF Owned
<1>3. CASE Owned("recovery", "cancelling") /\ Withdraw("recovery", doing["recovery"][2], "cancel verify")
  <2>1. /\ at["recovery"] = "cancelling" /\ at'["recovery"] = "cancel verify" /\ at'["orders"] = at["orders"]
        /\ UNCHANGED <<doing, status, fresh, scan, sent>>
        /\ UNCHANGED <<order, report, reply, cache, acked, dropped>>
    BY <1>3, Going, TaskNames DEF Owned, Withdraw, IInv, journal, engine, bus, wire, recovery
  <2> QED
    BY <2>1, RecoveryGoes
<1>4. CASE Owned("recovery", "cancel verify") /\ Reconcile("recovery", "ok", "cancelled")
  BY <1>4, RecoveryReconcile DEF Owned
<1>5. \/ Locking("recovery", "cancelling")
      \/ Owned("recovery", "cancelling") /\ Reconcile("recovery", "ok", "cancelled")
      \/ Owned("recovery", "cancelling") /\ Withdraw("recovery", doing["recovery"][2], "cancel verify")
      \/ Owned("recovery", "cancel verify") /\ Reconcile("recovery", "ok", "cancelled")
  BY Zenon DEF Cancel
<1> QED
  BY <1>1, <1>2, <1>3, <1>4, <1>5, Zenon

\* The scan starts, picks its rows one by one, and ends.
LEMMA ScanOther ==
  ASSUME IInv, WorldMove, Steady, Scan \/ Scanned \/ \E e \in Effects : RecoverEffect(e)
  PROVE  Handler' /\ Recovers' /\ Ripe'
<1>0. TypeOK /\ Recovers /\ Ripe
  BY DEF IInv
<1>1. /\ UNCHANGED <<order, report, reply, cache, acked, dropped, status, fresh, sent>>
      /\ doing'["orders"] = doing["orders"] /\ at'["orders"] = at["orders"]
  <2>1. UNCHANGED <<order, report, reply, cache, acked, dropped, status, fresh, sent>>
    BY DEF Scan, Scanned, RecoverEffect, engine, bus, wire, journal
  <2>2. doing'["orders"] = doing["orders"]
    BY <1>0, TaskNames DEF Scan, Scanned, RecoverEffect, TypeOK
  <2>3. \E a : Go("recovery", a)
    BY DEF Scan, Scanned, RecoverEffect, Unblock
  <2>4. at'["orders"] = at["orders"]
    BY <1>0, <2>3, Going, TaskNames
  <2> QED
    BY <2>1, <2>2, <2>4
<1>2. Handler'
  BY <1>1, HandlerKept DEF IInv, Handler, TypeOK
<1>3. CASE Scan
  <2>1. scan' = {e \in Effects : status[e] = "PREPARED"} \ fresh /\ doing' = doing
    BY <1>3 DEF Scan
  <2>2. at'["recovery"] \in {"idle", "scan"}
    BY <1>0, <1>3, Going, TaskNames DEF Scan, Unblock
  <2>3. Ripe'
    BY <1>0, <1>1, <2>1 DEF Ripe
  <2>4. Recovers'
    BY <2>2 DEF Recovers
  <2> QED
    BY <1>2, <2>3, <2>4
<1>4. CASE Scanned
  <2>1. scan' = scan /\ doing' = doing
    BY <1>4 DEF Scanned
  <2>2. at'["recovery"] = "idle"
    BY <1>0, <1>4, Going, TaskNames DEF Scanned, Unblock
  <2>3. Ripe'
    BY <1>0, <1>1, <2>1 DEF Ripe
  <2>4. Recovers'
    BY <2>2 DEF Recovers
  <2> QED
    BY <1>2, <2>3, <2>4
<1>5. ASSUME NEW e \in Effects, RecoverEffect(e) PROVE Recovers' /\ Ripe'
  <2>1. scan' = scan \ {e} /\ e \in scan /\ doing'["recovery"] = e
    BY <1>0, <1>5, TaskNames DEF RecoverEffect, TypeOK
  <2>2. Ripe'
    BY <1>0, <1>1, <2>1 DEF Ripe
  <2>3. \A a : Go("recovery", a) => at'["recovery"] = a
    BY <1>0, Going, TaskNames
  <2>4. \/ e \in Places /\ at'["recovery"] = "rplace"
        \/ e \in Stops /\ at'["recovery"] = "rstop"
        \/ e \in Exits /\ at'["recovery"] = "rclose"
        \/ e \in Cancels /\ at'["recovery"] = "cancelling"
    <3>1. /\ e \in Places => e[1] = "place" /\ (e \in Stops => e[1] = "stop")
          /\ e \in Stops => e[1] = "stop"
          /\ e \in Exits => e[1] = "exit"
          /\ e \in Cancels => e[1] = "cancel"
          /\ e \in Places \/ e \in Stops \/ e \in Exits \/ e \in Cancels
      BY Names, Sorts
    <3> QED
      BY <1>5, <2>3, <3>1 DEF RecoverEffect
  <2>5. Recovers'
    BY <2>1, <2>4 DEF Recovers
  <2> QED
    BY <2>2, <2>5
<1> QED
  BY <1>2, <1>3, <1>4, <1>5

\* The venue, the mode and the grace period leave the tasks alone.
LEMMA VenueOther ==
  ASSUME IInv, WorldMove, Steady, Venue \/ SetMode \/ ScanFails \/ Ripen \/ \E e \in Effects : LandLate(e)
  PROVE  Handler' /\ Recovers' /\ Ripe' /\ UNCHANGED tasks
<1>1. /\ UNCHANGED <<order, report, reply, cache, acked, dropped, status, sent, scan>> /\ UNCHANGED tasks
      /\ fresh' \subseteq fresh
  <2>1. ASSUME NEW e, Fill(e) \/ Die(e) \/ Trigger(e) \/ LandLate(e)
        PROVE  UNCHANGED <<journal, bus, engine, recovery, tasks, wire>>
    BY <2>1 DEF Fill, Die, Trigger, LandLate
  <2>2. CASE UNCHANGED <<journal, bus, engine, recovery, tasks, wire>>
    BY <2>2 DEF journal, bus, engine, recovery, wire
  <2>3. CASE SetMode \/ ScanFails
    BY <2>3 DEF SetMode, ScanFails, journal, bus, engine, recovery, wire
  <2>4. CASE Ripen
    BY <2>4 DEF Ripen, bus, engine, recovery, wire
  <2> QED
    BY <2>1, <2>2, <2>3, <2>4 DEF Venue
<1>2. at' = at /\ doing' = doing
  BY <1>1 DEF tasks
<1>3. Handler'
  BY <1>1, <1>2, HandlerKept DEF IInv, Handler
<1>4. Recovers' /\ Ripe'
  BY <1>1, <1>2 DEF IInv, Recovers, Ripe
<1> QED
  BY <1>1, <1>3, <1>4

\* The process dies: the journal and the acknowledgements remain.
LEMMA CrashKept ==
  ASSUME IInv, Next, Crash PROVE Handler' /\ Recovers' /\ Ripe' /\ Locked' /\ Looked'
<1>1. /\ Quiet /\ dropped' = dropped /\ acked' = acked /\ order' = None /\ cache' = <<>> /\ scan' = {}
      /\ \A p \in Tasks : at'[p] = "idle" /\ lock'[p] = None /\ doing'[p] = None
  BY DEF Crash, Quiet, wire, bus
<1>2. at'["orders"] = "idle" /\ at'["recovery"] = "idle" /\ doing'["recovery"] = None
      /\ lock'["orders"] = None
  BY <1>1, TaskNames
<1>3. Handles' /\ Prepared' /\ EntryKnown'
  BY <1>2 DEF Handles, Entering, Protecting, Cancelling, Prepared, EntryKnown
<1>4. ExitKnown'
  BY <1>2 DEF ExitKnown, Withdrawing, Flattened, Leaving, Closed, Cancelling
<1>5. Ended'
  <2>1. \A o \in Opens : Good(o) => Good(o)'
    BY <1>1, QuietGood
  <2>2. \A o : ~Cached(o)'
    BY <1>1 DEF Cached
  <2>3. None \notin acked
    BY Names DEF IInv, TypeOK
  <2>4. slipped' = slipped
    BY <1>1, QuietFacts
  <2> QED
    BY <1>1, <1>2, <2>1, <2>2, <2>3, <2>4 DEF IInv, Ended, Reported
<1>6. Recovers'
  BY <1>2 DEF Recovers
<1>7. Ripe'
  BY <1>1, <1>2, QuietFacts, EffectAssumption DEF IInv, TypeOK, Ripe
<1>8. Locked'
  BY <1>1, <1>2 DEF Locked
<1>9. Looked'
  BY <1>1 DEF Looked, LookedAt
<1> QED
  BY <1>3, <1>4, <1>5, <1>6, <1>7, <1>8, <1>9 DEF Handler

-----------------------------------------------------------------------------
(* The invariant holds *)

LEMMA FaultsTyped == ASSUME IInv, Next PROVE faults' \in Nat
<1>1. faults \in Nat
  BY DEF IInv, TypeOK
<1>2. Fault => faults' \in Nat
  BY <1>1 DEF Fault
<1>3. SendPlace \/ SendStop \/ SendExit => Fault \/ faults' = faults
  BY DEF SendPlace, SendStop, SendExit, Call
<1>4. SetMode \/ ScanFails \/ Crash \/ (\E e \in Effects : LandLate(e)) \/ (\E p \in Tasks : StopLost(p) \/ Fail(p)) => Fault
  BY DEF SetMode, ScanFails, Crash, LandLate, StopLost, Fail
<1> QED
  BY <1>1, <1>2, <1>3, <1>4 DEF Next

LEMMA Assembled ==
  ASSUME IInv, Next, Handler', Recovers', Ripe', Locked', Looked', Data', Posts' PROVE IInv'
<1>1. WorldMove /\ World'
  BY Moving
<1>2. TypeOK'
  BY <1>1, FaultsTyped, TypeStep DEF IInv
<1> QED
  BY <1>1, <1>2 DEF IInv, Handler

\* A step of the handler to a place where it does not act on a reading.
LEMMA OrdersStep ==
  ASSUME IInv, Next, Handler', Data', scan' = scan, NEW a \in OrderPlaces \ Acting, Go("orders", a),
         lock' = lock, NEW x \in Effects \cup {None}, doing' = doing \/ doing' = [doing EXCEPT !["orders"] = x]
  PROVE  IInv'
<1>1. TypeOK /\ Recovers /\ Ripe /\ doing \in [Tasks -> Effects \cup {None}]
  BY DEF IInv, TypeOK
<1>2. at'["orders"] = a /\ \A q \in Tasks \ {"orders"} : at'[q] = at[q]
  BY <1>1, Going, TaskNames
<1>3. doing' \in [Tasks -> Effects \cup {None}] /\ \A q \in Tasks \ {"orders"} : doing'[q] = doing[q]
  BY <1>1, TaskNames
<1>4. Alone("orders")
  BY <1>2, <1>3 DEF Alone
<1>5. WorldMove /\ Steady
  BY Moving
<1>6. Recovers' /\ Ripe'
  BY <1>1, <1>4, <1>5, RecoveryKept
<1>7. Locked' /\ Looked'
  BY <1>2, <1>4, TaskNames, Elsewhere
<1>8. Posts'
  BY <1>1, <1>2, <1>3, TaskNames DEF Go, TypeOK, Posts
<1> QED
  BY <1>6, <1>7, <1>8, Assembled

LEMMA DataKept ==
  ASSUME IInv, UNCHANGED <<queue, acked, up, cache, blocked, quant, scan, dropped>>, failed' \in BOOLEAN,
         order' \in Orders \cup {None}, report' \in Reports, reply' \in Replies
  PROVE  Data'
  BY DEF IInv, TypeOK, Data

LEMMA DataNow == ASSUME IInv PROVE order \in Orders \cup {None} /\ report \in Reports /\ reply \in Replies
                                   /\ failed \in BOOLEAN
  BY DEF IInv, TypeOK

LEMMA LeaveTyped ==
  ASSUME TypeOK, NEW p \in Tasks, NEW a \in OrderPlaces, Leave(p, a) PROVE Posts'
<1>1. /\ at' = [at EXCEPT ![p] = IF p = "recovery" THEN "scan" ELSE a]
      /\ lock' = [lock EXCEPT ![p] = None]
      /\ doing' = [doing EXCEPT ![p] = IF p = "orders" /\ a = "cancelled" THEN @ ELSE None]
  BY DEF Leave
<1>2. "scan" \in RecoveryPlaces
  BY DEF RecoveryPlaces
<1> QED
  BY <1>1, <1>2, TaskNames DEF TypeOK, Posts

\* An exception in the handler leaves it where it does not act on a reading.
LEMMA RaiseStep == ASSUME IInv, Next, NEW p \in Tasks, Raise(p) PROVE IInv'
<1>1. WorldMove /\ Steady /\ TypeOK
  BY Moving DEF IInv
<1>2. OnError(at[p]) \in OrderPlaces \ Acting
  BY DEF OnError, OrderPlaces, Acting, Entering, Protecting, Leaving
<1>3. Leave(p, OnError(at[p])) /\ failed' = (failed \/ p = "recovery")
      /\ UNCHANGED <<queue, acked, up, cache, blocked, quant, scan, dropped>>
  BY RaiseStill DEF Raise, bus, control, wire
<1>4. Posts'
  BY <1>1, <1>2, <1>3, LeaveTyped
<1>5. CASE p = "orders"
  <2>1. /\ Alone("orders") /\ lock'["orders"] = None /\ at'["orders"] \notin Acting
        /\ order' \in {order, None} /\ report' \in {report, "none", "ambiguous"} /\ reply' \in {reply, "none"}
    BY <1>1, <1>5, RaiseHandler DEF Acting
  <2>2. Handler'
    BY <1>5, RaiseKept
  <2>3. Recovers' /\ Ripe'
    BY <1>1, <1>3, <2>1, RecoveryKept DEF IInv
  <2>4. Locked' /\ Looked'
    BY <2>1, TaskNames, Elsewhere
  <2>5. Data'
    BY <1>3, <2>1, DataNow, DataKept DEF Reports, Replies
  <2> QED
    BY <1>4, <2>2, <2>3, <2>4, <2>5, Assembled
<1>6. CASE p = "recovery"
  <2>1. /\ Alone("recovery") /\ lock'["recovery"] = None /\ at'["recovery"] \notin Acting
        /\ order' = order /\ report' = report /\ reply' = reply
    BY <1>1, <1>6, RaiseRecovery DEF Acting
  <2>2. Handler' /\ Recovers' /\ Ripe'
    BY <1>1, <1>6, RecoveryRaises
  <2>3. Locked' /\ Looked'
    BY <2>1, TaskNames, Elsewhere
  <2>4. Data'
    BY <1>3, <2>1, DataNow, DataKept
  <2> QED
    BY <1>4, <2>2, <2>3, <2>4, Assembled
<1> QED
  BY <1>5, <1>6, TaskNames

LEMMA EngineSame ==
  ASSUME UNCHANGED Engine
  PROVE  UNCHANGED <<queue, acked, up, blocked, quant, scan, failed, lock, dropped>>
  BY DEF Engine, bus, control, recovery, wire

\* The reads and the reports of the engine
LEMMA ReadingSteps ==
  ASSUME IInv, Next, Classify \/ Protected \/ Cancelled \/ Flat \/ Active \/ Exited \/ Tidy \/ Finish
  PROVE  IInv'
<1>1. Handler'
  BY ClassifyKept, ProtectedKept, CancelledKept, ReadsKept, FinishKept
<1>2. ASSUME NEW a \in {"result", "compensate", "protect", "flat", "finish", "active", "tidy", "exit",
                        "cancel exit"},
             Go("orders", a), UNCHANGED Engine, UNCHANGED <<cache, order, reply, doing>>, report' \in Reports
      PROVE  IInv'
  <2>1. Data' /\ scan' = scan /\ lock' = lock
    BY <1>2, EngineSame, DataNow, DataKept
  <2>2. a \in OrderPlaces \ Acting
    BY DEF OrderPlaces, Acting, Reported, Protecting, Leaving, Closed
  <2> QED
    BY <1>1, <1>2, <2>1, <2>2, OrdersStep
<1>3. CASE Raise("orders")
  BY <1>3, TaskNames, RaiseStep
<1>4. CASE Classify
  <2>1. \E a \in {"result", "compensate", "protect"} : Go("orders", a)
    BY <1>4 DEF Classify
  <2>2. report' \in Reports
    <3>1. order \in Opens /\ Honest(PlaceOf(order), reply)
      BY <1>4 DEF Classify, IInv, Handles, Entering, EntryKnown
    <3>2. reply \in Acks
      BY <3>1 DEF Honest
    <3> QED
      BY <1>4, <3>2 DEF Classify, Reports
  <2> QED
    BY <1>2, <1>4, <2>1, <2>2 DEF Classify
<1>5. CASE Protected
  BY <1>2, <1>5, DataNow DEF Protected
<1>6. ASSUME NEW a \in {"flat", "finish", "active", "tidy", "exit", "cancel exit"}, Go("orders", a),
             UNCHANGED <<Engine, engine, doing>>
      PROVE  IInv'
  BY <1>2, <1>6, DataNow DEF engine
<1>7. CASE Cancelled \/ Active \/ Exited
  BY <1>3, <1>6, <1>7 DEF Cancelled, Active, Exited
<1>8. CASE Flat \/ Tidy
  BY <1>6, <1>8 DEF Flat, Tidy
<1>9. CASE Finish
  BY <1>2, <1>3, <1>9 DEF Finish, Reports
<1> QED
  BY <1>4, <1>5, <1>7, <1>8, <1>9

\* The mutations of the engine
LEMMA MutationSteps ==
  ASSUME IInv, Next, PlaceOrder \/ SetStop \/ ClosePosition PROVE IInv'
<1>1. Handler'
  BY PlaceOrderKept, SetStopKept, ClosePositionKept
<1>2. ASSUME NEW e \in Effects, NEW n, NEW s \in OrderPlaces \ Acting, NEW k \in OrderPlaces \ Acting,
             NEW r \in OrderPlaces \ Acting, Mutate(n, e, s, k, r)
      PROVE  IInv'
  <2>1. /\ UNCHANGED <<queue, acked, up, cache, blocked, quant, scan, failed, dropped, order, report>>
        /\ lock' = lock
    BY <1>2 DEF Mutate, bus, control, recovery, wire
  <2>2. answer[e] \in Replies
    BY DEF IInv, TypeOK
  <2>3. reply' \in {reply, answer[e]}
    BY <1>2 DEF Mutate
  <2>4. Data' /\ scan' = scan
    BY <2>1, <2>2, <2>3, DataNow, DataKept
  <2>5. doing' = doing \/ doing' = [doing EXCEPT !["orders"] = e]
    BY <1>2 DEF Mutate
  <2>6. \E a \in OrderPlaces \ Acting : Go("orders", a)
    BY <1>2 DEF Mutate
  <2> QED
    BY <1>1, <2>1, <2>4, <2>5, <2>6, OrdersStep
<1>3. /\ "send place" \in OrderPlaces \ Acting /\ "classify" \in OrderPlaces \ Acting
      /\ "rplace" \in OrderPlaces \ Acting /\ "send stop" \in OrderPlaces \ Acting
      /\ "stopped" \in OrderPlaces \ Acting /\ "rstop" \in OrderPlaces \ Acting
      /\ "send exit" \in OrderPlaces \ Acting /\ "exited" \in OrderPlaces \ Acting
      /\ "rclose" \in OrderPlaces \ Acting
  BY DEF OrderPlaces, Acting, Entering, Protecting, Leaving
<1>4. CASE PlaceOrder
  <2>1. PlaceOf(order) \in Effects
    BY <1>4, Apart DEF PlaceOrder, Mutate, IInv, Handles, Entering
  <2> QED
    BY <1>2, <1>3, <1>4, <2>1, MineNames, Zenon DEF PlaceOrder
<1>5. CASE SetStop
  <2>1. StopOf(order) \in Effects
    BY <1>5, Apart DEF SetStop, Mutate, IInv, Handles, Protecting
  <2> QED
    BY <1>2, <1>3, <1>5, <2>1, MineNames, Zenon DEF SetStop
<1>6. CASE ClosePosition
  <2>1. ExitOf(order) \in Effects
    BY <1>6, Names, Sorts DEF ClosePosition, Mutate, IInv, Handles
  <2> QED
    BY <1>2, <1>3, <1>6, <2>1, MineNames, Zenon DEF ClosePosition
<1> QED
  BY <1>4, <1>5, <1>6

LEMMA ConfirmSteps ==
  ASSUME IInv, Next, ConfirmPlace \/ ConfirmStop \/ ConfirmExit PROVE IInv'
<1>1. Steady
  BY Moving
<1>2. Handler'
  BY <1>1, ConfirmPlaceKept, ConfirmStopKept, ConfirmExitKept
<1>3. /\ UNCHANGED <<queue, acked, up, cache, blocked, quant, scan, failed, dropped, order, report, reply>>
      /\ lock' = lock /\ doing' = doing
      /\ \E a \in {"classify", "stopped", "exited"} : Go("orders", a)
  BY DEF ConfirmPlace, ConfirmStop, ConfirmExit, Confirm, bus, control, recovery, wire, engine
<1>4. \A a \in {"classify", "stopped", "exited"} : a \in OrderPlaces \ Acting
  BY DEF OrderPlaces, Acting, Entering, Protecting, Leaving
<1>5. Data' /\ scan' = scan
  BY <1>3, DataNow, DataKept
<1> QED
  BY <1>2, <1>3, <1>4, <1>5, OrdersStep

LEMMA SendSteps ==
  ASSUME IInv, Next, SendPlace \/ SendStop \/ SendExit PROVE IInv'
<1>1. Steady
  BY Moving
<1>2. Handler'
  BY <1>1, SendPlaceKept, SendStopKept, SendExitKept
<1>3. \E kind \in {"place", "stop", "exit"} : Call(Mine(kind))
  BY DEF SendPlace, SendStop, SendExit
<1>4. PICK e : Call(e) /\ e[1] \in {"place", "stop", "exit"}
  BY <1>3 DEF Mine
<1>5. at["orders"] \in {"send place", "send stop", "send exit"}
  BY DEF SendPlace, SendStop, SendExit
<1>6. /\ UNCHANGED <<queue, acked, up, cache, blocked, quant, scan, failed, dropped, order>>
      /\ lock' = lock /\ doing' = doing
  BY <1>4 DEF Call, bus, control, recovery, Sent
<1>7. OnError(at["orders"]) \in {"ambiguous", "compensate", "lost"}
  BY <1>5 DEF OnError
<1>8. reply' \in Replies /\ report' \in Reports
  <2>1. \A a : a \in Answers(e) \/ a \in Refusals(e) => a \in Replies
    BY DEF Answers, Refusals, Replies, Acks
  <2>2. reply' \in Answers(e) \/ reply' \in Refusals(e) \/ reply' = reply
    BY <1>4 DEF Call
  <2>3. report' \in {report, "ambiguous"}
    BY <1>4 DEF Call
  <2> QED
    BY <2>1, <2>2, <2>3, DataNow DEF Reports
<1>9. \E a \in OrderPlaces \ Acting : Go("orders", a)
  <2>1. \A a \in {"ambiguous", "compensate", "lost", "confirm place", "confirm stop", "confirm exit"} :
          a \in OrderPlaces \ Acting
    BY DEF OrderPlaces, Acting, Entering, Protecting, Leaving
  <2>2. Answered(e) => \E a \in {"confirm place", "confirm stop", "confirm exit"} : Go("orders", a)
    BY <1>4 DEF Answered
  <2>3. Answered(e) \/ Go("orders", OnError(at["orders"]))
    BY <1>4 DEF Call
  <2> QED
    BY <1>7, <2>1, <2>2, <2>3
<1>10. Data' /\ scan' = scan
  BY <1>6, <1>8, DataNow, DataKept
<1> QED
  BY <1>2, <1>6, <1>9, <1>10, OrdersStep

LEMMA CancelOrderStep == ASSUME IInv, Next, CancelOrder PROVE IInv'
<1> DEFINE e == <<"cancel", Mine(IF Compensating THEN "place" ELSE "exit")>>
<1>1. /\ UNCHANGED <<queue, acked, up, cache, blocked, quant, scan, failed, dropped, order, report, reply>>
      /\ lock' = lock /\ doing' = [doing EXCEPT !["orders"] = e]
      /\ \E a \in {"cancelling", "cancelled"} : Go("orders", a)
  BY DEF CancelOrder, bus, control, recovery, wire, engine
<1> HIDE DEF e
<1>2. Handler'
  BY Moving, CancelOrderKept
<1>3. PICK a \in {"cancelling", "cancelled"} : Go("orders", a)
  BY <1>1
<1>4. a \in OrderPlaces \ Acting /\ a \in Cancelling
  BY DEF OrderPlaces, Acting, Cancelling
<1>5. e \in Effects
  <2>1. at'["orders"] \in Cancelling /\ doing'["orders"] = e /\ order' = order
    BY <1>1, <1>3, <1>4, Going, TaskNames DEF IInv, TypeOK
  <2>2. order \in Orders /\ ((e = CancelOf(PlaceOf(order)) /\ order \in Opens) \/ e = CancelOf(ExitOf(order)))
    BY <1>2, <2>1 DEF Handler, Handles, Cancelling
  <2>3. (order \in Opens => PlaceOf(order) \in Places) /\ ExitOf(order) \in Exits
    BY <2>2, Names
  <2>4. e \in Cancels
    BY <2>2, <2>3, Names
  <2> QED
    BY <2>4, Sorts
<1>6. Data' /\ scan' = scan
  BY <1>1, DataNow, DataKept
<1> QED
  BY <1>1, <1>2, <1>3, <1>4, <1>5, <1>6, OrdersStep

LEMMA TakeStep == ASSUME IInv, Next, NEW o \in Orders, Take(o) PROVE IInv'
<1>1. /\ UNCHANGED <<queue, acked, up, blocked, quant, scan, failed>> /\ lock' = lock /\ doing' = doing
      /\ order' = o /\ reply' = "none" /\ report' \in {"cached", "none"}
      /\ \E a \in {"publish", "result", "place", "flat"} : Go("orders", a)
      /\ dropped' \subseteq dropped \cup {o} /\ (o \notin Opens => dropped' = dropped)
  BY DEF Take, bus, control, recovery
<1>2. Handler'
  BY TakeKept
<1>3. Data' /\ scan' = scan
  BY <1>1, TakeCaches, DataNow DEF IInv, TypeOK, Data, Reports, Replies
<1>4. \A a \in {"publish", "result", "place", "flat"} : a \in OrderPlaces \ Acting
  BY DEF OrderPlaces, Acting, Reported, Entering, Leaving
<1> QED
  BY <1>1, <1>2, <1>3, <1>4, OrdersStep

LEMMA ReportSteps == ASSUME IInv, Next, Complete \/ Publish \/ Ack PROVE IInv'
<1>1. Handler'
  BY ReportedKept
<1>2. \A a \in {"publish", "ack", "idle"} : a \in OrderPlaces \ Acting
  BY DEF OrderPlaces, Acting, Reported
<1>3. order \in Orders
  BY DEF Complete, Publish, Ack, IInv, Handles
<1>4. CASE Complete
  <2>1. /\ UNCHANGED <<queue, acked, up, blocked, quant, scan, failed, dropped, order, report>> /\ reply' = "none"
        /\ lock' = lock /\ doing' = [doing EXCEPT !["orders"] = None]
        /\ \E a \in {"publish", "ack"} : Go("orders", a)
        /\ cache' = IF Len(cache) < CacheSize THEN Append(cache, order) ELSE Append(Tail(cache), order)
    BY <1>4, EngineSame DEF Complete
  <2>2. cache \in Seq(Orders) /\ CacheSize \in Nat \ {0}
    BY LegacyAssumption DEF IInv, TypeOK
  <2>3. cache' \in Seq(Orders)
    <3>1. CASE Len(cache) < CacheSize
      BY <1>3, <2>1, <2>2, <3>1
    <3>2. CASE ~(Len(cache) < CacheSize)
      <4>1. cache # <<>>
        BY <2>2, <3>2
      <4>2. Tail(cache) \in Seq(Orders)
        BY <2>2, <4>1
      <4> QED
        BY <1>3, <2>1, <3>2, <4>2
    <3> QED
      BY <3>1, <3>2
  <2>4. Data' /\ scan' = scan
    BY <2>1, <2>3 DEF IInv, TypeOK, Data, Replies
  <2> QED
    BY <1>1, <1>2, <2>1, <2>4, OrdersStep
<1>5. CASE Publish
  <2>1. /\ UNCHANGED <<queue, acked, up, cache, blocked, quant, scan, failed, dropped, order, report, reply>>
        /\ lock' = lock /\ doing' = doing /\ Go("orders", "ack")
    BY <1>5 DEF Publish, bus, control, recovery, wire, engine
  <2>2. Data' /\ scan' = scan
    BY <2>1, DataNow, DataKept
  <2> QED
    BY <1>1, <1>2, <2>1, <2>2, OrdersStep
<1>6. CASE Ack
  <2>1. /\ UNCHANGED <<queue, up, cache, blocked, quant, scan, failed, dropped, reply>>
        /\ acked' = acked \cup {order} /\ order' = None /\ report' = "none"
        /\ lock' = lock /\ doing' = doing /\ Go("orders", "idle")
    BY <1>6 DEF Ack, control, recovery, wire
  <2>2. Data' /\ scan' = scan
    BY <1>3, <2>1 DEF IInv, TypeOK, Data, Reports
  <2> QED
    BY <1>1, <1>2, <2>1, <2>2, OrdersStep
<1> QED
  BY <1>4, <1>5, <1>6

\* What a recovery procedure does to the handler and to recovery
LEMMA ProcedureKept ==
  ASSUME IInv, Next, NEW p \in Tasks,
         RecoverPlace(p) \/ RecoverClose(p) \/ RecoverStop(p) \/ StopLost(p) \/ Cancel(p)
  PROVE  Handler' /\ (p = "recovery" => Recovers' /\ Ripe')
<1>1. WorldMove /\ Steady
  BY Moving
<1>2. CASE p = "orders"
  BY <1>1, <1>2, RecoverPlaceKept, RecoverCloseKept, RecoverStopKept, CancelKept
<1>3. CASE p = "recovery"
  BY <1>1, <1>3, RecoverPlaceOther, RecoverCloseOther, RecoverStopOther, CancelOther
<1> QED
  BY <1>2, <1>3, TaskNames

LEMMA LockingWhole == ASSUME IInv, Next, NEW p \in Tasks, NEW a, Locking(p, a) PROVE IInv'
<1>1. WorldMove /\ Steady
  BY Moving
<1>2. Handler' /\ Recovers' /\ Ripe' /\ Locked' /\ Looked'
  BY <1>1, LockingKept, RecoveryLocks, LockingStep
<1>3. /\ UNCHANGED <<queue, acked, up, cache, blocked, quant, scan, failed, dropped, order, report, reply>>
      /\ at' = at /\ doing' = doing /\ lock' = [lock EXCEPT ![p] = doing[p]]
  BY DEF Locking, Lock, bus, engine, control, recovery, wire
<1>4. Data'
  BY <1>3, DataNow, DataKept
<1>5. Posts'
  BY <1>3 DEF IInv, TypeOK, Posts
<1> QED
  BY <1>2, <1>4, <1>5, Assembled

\* Under its lock a procedure goes to where it acts on what it has read.
LEMMA OwnedGoes ==
  ASSUME IInv, Next, NEW p \in Tasks, Handler', p = "recovery" => Recovers' /\ Ripe',
         NEW n \in RecoveryPlaces \cap OrderPlaces, Go(p, n), lock[p] = doing[p],
         UNCHANGED <<bus, engine, control, recovery, doing, lock, dropped>>, ~slipped' => LookedAt(p)'
  PROVE  IInv'
<1>1. WorldMove /\ Steady
  BY Moving
<1>2. /\ UNCHANGED <<queue, acked, up, cache, blocked, quant, scan, failed, dropped, order, report, reply>>
      /\ doing' = doing /\ lock' = lock
  BY DEF bus, engine, control, recovery
<1>3. at'[p] = n /\ Alone(p)
  BY <1>2, Going DEF IInv, Alone
<1>4. Recovers' /\ Ripe'
  BY <1>1, <1>2, <1>3, RecoveryKept, TaskNames DEF IInv
<1>5. Locked' /\ Looked'
  BY <1>2, <1>3, TaskStep
<1>6. Data'
  BY <1>2, DataNow, DataKept
<1>7. Posts'
  BY <1>2, TaskNames DEF Go, IInv, TypeOK, Posts
<1> QED
  BY <1>4, <1>5, <1>6, <1>7, Assembled

LEMMA ReconcileWhole ==
  ASSUME IInv, Next, NEW p \in Tasks, Handler', p = "recovery" => Recovers' /\ Ripe',
         NEW a \in Replies, NEW n \in OrderPlaces \ Acting, Reconcile(p, a, n)
  PROVE  IInv'
<1>1. WorldMove /\ Steady /\ TypeOK
  BY Moving DEF IInv
<1>2. /\ UNCHANGED <<queue, acked, up, cache, blocked, quant, scan, failed, dropped, order, report>>
      /\ reply' \in {reply, a} /\ Leave(p, n)
  BY DEF Reconcile, bus, control, recovery, wire
<1>3. Alone(p) /\ lock'[p] = None /\ at'[p] \in {n, "scan"}
  BY <1>1, <1>2, LeavingTask
<1>4. Recovers' /\ Ripe'
  BY <1>1, <1>2, <1>3, RecoveryKept, TaskNames DEF IInv
<1>5. at'[p] \notin Acting
  BY <1>3 DEF Acting
<1>6. Locked' /\ Looked'
  BY <1>3, <1>5, Elsewhere
<1>7. Data'
  BY <1>2, DataNow, DataKept
<1>8. Posts'
  BY <1>1, <1>2, LeaveTyped
<1> QED
  BY <1>4, <1>6, <1>7, <1>8, Assembled

\* The places of the procedures
LEMMA ProcedurePlaces ==
  /\ \A n \in {"rplace", "rplace flat", "rstop send", "rstop confirm", "cancel verify"} :
       n \in RecoveryPlaces \cap OrderPlaces
  /\ \A n \in {"classify", "exited", "stopped", "compensate", "cancelled"} : n \in OrderPlaces \ Acting
  BY DEF RecoveryPlaces, OrderPlaces, Entering, Protecting, Leaving, Cancelling, Acting

LEMMA RecoverPlaceWhole == ASSUME IInv, Next, NEW p \in Tasks, RecoverPlace(p) PROVE IInv'
<1>1. Handler' /\ (p = "recovery" => Recovers' /\ Ripe')
  BY ProcedureKept
<1>2. CASE Locking(p, "rplace")
  BY <1>2, LockingWhole
<1>3. CASE Owned(p, "rplace") /\ Withdraw(p, doing[p], "rplace")
  <2>1. /\ Go(p, "rplace") /\ lock[p] = doing[p] /\ dropped' = dropped
        /\ UNCHANGED <<bus, engine, control, recovery, doing, lock>>
    BY <1>3 DEF Owned, Withdraw, wire
  <2>2. at'[p] = "rplace"
    BY <2>1, Going DEF IInv
  <2>3. LookedAt(p)'
    BY <2>2 DEF LookedAt
  <2> QED
    BY <1>1, <2>1, <2>3, ProcedurePlaces, OwnedGoes
<1>4. CASE /\ Owned(p, "rplace") /\ doing[p] \notin working /\ Go(p, "rplace flat")
           /\ UNCHANGED <<venue, journal, bus, engine, control, recovery, doing, lock, wire>>
  <2>1. /\ Go(p, "rplace flat") /\ lock[p] = doing[p] /\ dropped' = dropped
        /\ UNCHANGED <<bus, engine, control, recovery, doing, lock>>
    BY <1>4 DEF Owned, wire
  <2>2. at'[p] = "rplace flat" /\ doing' = doing /\ working' = working
    BY <1>4, <2>1, Going DEF IInv, venue
  <2>3. LookedAt(p)'
    BY <1>4, <2>2 DEF LookedAt
  <2> QED
    BY <1>1, <2>1, <2>3, ProcedurePlaces, OwnedGoes
<1>5. CASE Reconcile(p, "dead", "classify")
  BY <1>1, <1>5, ProcedurePlaces, ReconcileWhole DEF Replies, Acks
<1>6. CASE Raise(p)
  BY <1>6, RaiseStep
<1>7. \/ Locking(p, "rplace")
      \/ Owned(p, "rplace") /\ Withdraw(p, doing[p], "rplace")
      \/ /\ Owned(p, "rplace") /\ doing[p] \notin working /\ Go(p, "rplace flat")
         /\ UNCHANGED <<venue, journal, bus, engine, control, recovery, doing, lock, wire>>
      \/ Reconcile(p, "dead", "classify")
      \/ Raise(p)
  BY Zenon DEF RecoverPlace
<1> QED
  BY <1>2, <1>3, <1>4, <1>5, <1>6, <1>7, Zenon

LEMMA RecoverCloseWhole == ASSUME IInv, Next, NEW p \in Tasks, RecoverClose(p) PROVE IInv'
<1> DEFINE a == IF doing[p][2] \in Opens THEN "bad" ELSE "ok"
<1>1. Handler' /\ (p = "recovery" => Recovers' /\ Ripe')
  BY ProcedureKept
<1>2. a \in Replies
  BY DEF Replies, Acks
<1>3. Locking(p, "rclose") \/ Reconcile(p, a, "exited") \/ Raise(p)
  BY Zenon DEF RecoverClose
<1> HIDE DEF a
<1>4. CASE Locking(p, "rclose")
  BY <1>4, LockingWhole
<1>5. CASE Reconcile(p, a, "exited")
  BY <1>1, <1>2, <1>5, ProcedurePlaces, ReconcileWhole
<1>6. CASE Raise(p)
  BY <1>6, RaiseStep
<1> QED
  BY <1>3, <1>4, <1>5, <1>6, Zenon

LEMMA RecoverStopWhole == ASSUME IInv, Next, NEW p \in Tasks, RecoverStop(p) PROVE IInv'
<1>1. Handler' /\ (p = "recovery" => Recovers' /\ Ripe')
  BY ProcedureKept
<1>2. CASE Locking(p, "rstop")
  BY <1>2, LockingWhole
<1>3. CASE Reconcile(p, "ok", "stopped") \/ Reconcile(p, "flat", "compensate")
  BY <1>1, <1>3, ProcedurePlaces, ReconcileWhole DEF Replies
<1>4. CASE /\ Owned(p, "rstop") /\ stops[doing[p][2]] = 0 /\ Go(p, "rstop send")
           /\ UNCHANGED <<venue, journal, bus, engine, control, recovery, doing, lock, wire>>
  <2>1. /\ Go(p, "rstop send") /\ lock[p] = doing[p] /\ dropped' = dropped
        /\ UNCHANGED <<bus, engine, control, recovery, doing, lock>>
    BY <1>4 DEF Owned, wire
  <2>2. at'[p] = "rstop send" /\ doing' = doing /\ stops' = stops
    BY <1>4, <2>1, Going DEF IInv, venue
  <2>3. LookedAt(p)'
    BY <1>4, <2>2 DEF LookedAt
  <2> QED
    BY <1>1, <2>1, <2>3, ProcedurePlaces, OwnedGoes
<1>5. CASE /\ Owned(p, "rstop send") /\ Land(doing[p]) /\ Sent(doing[p]) /\ Go(p, "rstop confirm")
           /\ UNCHANGED <<late, slipped, journal, bus, engine, control, recovery, doing, lock>>
  <2>1. /\ Go(p, "rstop confirm") /\ lock[p] = doing[p] /\ dropped' = dropped
        /\ UNCHANGED <<bus, engine, control, recovery, doing, lock>>
    BY <1>5 DEF Owned, Sent
  <2>2. at'[p] = "rstop confirm" /\ doing' = doing
    BY <2>1, Going DEF IInv
  <2>3. PICK o \in Opens : doing[p] = StopOf(o) /\ doing[p][2] = o
    BY <1>5, InHand, Names DEF Owned, IInv
  <2>4. stops' = [stops EXCEPT ![o] = @ + 1]
    BY <1>5, <2>3, Landings
  <2>5. Safe(o)'
    BY <2>4 DEF IInv, TypeOK, Safe
  <2>6. LookedAt(p)'
    BY <2>2, <2>3, <2>5 DEF LookedAt
  <2> QED
    BY <1>1, <2>1, <2>6, ProcedurePlaces, OwnedGoes
<1>6. \/ Locking(p, "rstop")
      \/ Reconcile(p, "ok", "stopped") \/ Reconcile(p, "flat", "compensate")
      \/ /\ Owned(p, "rstop") /\ stops[doing[p][2]] = 0 /\ Go(p, "rstop send")
         /\ UNCHANGED <<venue, journal, bus, engine, control, recovery, doing, lock, wire>>
      \/ /\ Owned(p, "rstop send") /\ Land(doing[p]) /\ Sent(doing[p]) /\ Go(p, "rstop confirm")
         /\ UNCHANGED <<late, slipped, journal, bus, engine, control, recovery, doing, lock>>
  BY Zenon DEF RecoverStop
<1> QED
  BY <1>2, <1>3, <1>4, <1>5, <1>6, Zenon

LEMMA CancelWhole == ASSUME IInv, Next, NEW p \in Tasks, Cancel(p) PROVE IInv'
<1>1. Handler' /\ (p = "recovery" => Recovers' /\ Ripe')
  BY ProcedureKept
<1>2. CASE Locking(p, "cancelling")
  BY <1>2, LockingWhole
<1>3. CASE Reconcile(p, "ok", "cancelled")
  BY <1>1, <1>3, ProcedurePlaces, ReconcileWhole DEF Replies
<1>4. CASE Owned(p, "cancelling") /\ Withdraw(p, doing[p][2], "cancel verify")
  <2>1. /\ Go(p, "cancel verify") /\ lock[p] = doing[p] /\ dropped' = dropped
        /\ UNCHANGED <<bus, engine, control, recovery, doing, lock>>
    BY <1>4 DEF Owned, Withdraw, wire
  <2>2. at'[p] = "cancel verify"
    BY <2>1, Going DEF IInv
  <2>3. LookedAt(p)'
    BY <2>2 DEF LookedAt
  <2> QED
    BY <1>1, <2>1, <2>3, ProcedurePlaces, OwnedGoes
<1>5. \/ Locking(p, "cancelling") \/ Reconcile(p, "ok", "cancelled")
      \/ Owned(p, "cancelling") /\ Withdraw(p, doing[p][2], "cancel verify")
  BY Zenon DEF Cancel
<1> QED
  BY <1>2, <1>3, <1>4, <1>5, Zenon

LEMMA StopLostStep == ASSUME IInv, Next, NEW p \in Tasks, StopLost(p) PROVE IInv'
<1>1. Handler' /\ (p = "recovery" => Recovers' /\ Ripe')
  BY ProcedureKept
<1>2. WorldMove /\ Steady /\ TypeOK
  BY Moving DEF IInv
<1>3. /\ UNCHANGED <<queue, acked, up, cache, blocked, quant, scan, dropped, order, report, reply>>
      /\ failed' = (failed \/ p = "recovery") /\ Leave(p, "compensate")
  BY DEF StopLost, Sent, bus, engine, control
<1>4. Alone(p) /\ lock'[p] = None /\ at'[p] \in {"compensate", "scan"}
  BY <1>2, <1>3, LeavingTask
<1>5. at'[p] \notin Acting
  BY <1>4 DEF Acting
<1>6. Recovers' /\ Ripe'
  BY <1>1, <1>2, <1>3, <1>4, RecoveryKept, TaskNames DEF IInv
<1>7. Locked' /\ Looked'
  BY <1>4, <1>5, Elsewhere
<1>8. Data'
  BY <1>3, DataNow, DataKept
<1>9. Posts'
  BY <1>2, <1>3, LeaveTyped, ProcedurePlaces
<1> QED
  BY <1>1, <1>6, <1>7, <1>8, <1>9, Assembled

\* The scan, and the steps of the venue, the mode and the grace
LEMMA ScanStep ==
  ASSUME IInv, Next, Scan \/ Scanned \/ \E e \in Effects : RecoverEffect(e) PROVE IInv'
<1>1. Handler' /\ Recovers' /\ Ripe'
  BY Moving, ScanOther
<1>2. /\ UNCHANGED <<queue, acked, cache, quant, dropped, order, report, reply>> /\ lock' = lock
      /\ failed' \in BOOLEAN /\ scan' \subseteq Effects /\ up' \in BOOLEAN /\ blocked' \in BOOLEAN
  <2>1. CASE Scan
    BY <2>1 DEF Scan, Unblock, bus, engine, control, wire, IInv, TypeOK
  <2>2. CASE Scanned
    BY <2>2 DEF Scanned, Unblock, bus, engine, wire, IInv, TypeOK
  <2>3. CASE \E e \in Effects : RecoverEffect(e)
    BY <2>3 DEF RecoverEffect, bus, engine, control, wire, IInv, TypeOK
  <2> QED
    BY <2>1, <2>2, <2>3
<1>3. Data'
  BY <1>2 DEF IInv, TypeOK, Data
<1>4. \E n \in {"idle", "scan", "rplace", "rstop", "rclose", "cancelling"} : Go("recovery", n)
  <2>1. ASSUME NEW e \in Effects, RecoverEffect(e)
        PROVE  \E n \in {"rplace", "rstop", "rclose", "cancelling"} : Go("recovery", n)
    <3>1. e[1] \in {"place", "stop", "exit", "cancel"}
      BY Names, Sorts
    <3> QED
      BY <2>1, <3>1 DEF RecoverEffect
  <2>2. Scan \/ Scanned => \E n \in {"idle", "scan"} : Go("recovery", n)
    BY DEF Scan, Scanned, Unblock
  <2> QED
    BY <2>1, <2>2
<1>5. PICK n \in {"idle", "scan", "rplace", "rstop", "rclose", "cancelling"} : Go("recovery", n)
  BY <1>4
<1>6. n \in RecoveryPlaces /\ n \notin Acting
  BY DEF RecoveryPlaces, Acting
<1>7. at'["recovery"] = n /\ at'["orders"] = at["orders"]
  BY <1>5, Going, TaskNames DEF IInv
<1>8. \E x \in Effects \cup {None} : doing' = doing \/ doing' = [doing EXCEPT !["recovery"] = x]
  BY DEF Scan, Scanned, RecoverEffect
<1>9. doing' \in [Tasks -> Effects \cup {None}] /\ doing'["orders"] = doing["orders"]
  BY <1>8, TaskNames DEF IInv, TypeOK
<1>10. Alone("recovery")
  BY <1>2, <1>7, <1>9, TaskNames DEF Alone
<1>11. Locked' /\ Looked'
  BY <1>2, <1>6, <1>7, <1>10, TaskNames, Elsewhere
<1>12. Posts'
  BY <1>2, <1>5, <1>6, <1>7, <1>9, TaskNames DEF Go, IInv, TypeOK, Posts
<1> QED
  BY <1>1, <1>3, <1>11, <1>12, Assembled

LEMMA VenueStep ==
  ASSUME IInv, Next, Venue \/ SetMode \/ ScanFails \/ Ripen \/ \E e \in Effects : LandLate(e) PROVE IInv'
<1>1. Handler' /\ Recovers' /\ Ripe' /\ UNCHANGED tasks
  BY Moving, VenueOther
<1>2. Locked' /\ Looked'
  BY <1>1, Unmoved
<1>3. /\ UNCHANGED <<queue, acked, up, cache, scan, failed, dropped, order, report, reply>>
      /\ quant' \in BOOLEAN /\ blocked' \in BOOLEAN
  <2>1. ASSUME NEW e, Fill(e) \/ Die(e) \/ Trigger(e) \/ LandLate(e)
        PROVE  UNCHANGED <<bus, engine, control, recovery, wire>>
    BY <2>1 DEF Fill, Die, Trigger, LandLate
  <2>2. CASE UNCHANGED <<bus, engine, control, recovery, wire>>
    BY <2>2 DEF bus, engine, control, recovery, wire, IInv, TypeOK
  <2>3. CASE SetMode \/ ScanFails
    BY <2>3 DEF SetMode, ScanFails, bus, engine, recovery, wire, IInv, TypeOK
  <2>4. CASE Ripen
    BY <2>4 DEF Ripen, bus, engine, control, recovery, wire, IInv, TypeOK
  <2> QED
    BY <2>1, <2>2, <2>3, <2>4 DEF Venue
<1>4. Data'
  BY <1>3 DEF IInv, TypeOK, Data
<1>5. Posts'
  BY <1>1 DEF tasks, IInv, TypeOK, Posts
<1> QED
  BY <1>1, <1>2, <1>4, <1>5, Assembled

LEMMA CrashStep == ASSUME IInv, Next, Crash PROVE IInv'
<1>1. Handler' /\ Recovers' /\ Ripe' /\ Locked' /\ Looked'
  BY CrashKept
<1>2. /\ UNCHANGED <<queue, acked, dropped>> /\ up' = FALSE /\ blocked' = FALSE /\ quant' = FALSE
      /\ cache' = <<>> /\ order' = None /\ report' = "none" /\ reply' = "none" /\ scan' = {} /\ failed' = FALSE
      /\ at' = [p \in Tasks |-> "idle"] /\ lock' = [p \in Tasks |-> None] /\ doing' = [p \in Tasks |-> None]
  BY DEF Crash, bus, wire
<1>3. Data'
  <2>1. queue' \subseteq Orders /\ acked' \subseteq Orders /\ dropped' \subseteq Opens
    BY <1>2 DEF IInv, TypeOK
  <2>2. cache' \in Seq(Orders) /\ scan' \subseteq Effects
    BY <1>2
  <2>3. up' \in BOOLEAN /\ blocked' \in BOOLEAN /\ quant' \in BOOLEAN /\ failed' \in BOOLEAN
    BY <1>2
  <2>4. order' \in Orders \cup {None} /\ report' \in Reports /\ reply' \in Replies
    BY <1>2 DEF Reports, Replies
  <2> QED
    BY <2>1, <2>2, <2>3, <2>4 DEF Data
<1>4. Posts'
  BY <1>2, TaskNames DEF Posts, OrderPlaces, RecoveryPlaces
<1> QED
  BY <1>1, <1>3, <1>4, Assembled

LEMMA NextKeeps == ASSUME IInv, Next PROVE IInv'
<1>1. CASE Venue \/ Ripen \/ SetMode \/ ScanFails \/ \E e \in Effects : LandLate(e)
  BY <1>1, VenueStep
<1>2. CASE Handling
  <2>1. CASE \E o \in Orders : Take(o)
    BY <2>1, TakeStep
  <2>2. CASE PlaceOrder \/ SetStop \/ ClosePosition
    BY <2>2, MutationSteps
  <2>3. CASE ConfirmPlace \/ ConfirmStop \/ ConfirmExit
    BY <2>3, ConfirmSteps
  <2>4. CASE Classify \/ Protected \/ Cancelled \/ Flat \/ Active \/ Exited \/ Tidy \/ Finish
    BY <2>4, ReadingSteps
  <2>5. CASE CancelOrder
    BY <2>5, CancelOrderStep
  <2>6. CASE Complete \/ Publish \/ Ack
    BY <2>6, ReportSteps
  <2> QED
    BY <1>2, <2>1, <2>2, <2>3, <2>4, <2>5, <2>6 DEF Handling
<1>3. CASE Recovering
  <2>1. CASE Scan \/ Scanned \/ \E e \in Effects : RecoverEffect(e)
    BY <2>1, ScanStep
  <2>2. CASE \E p \in Tasks : RecoverPlace(p) \/ RecoverClose(p) \/ RecoverStop(p) \/ Cancel(p)
    BY <2>2, RecoverPlaceWhole, RecoverCloseWhole, RecoverStopWhole, CancelWhole
  <2> QED
    BY <1>3, <2>1, <2>2 DEF Recovering
<1>4. CASE SendPlace \/ SendStop \/ SendExit
  BY <1>4, SendSteps
<1>5. CASE Crash
  BY <1>5, CrashStep
<1>6. ASSUME NEW p \in Tasks, StopLost(p) \/ Fail(p) PROVE IInv'
  BY <1>6, StopLostStep, RaiseStep DEF Fail
<1> QED
  BY <1>1, <1>2, <1>3, <1>4, <1>5, <1>6 DEF Next

LEMMA StutterKeeps == ASSUME IInv, UNCHANGED vars PROVE IInv'
<1>1. /\ UNCHANGED <<held, working, stops, late, slipped, status, answer, fresh, queue, acked>>
      /\ UNCHANGED <<cache, order, report, reply, up, blocked, quant, scan, failed, at, doing, lock>>
      /\ UNCHANGED <<sent, resent, dropped, faults>>
  BY DEF vars, venue, journal, bus, engine, control, recovery, tasks, wire
<1>2. TypeOK' /\ Handles' /\ Recovers' /\ Locked' /\ Ripe' /\ Prepared'
  <2>1. TypeOK'
    BY <1>1 DEF IInv, TypeOK
  <2>2. Handles' /\ Recovers' /\ Locked'
    BY <1>1 DEF IInv, Handles, Recovers, Locked
  <2>3. Ripe' /\ Prepared'
    BY <1>1 DEF IInv, Ripe, Prepared
  <2> QED
    BY <2>1, <2>2, <2>3
<1>3. World'
  BY <1>1 DEF IInv, World, SentOnce, EntryOnce, StopOnce, OneStop, Truthful, Honest, Known, Closable,
              Over, Withdrawn, Safe
<1>4. Looked' /\ EntryKnown' /\ ExitKnown' /\ Ended'
  <2>1. Looked' /\ EntryKnown'
    BY <1>1 DEF IInv, Looked, LookedAt, EntryKnown, Honest, Closable, Over, Withdrawn, Safe
  <2>2. ExitKnown' /\ Ended'
    BY <1>1 DEF IInv, ExitKnown, Ended, Withdrawing, Flattened, Closable, Over, Withdrawn, Good, Safe, Cached
  <2> QED
    BY <2>1, <2>2
<1> QED
  BY <1>2, <1>3, <1>4 DEF IInv

LEMMA InitHolds == ASSUME Init PROVE IInv
<1>1. /\ held = {} /\ working = {} /\ stops = [o \in Opens |-> 0] /\ late = {} /\ slipped = FALSE
      /\ status = [e \in Effects |-> "NONE"] /\ answer = [e \in Effects |-> "none"]
      /\ acked = {} /\ queue \in SUBSET Orders /\ faults = 0
      /\ up = FALSE /\ cache = <<>> /\ blocked = FALSE /\ quant = FALSE
      /\ order = None /\ report = "none" /\ reply = "none" /\ fresh = {} /\ scan = {} /\ failed = FALSE
      /\ sent = {} /\ resent = {} /\ dropped = {}
      /\ at = [p \in Tasks |-> "idle"] /\ doing = [p \in Tasks |-> None] /\ lock = [p \in Tasks |-> None]
  BY DEF Init
<1>2. /\ at["orders"] = "idle" /\ at["recovery"] = "idle" /\ \A p \in Tasks : lock[p] = None /\ at[p] = "idle"
      /\ doing["recovery"] = None /\ lock["orders"] = None
  BY <1>1, TaskNames
<1>3. \A o \in Opens : PlaceOf(o) \in Effects /\ StopOf(o) \in Effects
  BY Apart
<1>4. TypeOK
  <2>1. /\ held \subseteq Opens /\ working \subseteq Places \cup Exits /\ stops \in [Opens -> Nat]
        /\ late \subseteq Places \cup Exits \cup Stops /\ slipped \in BOOLEAN
        /\ status \in [Effects -> {"NONE", "PREPARED", "SETTLED"}] /\ fresh \subseteq Effects
    BY <1>1
  <2>2. answer \in [Effects -> Replies] /\ report \in Reports /\ reply \in Replies
    BY <1>1 DEF Reports, Replies
  <2>3. /\ queue \subseteq Orders /\ acked \subseteq Orders /\ up \in BOOLEAN /\ blocked \in BOOLEAN
        /\ quant \in BOOLEAN /\ order \in Orders \cup {None} /\ scan \subseteq Effects /\ failed \in BOOLEAN
        /\ sent \subseteq Effects /\ resent \subseteq sent /\ dropped \subseteq Opens /\ faults \in Nat
    BY <1>1
  <2>4. cache \in Seq(Orders)
    BY <1>1
  <2>5. "idle" \in OrderPlaces /\ "idle" \in RecoveryPlaces
    BY DEF OrderPlaces, RecoveryPlaces
  <2>6. /\ at \in [Tasks -> OrderPlaces \cup RecoveryPlaces]
        /\ doing \in [Tasks -> Effects \cup {None}] /\ lock \in [Tasks -> Effects \cup {None}]
    BY <1>1, <2>5
  <2> QED
    BY <1>2, <2>1, <2>2, <2>3, <2>4, <2>5, <2>6 DEF TypeOK
<1>5. Handles /\ Prepared /\ EntryKnown
  BY <1>2 DEF Handles, Entering, Protecting, Cancelling, Prepared, EntryKnown
<1>6. ExitKnown
  BY <1>2 DEF ExitKnown, Withdrawing, Flattened, Leaving, Closed, Cancelling
<1>7. Recovers /\ Locked /\ Ripe
  BY <1>1, <1>2, EffectAssumption DEF Recovers, Locked, Ripe
<1>8. World
  <2>1. SentOnce /\ EntryOnce /\ StopOnce /\ OneStop
    BY <1>1 DEF SentOnce, EntryOnce, StopOnce, OneStop
  <2>2. Truthful
    BY <1>1, <1>3 DEF Truthful, Known
  <2> QED
    BY <2>1, <2>2 DEF World
<1>9. Looked
  BY <1>2 DEF Looked, LookedAt
<1>10. Ended
  <2>0. cache = <<>> /\ order = None /\ acked = {}
    BY <1>1
  <2>1. \A o : ~Cached(o)
    BY <2>0 DEF Cached
  <2> QED
    BY <1>2, <2>0, <2>1 DEF Ended, Reported
<1> QED
  BY <1>4, <1>5, <1>6, <1>7, <1>8, <1>9, <1>10 DEF IInv

\* What is known of the venue, of the journal and of the handling holds in every
\* reachable state: the invariant of handle_once and of the recovery procedures.
THEOREM Inductive == Spec => []IInv
<1>1. IInv /\ [Next]_vars => IInv'
  BY NextKeeps, StutterKeeps
<1> QED
  BY <1>1, InitHolds, PTL DEF Spec

\* No entry, close or emergency close is sent to the venue a second time, whatever
\* is redelivered, evicted from the cache, lost or recovered: a row that is only
\* prepared is looked up (_recover_prepared_place, _recover_prepared_close).
THEOREM SendsOnce == Spec => []SentOnce
<1>1. IInv => SentOnce
  BY DEF IInv, World
<1> QED
  BY <1>1, Inductive, PTL

\* A redelivery and the scan that recover one prepared stop leave one at the venue:
\* each looks before it sends, under recovery_lock (_recover_prepared_stop).
THEOREM StopsOnce == Spec => []OneStop
<1>1. IInv => OneStop
  BY DEF IInv, World
<1> QED
  BY <1>1, Inductive, PTL

\* An acknowledged OPEN that is in the position has its protective stop: handle_once
\* protected it, or compensate_unprotected proved it gone before its report was
\* published, and no recovery of a row undoes either.
THEOREM AckedIsSafe == Spec => []AckedOpenIsSafe
<1>1. ASSUME IInv, NEW o \in (acked \ dropped) \cap held, ~slipped PROVE stops[o] > 0
  <2>1. o \in Opens /\ PlaceOf(o) \in Effects
    BY <1>1, Apart DEF IInv, TypeOK
  <2>2. Good(o) /\ o \notin dropped
    BY <1>1, <2>1 DEF IInv, Ended
  <2>3. CASE status[PlaceOf(o)] = "NONE"
    <3>1. PlaceOf(o) \notin sent
      BY <1>1, <2>1, <2>3 DEF IInv, Ripe
    <3> QED
      BY <1>1, <2>1, <3>1 DEF IInv, World, EntryOnce
  <2>4. CASE Safe(o)
    BY <1>1, <2>4 DEF Safe, Over
  <2> QED
    BY <2>2, <2>3, <2>4 DEF Good
<1>2. IInv => AckedOpenIsSafe
  BY <1>1 DEF AckedOpenIsSafe
<1> QED
  BY <1>2, Inductive, PTL

=============================================================================
