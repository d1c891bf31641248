--------------------- MODULE ProductionCancellationProofs ---------------------
(***************************************************************************)
(* Theorems about the cancellation boundary, for any set of calls and any  *)
(* quantity.                                                               *)
(*                                                                         *)
(* The argument: the call whose claim was inserted is the only one that is *)
(* past the claim of its target, and until it writes an outcome there is   *)
(* none (Owns, Knows); what is recorded as completed was executed, and    *)
(* the journal is confirmed from that record alone (Backed).  A snapshot   *)
(* that lets the stop go is as old as the bareness of the position at      *)
(* least (Aging), so that the proof after the claim refuses a position     *)
(* that was bare for the lease: from then on the entry is over and the     *)
(* position is covered, or slipped (Covering).                             *)
(***************************************************************************)
EXTENDS ProductionCancellation, TLAPS

-----------------------------------------------------------------------------
(* The inductive invariant *)

\* A close is never larger than what is held.
Amounts == position + remainder <= Quantity /\ exit <= position

\* A call that has begun is about a target.
Targeted == \A c \in Callers : step[c] # "idle" => target[c] \in Targets

\* Steps that only the owner of a claim takes.
Claiming == {"claimed", "reproved", "waiting", "failing", "completing", "confirming"}

Owns(c) == step[c] \in Claiming =>
  /\ target[c] \in claimed
  /\ \A d \in Callers : step[d] \in Claiming /\ target[d] = target[c] => d = c

\* Nothing is written of x, and nothing is about to be.
Fresh(x) == terminal[x] = "none" /\ \A o \in Outcomes : <<x, o>> \notin writes

\* What a claim's owner knows of it.
Knows(c) ==
  /\ step[c] \in {"claimed", "reproved"} => target[c] \notin sent /\ Fresh(target[c])
  /\ step[c] = "waiting" => target[c] \in sent /\ Fresh(target[c])
  /\ step[c] = "confirming" => terminal[target[c]] = "COMPLETED"

\* The venue cancels what was sent, and what was sent had been claimed.
Backed ==
  /\ cancelled \subseteq sent /\ sent \subseteq claimed
  /\ \A x \in Targets : x \notin claimed => Fresh(x)
  /\ \A x \in Targets : <<x, "COMPLETED">> \in writes \/ terminal[x] = "COMPLETED" => x \in cancelled

\* A cancellation of the stop is under way, or was sent.
StopGoing ==
  \/ "STOP_LOSS" \in sent
  \/ \E c \in Callers : target[c] = "STOP_LOSS" /\ step[c] \in {"reproved", "waiting"}

Covered == position > 0 => exit >= position \/ slipped

Covering ==
  /\ \A x \in Protections : journal[x] # "NONE" => remainder = 0
  /\ StopGoing => remainder = 0 /\ Covered

\* While the position is bare no snapshot shows that the stop may go.
Aging == bareFor <= age["STOP_LOSS"]

Base == CancelTypeOK /\ Amounts /\ Targeted
Claimed == (\A c \in Callers : Owns(c) /\ Knows(c)) /\ Backed /\ ConfirmedIsCancelled

IInv == Base /\ Claimed /\ Covering /\ Aging

USE CallersAssumption, QuantityAssumption, LeaseAssumption

-----------------------------------------------------------------------------
(* Type correctness *)

\* A call moves, and the venue stays.
LEMMA CallTyped ==
  ASSUME Base, NEW c \in Callers, CallNext(c) \/ \E x \in Targets : Cancel(c, x)
  PROVE  Base' /\ (Aging => Aging')
<1> USE DEF Base, CancelTypeOK, Amounts, Targeted, Aging, venue, database, Steps, Go, Leave
<1>1. CASE \E x \in Targets : Cancel(c, x)
  BY <1>1 DEF Cancel
<1>2. CASE Prove(c) \/ Reprove(c) \/ Recording(c)
  BY <1>2 DEF Prove, Reprove, Recording
<1>3. CASE Refuse(c) \/ GiveUp(c)
  BY <1>3 DEF Refuse, GiveUp
<1>4. CASE Claim(c)
  BY <1>4 DEF Claim
<1>5. CASE ClaimUnresolved(c)
  BY <1>5 DEF ClaimUnresolved
<1>6. CASE Send(c)
  BY <1>6 DEF Send
<1>7. CASE Complete(c) \/ Fail(c)
  <2>1. \E s \in {"completing", "failing"}, o \in {"COMPLETED", "UNRESOLVED"} :
          step[c] # "idle" /\ Finish(c, s, o)
    BY <1>7 DEF Complete, Fail
  <2> QED
    BY <2>1 DEF Finish, Outcomes
<1>8. CASE Confirm(c)
  <2>1. journal' \in [Targets -> Statuses]
    BY <1>8 DEF Confirm, Statuses
  <2> QED
    BY <1>8, <2>1 DEF Confirm
<1> QED
  BY <1>1, <1>2, <1>3, <1>4, <1>5, <1>6, <1>7, <1>8 DEF CallNext

\* Ages stay within the lease, and a stop that may go is not bare.
Aged ==
  /\ age' \in [Targets -> 0..Lease] /\ bareFor' \in 0..Lease
  /\ Aging => Aging'

LEMMA ShownAged ==
  ASSUME CancelTypeOK, position' \in Nat, exit' \in Nat, Shown
  PROVE  Aged
<1>1. age' \in [Targets -> 0..Lease] /\ bareFor' \in 0..Lease
  BY DEF CancelTypeOK, Shown
<1>2. ASSUME Aging PROVE Aging'
  <2>1. age'["STOP_LOSS"] = IF MayGo("STOP_LOSS")' THEN 0 ELSE age["STOP_LOSS"]
    BY DEF Shown, Targets, Protections
  <2>2. bareFor' = IF Bare' THEN bareFor ELSE 0
    BY DEF Shown
  <2>3. MayGo("STOP_LOSS")' => ~ Bare'
    BY DEF MayGo, StopMayGo, Bare
  <2>4. age["STOP_LOSS"] \in 0..Lease /\ bareFor \in 0..Lease
    BY DEF CancelTypeOK, Targets, Protections
  <2> QED
    BY <1>2, <2>1, <2>2, <2>3, <2>4 DEF Aging
<1> QED
  BY <1>1, <1>2 DEF Aged

LEMMA TickAged ==
  ASSUME CancelTypeOK, Tick
  PROVE  Aged
<1>1. age' \in [Targets -> 0..Lease] /\ bareFor' \in 0..Lease
  BY DEF CancelTypeOK, Tick, Older
<1>2. ASSUME Aging PROVE Aging'
  <2>1. age'["STOP_LOSS"] = IF MayGo("STOP_LOSS") THEN 0 ELSE Older(age["STOP_LOSS"])
    BY DEF Tick, Targets, Protections
  <2>2. bareFor' = IF Bare THEN Older(bareFor) ELSE 0
    BY DEF Tick
  <2>3. MayGo("STOP_LOSS") => ~ Bare
    BY DEF CancelTypeOK, MayGo, StopMayGo, Bare
  <2>4. age["STOP_LOSS"] \in 0..Lease /\ bareFor \in 0..Lease
    BY DEF CancelTypeOK, Targets, Protections
  <2> QED
    BY <1>2, <2>1, <2>2, <2>3, <2>4 DEF Aging, Older
<1> QED
  BY <1>1, <1>2 DEF Aged

\* A step of the venue: the calls and the claims stay.
LEMMA VenueTyped ==
  ASSUME Base, UNCHANGED <<journal, claimed, terminal, writes, sent, step, target>>,
         position' \in 0..Quantity, remainder' \in 0..Quantity, exit' \in 0..Quantity,
         position' + remainder' <= Quantity, exit' <= position',
         live' \subseteq Protections, cancelled' \subseteq Targets, owned' \subseteq Targets,
         slipped' \in BOOLEAN,
         Shown \/ Tick
  PROVE  Base' /\ (Aging => Aging')
<1>1. Aged
  BY ShownAged, TickAged DEF Base
<1>2. CancelTypeOK'
  BY <1>1 DEF Base, CancelTypeOK, Aged
<1>3. Amounts' /\ Targeted'
  BY DEF Base, Amounts, Targeted
<1> QED
  BY <1>1, <1>2, <1>3 DEF Base, Aged

LEMMA WorldTyped ==
  ASSUME Base, WorldNext \/ CancelCrash
  PROVE  Base' /\ (Aging => Aging')
<1>1. /\ position \in 0..Quantity /\ remainder \in 0..Quantity /\ exit \in 0..Quantity
      /\ position + remainder <= Quantity /\ exit <= position /\ Quantity \in Nat
      /\ live \subseteq Protections /\ cancelled \subseteq Targets /\ owned \subseteq Targets
      /\ slipped \in BOOLEAN
  BY DEF Base, CancelTypeOK, Amounts
<1>2. CASE Tick
  BY <1>1, <1>2, VenueTyped DEF Tick, database
<1>3. CASE Fill
  BY <1>1, <1>3, VenueTyped DEF Fill, database
<1>4. CASE Expire
  BY <1>1, <1>4, VenueTyped DEF Expire, database
<1>5. CASE Close
  BY <1>1, <1>5, VenueTyped DEF Close, database
<1>6. CASE ExitFill
  BY <1>1, <1>6, VenueTyped DEF ExitFill, database
<1>7. CASE ExitDies
  <2>1. slipped' \in BOOLEAN
    BY <1>7 DEF ExitDies
  <2> QED
    BY <1>1, <1>7, <2>1, VenueTyped DEF ExitDies, database
<1>8. ASSUME NEW x \in Targets, Own(x) PROVE Base' /\ (Aging => Aging')
  <2>1. live' \subseteq Protections /\ owned' \subseteq Targets
    BY <1>1, <1>8 DEF Own, Targets
  <2> QED
    BY <1>1, <1>8, <2>1, VenueTyped DEF Own
<1>9. ASSUME NEW x \in Targets, Trigger(x) PROVE Base' /\ (Aging => Aging')
  BY <1>1, <1>9, VenueTyped DEF Trigger, database
<1>10. ASSUME NEW x \in Targets, Land(x) PROVE Base' /\ (Aging => Aging')
  BY <1>1, <1>10, VenueTyped DEF Land, database
<1>11. ASSUME UNCHANGED <<venue, owned, slipped>>,
              CancelTypeOK', Targeted'
       PROVE  Base' /\ (Aging => Aging')
  BY <1>11 DEF Base, Amounts, Aging, venue
<1>12. ASSUME NEW x \in Targets, Prepare(x) \/ Settle(x) PROVE Base' /\ (Aging => Aging')
  BY <1>11, <1>12 DEF Base, CancelTypeOK, Targeted, Prepare, Settle, Statuses, venue
<1>13. ASSUME NEW x \in Targets, NEW o \in {"COMPLETED", "UNRESOLVED"}, Record(x, o) \/ Lose(x, o)
       PROVE  Base' /\ (Aging => Aging')
  <2>1. terminal' \in [Targets -> Outcomes] /\ writes' \subseteq writes
    BY <1>13 DEF Base, CancelTypeOK, Record, Lose, Outcomes
  <2> QED
    BY <1>11, <1>13, <2>1 DEF Base, CancelTypeOK, Targeted, Record, Lose, venue
<1>14. CASE CancelCrash
  BY <1>11, <1>14 DEF Base, CancelTypeOK, Targeted, CancelCrash, Steps, venue, database
<1> QED
  BY <1>2, <1>3, <1>4, <1>5, <1>6, <1>7, <1>8, <1>9, <1>10, <1>12, <1>13, <1>14 DEF WorldNext

LEMMA NextTyped == ASSUME Base, CancelNext PROVE Base' /\ (Aging => Aging')
  BY CallTyped, WorldTyped DEF CancelNext

-----------------------------------------------------------------------------
(* Claims and outcomes *)

\* Steps of a call that stays out of the claim, or gives it up.
LEMMA OutsideClaimed ==
  ASSUME Base, Claimed,
         UNCHANGED <<cancelled, terminal, writes, sent>>, claimed \subseteq claimed',
         \A x \in Targets : journal'[x] = "CONFIRMED" =>
           journal[x] = "CONFIRMED" \/ terminal[x] = "COMPLETED",
         \A d \in Callers : step'[d] \in Claiming =>
           step'[d] = step[d] /\ target'[d] = target[d]
  PROVE  Claimed'
<1> USE DEF Claimed, Claiming
<1>1. ASSUME NEW d \in Callers PROVE Owns(d)'
  BY DEF Owns
<1>2. ASSUME NEW d \in Callers PROVE Knows(d)'
  <2>1. CASE step'[d] \in Claiming
    <3>1. Knows(d) /\ step'[d] = step[d] /\ target'[d] = target[d]
      BY <2>1
    <3> QED
      BY <3>1 DEF Knows, Fresh
  <2>2. CASE step'[d] \notin Claiming
    BY <2>2 DEF Knows
  <2> QED
    BY <2>1, <2>2
<1>3. Backed'
  BY DEF Backed, Fresh
<1>4. ConfirmedIsCancelled'
  BY DEF ConfirmedIsCancelled, Backed
<1> QED
  BY <1>1, <1>2, <1>3, <1>4

\* A step of the only call that is, or now gets, past the claim of its target:
\* nothing but that target is touched.
LEMMA OwnerClaimed ==
  ASSUME Base, Claimed, NEW c \in Callers, NEW s \in Steps, NEW x \in Targets,
         step' = [step EXCEPT ![c] = s], UNCHANGED <<target, cancelled, journal>>,
         target[c] = x, s \in Claiming,
         \A d \in Callers : d # c /\ step[d] \in Claiming => target[d] # x,
         claimed \subseteq claimed', x \in claimed', sent \subseteq sent', sent' \subseteq sent \cup {x},
         \A y \in Targets : y # x => terminal'[y] = terminal[y],
         terminal[x] # "none" => terminal'[x] = terminal[x],
         \A y \in Targets : y # x => \A o \in Outcomes : <<y, o>> \in writes' => <<y, o>> \in writes,
         <<x, "COMPLETED">> \in writes' \/ terminal'[x] = "COMPLETED" => x \in cancelled,
         Knows(c)'
  PROVE  Claimed'
<1> USE DEF Base, CancelTypeOK, Claimed
<1>1. \A d \in Callers : d # c => step'[d] = step[d]
  OBVIOUS
<1>2. ASSUME NEW d \in Callers PROVE Owns(d)'
  <2>1. CASE d = c
    BY <1>1, <2>1 DEF Owns
  <2>2. CASE d # c
    <3>1. Owns(d) /\ step'[d] = step[d]
      BY <1>1, <2>2
    <3>2. step[d] \in Claiming => target[d] # x
      BY <2>2
    <3> QED
      BY <1>1, <3>1, <3>2 DEF Owns
  <2> QED
    BY <2>1, <2>2
<1>3. ASSUME NEW d \in Callers PROVE Knows(d)'
  <2>1. CASE d = c
    BY <2>1
  <2>2. CASE d # c /\ step[d] \in Claiming
    <3>1. Knows(d) /\ step'[d] = step[d] /\ target[d] # x /\ target[d] \in Targets
      BY <1>1, <2>2 DEF Claiming, Targeted
    <3> QED
      BY <3>1 DEF Knows, Fresh
  <2>3. CASE d # c /\ step[d] \notin Claiming
    BY <1>1, <2>3 DEF Knows, Claiming
  <2> QED
    BY <2>1, <2>2, <2>3
<1>4. Backed'
  <2>1. cancelled' \subseteq sent' /\ sent' \subseteq claimed'
    BY DEF Backed
  <2>2. ASSUME NEW y \in Targets, y \notin claimed' PROVE Fresh(y)'
    BY <2>2 DEF Backed, Fresh
  <2>3. ASSUME NEW y \in Targets, <<y, "COMPLETED">> \in writes' \/ terminal'[y] = "COMPLETED"
        PROVE  y \in cancelled'
    BY <2>3 DEF Backed, Outcomes
  <2> QED
    BY <2>1, <2>2, <2>3 DEF Backed
<1>5. ConfirmedIsCancelled'
  BY DEF ConfirmedIsCancelled
<1> QED
  BY <1>2, <1>3, <1>4, <1>5

LEMMA CallClaimed ==
  ASSUME Base, Claimed, NEW c \in Callers, CallNext(c) \/ \E x \in Targets : Cancel(c, x)
  PROVE  Claimed'
<1> USE DEF Base, CancelTypeOK, Go
<1>1. CASE Prove(c) \/ Refuse(c) \/ GiveUp(c) \/ ClaimUnresolved(c) \/ \E x \in Targets : Cancel(c, x)
  BY <1>1, OutsideClaimed DEF Prove, Refuse, GiveUp, ClaimUnresolved, Cancel, Leave, Claiming,
     venue, database
<1>2. CASE Confirm(c)
  <2>1. target[c] \in Targets /\ terminal[target[c]] = "COMPLETED"
    BY <1>2 DEF Confirm, Claimed, Knows, Targeted
  <2>2. \A x \in Targets : x # target[c] => journal'[x] = journal[x]
    BY <1>2 DEF Confirm
  <2>3. \A x \in Targets : journal'[x] = "CONFIRMED" =>
          journal[x] = "CONFIRMED" \/ terminal[x] = "COMPLETED"
    BY <2>1, <2>2
  <2>4. \A d \in Callers : step'[d] \in Claiming => step'[d] = step[d] /\ target'[d] = target[d]
    BY <1>2 DEF Confirm, Leave, Claiming
  <2>5. UNCHANGED <<cancelled, terminal, writes, sent, claimed>>
    BY <1>2 DEF Confirm, venue
  <2> QED
    BY <2>3, <2>4, <2>5, OutsideClaimed
<1> DEFINE x == target[c]
<1>3. step[c] # "idle" => x \in Targets
  BY DEF Targeted
<1>4. step[c] \in Claiming =>
        x \in claimed /\ \A d \in Callers : d # c /\ step[d] \in Claiming => target[d] # x
  BY DEF Claimed, Owns
<1>5. Knows(c) /\ (x \in Targets /\ x \notin claimed => x \notin sent /\ Fresh(x))
  BY DEF Claimed, Backed
<1>6. CASE Claim(c)
  <2>1. Knows(c)'
    BY <1>3, <1>5, <1>6 DEF Claim, Knows, Fresh
  <2>2. \A d \in Callers : step[d] \in Claiming => target[d] # x
    BY <1>6 DEF Claim, Claimed, Owns
  <2> QED
    BY <1>3, <1>5, <1>6, <2>1, <2>2, OwnerClaimed DEF Claim, Claiming, Steps, venue, Fresh, Outcomes
<1>7. CASE Reprove(c)
  <2>1. Knows(c)'
    BY <1>5, <1>7 DEF Reprove, Knows, Fresh, database
  <2>2. step[c] \in Claiming /\ UNCHANGED <<target, cancelled, journal, claimed, sent, terminal, writes>>
    BY <1>7 DEF Reprove, Claiming, venue, database
  <2> QED
    BY <1>3, <1>4, <1>7, <2>1, <2>2, OwnerClaimed DEF Reprove, Claiming, Steps, Claimed, Backed
<1>8. CASE Send(c)
  <2>1. step[c] \in Claiming /\ x \in Targets /\ sent' = sent \cup {x}
        /\ UNCHANGED <<target, cancelled, journal, claimed, terminal, writes>>
    BY <1>3, <1>8 DEF Send, Claiming, venue
  <2>2. Knows(c)'
    BY <1>5, <1>8 DEF Send, Knows, Fresh
  <2>3. step' = [step EXCEPT ![c] = "waiting"] /\ "waiting" \in Steps /\ "waiting" \in Claiming
    BY <1>8 DEF Send, Steps, Claiming
  <2>4. sent \subseteq sent' /\ sent' \subseteq sent \cup {x}
    BY <2>1
  <2>5. <<x, "COMPLETED">> \in writes' \/ terminal'[x] = "COMPLETED" => x \in cancelled
    BY <2>1 DEF Claimed, Backed
  <2>6. x \in claimed' /\ claimed \subseteq claimed' /\ writes' = writes /\ terminal' = terminal
    BY <1>4, <2>1
  <2> HIDE DEF x
  <2>7. x = target[c]
    BY DEF x
  <2> QED
    BY <1>4, <2>1, <2>2, <2>3, <2>4, <2>5, <2>6, <2>7, OwnerClaimed
<1>9. CASE Recording(c)
  <2>1. step[c] \in Claiming /\ x \in Targets
        /\ UNCHANGED <<target, cancelled, journal, claimed, terminal, writes, sent>>
    BY <1>3, <1>9 DEF Recording, Claiming, venue, database
  <2>2. Knows(c)'
    BY <1>9, <2>1 DEF Recording, Recorded, Knows
  <2> QED
    BY <1>4, <1>9, <2>1, <2>2, OwnerClaimed DEF Recording, Claiming, Steps, Claimed, Backed
<1>10. CASE Complete(c) \/ Fail(c)
  <2>1. PICK s \in {"completing", "failing"}, o \in {"COMPLETED", "UNRESOLVED"} :
          /\ step[c] \in {"claimed", "reproved", "waiting"} /\ Finish(c, s, o)
          /\ o = "COMPLETED" => x \in cancelled
    BY <1>10 DEF Complete, Fail, Acknowledged
  <2>2. step[c] \in Claiming /\ x \in Targets /\ writes' = writes \cup {<<x, o>>}
        /\ UNCHANGED <<target, cancelled, journal, claimed, terminal, sent>>
        /\ step' = [step EXCEPT ![c] = s] /\ s \in Steps /\ s \in Claiming
    BY <1>3, <2>1 DEF Finish, Claiming, Steps, venue
  <2>3. Knows(c)'
    BY <2>2 DEF Knows
  <2>4. <<x, "COMPLETED">> \in writes' \/ terminal'[x] = "COMPLETED" => x \in cancelled
    BY <2>1, <2>2 DEF Claimed, Backed
  <2>5. \A y \in Targets : y # x => \A q \in Outcomes : <<y, q>> \in writes' => <<y, q>> \in writes
    BY <2>2
  <2> QED
    BY <1>4, <2>2, <2>3, <2>4, <2>5, OwnerClaimed
<1> QED
  BY <1>1, <1>2, <1>6, <1>7, <1>8, <1>9, <1>10 DEF CallNext

\* An outcome that is recorded, or lost, has an owner who waits for it no more.
LEMMA WriteClaimed ==
  ASSUME Base, Claimed, NEW x \in Targets, NEW o \in {"COMPLETED", "UNRESOLVED"},
         Record(x, o) \/ Lose(x, o)
  PROVE  Claimed'
<1> USE DEF Base, CancelTypeOK
<1>1. <<x, o>> \in writes /\ ~ Fresh(x)
      /\ writes' \subseteq writes /\ UNCHANGED <<cancelled, journal, claimed, sent, step, target>>
  BY DEF Record, Lose, Fresh, Outcomes, venue
<1>2. /\ \A y \in Targets : y # x => terminal'[y] = terminal[y]
      /\ terminal[x] # "none" => terminal'[x] = terminal[x]
      /\ terminal'[x] \in {terminal[x], o}
  BY DEF Record, Lose
<1>3. x \in claimed
  BY <1>1 DEF Claimed, Backed
<1>4. ASSUME NEW d \in Callers PROVE Owns(d)'
  BY <1>1 DEF Claimed, Owns
<1>5. ASSUME NEW d \in Callers PROVE Knows(d)'
  <2>1. Knows(d) /\ (step[d] # "idle" => target[d] \in Targets)
    BY DEF Claimed, Targeted
  <2>2. CASE target[d] = x
    BY <1>1, <1>2, <2>1, <2>2 DEF Knows
  <2>3. CASE target[d] # x
    BY <1>1, <1>2, <2>1, <2>3 DEF Knows, Fresh
  <2> QED
    BY <2>2, <2>3
<1>6. Backed'
  <2>1. ASSUME NEW y \in Targets, y \notin claimed' PROVE Fresh(y)'
    <3>1. Fresh(y) /\ y # x
      BY <1>1, <1>3, <2>1 DEF Claimed, Backed
    <3> QED
      BY <1>1, <1>2, <3>1 DEF Fresh
  <2>2. ASSUME NEW y \in Targets, <<y, "COMPLETED">> \in writes' \/ terminal'[y] = "COMPLETED"
        PROVE  y \in cancelled'
    <3>1. <<y, "COMPLETED">> \in writes \/ terminal[y] = "COMPLETED"
      BY <1>1, <1>2, <2>2
    <3> QED
      BY <1>1, <3>1 DEF Claimed, Backed
  <2> QED
    BY <1>1, <2>1, <2>2 DEF Claimed, Backed
<1>7. ConfirmedIsCancelled'
  <2>1. ASSUME NEW y \in Targets, journal'[y] = "CONFIRMED"
        PROVE  y \in cancelled' /\ terminal'[y] = "COMPLETED"
    <3>1. y \in cancelled /\ terminal[y] = "COMPLETED"
      BY <1>1, <2>1 DEF Claimed, ConfirmedIsCancelled
    <3> QED
      BY <1>1, <1>2, <3>1
  <2> QED
    BY <2>1 DEF ConfirmedIsCancelled
<1> QED
  BY <1>4, <1>5, <1>6, <1>7 DEF Claimed

LEMMA LandClaimed ==
  ASSUME Base, Claimed, NEW x \in Targets, Land(x)
  PROVE  Claimed'
<1>1. /\ x \in sent /\ cancelled' = cancelled \cup {x}
      /\ UNCHANGED <<journal, claimed, terminal, writes, sent, step, target>>
  BY DEF Land, database
<1>2. ASSUME NEW d \in Callers PROVE (Owns(d) /\ Knows(d))'
  BY <1>1 DEF Claimed, Owns, Knows, Fresh
<1>3. Backed'
  BY <1>1 DEF Claimed, Backed, Fresh
<1>4. ConfirmedIsCancelled'
  BY <1>1 DEF Claimed, ConfirmedIsCancelled
<1> QED
  BY <1>2, <1>3, <1>4 DEF Claimed

LEMMA WorldClaimed ==
  ASSUME Base, Claimed, WorldNext \/ CancelCrash
  PROVE  Claimed'
<1> USE DEF venue, database
<1>1. CASE Tick \/ Fill \/ Expire \/ Close \/ ExitFill \/ ExitDies
  BY <1>1, OutsideClaimed DEF Tick, Fill, Expire, Close, ExitFill, ExitDies
<1>2. ASSUME NEW x \in Targets, Own(x) \/ Trigger(x) PROVE Claimed'
  BY <1>2, OutsideClaimed DEF Own, Trigger
<1>3. ASSUME NEW x \in Targets, Prepare(x) \/ Settle(x) PROVE Claimed'
  <2>1. \A y \in Targets : journal'[y] = "CONFIRMED" => journal[y] = "CONFIRMED"
    BY <1>3 DEF Base, CancelTypeOK, Prepare, Settle
  <2>2. UNCHANGED <<cancelled, terminal, writes, sent, claimed, step, target>>
    BY <1>3 DEF Prepare, Settle
  <2> QED
    BY <2>1, <2>2, OutsideClaimed
<1>4. CASE CancelCrash
  BY <1>4, OutsideClaimed DEF CancelCrash, Claiming
<1> QED
  BY <1>1, <1>2, <1>3, <1>4, LandClaimed, WriteClaimed DEF WorldNext

LEMMA NextClaimed == ASSUME Base, Claimed, CancelNext PROVE Claimed'
  BY CallClaimed, WorldClaimed DEF CancelNext

-----------------------------------------------------------------------------
(* A cancelled stop *)

\* A step that starts no cancellation of the stop and uncovers nothing.
LEMMA CoveringKept ==
  ASSUME Covering, StopGoing' => StopGoing,
         remainder = 0 => remainder' = 0,
         \A x \in Protections : journal'[x] # "NONE" => journal[x] # "NONE",
         StopGoing /\ Covered => Covered'
  PROVE  Covering'
BY DEF Covering

LEMMA WorldCovering ==
  ASSUME Base, Covering, WorldNext \/ CancelCrash
  PROVE  Covering'
<1> USE DEF Base, CancelTypeOK, Amounts, Protections, venue, database
<1>1. CASE Fill
  BY <1>1 DEF Fill, Covering, StopGoing
<1>2. CASE Tick \/ Expire \/ Close \/ ExitFill
  <2>1. /\ UNCHANGED <<journal, sent, step, target>>
        /\ remainder' \in {0, remainder}
    BY <1>2 DEF Tick, Expire, Close, ExitFill
  <2>2. StopGoing' => StopGoing
    BY <2>1 DEF StopGoing
  <2>3. Covered => Covered'
    BY <1>2 DEF Tick, Expire, Close, ExitFill, Covered
  <2> QED
    BY <2>1, <2>2, <2>3, CoveringKept
<1>3. CASE ExitDies
  <2>1. UNCHANGED <<journal, sent, step, target, remainder>>
    BY <1>3 DEF ExitDies
  <2>2. StopGoing' => StopGoing
    BY <2>1 DEF StopGoing
  <2>3. StopGoing => Covered'
    BY <1>3 DEF ExitDies, StopGoing, Covered
  <2> QED
    BY <2>1, <2>2, <2>3, CoveringKept
<1>4. ASSUME NEW x \in Targets, Own(x) \/ Trigger(x) \/ Land(x) PROVE Covering'
  <2>1. /\ UNCHANGED <<journal, sent, step, target>>
        /\ remainder' \in {0, remainder}
    BY <1>4 DEF Own, Trigger, Land
  <2>2. StopGoing' => StopGoing
    BY <2>1 DEF StopGoing
  <2>3. Covered => Covered'
    BY <1>4 DEF Own, Trigger, Land, Covered
  <2> QED
    BY <2>1, <2>2, <2>3, CoveringKept
<1>5. ASSUME NEW x \in Targets, Prepare(x) \/ Settle(x) PROVE Covering'
  <2>1. UNCHANGED <<sent, step, target, remainder, position, exit, slipped>>
    BY <1>5 DEF Prepare, Settle
  <2>2. ASSUME NEW y \in Protections, journal'[y] # "NONE" PROVE remainder = 0
    BY <1>5, <2>2 DEF Prepare, Settle, Covering, Targets
  <2> QED
    BY <2>1, <2>2 DEF Covering, StopGoing, Covered
<1>6. ASSUME NEW x \in Targets, NEW o \in {"COMPLETED", "UNRESOLVED"}, Record(x, o) \/ Lose(x, o)
      PROVE  Covering'
  BY <1>6 DEF Record, Lose, Covering, StopGoing, Covered
<1>7. CASE CancelCrash
  BY <1>7 DEF CancelCrash, Covering, StopGoing, Covered
<1> QED
  BY <1>1, <1>2, <1>3, <1>4, <1>5, <1>6, <1>7 DEF WorldNext

LEMMA CallCovering ==
  ASSUME Base, Aging, Covering, NEW c \in Callers, CallNext(c) \/ \E x \in Targets : Cancel(c, x)
  PROVE  Covering'
<1> USE DEF Base, CancelTypeOK, Go, Leave, venue, database
<1>1. CASE Reprove(c)
  <2>1. /\ UNCHANGED <<position, remainder, exit, sent, journal, target>>
        /\ \A d \in Callers : d # c => step'[d] = step[d]
        /\ slipped' = (slipped \/ Escapes(c))
    BY <1>1 DEF Reprove
  <2>2. CASE target[c] = "STOP_LOSS"
    <3>1. journal["STOP_LOSS"] # "NONE" /\ age["STOP_LOSS"] < Lease
      BY <1>1, <2>2 DEF Reprove, Proven, Lineage, Prepared, Shows
    <3>2. remainder = 0
      BY <3>1 DEF Covering, Protections
    <3>3. bareFor < Lease
      BY <3>1 DEF Aging, Targets, Protections
    <3>4. Covered'
      <4>1. CASE Bare
        <5>1. slipped'
          BY <2>1, <2>2, <3>3, <4>1, Zenon DEF Escapes
        <5> QED
          BY <5>1 DEF Covered
      <4>2. CASE ~ Bare
        BY <2>1, <4>2 DEF Covered, Bare
      <4> QED
        BY <4>1, <4>2
    <3> QED
      BY <2>1, <3>2, <3>4 DEF Covering
  <2>3. CASE target[c] # "STOP_LOSS"
    <3>1. StopGoing' => StopGoing
      BY <2>1, <2>3 DEF StopGoing
    <3> QED
      BY <2>1, <2>3, <3>1 DEF Covering, Covered, Escapes
  <2> QED
    BY <2>2, <2>3
<1>2. CASE Send(c)
  <2>1. /\ UNCHANGED <<position, remainder, exit, slipped, journal, target>>
        /\ \A d \in Callers : d # c => step'[d] = step[d]
        /\ step[c] = "reproved" /\ sent' = sent \cup {target[c]}
    BY <1>2 DEF Send
  <2>2. StopGoing' => StopGoing
    BY <2>1 DEF StopGoing
  <2> QED
    BY <2>1, <2>2 DEF Covering, Covered
<1>3. ASSUME UNCHANGED <<position, remainder, exit, slipped, sent>>,
             \A y \in Targets : journal'[y] # "NONE" => journal[y] # "NONE",
             \A d \in Callers : step'[d] \in {"reproved", "waiting"} =>
               step'[d] = step[d] /\ target'[d] = target[d]
      PROVE  Covering'
  BY <1>3 DEF Covering, Covered, StopGoing, Targets
<1>4. CASE Prove(c) \/ Refuse(c) \/ Claim(c) \/ ClaimUnresolved(c) \/ Complete(c) \/ Fail(c)
           \/ Recording(c) \/ GiveUp(c) \/ \E x \in Targets : Cancel(c, x)
  BY <1>3, <1>4 DEF Prove, Refuse, Claim, ClaimUnresolved, Complete, Fail, Finish, Recording, GiveUp,
     Cancel
<1>5. CASE Confirm(c)
  <2>1. \A y \in Targets : journal'[y] # "NONE" => journal[y] # "NONE"
    BY <1>5 DEF Confirm
  <2>2. \A d \in Callers : step'[d] \in {"reproved", "waiting"} =>
          step'[d] = step[d] /\ target'[d] = target[d]
    BY <1>5 DEF Confirm
  <2>3. UNCHANGED <<position, remainder, exit, slipped, sent>>
    BY <1>5 DEF Confirm
  <2> QED
    BY <1>3, <2>1, <2>2, <2>3
<1> QED
  BY <1>1, <1>2, <1>4, <1>5 DEF CallNext

-----------------------------------------------------------------------------
(* The invariant holds *)

LEMMA InitIInv == ASSUME CancelInit PROVE IInv
<1> USE DEF CancelInit
<1>1. Base
  <2>1. /\ position \in 0..Quantity /\ remainder \in 0..Quantity /\ exit \in 0..Quantity
        /\ position + remainder <= Quantity /\ exit <= position
        /\ age \in [Targets -> 0..Lease] /\ bareFor \in 0..Lease
    OBVIOUS
  <2>2. journal \in [Targets -> Statuses] /\ terminal \in [Targets -> Outcomes]
    BY DEF Statuses, Outcomes
  <2>3. step \in [Callers -> Steps] /\ target \in [Callers -> Targets \cup {None}]
    BY DEF Steps
  <2> QED
    BY <2>1, <2>2, <2>3 DEF Base, CancelTypeOK, Amounts, Targeted
<1>2. Claimed
  BY DEF Claimed, Owns, Knows, Claiming, Backed, Fresh, ConfirmedIsCancelled
<1>3. Covering
  BY DEF Covering, StopGoing, Protections, Targets
<1>4. Aging
  BY DEF Aging, Targets, Protections
<1> QED
  BY <1>1, <1>2, <1>3, <1>4 DEF IInv

LEMMA StutterIInv == ASSUME IInv, UNCHANGED cancelVars PROVE IInv'
<1>1. Base'
  BY DEF IInv, Base, CancelTypeOK, Amounts, Targeted, cancelVars, venue, database
<1>2. Claimed'
  BY DEF IInv, Claimed, Owns, Knows, Backed, Fresh, ConfirmedIsCancelled, cancelVars, venue, database
<1>3. Covering'
  BY DEF IInv, Covering, StopGoing, Covered, cancelVars, venue, database
<1>4. Aging'
  BY DEF IInv, Aging, cancelVars, venue
<1> QED
  BY <1>1, <1>2, <1>3, <1>4 DEF IInv

LEMMA CancelInductive == CancelSpec => []IInv
<1>1. IInv /\ [CancelNext]_cancelVars => IInv'
  BY NextTyped, NextClaimed, WorldCovering, CallCovering, StutterIInv DEF IInv, CancelNext
<1> QED
  BY InitIInv, <1>1, PTL DEF CancelSpec

\* Every variable of the cancellation boundary keeps its type.
THEOREM CancelTypesOK == CancelSpec => []CancelTypeOK
<1>1. IInv => CancelTypeOK
  BY DEF IInv, Base
<1> QED
  BY CancelInductive, <1>1, PTL

\* What the journal confirms was cancelled by the venue and is recorded as
\* completed, however many calls, retries and late writes there were (_cancel).
THEOREM CancelConfirmed == CancelSpec => []ConfirmedIsCancelled
<1>1. IInv => ConfirmedIsCancelled
  BY DEF IInv, Claimed
<1> QED
  BY CancelInductive, <1>1, PTL

\* A position whose stop was cancelled is covered by a working close, unless it
\* got bare less than a lease before the proof that followed the claim, or after
\* it: one that has been bare for the lease keeps its stop (_read_venue,
\* _validate_venue).
THEOREM CancelCoversStop == CancelSpec => []StopGoesCovered
<1>1. IInv => StopGoesCovered
  BY DEF IInv, Claimed, Backed, Covering, StopGoing, Covered, StopGoesCovered
<1> QED
  BY CancelInductive, <1>1, PTL

-----------------------------------------------------------------------------
(* The refinement of OneShotEffect *)

LEMMA Unclaimed ==
  ASSUME UNCHANGED <<claimed, sent, cancelled, terminal>>
  PROVE  [OneShot!Next]_OneShot!vars
BY DEF OneShot!vars

LEMMA CallOnce ==
  ASSUME IInv, NEW c \in Callers, CallNext(c) \/ \E x \in Targets : Cancel(c, x)
  PROVE  [OneShot!Next]_OneShot!vars
<1> DEFINE x == target[c]
<1>1. step[c] # "idle" => x \in Targets
  BY DEF IInv, Base, Targeted
<1>2. CASE Claim(c) \/ ClaimUnresolved(c)
  <2>1. x \in Targets
    BY <1>1, <1>2 DEF Claim, ClaimUnresolved
  <2>2. OneShot!Claim(x)
    BY <1>2 DEF Claim, ClaimUnresolved, OneShot!Claim, venue
  <2> QED
    BY <2>1, <2>2 DEF OneShot!Next
<1>3. CASE Send(c)
  <2>1. x \in Targets /\ x \in claimed \ sent /\ terminal[x] = "none"
    BY <1>1, <1>3 DEF Send, IInv, Claimed, Owns, Knows, Claiming, Fresh
  <2>2. OneShot!Send(x)
    BY <1>3, <2>1 DEF Send, OneShot!Send, venue
  <2> QED
    BY <2>1, <2>2 DEF OneShot!Next
<1>4. CASE Prove(c) \/ Refuse(c) \/ Reprove(c) \/ Complete(c) \/ Fail(c) \/ Recording(c)
           \/ Confirm(c) \/ GiveUp(c) \/ \E y \in Targets : Cancel(c, y)
  <2>1. UNCHANGED <<claimed, sent, cancelled, terminal>>
    BY <1>4 DEF Prove, Refuse, Reprove, Complete, Fail, Finish, Recording, Confirm, GiveUp, Cancel,
       venue, database
  <2> QED
    BY <2>1, Unclaimed
<1> QED
  BY <1>2, <1>3, <1>4 DEF CallNext

LEMMA WorldOnce ==
  ASSUME IInv, WorldNext \/ CancelCrash
  PROVE  [OneShot!Next]_OneShot!vars
<1>1. ASSUME NEW x \in Targets, Land(x) PROVE [OneShot!Next]_OneShot!vars
  <2>1. /\ x \in sent /\ cancelled' = cancelled \cup {x}
        /\ UNCHANGED <<claimed, sent, terminal>>
    BY <1>1 DEF Land, database
  <2>2. CASE x \in cancelled
    <3>1. cancelled' = cancelled
      BY <2>1, <2>2
    <3> QED
      BY <2>1, <3>1, Unclaimed
  <2>3. CASE x \notin cancelled
    <3>1. OneShot!Execute(x)
      BY <2>1, <2>3 DEF OneShot!Execute
    <3> QED
      BY <3>1 DEF OneShot!Next
  <2> QED
    BY <2>2, <2>3
<1>2. ASSUME NEW x \in Targets, NEW o \in {"COMPLETED", "UNRESOLVED"}, Record(x, o)
      PROVE  [OneShot!Next]_OneShot!vars
  <2>1. UNCHANGED <<claimed, sent, cancelled>>
    BY <1>2 DEF Record, venue
  <2>2. o = "COMPLETED" => x \in cancelled
    BY <1>2 DEF Record, IInv, Claimed, Backed
  <2>3. CASE x \in claimed /\ terminal[x] = "none"
    <3>1. OneShot!Resolve(x, o)
      BY <1>2, <2>1, <2>2, <2>3 DEF Record, OneShot!Resolve
    <3> QED
      BY <3>1 DEF OneShot!Next
  <2>4. CASE ~ (x \in claimed /\ terminal[x] = "none")
    <3>1. terminal' = terminal
      BY <1>2, <2>4 DEF Record
    <3> QED
      BY <2>1, <3>1, Unclaimed
  <2> QED
    BY <2>3, <2>4
<1>3. ASSUME NEW x \in Targets, NEW o \in {"COMPLETED", "UNRESOLVED"}, Lose(x, o)
      PROVE  [OneShot!Next]_OneShot!vars
  BY <1>3, Unclaimed DEF Lose, venue
<1>4. ASSUME NEW x \in Targets, Own(x) \/ Trigger(x) \/ Prepare(x) \/ Settle(x)
      PROVE  [OneShot!Next]_OneShot!vars
  BY <1>4, Unclaimed DEF Own, Trigger, Prepare, Settle, venue, database
<1>5. CASE Tick \/ Fill \/ Expire \/ Close \/ ExitFill \/ ExitDies \/ CancelCrash
  BY <1>5, Unclaimed DEF Tick, Fill, Expire, Close, ExitFill, ExitDies, CancelCrash, venue, database
<1> QED
  BY <1>1, <1>2, <1>3, <1>4, <1>5 DEF WorldNext

\* The cancellation implements OneShotEffect: each target is claimed once,
\* sent at most once and never after an outcome, and COMPLETED is recorded
\* only of what the venue cancelled (_cancel, claim_wire_once_async).
THEOREM CancelImplementsOneShot == CancelSpec => CancelsOnce
<1>1. CancelInit => OneShot!Init
  BY DEF CancelInit, OneShot!Init
<1>2. IInv /\ [CancelNext]_cancelVars => [OneShot!Next]_OneShot!vars
  <2>1. ASSUME IInv, UNCHANGED cancelVars PROVE [OneShot!Next]_OneShot!vars
    BY <2>1, Unclaimed DEF cancelVars, venue, database
  <2> QED
    BY <2>1, CallOnce, WorldOnce DEF CancelNext
<1> QED
  BY <1>1, <1>2, CancelInductive, PTL DEF CancelSpec, CancelsOnce, OneShot!Spec

=============================================================================
