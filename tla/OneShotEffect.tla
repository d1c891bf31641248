---------------------------- MODULE OneShotEffect ---------------------------
(***************************************************************************)
(* What the production wire boundary promises about each venue effect: it  *)
(* is claimed once and for ever, sent at most once and only before its     *)
(* outcome is recorded, and an outcome, once recorded, never changes.      *)
(* COMPLETED is recorded only of an effect that the venue executed.        *)
(***************************************************************************)
EXTENDS Naturals

CONSTANT Effects  \* identities of venue effects

VARIABLES
  claimed,   \* effects with a durable wire claim
  sent,      \* effects whose POST was issued
  executed,  \* effects that the venue executed
  outcome    \* durable terminal of each effect

vars == <<claimed, sent, executed, outcome>>

Outcomes == {"none", "COMPLETED", "UNRESOLVED"}

TypeOK ==
  /\ claimed \subseteq Effects /\ sent \subseteq Effects /\ executed \subseteq Effects
  /\ outcome \in [Effects -> Outcomes]

Init ==
  /\ claimed = {} /\ sent = {} /\ executed = {}
  /\ outcome = [i \in Effects |-> "none"]

Claim(i) ==
  /\ i \notin claimed
  /\ claimed' = claimed \cup {i}
  /\ UNCHANGED <<sent, executed, outcome>>

Send(i) ==
  /\ i \in claimed \ sent
  /\ outcome[i] = "none"
  /\ sent' = sent \cup {i}
  /\ UNCHANGED <<claimed, executed, outcome>>

Execute(i) ==
  /\ i \in sent \ executed
  /\ executed' = executed \cup {i}
  /\ UNCHANGED <<claimed, sent, outcome>>

Resolve(i, o) ==
  /\ i \in claimed
  /\ outcome[i] = "none"
  /\ o = "COMPLETED" => i \in executed
  /\ outcome' = [outcome EXCEPT ![i] = o]
  /\ UNCHANGED <<claimed, sent, executed>>

Next == \E i \in Effects :
  \/ Claim(i) \/ Send(i) \/ Execute(i)
  \/ \E o \in {"COMPLETED", "UNRESOLVED"} : Resolve(i, o)

Spec == Init /\ [][Next]_vars

=============================================================================
