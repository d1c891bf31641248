----------------------- MODULE ProductionDispatchProofs ---------------------
(***************************************************************************)
(* Theorems about the production dispatcher, for any set of calls,         *)
(* requests, arms and any clock.                                           *)
(*                                                                         *)
(* The argument: a claim names the call whose INSERT won, and that call    *)
(* alone goes past it, once.  So the signing thread of a claim runs once   *)
(* (Signing), and the POST of a claim happens between the claim and its    *)
(* terminal (Wiring).  What a call has checked stays true because claims,  *)
(* terminals and reservations never change (Chained), and because an arm   *)
(* that is revoked never returns (Armed).                                  *)
(***************************************************************************)
EXTENDS ProductionDispatch, TLAPS

-----------------------------------------------------------------------------
(* The inductive invariant *)

AfterSignClaim == {"signing", "sign_done", "sign_unres", "load", "verify", "precheck"}
AfterLoad  == {"verify", "precheck", "wire_claim", "recheck", "sending", "responded",
               "wire_done", "wire_unres"}
AfterPost  == {"sending", "responded", "wire_done", "wire_unres"} \cup Over

\* A pending transaction was begun by a call that awaits it or is over.
Pending == \A k \in Writes, c \in Calls :
  <<k, c>> \in tx => pc[c] \in {k} \cup Over /\ (pc[c] = k => reply[c] = "none")

\* The claim of a signing, its thread and its signature.
Signing ==
  /\ \A i \in Ids :
       /\ sigs[i] <= 1
       /\ signBy[i] = None <=> signClaim[i] = None
       /\ signClaim[i] = None => sigs[i] = 0
       /\ signTerm[i] = "COMPLETED" => sigs[i] = 1
  /\ \A c \in Calls :
       /\ c \in threads => /\ pc[c] \in {"signing"} \cup Over
                           /\ signBy[Id(c)] = c /\ sigs[Id(c)] = 0
                           /\ pc[c] = "signing" => reply[c] = "none"
       /\ pc[c] = "sign_claim" /\ reply[c] = "ok" => signBy[Id(c)] = c /\ sigs[Id(c)] = 0
       /\ pc[c] = "signing" /\ reply[c] = "ok" => sigs[Id(c)] = 1
       /\ <<"sign_done", c>> \in tx => sigs[Id(c)] = 1

\* Who owns a signing claim, and how far that call is.
SignOwner == \A i \in Ids, c \in Calls :
  signBy[i] = c =>
    /\ pc[c] # "idle" /\ i = Id(c)
    /\ pc[c] \notin {"inspect", "authorize", "reserve"}
    /\ <<"sign_claim", c>> \notin tx
    /\ signClaim[i] = req[c]

\* What a call found in the tables is still there.
Chained ==
  /\ \A i \in Ids \ Exits : signClaim[i] # None => reserved[i] = signClaim[i]
  /\ \A c \in Calls :
       /\ pc[c] = "reserve" /\ reply[c] = "ok" => reserved[Id(c)] = req[c]
       /\ pc[c] = "sign_claim" /\ Id(c) \notin Exits => reserved[Id(c)] = req[c]
       /\ <<"sign_claim", c>> \in tx /\ Id(c) \notin Exits => reserved[Id(c)] = req[c]
       /\ pc[c] \in AfterLoad \/ <<"wire_claim", c>> \in tx =>
            signClaim[Id(c)] = req[c] /\ signTerm[Id(c)] = "COMPLETED"
  /\ \A i \in Ids : wireClaim[i] # None =>
       wireClaim[i] = signClaim[i] /\ signTerm[i] = "COMPLETED"

\* The wire claim, the POST and the terminal.
Wiring ==
  /\ \A i \in Ids :
       /\ posts[i] <= 1 /\ executed[i] <= posts[i]
       /\ wireBy[i] = None <=> wireClaim[i] = None
       /\ wireClaim[i] = None => posts[i] = 0 /\ wireTerm[i] = "none"
       /\ wireTerm[i] = "COMPLETED" => executed[i] = 1
  /\ \A c \in Calls :
       /\ \/ pc[c] = "wire_claim" /\ reply[c] = "ok"
          \/ pc[c] \in {"recheck", "sending", "responded", "wire_done", "wire_unres", "returned"}
          \/ <<"wire_done", c>> \in tx \/ <<"wire_unres", c>> \in tx
          => wireBy[Id(c)] = c
       /\ pc[c] \in {"responded", "wire_done"} \/ <<"wire_done", c>> \in tx =>
            executed[Id(c)] = 1
       /\ (pc[c] = "wire_done" /\ reply[c] = "ok") \/ pc[c] = "returned" =>
            wireTerm[Id(c)] = "COMPLETED"

WireOwner == \A i \in Ids, c \in Calls :
  wireBy[i] = c =>
    /\ i = Id(c) /\ wireClaim[i] = req[c]
    /\ pc[c] \in {"wire_claim", "recheck"} \cup AfterPost
    /\ <<"wire_claim", c>> \notin tx
    /\ pc[c] \in {"wire_claim", "recheck"} => posts[i] = 0 /\ wireTerm[i] = "none"
    /\ pc[c] \in {"sending", "responded"} => wireTerm[i] = "none"

\* The arm of an entry that passed the check before its claim was in force
\* then; if it is in force now, it was when the claim committed.
Armed ==
  /\ operator \in usedArms \cup {None}
  /\ \A c \in Calls : pc[c] # "idle" /\ Id(c) \notin Exits =>
       /\ (pc[c] = "precheck" /\ seen[c] = "good") \/ <<"wire_claim", c>> \in tx =>
            ArmOf[req[c]] \in usedArms
       /\ pc[c] = "recheck" /\ seen[c] = "good" => wireArm[Id(c)] = ArmOf[req[c]]
  /\ \A i \in Ids \ Exits :
       /\ wireClaim[i] # None => /\ ArmOf[wireClaim[i]] \in usedArms
                                 /\ operator = ArmOf[wireClaim[i]] => wireArm[i] = operator
       /\ posts[i] > 0 => wireArm[i] = ArmOf[wireClaim[i]]

IInv == TypeOK /\ Pending /\ Signing /\ SignOwner /\ Chained /\ Wiring /\ WireOwner /\ Armed

-----------------------------------------------------------------------------
(* Facts about one call *)

LEMMA Grounded == ASSUME IInv, NEW c \in Calls, pc[c] # "idle"
  PROVE req[c] \in Requests /\ req[c] # None /\ Id(c) \in Ids /\ c # None
BY ConstantsAssumption DEF IInv, TypeOK, Id

LEMMA Began == ASSUME IInv, NEW k \in Writes, NEW c \in Calls, <<k, c>> \in tx
  PROVE pc[c] \in {k} \cup Over /\ pc[c] # "idle" /\ (pc[c] = k => reply[c] = "none")
BY DEF IInv, Pending, Over, Writes

LEMMA Threads == ASSUME IInv, NEW c \in threads
  PROVE /\ c \in Calls /\ pc[c] \in {"signing"} \cup Over /\ pc[c] # "idle"
        /\ signBy[Id(c)] = c /\ sigs[Id(c)] = 0 /\ signClaim[Id(c)] # None
<1>1. c \in Calls
  BY DEF IInv, TypeOK
<1>2. pc[c] \in {"signing"} \cup Over /\ signBy[Id(c)] = c /\ sigs[Id(c)] = 0
  BY <1>1 DEF IInv, Signing
<1>3. pc[c] # "idle"
  BY <1>2 DEF Over
<1> QED
  BY <1>1, <1>2, <1>3, Grounded DEF IInv, Signing

LEMMA Rechecks == ASSUME IInv, NEW c \in Calls, pc[c] = "recheck"
  PROVE wireBy[Id(c)] = c /\ wireClaim[Id(c)] = req[c] /\ wireClaim[Id(c)] # None
<1>1. Id(c) \in Ids /\ req[c] # None
  BY Grounded
<1>2. Wiring!2!(c)!1
  BY DEF IInv, Wiring
<1>3. wireBy[Id(c)] = c
  BY <1>2
<1>4. WireOwner!(Id(c), c)
  BY <1>1 DEF IInv, WireOwner
<1> QED
  BY <1>1, <1>3, <1>4

-----------------------------------------------------------------------------
(* Every step preserves TypeOK *)

LEMMA TypeOKWorld == ASSUME IInv, World PROVE TypeOK'
<1> USE ConstantsAssumption DEF IInv, World, tables, venue, local, history, TypeOK, Awaits,
     Over, Writes, Checks, Replies, Outcomes, Pending, Signing, Id
<1>1. CASE Tick
  BY <1>1 DEF Tick
<1>2. CASE StepWall
  BY <1>2 DEF StepWall, Least
<1>3. CASE Disarm
  BY <1>3 DEF Disarm
<1>4. ASSUME NEW a \in Arms, Arm(a) PROVE TypeOK'
  BY <1>4 DEF Arm
<1>5. ASSUME NEW i \in Exits, Expose(i) PROVE TypeOK'
  BY <1>5 DEF Expose
<1> QED
  BY <1>1, <1>2, <1>3, <1>4, <1>5

LEMMA TypeOKCall == ASSUME IInv, NEW c \in Calls, Proceed(c) \/ Stop(c) \/ Crash(c) PROVE TypeOK'
<1> USE ConstantsAssumption DEF IInv, Move, Forward, Await, End, Enter, Quiet, Write, wall,
     world, tables, venue, history, TypeOK, Awaits, Over, Writes, Checks, Replies, Outcomes,
     Pending, Signing, Id
<1>1. ASSUME NEW r \in Requests, Start(c, r) PROVE TypeOK'
  BY <1>1 DEF Start, InLease
<1>2. CASE Inspected(c)
  BY <1>2 DEF Inspected, Least
<1>3. CASE ReadEvidence(c)
  BY <1>3 DEF ReadEvidence, Snapshot
<1>4. CASE AuthorizedEntry(c)
  BY <1>4 DEF AuthorizedEntry
<1>5. CASE ClaimSigning(c)
  BY <1>5 DEF ClaimSigning
<1>6. CASE Sign(c)
  BY <1>6 DEF Sign
<1>7. CASE Signed(c)
  BY <1>7 DEF Signed
<1>8. CASE SignFailed(c)
  BY <1>8 DEF SignFailed
<1>9. CASE Dispatch(c)
  BY <1>9 DEF Dispatch, Least
<1>10. CASE Loaded(c)
  BY <1>10 DEF Loaded
<1>11. CASE Verified(c)
  BY <1>11 DEF Verified
<1>12. CASE ClaimWire(c)
  BY <1>12 DEF ClaimWire
<1>13. CASE WireClaimed(c)
  BY <1>13 DEF WireClaimed
<1>14. CASE Post(c)
  BY <1>14 DEF Post
<1>15. CASE Responded(c)
  BY <1>15 DEF Responded
<1>16. CASE FinishCompleted(c)
  BY <1>16 DEF FinishCompleted
<1>17. CASE Return(c)
  BY <1>17 DEF Return
<1>18. CASE Forget(c)
  BY <1>18 DEF Forget
<1>19. CASE Stop(c)
  <2>1. pc[c] # "idle"
    BY <1>19 DEF Stop
  <2>2. ASSUME Await(c, "wire_unres"), Write(c, "wire_unres") PROVE TypeOK'
    BY <2>1, <2>2
  <2>3. ASSUME End(c, "failed"), Quiet PROVE TypeOK'
    BY <2>1, <2>3
  <2> QED
    BY <1>19, <2>2, <2>3 DEF Stop
<1>20. CASE Crash(c)
  BY <1>20 DEF Crash
<1> HIDE DEF IInv, TypeOK, Awaits, Over, Writes, Checks, Replies, Outcomes, Pending, Signing, Id
<1> QED
  BY <1>1, <1>2, <1>3, <1>4, <1>5, <1>6, <1>7, <1>8, <1>9, <1>10, <1>11, <1>12, <1>13, <1>14,
     <1>15, <1>16, <1>17, <1>18, <1>19, <1>20 DEF Proceed

LEMMA TypeOKBase == ASSUME IInv, NEW c \in Calls, Database(c) \/ BackendSigns(c) PROVE TypeOK'
<1> USE ConstantsAssumption DEF IInv, Settle, Answer, Insert, Mark, Verdict, Terminal,
     Terminated, world, tables, venue, history, TypeOK, Awaits, Over, Writes, Checks, Replies,
     Outcomes, Pending, Signing, Id
<1>1. CASE CommitReserve(c)
  BY <1>1 DEF CommitReserve
<1>2. CASE CommitSignClaim(c)
  BY <1>2 DEF CommitSignClaim
<1>3. CASE CommitWireClaim(c)
  BY <1>3 DEF CommitWireClaim
<1>4. CASE CommitSignTerminal(c, "sign_done", "COMPLETED")
  BY <1>4 DEF CommitSignTerminal
<1>5. CASE CommitSignTerminal(c, "sign_unres", "UNRESOLVED")
  BY <1>5 DEF CommitSignTerminal
<1>6. CASE CommitWireTerminal(c, "wire_done", "COMPLETED")
  BY <1>6 DEF CommitWireTerminal
<1>7. CASE CommitWireTerminal(c, "wire_unres", "UNRESOLVED")
  BY <1>7 DEF CommitWireTerminal
<1>8. ASSUME NEW k \in Writes, Drop(c, k) PROVE TypeOK'
  BY <1>8 DEF Drop
<1>9. CASE BackendSigns(c)
  <2>1. Id(c) \in Ids /\ sigs[Id(c)] = 0
    BY <1>9, Threads, Grounded DEF BackendSigns
  <2>2. sigs' \in [Ids -> Nat]
    BY <2>1, <1>9 DEF BackendSigns
  <2>3. reply' \in [Calls -> Replies]
    BY <1>9 DEF BackendSigns
  <2>4. threads' \subseteq Calls
    BY <1>9 DEF BackendSigns
  <2>5. UNCHANGED <<world, tables, tx, venue, pc, req, dl, hw, seen, seenAt, signBy, wireBy,
       wireArm>>
    BY <1>9 DEF BackendSigns
  <2>6. TypeOK
    BY DEF IInv
  <2> HIDE DEF IInv, Pending, Signing, Id
  <2> QED
    BY <2>2, <2>3, <2>4, <2>5, <2>6
<1> HIDE DEF IInv, TypeOK, Awaits, Over, Writes, Checks, Replies, Outcomes, Pending, Signing, Id
<1> QED
  BY <1>1, <1>2, <1>3, <1>4, <1>5, <1>6, <1>7, <1>8, <1>9 DEF Database

LEMMA TypeOKVenue == ASSUME IInv, NEW i \in Ids, VenueExecutes(i) PROVE TypeOK'
BY ConstantsAssumption DEF IInv, VenueExecutes, world, tables, local, history, TypeOK, Awaits,
   Over, Writes, Checks, Replies, Outcomes, Pending, Signing, Id

-----------------------------------------------------------------------------
(* Every step preserves Pending *)

LEMMA PendingWorld == ASSUME IInv, World PROVE Pending'
<1> USE ConstantsAssumption DEF IInv, World, tables, venue, local, history, Pending, TypeOK,
     Awaits, Over, Writes, Checks
<1>1. CASE Tick
  BY <1>1 DEF Tick
<1>2. CASE StepWall
  BY <1>2 DEF StepWall, Least
<1>3. CASE Disarm
  BY <1>3 DEF Disarm
<1>4. ASSUME NEW a \in Arms, Arm(a) PROVE Pending'
  BY <1>4 DEF Arm
<1>5. ASSUME NEW i \in Exits, Expose(i) PROVE Pending'
  BY <1>5 DEF Expose
<1> QED
  BY <1>1, <1>2, <1>3, <1>4, <1>5

LEMMA PendingCall == ASSUME IInv, NEW c \in Calls, Proceed(c) \/ Stop(c) \/ Crash(c)
  PROVE Pending'
<1> USE ConstantsAssumption DEF IInv, Move, Forward, Await, End, Enter, Quiet, Write, wall,
     world, tables, venue, history, Pending, TypeOK, Awaits, Over, Writes, Checks
<1>1. ASSUME NEW r \in Requests, Start(c, r) PROVE Pending'
  BY <1>1 DEF Start, InLease
<1>2. CASE Inspected(c)
  BY <1>2 DEF Inspected, Least
<1>3. CASE ReadEvidence(c)
  BY <1>3 DEF ReadEvidence
<1>4. CASE AuthorizedEntry(c)
  BY <1>4 DEF AuthorizedEntry
<1>5. CASE ClaimSigning(c)
  BY <1>5 DEF ClaimSigning
<1>6. CASE Sign(c)
  BY <1>6 DEF Sign
<1>7. CASE Signed(c)
  BY <1>7 DEF Signed
<1>8. CASE SignFailed(c)
  BY <1>8 DEF SignFailed
<1>9. CASE Dispatch(c)
  BY <1>9 DEF Dispatch, Least
<1>10. CASE Loaded(c)
  BY <1>10 DEF Loaded
<1>11. CASE Verified(c)
  BY <1>11 DEF Verified
<1>12. CASE ClaimWire(c)
  BY <1>12 DEF ClaimWire
<1>13. CASE WireClaimed(c)
  BY <1>13 DEF WireClaimed
<1>14. CASE Post(c)
  BY <1>14 DEF Post
<1>15. CASE Responded(c)
  BY <1>15 DEF Responded
<1>16. CASE FinishCompleted(c)
  BY <1>16 DEF FinishCompleted
<1>17. CASE Return(c)
  BY <1>17 DEF Return
<1>18. CASE Forget(c)
  BY <1>18 DEF Forget
<1>19. CASE Stop(c)
  BY <1>19 DEF Stop
<1>20. CASE Crash(c)
  BY <1>20 DEF Crash
<1> HIDE DEF IInv, Pending, TypeOK, Awaits, Over, Writes, Checks
<1> QED
  BY <1>1, <1>2, <1>3, <1>4, <1>5, <1>6, <1>7, <1>8, <1>9, <1>10, <1>11, <1>12, <1>13, <1>14,
     <1>15, <1>16, <1>17, <1>18, <1>19, <1>20 DEF Proceed

LEMMA PendingBase == ASSUME IInv, NEW c \in Calls, Database(c) \/ BackendSigns(c) PROVE Pending'
<1> USE ConstantsAssumption DEF IInv, Settle, Answer, Insert, Mark, Verdict, Terminal,
     Terminated, world, tables, venue, history, Pending, TypeOK, Awaits, Over, Writes, Checks
<1>1. CASE CommitReserve(c)
  BY <1>1 DEF CommitReserve
<1>2. CASE CommitSignClaim(c)
  BY <1>2 DEF CommitSignClaim
<1>3. CASE CommitWireClaim(c)
  BY <1>3 DEF CommitWireClaim
<1>4. CASE CommitSignTerminal(c, "sign_done", "COMPLETED")
  BY <1>4 DEF CommitSignTerminal
<1>5. CASE CommitSignTerminal(c, "sign_unres", "UNRESOLVED")
  BY <1>5 DEF CommitSignTerminal
<1>6. CASE CommitWireTerminal(c, "wire_done", "COMPLETED")
  BY <1>6 DEF CommitWireTerminal
<1>7. CASE CommitWireTerminal(c, "wire_unres", "UNRESOLVED")
  BY <1>7 DEF CommitWireTerminal
<1>8. ASSUME NEW k \in Writes, Drop(c, k) PROVE Pending'
  BY <1>8 DEF Drop
<1>9. CASE BackendSigns(c)
  BY <1>9 DEF BackendSigns
<1> HIDE DEF IInv, Pending, TypeOK, Awaits, Over, Writes, Checks
<1> QED
  BY <1>1, <1>2, <1>3, <1>4, <1>5, <1>6, <1>7, <1>8, <1>9 DEF Database

LEMMA PendingVenue == ASSUME IInv, NEW i \in Ids, VenueExecutes(i) PROVE Pending'
BY ConstantsAssumption DEF IInv, VenueExecutes, world, tables, local, history, Pending, TypeOK,
   Awaits, Over, Writes, Checks

-----------------------------------------------------------------------------
(* Every step preserves Signing *)

LEMMA SigningWorld == ASSUME IInv, World PROVE Signing'
<1> USE ConstantsAssumption DEF IInv, World, tables, venue, local, history, Signing, SignOwner,
     Pending, TypeOK, Id, Awaits, Over, Writes, Checks
<1>1. CASE Tick
  BY <1>1 DEF Tick
<1>2. CASE StepWall
  BY <1>2 DEF StepWall, Least
<1>3. CASE Disarm
  BY <1>3 DEF Disarm
<1>4. ASSUME NEW a \in Arms, Arm(a) PROVE Signing'
  BY <1>4 DEF Arm
<1>5. ASSUME NEW i \in Exits, Expose(i) PROVE Signing'
  BY <1>5 DEF Expose
<1> QED
  BY <1>1, <1>2, <1>3, <1>4, <1>5

LEMMA SigningCall == ASSUME IInv, NEW c \in Calls, Proceed(c) \/ Stop(c) \/ Crash(c)
  PROVE Signing'
<1> USE ConstantsAssumption DEF IInv, Move, Forward, Await, End, Enter, Quiet, Write, wall,
     world, tables, venue, history, Signing, SignOwner, Pending, TypeOK, Id, Awaits, Over,
     Writes, Checks
<1>1. ASSUME NEW r \in Requests, Start(c, r) PROVE Signing'
  BY <1>1 DEF Start, InLease
<1>2. CASE Inspected(c)
  BY <1>2 DEF Inspected, Least
<1>3. CASE ReadEvidence(c)
  BY <1>3 DEF ReadEvidence
<1>4. CASE AuthorizedEntry(c)
  BY <1>4 DEF AuthorizedEntry
<1>5. CASE ClaimSigning(c)
  BY <1>5 DEF ClaimSigning
<1>6. CASE Sign(c)
  BY <1>6 DEF Sign
<1>7. CASE Signed(c)
  BY <1>7 DEF Signed
<1>8. CASE SignFailed(c)
  BY <1>8 DEF SignFailed
<1>9. CASE Dispatch(c)
  BY <1>9 DEF Dispatch, Least
<1>10. CASE Loaded(c)
  BY <1>10 DEF Loaded
<1>11. CASE Verified(c)
  BY <1>11 DEF Verified
<1>12. CASE ClaimWire(c)
  BY <1>12 DEF ClaimWire
<1>13. CASE WireClaimed(c)
  BY <1>13 DEF WireClaimed
<1>14. CASE Post(c)
  BY <1>14 DEF Post
<1>15. CASE Responded(c)
  BY <1>15 DEF Responded
<1>16. CASE FinishCompleted(c)
  BY <1>16 DEF FinishCompleted
<1>17. CASE Return(c)
  BY <1>17 DEF Return
<1>18. CASE Forget(c)
  BY <1>18 DEF Forget
<1>19. CASE Stop(c)
  BY <1>19 DEF Stop
<1>20. CASE Crash(c)
  BY <1>20 DEF Crash
<1> HIDE DEF IInv, Signing, SignOwner, Pending, TypeOK, Id, Awaits, Over, Writes, Checks
<1> QED
  BY <1>1, <1>2, <1>3, <1>4, <1>5, <1>6, <1>7, <1>8, <1>9, <1>10, <1>11, <1>12, <1>13, <1>14,
     <1>15, <1>16, <1>17, <1>18, <1>19, <1>20 DEF Proceed

LEMMA SigningBase == ASSUME IInv, NEW c \in Calls, Database(c) \/ BackendSigns(c) PROVE Signing'
<1> USE ConstantsAssumption DEF IInv, Settle, Answer, Insert, Mark, Verdict, Terminal,
     Terminated, world, tables, venue, history, Signing, SignOwner, Pending, TypeOK, Id, Awaits,
     Over, Writes, Checks
<1>1. CASE CommitReserve(c)
  BY <1>1 DEF CommitReserve
<1>2. CASE CommitSignClaim(c)
  BY <1>2 DEF CommitSignClaim
<1>3. CASE CommitWireClaim(c)
  BY <1>3 DEF CommitWireClaim
<1>4. CASE CommitSignTerminal(c, "sign_done", "COMPLETED")
  BY <1>4 DEF CommitSignTerminal
<1>5. CASE CommitSignTerminal(c, "sign_unres", "UNRESOLVED")
  BY <1>5 DEF CommitSignTerminal
<1>6. CASE CommitWireTerminal(c, "wire_done", "COMPLETED")
  BY <1>6 DEF CommitWireTerminal
<1>7. CASE CommitWireTerminal(c, "wire_unres", "UNRESOLVED")
  BY <1>7 DEF CommitWireTerminal
<1>8. ASSUME NEW k \in Writes, Drop(c, k) PROVE Signing'
  BY <1>8 DEF Drop
<1>9. CASE BackendSigns(c)
  <2>0. TypeOK /\ Signing
    BY DEF IInv
  <2>1. /\ Id(c) \in Ids /\ sigs[Id(c)] = 0 /\ signBy[Id(c)] = c /\ signClaim[Id(c)] # None
        /\ c \in threads /\ pc[c] # "idle" /\ pc[c] # "sign_claim"
        /\ (pc[c] # "signing" \/ reply[c] = "none") /\ <<"sign_done", c>> \notin tx
    BY <1>9, Threads, Grounded DEF BackendSigns
  <2>2. /\ threads' = threads \ {c}
        /\ UNCHANGED <<signClaim, signTerm, signBy, tx, pc, req>>
    BY <1>9 DEF BackendSigns
  <2>3. /\ sigs' = [sigs EXCEPT ![Id(c)] = 1] \/ sigs' = sigs
        /\ \A d \in Calls \ {c} : reply'[d] = reply[d]
        /\ pc[c] # "signing" => reply'[c] = reply[c]
        /\ reply'[c] = "ok" /\ pc[c] = "signing" => sigs' = [sigs EXCEPT ![Id(c)] = 1]
    BY <1>9, <2>1, <2>0 DEF BackendSigns
  <2>4. \A d \in Calls : pc[d] # "idle" => Id(d) \in Ids
    BY Grounded
  <2>5. \A i \in Ids : sigs'[i] = sigs[i] \/ (i = Id(c) /\ sigs'[i] = 1)
    BY <2>0, <2>1, <2>3
  <2>6. Signing!1'
    BY <2>0, <2>1, <2>2, <2>5
  <2>7. ASSUME NEW d \in Calls PROVE Signing!2!(d)'
    <3>1. Id(d)' = Id(d)
      BY <2>2
    <3>2. Signing!2!(d)
      BY <2>0
    <3>3. <<"sign_done", d>> \in tx => Id(d) \in Ids
      BY <2>4, Began DEF Writes
    <3> HIDE DEF IInv, Signing, SignOwner, Pending, TypeOK, Id, Awaits, Over, Writes, Checks
    <3>4. CASE d = c
      <4>1. sigs'[Id(c)] = 1 \/ sigs'[Id(c)] = 0
        BY <2>1, <2>5
      <4> QED
        BY <2>0, <2>1, <2>2, <2>3, <2>5, <3>1, <3>2, <3>4, <4>1 DEF TypeOK
    <3>5. CASE d # c
      <4>1. d \in threads => Id(d) # Id(c)
        BY <2>1, <3>2, <3>5
      <4>2. pc[d] = "sign_claim" /\ reply[d] = "ok" => Id(d) # Id(c)
        BY <2>1, <3>2, <3>5
      <4>3. (pc[d] = "signing" /\ reply[d] = "ok") \/ <<"sign_done", d>> \in tx => Id(d) # Id(c)
        BY <2>1, <3>2, <3>5
      <4>4. d \in threads => Id(d) \in Ids
        BY Threads, Grounded
      <4> QED
        BY <2>2, <2>3, <2>4, <2>5, <3>1, <3>2, <3>3, <3>5, <4>1, <4>2, <4>3, <4>4
    <3> QED
      BY <3>4, <3>5
  <2> QED
    BY <2>6, <2>7
<1> HIDE DEF IInv, Signing, SignOwner, Pending, TypeOK, Id, Awaits, Over, Writes, Checks
<1> QED
  BY <1>1, <1>2, <1>3, <1>4, <1>5, <1>6, <1>7, <1>8, <1>9 DEF Database

LEMMA SigningVenue == ASSUME IInv, NEW i \in Ids, VenueExecutes(i) PROVE Signing'
BY ConstantsAssumption DEF IInv, VenueExecutes, world, tables, local, history, Signing,
   SignOwner, Pending, TypeOK, Id, Awaits, Over, Writes, Checks

-----------------------------------------------------------------------------
(* Every step preserves SignOwner *)

LEMMA SignOwnerWorld == ASSUME IInv, World PROVE SignOwner'
<1> USE ConstantsAssumption DEF IInv, World, tables, venue, local, history, SignOwner, Signing,
     Pending, TypeOK, Id, Awaits, Over, Writes, Checks
<1>1. CASE Tick
  BY <1>1 DEF Tick
<1>2. CASE StepWall
  BY <1>2 DEF StepWall, Least
<1>3. CASE Disarm
  BY <1>3 DEF Disarm
<1>4. ASSUME NEW a \in Arms, Arm(a) PROVE SignOwner'
  BY <1>4 DEF Arm
<1>5. ASSUME NEW i \in Exits, Expose(i) PROVE SignOwner'
  BY <1>5 DEF Expose
<1> QED
  BY <1>1, <1>2, <1>3, <1>4, <1>5

LEMMA SignOwnerCall == ASSUME IInv, NEW c \in Calls, Proceed(c) \/ Stop(c) \/ Crash(c)
  PROVE SignOwner'
<1> USE ConstantsAssumption DEF IInv, Move, Forward, Await, End, Enter, Quiet, Write, wall,
     world, tables, venue, history, SignOwner, Signing, Pending, TypeOK, Id, Awaits, Over,
     Writes, Checks
<1>1. ASSUME NEW r \in Requests, Start(c, r) PROVE SignOwner'
  BY <1>1 DEF Start, InLease
<1>2. CASE Inspected(c)
  BY <1>2 DEF Inspected, Least
<1>3. CASE ReadEvidence(c)
  BY <1>3 DEF ReadEvidence
<1>4. CASE AuthorizedEntry(c)
  BY <1>4 DEF AuthorizedEntry
<1>5. CASE ClaimSigning(c)
  BY <1>5 DEF ClaimSigning
<1>6. CASE Sign(c)
  BY <1>6 DEF Sign
<1>7. CASE Signed(c)
  BY <1>7 DEF Signed
<1>8. CASE SignFailed(c)
  BY <1>8 DEF SignFailed
<1>9. CASE Dispatch(c)
  BY <1>9 DEF Dispatch, Least
<1>10. CASE Loaded(c)
  BY <1>10 DEF Loaded
<1>11. CASE Verified(c)
  BY <1>11 DEF Verified
<1>12. CASE ClaimWire(c)
  BY <1>12 DEF ClaimWire
<1>13. CASE WireClaimed(c)
  BY <1>13 DEF WireClaimed
<1>14. CASE Post(c)
  BY <1>14 DEF Post
<1>15. CASE Responded(c)
  BY <1>15 DEF Responded
<1>16. CASE FinishCompleted(c)
  BY <1>16 DEF FinishCompleted
<1>17. CASE Return(c)
  BY <1>17 DEF Return
<1>18. CASE Forget(c)
  BY <1>18 DEF Forget
<1>19. CASE Stop(c)
  BY <1>19 DEF Stop
<1>20. CASE Crash(c)
  BY <1>20 DEF Crash
<1> HIDE DEF IInv, SignOwner, Signing, Pending, TypeOK, Id, Awaits, Over, Writes, Checks
<1> QED
  BY <1>1, <1>2, <1>3, <1>4, <1>5, <1>6, <1>7, <1>8, <1>9, <1>10, <1>11, <1>12, <1>13, <1>14,
     <1>15, <1>16, <1>17, <1>18, <1>19, <1>20 DEF Proceed

LEMMA SignOwnerBase == ASSUME IInv, NEW c \in Calls, Database(c) \/ BackendSigns(c)
  PROVE SignOwner'
<1> USE ConstantsAssumption DEF IInv, Settle, Answer, Insert, Mark, Verdict, Terminal,
     Terminated, world, tables, venue, history, SignOwner, Signing, Pending, TypeOK, Id, Awaits,
     Over, Writes, Checks
<1>1. CASE CommitReserve(c)
  BY <1>1 DEF CommitReserve
<1>2. CASE CommitSignClaim(c)
  BY <1>2 DEF CommitSignClaim
<1>3. CASE CommitWireClaim(c)
  BY <1>3 DEF CommitWireClaim
<1>4. CASE CommitSignTerminal(c, "sign_done", "COMPLETED")
  BY <1>4 DEF CommitSignTerminal
<1>5. CASE CommitSignTerminal(c, "sign_unres", "UNRESOLVED")
  BY <1>5 DEF CommitSignTerminal
<1>6. CASE CommitWireTerminal(c, "wire_done", "COMPLETED")
  BY <1>6 DEF CommitWireTerminal
<1>7. CASE CommitWireTerminal(c, "wire_unres", "UNRESOLVED")
  BY <1>7 DEF CommitWireTerminal
<1>8. ASSUME NEW k \in Writes, Drop(c, k) PROVE SignOwner'
  BY <1>8 DEF Drop
<1>9. CASE BackendSigns(c)
  BY <1>9 DEF BackendSigns
<1> HIDE DEF IInv, SignOwner, Signing, Pending, TypeOK, Id, Awaits, Over, Writes, Checks
<1> QED
  BY <1>1, <1>2, <1>3, <1>4, <1>5, <1>6, <1>7, <1>8, <1>9 DEF Database

LEMMA SignOwnerVenue == ASSUME IInv, NEW i \in Ids, VenueExecutes(i) PROVE SignOwner'
BY ConstantsAssumption DEF IInv, VenueExecutes, world, tables, local, history, SignOwner,
   Signing, Pending, TypeOK, Id, Awaits, Over, Writes, Checks

-----------------------------------------------------------------------------
(* Every step preserves Chained *)

LEMMA ChainedWorld == ASSUME IInv, World PROVE Chained'
<1> USE ConstantsAssumption DEF IInv, World, tables, venue, local, history, Chained, Signing,
     Pending, TypeOK, Id, Awaits, Over, Writes, Checks, AfterLoad
<1>1. CASE Tick
  BY <1>1 DEF Tick
<1>2. CASE StepWall
  BY <1>2 DEF StepWall, Least
<1>3. CASE Disarm
  BY <1>3 DEF Disarm
<1>4. ASSUME NEW a \in Arms, Arm(a) PROVE Chained'
  BY <1>4 DEF Arm
<1>5. ASSUME NEW i \in Exits, Expose(i) PROVE Chained'
  BY <1>5 DEF Expose
<1> QED
  BY <1>1, <1>2, <1>3, <1>4, <1>5

LEMMA ChainedCall == ASSUME IInv, NEW c \in Calls, Proceed(c) \/ Stop(c) \/ Crash(c)
  PROVE Chained'
<1> USE ConstantsAssumption DEF IInv, Move, Forward, Await, End, Enter, Quiet, Write, wall,
     world, tables, venue, history, Chained, Signing, Pending, TypeOK, Id, Awaits, Over, Writes,
     Checks, AfterLoad
<1>1. ASSUME NEW r \in Requests, Start(c, r) PROVE Chained'
  BY <1>1 DEF Start, InLease
<1>2. CASE Inspected(c)
  BY <1>2 DEF Inspected, Least
<1>3. CASE ReadEvidence(c)
  BY <1>3 DEF ReadEvidence
<1>4. CASE AuthorizedEntry(c)
  BY <1>4 DEF AuthorizedEntry
<1>5. CASE ClaimSigning(c)
  BY <1>5 DEF ClaimSigning
<1>6. CASE Sign(c)
  BY <1>6 DEF Sign
<1>7. CASE Signed(c)
  BY <1>7 DEF Signed
<1>8. CASE SignFailed(c)
  BY <1>8 DEF SignFailed
<1>9. CASE Dispatch(c)
  BY <1>9 DEF Dispatch, Least
<1>10. CASE Loaded(c)
  BY <1>10 DEF Loaded, Completed
<1>11. CASE Verified(c)
  BY <1>11 DEF Verified
<1>12. CASE ClaimWire(c)
  BY <1>12 DEF ClaimWire
<1>13. CASE WireClaimed(c)
  BY <1>13 DEF WireClaimed
<1>14. CASE Post(c)
  BY <1>14 DEF Post
<1>15. CASE Responded(c)
  BY <1>15 DEF Responded
<1>16. CASE FinishCompleted(c)
  BY <1>16 DEF FinishCompleted
<1>17. CASE Return(c)
  BY <1>17 DEF Return
<1>18. CASE Forget(c)
  BY <1>18 DEF Forget
<1>19. CASE Stop(c)
  BY <1>19 DEF Stop
<1>20. CASE Crash(c)
  BY <1>20 DEF Crash
<1> HIDE DEF IInv, Chained, Signing, Pending, TypeOK, Id, Awaits, Over, Writes, Checks, AfterLoad
<1> QED
  BY <1>1, <1>2, <1>3, <1>4, <1>5, <1>6, <1>7, <1>8, <1>9, <1>10, <1>11, <1>12, <1>13, <1>14,
     <1>15, <1>16, <1>17, <1>18, <1>19, <1>20 DEF Proceed

LEMMA ChainedBase == ASSUME IInv, NEW c \in Calls, Database(c) \/ BackendSigns(c) PROVE Chained'
<1> USE ConstantsAssumption DEF IInv, Settle, Answer, Insert, Mark, Verdict, Terminal,
     Terminated, world, tables, venue, history, Chained, Signing, Pending, TypeOK, Id, Awaits,
     Over, Writes, Checks, AfterLoad
<1>1. CASE CommitReserve(c)
  BY <1>1 DEF CommitReserve
<1>2. CASE CommitSignClaim(c)
  <2>0. TypeOK /\ Chained
    BY DEF IInv
  <2>1. /\ Id(c) \in Ids /\ req[c] \in Requests
        /\ <<"sign_claim", c>> \in tx /\ (Id(c) \notin Exits => reserved[Id(c)] = req[c])
    BY <1>2, <2>0, Began, Grounded DEF CommitSignClaim
  <2>2. /\ signClaim' = [signClaim EXCEPT ![Id(c)] = req[c]] /\ signClaim[Id(c)] = None
        \/ signClaim' = signClaim
    BY <1>2, <2>0, <2>1 DEF CommitSignClaim
  <2>3. /\ UNCHANGED <<reserved, signTerm, wireClaim, pc, req>> /\ tx' \subseteq tx
        /\ \A d \in Calls : reply'[d] = reply[d] \/ (d = c /\ pc[c] = "sign_claim")
    BY <1>2, <2>0 DEF CommitSignClaim
  <2>4. \A d \in Calls : Id(d)' = Id(d)
    BY <2>3
  <2>5. \A d \in Calls : pc[d] # "idle" => Id(d) \in Ids /\ req[d] # None
    BY Grounded
  <2>6. \A d \in Calls : <<"wire_claim", d>> \in tx => pc[d] # "idle"
    BY Began DEF Writes
  <2>7. \A i \in Ids : signClaim[i] # None => signClaim'[i] = signClaim[i]
    BY <2>0, <2>1, <2>2
  <2> HIDE DEF IInv, Signing, Pending, TypeOK, Id, Awaits, Over, Writes, Checks
  <2>8. ASSUME NEW d \in Calls, pc[d] \in AfterLoad \/ <<"wire_claim",
       d>> \in tx PROVE signClaim'[Id(d)] = req[d]
    <3>1. pc[d] # "idle"
      BY <2>6, <2>8
    <3>2. signClaim[Id(d)] = req[d]
      BY <2>0, <2>8
    <3> QED
      BY <2>5, <2>7, <3>1, <3>2
  <2>9. \A i \in Ids \ Exits : signClaim'[i] # None => reserved[i] = signClaim'[i]
    BY <2>0, <2>1, <2>2 DEF TypeOK
  <2> QED
    BY <2>0, <2>3, <2>4, <2>7, <2>8, <2>9
<1>3. CASE CommitWireClaim(c)
  <2>0. TypeOK /\ Chained
    BY DEF IInv
  <2>1. /\ Id(c) \in Ids /\ req[c] \in Requests
        /\ signClaim[Id(c)] = req[c] /\ signTerm[Id(c)] = "COMPLETED"
    BY <1>3, <2>0, Began, Grounded DEF CommitWireClaim
  <2>2. wireClaim' = [wireClaim EXCEPT ![Id(c)] = req[c]] \/ wireClaim' = wireClaim
    BY <1>3, <2>0, <2>1 DEF CommitWireClaim
  <2>3. /\ UNCHANGED <<reserved, signClaim, signTerm, pc, req>> /\ tx' \subseteq tx
        /\ \A d \in Calls : reply'[d] = reply[d] \/ (d = c /\ pc[c] = "wire_claim")
    BY <1>3, <2>0 DEF CommitWireClaim
  <2>4. \A d \in Calls : Id(d)' = Id(d)
    BY <2>3
  <2> HIDE DEF IInv, Signing, Pending, TypeOK, Id, Awaits, Over, Writes, Checks
  <2>5. \A i \in Ids : wireClaim'[i] # None => wireClaim'[i] = signClaim[i] /\ signTerm[i] = "COMPLETED"
    BY <2>0, <2>1, <2>2 DEF TypeOK
  <2> QED
    BY <2>0, <2>3, <2>4, <2>5
<1>4. CASE CommitSignTerminal(c, "sign_done", "COMPLETED")
  BY <1>4 DEF CommitSignTerminal
<1>5. CASE CommitSignTerminal(c, "sign_unres", "UNRESOLVED")
  BY <1>5 DEF CommitSignTerminal
<1>6. CASE CommitWireTerminal(c, "wire_done", "COMPLETED")
  BY <1>6 DEF CommitWireTerminal
<1>7. CASE CommitWireTerminal(c, "wire_unres", "UNRESOLVED")
  BY <1>7 DEF CommitWireTerminal
<1>8. ASSUME NEW k \in Writes, Drop(c, k) PROVE Chained'
  BY <1>8 DEF Drop
<1>9. CASE BackendSigns(c)
  BY <1>9 DEF BackendSigns
<1> HIDE DEF IInv, Chained, Signing, Pending, TypeOK, Id, Awaits, Over, Writes, Checks, AfterLoad
<1> QED
  BY <1>1, <1>2, <1>3, <1>4, <1>5, <1>6, <1>7, <1>8, <1>9 DEF Database

LEMMA ChainedVenue == ASSUME IInv, NEW i \in Ids, VenueExecutes(i) PROVE Chained'
BY ConstantsAssumption DEF IInv, VenueExecutes, world, tables, local, history, Chained, Signing,
   Pending, TypeOK, Id, Awaits, Over, Writes, Checks, AfterLoad

-----------------------------------------------------------------------------
(* Every step preserves Wiring *)

LEMMA WiringWorld == ASSUME IInv, World PROVE Wiring'
<1> USE ConstantsAssumption DEF IInv, World, tables, venue, local, history, Wiring, WireOwner,
     Pending, TypeOK, Id, Awaits, Over, Writes, Checks
<1>1. CASE Tick
  BY <1>1 DEF Tick
<1>2. CASE StepWall
  BY <1>2 DEF StepWall, Least
<1>3. CASE Disarm
  BY <1>3 DEF Disarm
<1>4. ASSUME NEW a \in Arms, Arm(a) PROVE Wiring'
  BY <1>4 DEF Arm
<1>5. ASSUME NEW i \in Exits, Expose(i) PROVE Wiring'
  BY <1>5 DEF Expose
<1> QED
  BY <1>1, <1>2, <1>3, <1>4, <1>5

LEMMA WiringCall == ASSUME IInv, NEW c \in Calls, Proceed(c) \/ Stop(c) \/ Crash(c) PROVE Wiring'
<1> USE ConstantsAssumption DEF IInv, Move, Forward, Await, End, Enter, Quiet, Write, wall,
     world, tables, venue, history, Wiring, WireOwner, Pending, TypeOK, Id, Awaits, Over,
     Writes, Checks
<1>1. ASSUME NEW r \in Requests, Start(c, r) PROVE Wiring'
  BY <1>1 DEF Start, InLease
<1>2. CASE Inspected(c)
  BY <1>2 DEF Inspected, Least
<1>3. CASE ReadEvidence(c)
  BY <1>3 DEF ReadEvidence
<1>4. CASE AuthorizedEntry(c)
  BY <1>4 DEF AuthorizedEntry
<1>5. CASE ClaimSigning(c)
  BY <1>5 DEF ClaimSigning
<1>6. CASE Sign(c)
  BY <1>6 DEF Sign
<1>7. CASE Signed(c)
  BY <1>7 DEF Signed
<1>8. CASE SignFailed(c)
  BY <1>8 DEF SignFailed
<1>9. CASE Dispatch(c)
  BY <1>9 DEF Dispatch, Least
<1>10. CASE Loaded(c)
  BY <1>10 DEF Loaded
<1>11. CASE Verified(c)
  BY <1>11 DEF Verified
<1>12. CASE ClaimWire(c)
  BY <1>12 DEF ClaimWire
<1>13. CASE WireClaimed(c)
  BY <1>13 DEF WireClaimed
<1>14. CASE Post(c)
  <2>0. TypeOK /\ Wiring /\ WireOwner
    BY DEF IInv
  <2>1. /\ Id(c) \in Ids /\ pc[c] = "recheck" /\ req[c] # None
        /\ wireBy[Id(c)] = c /\ wireClaim[Id(c)] = req[c]
        /\ posts[Id(c)] = 0 /\ wireTerm[Id(c)] = "none"
    <3>1. Id(c) \in Ids /\ pc[c] = "recheck" /\ req[c] # None
      BY <1>14, Grounded DEF Post
    <3>2. wireBy[Id(c)] = c
      BY <2>0, <3>1
    <3>3. WireOwner!(Id(c), c)!2
      BY <2>0, <3>1, <3>2
    <3> QED
      BY <3>1, <3>2, <3>3
  <2>2. /\ posts' = [posts EXCEPT ![Id(c)] = 1] /\ pc' = [pc EXCEPT ![c] = "sending"]
        /\ reply' = [reply EXCEPT ![c] = "none"]
        /\ UNCHANGED <<wireClaim, wireTerm, wireBy, executed, tx, req>>
    BY <1>14, <2>1 DEF Post
  <2>3. \A d \in Calls : Id(d)' = Id(d)
    BY <2>2
  <2> HIDE DEF IInv, WireOwner, Pending, Id, Writes, Checks
  <2>4. Wiring!1'
    BY <2>0, <2>1, <2>2
  <2>5. Wiring!2'
    BY <2>0, <2>1, <2>2, <2>3
  <2> QED
    BY <2>4, <2>5
<1>15. CASE Responded(c)
  <2>0. TypeOK /\ Wiring
    BY DEF IInv
  <2>1. Id(c) \in Ids /\ pc[c] = "sending" /\ executed[Id(c)] = 1 /\ wireBy[Id(c)] = c
    <3>1. Id(c) \in Ids /\ pc[c] = "sending" /\ executed[Id(c)] > 0
      BY <1>15, Grounded DEF Responded
    <3>2. executed[Id(c)] \in Nat /\ posts[Id(c)] \in Nat
      BY <2>0, <3>1
    <3>3. Wiring!1!(Id(c))!1
      BY <2>0, <3>1
    <3>4. Wiring!2!(c)!1
      BY <2>0
    <3> HIDE DEF IInv, Wiring, WireOwner, Pending, TypeOK, Id, Writes, Checks
    <3> QED
      BY <3>1, <3>2, <3>3, <3>4
  <2>2. /\ pc' = [pc EXCEPT ![c] = "responded"] /\ reply' = [reply EXCEPT ![c] = "none"]
        /\ UNCHANGED <<wireClaim, wireTerm, wireBy, posts, executed, tx, req>>
    BY <1>15 DEF Responded
  <2>3. \A d \in Calls : Id(d)' = Id(d)
    BY <2>2
  <2> HIDE DEF IInv, WireOwner, Pending, Id, Writes, Checks
  <2> QED
    BY <2>0, <2>1, <2>2, <2>3
<1>16. CASE FinishCompleted(c)
  BY <1>16 DEF FinishCompleted
<1>17. CASE Return(c)
  BY <1>17 DEF Return
<1>18. CASE Forget(c)
  BY <1>18 DEF Forget
<1>19. CASE Stop(c)
  BY <1>19 DEF Stop
<1>20. CASE Crash(c)
  BY <1>20 DEF Crash
<1> HIDE DEF IInv, Wiring, WireOwner, Pending, TypeOK, Id, Awaits, Over, Writes, Checks
<1> QED
  BY <1>1, <1>2, <1>3, <1>4, <1>5, <1>6, <1>7, <1>8, <1>9, <1>10, <1>11, <1>12, <1>13, <1>14,
     <1>15, <1>16, <1>17, <1>18, <1>19, <1>20 DEF Proceed

LEMMA WiringBase == ASSUME IInv, NEW c \in Calls, Database(c) \/ BackendSigns(c) PROVE Wiring'
<1> USE ConstantsAssumption DEF IInv, Settle, Answer, Insert, Mark, Verdict, Terminal,
     Terminated, world, tables, venue, history, Wiring, WireOwner, Pending, TypeOK, Id, Awaits,
     Over, Writes, Checks
<1>1. CASE CommitReserve(c)
  BY <1>1 DEF CommitReserve
<1>2. CASE CommitSignClaim(c)
  BY <1>2 DEF CommitSignClaim
<1>3. CASE CommitWireClaim(c)
  BY <1>3 DEF CommitWireClaim
<1>4. CASE CommitSignTerminal(c, "sign_done", "COMPLETED")
  BY <1>4 DEF CommitSignTerminal
<1>5. CASE CommitSignTerminal(c, "sign_unres", "UNRESOLVED")
  BY <1>5 DEF CommitSignTerminal
<1>6. CASE CommitWireTerminal(c, "wire_done", "COMPLETED")
  <2>0. TypeOK /\ Wiring /\ WireOwner
    BY DEF IInv
  <2>1. /\ Id(c) \in Ids /\ wireBy[Id(c)] = c /\ wireClaim[Id(c)] = req[c] /\ req[c] # None
        /\ pc[c] \in {"wire_done"} \cup Over /\ <<"wire_done", c>> \in tx /\ executed[Id(c)] = 1
    BY <1>6, <2>0, Began, Grounded DEF CommitWireTerminal
  <2>2. /\ wireTerm' = IF wireTerm[Id(c)] = "none" THEN [wireTerm EXCEPT ![Id(c)] = "COMPLETED"] ELSE wireTerm
        /\ UNCHANGED <<wireClaim, wireBy, posts, executed, pc, req>> /\ tx' \subseteq tx
    BY <1>6, <2>1 DEF CommitWireTerminal
  <2>3. \A d \in Calls : reply'[d] = reply[d] \/ (d = c /\ pc[c] = "wire_done")
    BY <1>6, <2>0 DEF CommitWireTerminal
  <2>4. \A d \in Calls : Id(d)' = Id(d)
    BY <2>2
  <2>5. pc[c] = "wire_done" /\ reply'[c] = "ok" => wireTerm[Id(c)] \in {"none", "COMPLETED"}
    BY <1>6, <2>0, <2>1 DEF CommitWireTerminal
  <2>6. \A i \in Ids : wireTerm'[i] = wireTerm[i] \/ (i = Id(c) /\ wireTerm[i] = "none" /\ wireTerm'[i] = "COMPLETED")
    BY <2>0, <2>1, <2>2
  <2>7. \A d \in Calls : pc[d] # "idle" => Id(d) \in Ids
    BY Grounded
  <2> HIDE DEF IInv, WireOwner, Pending, Id, Writes, Checks
  <2>8. Wiring!1'
    BY <2>0, <2>1, <2>2, <2>6
  <2>9. ASSUME NEW d \in Calls PROVE Wiring!2!(d)'
    <3>1. Wiring!2!(d)!1'
      BY <2>0, <2>1, <2>2, <2>3, <2>4
    <3>2. Wiring!2!(d)!2'
      BY <2>0, <2>1, <2>2, <2>3, <2>4
    <3>3. ASSUME (pc[d] = "wire_done" /\ reply'[d] = "ok") \/ pc[d] = "returned" PROVE wireTerm'[Id(d)] = "COMPLETED"
      <4>1. Id(d) \in Ids
        BY <2>7, <3>3
      <4>2. CASE (pc[d] = "wire_done" /\ reply[d] = "ok") \/ pc[d] = "returned"
        <5>1. wireTerm[Id(d)] = "COMPLETED"
          BY <2>0, <4>2
        <5> QED
          BY <2>6, <4>1, <5>1
      <4>3. CASE d = c /\ pc[c] = "wire_done" /\ pc[d] = "wire_done" /\ reply'[d] = "ok"
        <5> HIDE DEF Wiring
        <5> QED
          BY <2>0, <2>1, <2>2, <2>5, <4>1, <4>3 DEF TypeOK
      <4> QED
        BY <2>3, <3>3, <4>2, <4>3
    <3> QED
      BY <2>2, <2>4, <3>1, <3>2, <3>3
  <2> QED
    BY <2>8, <2>9
<1>7. CASE CommitWireTerminal(c, "wire_unres", "UNRESOLVED")
  <2>0. TypeOK /\ Wiring /\ WireOwner
    BY DEF IInv
  <2>1. /\ Id(c) \in Ids /\ wireBy[Id(c)] = c /\ wireClaim[Id(c)] = req[c] /\ req[c] # None
        /\ pc[c] \in {"wire_unres"} \cup Over /\ <<"wire_unres", c>> \in tx /\ TRUE
    BY <1>7, <2>0, Began, Grounded DEF CommitWireTerminal
  <2>2. /\ wireTerm' = IF wireTerm[Id(c)] = "none" THEN [wireTerm EXCEPT ![Id(c)] = "UNRESOLVED"] ELSE wireTerm
        /\ UNCHANGED <<wireClaim, wireBy, posts, executed, pc, req>> /\ tx' \subseteq tx
    BY <1>7, <2>1 DEF CommitWireTerminal
  <2>3. \A d \in Calls : reply'[d] = reply[d] \/ (d = c /\ pc[c] = "wire_unres")
    BY <1>7, <2>0 DEF CommitWireTerminal
  <2>4. \A d \in Calls : Id(d)' = Id(d)
    BY <2>2
  <2>5. pc[c] = "wire_unres" /\ reply'[c] = "ok" => wireTerm[Id(c)] \in {"none", "UNRESOLVED"}
    BY <1>7, <2>0, <2>1 DEF CommitWireTerminal
  <2>6. \A i \in Ids : wireTerm'[i] = wireTerm[i] \/ (i = Id(c) /\ wireTerm[i] = "none" /\ wireTerm'[i] = "UNRESOLVED")
    BY <2>0, <2>1, <2>2
  <2>7. \A d \in Calls : pc[d] # "idle" => Id(d) \in Ids
    BY Grounded
  <2> HIDE DEF IInv, WireOwner, Pending, Id, Writes, Checks
  <2>8. Wiring!1'
    BY <2>0, <2>1, <2>2, <2>6
  <2>9. ASSUME NEW d \in Calls PROVE Wiring!2!(d)'
    <3>1. Wiring!2!(d)!1'
      BY <2>0, <2>1, <2>2, <2>3, <2>4
    <3>2. Wiring!2!(d)!2'
      BY <2>0, <2>1, <2>2, <2>3, <2>4
    <3>3. ASSUME (pc[d] = "wire_done" /\ reply'[d] = "ok") \/ pc[d] = "returned" PROVE wireTerm'[Id(d)] = "COMPLETED"
      <4>1. Id(d) \in Ids
        BY <2>7, <3>3
      <4>2. CASE (pc[d] = "wire_done" /\ reply[d] = "ok") \/ pc[d] = "returned"
        <5>1. wireTerm[Id(d)] = "COMPLETED"
          BY <2>0, <4>2
        <5> QED
          BY <2>6, <4>1, <5>1
      <4>3. CASE d = c /\ pc[c] = "wire_unres" /\ pc[d] = "wire_done" /\ reply'[d] = "ok"
        <5> HIDE DEF Wiring
        <5> QED
          BY <2>0, <2>1, <2>2, <2>5, <4>1, <4>3 DEF TypeOK
      <4> QED
        BY <2>3, <3>3, <4>2, <4>3
    <3> QED
      BY <2>2, <2>4, <3>1, <3>2, <3>3
  <2> QED
    BY <2>8, <2>9
<1>8. ASSUME NEW k \in Writes, Drop(c, k) PROVE Wiring'
  BY <1>8 DEF Drop
<1>9. CASE BackendSigns(c)
  BY <1>9 DEF BackendSigns
<1> HIDE DEF IInv, Wiring, WireOwner, Pending, TypeOK, Id, Awaits, Over, Writes, Checks
<1> QED
  BY <1>1, <1>2, <1>3, <1>4, <1>5, <1>6, <1>7, <1>8, <1>9 DEF Database

LEMMA WiringVenue == ASSUME IInv, NEW i \in Ids, VenueExecutes(i) PROVE Wiring'
BY ConstantsAssumption DEF IInv, VenueExecutes, world, tables, local, history, Wiring,
   WireOwner, Pending, TypeOK, Id, Awaits, Over, Writes, Checks

-----------------------------------------------------------------------------
(* Every step preserves WireOwner *)

LEMMA WireOwnerWorld == ASSUME IInv, World PROVE WireOwner'
<1> USE ConstantsAssumption DEF IInv, World, tables, venue, local, history, WireOwner, Wiring,
     Pending, TypeOK, Id, Awaits, Over, AfterPost, Writes, Checks
<1>1. CASE Tick
  BY <1>1 DEF Tick
<1>2. CASE StepWall
  BY <1>2 DEF StepWall, Least
<1>3. CASE Disarm
  BY <1>3 DEF Disarm
<1>4. ASSUME NEW a \in Arms, Arm(a) PROVE WireOwner'
  BY <1>4 DEF Arm
<1>5. ASSUME NEW i \in Exits, Expose(i) PROVE WireOwner'
  BY <1>5 DEF Expose
<1> QED
  BY <1>1, <1>2, <1>3, <1>4, <1>5

LEMMA WireOwnerCall == ASSUME IInv, NEW c \in Calls, Proceed(c) \/ Stop(c) \/ Crash(c)
  PROVE WireOwner'
<1> USE ConstantsAssumption DEF IInv, Move, Forward, Await, End, Enter, Quiet, Write, wall,
     world, tables, venue, history, WireOwner, Wiring, Pending, TypeOK, Id, Awaits, Over,
     AfterPost, Writes, Checks
<1>1. ASSUME NEW r \in Requests, Start(c, r) PROVE WireOwner'
  BY <1>1 DEF Start, InLease
<1>2. CASE Inspected(c)
  BY <1>2 DEF Inspected, Least
<1>3. CASE ReadEvidence(c)
  BY <1>3 DEF ReadEvidence
<1>4. CASE AuthorizedEntry(c)
  BY <1>4 DEF AuthorizedEntry
<1>5. CASE ClaimSigning(c)
  BY <1>5 DEF ClaimSigning
<1>6. CASE Sign(c)
  BY <1>6 DEF Sign
<1>7. CASE Signed(c)
  BY <1>7 DEF Signed
<1>8. CASE SignFailed(c)
  BY <1>8 DEF SignFailed
<1>9. CASE Dispatch(c)
  BY <1>9 DEF Dispatch, Least
<1>10. CASE Loaded(c)
  BY <1>10 DEF Loaded
<1>11. CASE Verified(c)
  BY <1>11 DEF Verified
<1>12. CASE ClaimWire(c)
  BY <1>12 DEF ClaimWire
<1>13. CASE WireClaimed(c)
  BY <1>13 DEF WireClaimed
<1>14. CASE Post(c)
  <2>0. TypeOK /\ Wiring /\ WireOwner
    BY DEF IInv
  <2>1. /\ Id(c) \in Ids /\ pc[c] = "recheck" /\ req[c] # None
        /\ wireBy[Id(c)] = c /\ wireClaim[Id(c)] = req[c]
        /\ posts[Id(c)] = 0 /\ wireTerm[Id(c)] = "none"
    BY <1>14, <2>0, Grounded DEF Post
  <2>2. /\ posts' = [posts EXCEPT ![Id(c)] = 1] /\ pc' = [pc EXCEPT ![c] = "sending"]
        /\ reply' = [reply EXCEPT ![c] = "none"]
        /\ UNCHANGED <<wireClaim, wireTerm, wireBy, executed, tx, req>>
    BY <1>14, <2>1 DEF Post
  <2>3. \A d \in Calls : Id(d)' = Id(d)
    BY <2>2
  <2>4. ASSUME NEW i \in Ids, NEW d \in Calls, wireBy[i] = d PROVE WireOwner!(i, d)!2'
    <3>1. WireOwner!(i, d)!2
      BY <2>0, <2>4
    <3>2. d # c => i # Id(c)
      BY <2>1, <2>4
    <3> HIDE DEF IInv, Wiring, WireOwner, Pending, Id, Writes, Checks
    <3> QED
      BY <2>0, <2>1, <2>2, <2>3, <2>4, <3>1, <3>2
  <2> QED
    BY <2>2, <2>4
<1>15. CASE Responded(c)
  BY <1>15 DEF Responded
<1>16. CASE FinishCompleted(c)
  BY <1>16 DEF FinishCompleted
<1>17. CASE Return(c)
  BY <1>17 DEF Return
<1>18. CASE Forget(c)
  BY <1>18 DEF Forget
<1>19. CASE Stop(c)
  BY <1>19 DEF Stop
<1>20. CASE Crash(c)
  BY <1>20 DEF Crash
<1> HIDE DEF IInv, WireOwner, Wiring, Pending, TypeOK, Id, Awaits, Over, AfterPost, Writes, Checks
<1> QED
  BY <1>1, <1>2, <1>3, <1>4, <1>5, <1>6, <1>7, <1>8, <1>9, <1>10, <1>11, <1>12, <1>13, <1>14,
     <1>15, <1>16, <1>17, <1>18, <1>19, <1>20 DEF Proceed

LEMMA WireOwnerBase == ASSUME IInv, NEW c \in Calls, Database(c) \/ BackendSigns(c)
  PROVE WireOwner'
<1> USE ConstantsAssumption DEF IInv, Settle, Answer, Insert, Mark, Verdict, Terminal,
     Terminated, world, tables, venue, history, WireOwner, Wiring, Pending, TypeOK, Id, Awaits,
     Over, AfterPost, Writes, Checks
<1>1. CASE CommitReserve(c)
  BY <1>1 DEF CommitReserve
<1>2. CASE CommitSignClaim(c)
  BY <1>2 DEF CommitSignClaim
<1>3. CASE CommitWireClaim(c)
  BY <1>3 DEF CommitWireClaim
<1>4. CASE CommitSignTerminal(c, "sign_done", "COMPLETED")
  BY <1>4 DEF CommitSignTerminal
<1>5. CASE CommitSignTerminal(c, "sign_unres", "UNRESOLVED")
  BY <1>5 DEF CommitSignTerminal
<1>6. CASE CommitWireTerminal(c, "wire_done", "COMPLETED")
  <2>0. TypeOK /\ Wiring /\ WireOwner
    BY DEF IInv
  <2>1. /\ Id(c) \in Ids /\ wireBy[Id(c)] = c /\ wireClaim[Id(c)] = req[c] /\ req[c] # None
        /\ pc[c] \in {"wire_done"} \cup Over /\ <<"wire_done", c>> \in tx /\ executed[Id(c)] = 1
    BY <1>6, <2>0, Began, Grounded DEF CommitWireTerminal
  <2>2. /\ wireTerm' = IF wireTerm[Id(c)] = "none" THEN [wireTerm EXCEPT ![Id(c)] = "COMPLETED"] ELSE wireTerm
        /\ UNCHANGED <<wireClaim, wireBy, posts, executed, pc, req>> /\ tx' \subseteq tx
    BY <1>6, <2>1 DEF CommitWireTerminal
  <2>3. \A d \in Calls : reply'[d] = reply[d] \/ (d = c /\ pc[c] = "wire_done")
    BY <1>6, <2>0 DEF CommitWireTerminal
  <2>4. \A d \in Calls : Id(d)' = Id(d)
    BY <2>2
  <2>5. pc[c] = "wire_done" /\ reply'[c] = "ok" => wireTerm[Id(c)] \in {"none", "COMPLETED"}
    BY <1>6, <2>0, <2>1 DEF CommitWireTerminal
  <2>6. ASSUME NEW i \in Ids, NEW d \in Calls, wireBy[i] = d PROVE WireOwner!(i, d)!2'
    <3>1. WireOwner!(i, d)!2
      BY <2>0, <2>6
    <3>2. wireTerm'[i] = wireTerm[i] \/ d = c
      BY <2>0, <2>1, <2>2, <2>6
    <3> HIDE DEF IInv, Wiring, WireOwner, Pending, TypeOK, Id, Writes, Checks
    <3> QED
      BY <2>1, <2>2, <2>3, <2>4, <2>6, <3>1, <3>2
  <2> QED
    BY <2>2, <2>6
<1>7. CASE CommitWireTerminal(c, "wire_unres", "UNRESOLVED")
  <2>0. TypeOK /\ Wiring /\ WireOwner
    BY DEF IInv
  <2>1. /\ Id(c) \in Ids /\ wireBy[Id(c)] = c /\ wireClaim[Id(c)] = req[c] /\ req[c] # None
        /\ pc[c] \in {"wire_unres"} \cup Over /\ <<"wire_unres", c>> \in tx /\ TRUE
    BY <1>7, <2>0, Began, Grounded DEF CommitWireTerminal
  <2>2. /\ wireTerm' = IF wireTerm[Id(c)] = "none" THEN [wireTerm EXCEPT ![Id(c)] = "UNRESOLVED"] ELSE wireTerm
        /\ UNCHANGED <<wireClaim, wireBy, posts, executed, pc, req>> /\ tx' \subseteq tx
    BY <1>7, <2>1 DEF CommitWireTerminal
  <2>3. \A d \in Calls : reply'[d] = reply[d] \/ (d = c /\ pc[c] = "wire_unres")
    BY <1>7, <2>0 DEF CommitWireTerminal
  <2>4. \A d \in Calls : Id(d)' = Id(d)
    BY <2>2
  <2>5. pc[c] = "wire_unres" /\ reply'[c] = "ok" => wireTerm[Id(c)] \in {"none", "UNRESOLVED"}
    BY <1>7, <2>0, <2>1 DEF CommitWireTerminal
  <2>6. ASSUME NEW i \in Ids, NEW d \in Calls, wireBy[i] = d PROVE WireOwner!(i, d)!2'
    <3>1. WireOwner!(i, d)!2
      BY <2>0, <2>6
    <3>2. wireTerm'[i] = wireTerm[i] \/ d = c
      BY <2>0, <2>1, <2>2, <2>6
    <3> HIDE DEF IInv, Wiring, WireOwner, Pending, TypeOK, Id, Writes, Checks
    <3> QED
      BY <2>1, <2>2, <2>3, <2>4, <2>6, <3>1, <3>2
  <2> QED
    BY <2>2, <2>6
<1>8. ASSUME NEW k \in Writes, Drop(c, k) PROVE WireOwner'
  BY <1>8 DEF Drop
<1>9. CASE BackendSigns(c)
  BY <1>9 DEF BackendSigns
<1> HIDE DEF IInv, WireOwner, Wiring, Pending, TypeOK, Id, Awaits, Over, AfterPost, Writes, Checks
<1> QED
  BY <1>1, <1>2, <1>3, <1>4, <1>5, <1>6, <1>7, <1>8, <1>9 DEF Database

LEMMA WireOwnerVenue == ASSUME IInv, NEW i \in Ids, VenueExecutes(i) PROVE WireOwner'
BY ConstantsAssumption DEF IInv, VenueExecutes, world, tables, local, history, WireOwner,
   Wiring, Pending, TypeOK, Id, Awaits, Over, AfterPost, Writes, Checks

-----------------------------------------------------------------------------
(* Every step preserves Armed *)

LEMMA ArmedWorld == ASSUME IInv, World PROVE Armed'
<1> USE ConstantsAssumption DEF IInv, World, tables, venue, local, history, Armed, Chained,
     Pending, TypeOK, Id, Awaits, Over, Writes, Checks, AfterLoad
<1>1. CASE Tick
  BY <1>1 DEF Tick
<1>2. CASE StepWall
  BY <1>2 DEF StepWall, Least
<1>3. CASE Disarm
  BY <1>3 DEF Disarm
<1>4. ASSUME NEW a \in Arms, Arm(a) PROVE Armed'
  BY <1>4 DEF Arm
<1>5. ASSUME NEW i \in Exits, Expose(i) PROVE Armed'
  BY <1>5 DEF Expose
<1> QED
  BY <1>1, <1>2, <1>3, <1>4, <1>5

LEMMA ArmedCall == ASSUME IInv, NEW c \in Calls, Proceed(c) \/ Stop(c) \/ Crash(c) PROVE Armed'
<1> USE ConstantsAssumption DEF IInv, Move, Forward, Await, End, Enter, Quiet, Write, wall,
     world, tables, venue, history, Armed, Chained, Pending, TypeOK, Id, Awaits, Over, Writes,
     Checks, AfterLoad
<1>1. ASSUME NEW r \in Requests, Start(c, r) PROVE Armed'
  BY <1>1 DEF Start, InLease
<1>2. CASE Inspected(c)
  BY <1>2 DEF Inspected, Least
<1>3. CASE ReadEvidence(c)
  <2>0. TypeOK /\ Armed
    BY DEF IInv
  <2>1. /\ pc[c] \in Checks /\ pc[c] # "idle" /\ Id(c) \in Ids /\ req[c] \in Requests /\ req[c] # None
        /\ seen' = [seen EXCEPT ![c] = IF Authorized(req[c]) THEN "good" ELSE "bad"]
        /\ UNCHANGED <<operator, usedArms, wireClaim, wireArm, posts, tx, pc, req>>
    BY <1>3, Grounded DEF ReadEvidence, Snapshot
  <2>2. ASSUME Id(c) \notin Exits,
       Authorized(req[c]) PROVE operator = ArmOf[req[c]] /\ operator \in usedArms
    BY <2>0, <2>1, <2>2 DEF Authorized, EntryAuthorized
  <2>3. pc[c] = "recheck" => wireBy[Id(c)] = c /\ wireClaim[Id(c)] = req[c]
    BY <2>1, Rechecks
  <2>4. \A d \in Calls : Id(d)' = Id(d)
    BY <2>1
  <2> HIDE DEF IInv, Chained, Pending, Id, AfterLoad
  <2>5. ASSUME NEW d \in Calls, pc[d] # "idle", Id(d) \notin Exits PROVE Armed!2!(d)!2'
    <3>1. Armed!2!(d)!2
      BY <2>0, <2>5
    <3>2. CASE d # c
      BY <2>1, <2>4, <3>1, <3>2, <2>0
    <3>3. CASE d = c
      <4>1. seen'[c] = "good" => operator = ArmOf[req[c]] /\ operator \in usedArms
        BY <2>0, <2>1, <2>2, <2>5, <3>3
      <4>2. pc[c] = "recheck" /\ seen'[c] = "good" => wireArm[Id(c)] = ArmOf[req[c]]
        BY <2>0, <2>1, <2>3, <2>5, <3>3, <4>1
      <4> QED
        BY <2>1, <2>4, <3>1, <3>3, <4>1, <4>2
    <3> QED
      BY <3>2, <3>3
  <2> QED
    BY <2>0, <2>1, <2>4, <2>5
<1>4. CASE AuthorizedEntry(c)
  BY <1>4 DEF AuthorizedEntry
<1>5. CASE ClaimSigning(c)
  BY <1>5 DEF ClaimSigning
<1>6. CASE Sign(c)
  BY <1>6 DEF Sign
<1>7. CASE Signed(c)
  BY <1>7 DEF Signed
<1>8. CASE SignFailed(c)
  BY <1>8 DEF SignFailed
<1>9. CASE Dispatch(c)
  BY <1>9 DEF Dispatch, Least
<1>10. CASE Loaded(c)
  BY <1>10 DEF Loaded
<1>11. CASE Verified(c)
  BY <1>11 DEF Verified
<1>12. CASE ClaimWire(c)
  <2>0. TypeOK /\ Armed
    BY DEF IInv
  <2>1. /\ pc[c] = "precheck" /\ seen[c] = "good"
        /\ seen' = [seen EXCEPT ![c] = "none"] /\ pc' = [pc EXCEPT ![c] = "wire_claim"]
        /\ tx' = tx \cup {<<"wire_claim", c>>}
        /\ UNCHANGED <<operator, usedArms, wireClaim, wireArm, posts, req>>
    BY <1>12 DEF ClaimWire, Judged
  <2>2. \A d \in Calls : Id(d)' = Id(d)
    BY <2>1
  <2> HIDE DEF IInv, Chained, Pending, Id, AfterLoad
  <2> QED
    BY <2>0, <2>1, <2>2
<1>13. CASE WireClaimed(c)
  BY <1>13 DEF WireClaimed
<1>14. CASE Post(c)
  <2>0. TypeOK /\ Armed
    BY DEF IInv
  <2>1. /\ pc[c] = "recheck" /\ Id(c) \in Ids /\ seen[c] = "good"
        /\ seen' = [seen EXCEPT ![c] = "none"] /\ pc' = [pc EXCEPT ![c] = "sending"]
        /\ posts' = [posts EXCEPT ![Id(c)] = @ + 1]
        /\ UNCHANGED <<operator, usedArms, wireClaim, wireArm, req, tx>>
    BY <1>14, Grounded DEF Post, Judged
  <2>2. \A d \in Calls : Id(d)' = Id(d)
    BY <2>1
  <2>3. wireClaim[Id(c)] = req[c]
    BY <2>1, Rechecks
  <2> HIDE DEF IInv, Chained, Pending, Id, AfterLoad
  <2>4. Id(c) \notin Exits => wireArm[Id(c)] = ArmOf[wireClaim[Id(c)]]
    BY <2>0, <2>1, <2>3
  <2>5. \A i \in Ids \ Exits : posts'[i] > 0 => wireArm[i] = ArmOf[wireClaim[i]]
    BY <2>0, <2>1, <2>4
  <2>6. Armed!2'
    BY <2>0, <2>1, <2>2
  <2> QED
    BY <2>0, <2>1, <2>5, <2>6
<1>15. CASE Responded(c)
  BY <1>15 DEF Responded
<1>16. CASE FinishCompleted(c)
  BY <1>16 DEF FinishCompleted
<1>17. CASE Return(c)
  BY <1>17 DEF Return
<1>18. CASE Forget(c)
  BY <1>18 DEF Forget
<1>19. CASE Stop(c)
  BY <1>19 DEF Stop
<1>20. CASE Crash(c)
  BY <1>20 DEF Crash
<1> HIDE DEF IInv, Armed, Chained, Pending, TypeOK, Id, Awaits, Over, Writes, Checks, AfterLoad
<1> QED
  BY <1>1, <1>2, <1>3, <1>4, <1>5, <1>6, <1>7, <1>8, <1>9, <1>10, <1>11, <1>12, <1>13, <1>14,
     <1>15, <1>16, <1>17, <1>18, <1>19, <1>20 DEF Proceed

LEMMA ArmedBase == ASSUME IInv, NEW c \in Calls, Database(c) \/ BackendSigns(c) PROVE Armed'
<1> USE ConstantsAssumption DEF IInv, Settle, Answer, Insert, Mark, Verdict, Terminal,
     Terminated, world, tables, venue, history, Armed, Chained, Pending, TypeOK, Id, Awaits,
     Over, Writes, Checks, AfterLoad
<1>1. CASE CommitReserve(c)
  BY <1>1 DEF CommitReserve
<1>2. CASE CommitSignClaim(c)
  BY <1>2 DEF CommitSignClaim
<1>3. CASE CommitWireClaim(c)
  <2>0. TypeOK /\ Armed
    BY DEF IInv
  <2>1. /\ <<"wire_claim", c>> \in tx /\ pc[c] # "idle" /\ Id(c) \in Ids
        /\ req[c] \in Requests /\ req[c] # None
        /\ Id(c) \notin Exits => ArmOf[req[c]] \in usedArms
    BY <1>3, <2>0, Began, Grounded DEF CommitWireClaim
  <2>2. \/ /\ wireClaim[Id(c)] = None
           /\ wireClaim' = [wireClaim EXCEPT ![Id(c)] = req[c]]
           /\ wireArm' = [wireArm EXCEPT ![Id(c)] = operator]
        \/ UNCHANGED <<wireClaim, wireArm>>
    BY <1>3, <2>0, <2>1 DEF CommitWireClaim
  <2>3. UNCHANGED <<operator, usedArms, posts, pc, req, seen>> /\ tx' \subseteq tx
    BY <1>3 DEF CommitWireClaim
  <2>4. \A d \in Calls : Id(d)' = Id(d)
    BY <2>3
  <2>5. \A d \in Calls : pc[d] # "idle" => Id(d) \in Ids
    BY Grounded
  <2>6. /\ \A d \in Calls : pc[d] = "recheck" => wireClaim[Id(d)] # None
        /\ \A i \in Ids : posts[i] > 0 => wireClaim[i] # None
    <3>1. \A i \in Ids : posts[i] \in Nat /\ (wireClaim[i] = None => posts[i] = 0)
      BY <2>0 DEF IInv, Wiring
    <3> HIDE DEF IInv, Armed, Chained, Pending, TypeOK, AfterLoad
    <3> QED
      BY <3>1, Rechecks
  <2> HIDE DEF IInv, Chained, Pending, Id, AfterLoad
  <2>7. ASSUME NEW d \in Calls, pc[d] # "idle", Id(d) \notin Exits PROVE Armed!2!(d)!2'
    <3>1. Armed!2!(d)!2
      BY <2>0, <2>7
    <3>2. pc[d] = "recheck" => wireArm'[Id(d)] = wireArm[Id(d)]
      BY <2>0, <2>1, <2>2, <2>5, <2>6
    <3> QED
      BY <2>3, <2>4, <3>1, <3>2
  <2>8. ASSUME NEW i \in Ids \ Exits PROVE Armed!3!(i)'
    <3>1. Armed!3!(i)
      BY <2>0
    <3>2. CASE i # Id(c)
      <4>1. wireClaim'[i] = wireClaim[i] /\ wireArm'[i] = wireArm[i]
        BY <2>0, <2>2, <3>2
      <4> HIDE DEF TypeOK, Armed
      <4> QED
        BY <2>3, <3>1, <4>1
    <3>3. CASE i = Id(c)
      BY <2>0, <2>1, <2>2, <2>3, <2>6, <3>1, <3>3
    <3> QED
      BY <3>2, <3>3
  <2> QED
    BY <2>0, <2>3, <2>4, <2>7, <2>8
<1>4. CASE CommitSignTerminal(c, "sign_done", "COMPLETED")
  BY <1>4 DEF CommitSignTerminal
<1>5. CASE CommitSignTerminal(c, "sign_unres", "UNRESOLVED")
  BY <1>5 DEF CommitSignTerminal
<1>6. CASE CommitWireTerminal(c, "wire_done", "COMPLETED")
  BY <1>6 DEF CommitWireTerminal
<1>7. CASE CommitWireTerminal(c, "wire_unres", "UNRESOLVED")
  BY <1>7 DEF CommitWireTerminal
<1>8. ASSUME NEW k \in Writes, Drop(c, k) PROVE Armed'
  BY <1>8 DEF Drop
<1>9. CASE BackendSigns(c)
  BY <1>9 DEF BackendSigns
<1> HIDE DEF IInv, Armed, Chained, Pending, TypeOK, Id, Awaits, Over, Writes, Checks, AfterLoad
<1> QED
  BY <1>1, <1>2, <1>3, <1>4, <1>5, <1>6, <1>7, <1>8, <1>9 DEF Database

LEMMA ArmedVenue == ASSUME IInv, NEW i \in Ids, VenueExecutes(i) PROVE Armed'
BY ConstantsAssumption DEF IInv, VenueExecutes, world, tables, local, history, Armed, Chained,
   Pending, TypeOK, Id, Awaits, Over, Writes, Checks, AfterLoad

-----------------------------------------------------------------------------
(* The inductive invariant holds *)

LEMMA IInvInit == ASSUME Init PROVE IInv
<1> USE ConstantsAssumption DEF Init
<1>1. TypeOK
  BY DEF TypeOK, Outcomes, Replies
<1>2. Pending /\ SignOwner /\ WireOwner
  BY DEF Pending, SignOwner, WireOwner
<1>3. Signing
  BY DEF Signing
<1>4. Chained
  BY DEF Chained, AfterLoad
<1>5. Wiring
  BY DEF Wiring
<1>6. Armed
  BY DEF Armed
<1> QED
  BY <1>1, <1>2, <1>3, <1>4, <1>5, <1>6 DEF IInv

LEMMA IInvNext == ASSUME IInv, [Next]_vars PROVE IInv'
<1>1. CASE World
  BY <1>1, TypeOKWorld, PendingWorld, SigningWorld, SignOwnerWorld, ChainedWorld,
     WiringWorld, WireOwnerWorld, ArmedWorld DEF IInv
<1>2. ASSUME NEW c \in Calls, Proceed(c) \/ Stop(c) \/ Crash(c) PROVE IInv'
  BY <1>2, TypeOKCall, PendingCall, SigningCall, SignOwnerCall, ChainedCall,
     WiringCall, WireOwnerCall, ArmedCall DEF IInv
<1>3. ASSUME NEW c \in Calls, Database(c) \/ BackendSigns(c) PROVE IInv'
  BY <1>3, TypeOKBase, PendingBase, SigningBase, SignOwnerBase, ChainedBase,
     WiringBase, WireOwnerBase, ArmedBase DEF IInv
<1>4. ASSUME NEW i \in Ids, VenueExecutes(i) PROVE IInv'
  BY <1>4, TypeOKVenue, PendingVenue, SigningVenue, SignOwnerVenue, ChainedVenue,
     WiringVenue, WireOwnerVenue, ArmedVenue DEF IInv
<1>5. CASE UNCHANGED vars
  BY <1>5 DEF vars, world, tables, venue, local, history, IInv, TypeOK, Pending, Signing,
     SignOwner, Chained, Wiring, WireOwner, Armed, Id
<1> QED
  BY <1>1, <1>2, <1>3, <1>4, <1>5 DEF Next

LEMMA Inductive == Spec => []IInv
BY IInvInit, IInvNext, PTL DEF Spec

-----------------------------------------------------------------------------
(* The theorems *)

\* Every variable keeps its type in every reachable state.
THEOREM DispatchTypeOK == Spec => []TypeOK
<1>1. IInv => TypeOK
  BY DEF IInv
<1> QED
  BY <1>1, Inductive, PTL

\* However calls, retries, cancellations, lost acknowledgements and crashes
\* interleave, an effect is posted at most once and becomes at most one order
\* (claim_wire_once_async).
THEOREM DispatchAtMostOnePost == Spec => []AtMostOnePost
<1>1. IInv => AtMostOnePost
  BY DEF IInv, Wiring, AtMostOnePost
<1> QED
  BY <1>1, Inductive, PTL

\* Custody signs an identity at most once, whoever tries and whichever signing
\* threads outlive their calls (sign_async).
THEOREM DispatchOneSignature == Spec => []OneSignature
<1>1. IInv => OneSignature
  BY DEF IInv, Signing, OneSignature
<1> QED
  BY <1>1, Inductive, PTL

\* A signature rests on its claim and reservation, a POST on the completed
\* signing and the wire claim of the very same request (load_claim,
\* reserve_entry_async).
THEOREM DispatchChainOfAuthority == Spec => []ChainOfAuthority
<1>1. ASSUME IInv, NEW i \in Ids PROVE ChainOfAuthority!(i)
  <2>1. Wiring!1!(i) /\ Signing!1!(i) /\ sigs[i] \in Nat /\ posts[i] \in Nat
    BY <1>1 DEF IInv, TypeOK, Wiring, Signing
  <2>2. i \notin Exits /\ signClaim[i] # None => reserved[i] = signClaim[i]
    BY <1>1 DEF IInv, Chained
  <2>3. wireClaim[i] # None => wireClaim[i] = signClaim[i] /\ signTerm[i] = "COMPLETED"
    BY <1>1 DEF IInv, Chained
  <2> QED
    BY <2>1, <2>2, <2>3
<1>2. IInv => ChainOfAuthority
  BY <1>1 DEF ChainOfAuthority
<1> QED
  BY <1>2, Inductive, PTL

\* No entry is sent whose arm was revoked before its wire claim committed
\* (the second verify_effect_async, and enforce_operator_append).
THEOREM DispatchDisarmStopsPost == Spec => []DisarmStopsPost
<1>1. IInv => DisarmStopsPost
  BY DEF IInv, Armed, DisarmStopsPost
<1> QED
  BY <1>1, Inductive, PTL

\* A recorded COMPLETED and a returned response both mean that the venue made
\* the order (finish_wire_async, _finish_shielded).
THEOREM DispatchHonestOutcome == Spec => []HonestOutcome
<1>1. IInv => HonestOutcome
  BY DEF IInv, Wiring, HonestOutcome
<1> QED
  BY <1>1, Inductive, PTL

-----------------------------------------------------------------------------
(* The dispatcher implements the one-shot effect *)

LEMMA OneShotInit == ASSUME Init PROVE OneShot!Init
BY DEF Init, OneShot!Init

LEMMA OneShotStutter == ASSUME UNCHANGED <<wireClaim, posts, executed, wireTerm>>
  PROVE UNCHANGED OneShot!vars
BY DEF OneShot!vars

LEMMA OneShotNext == ASSUME IInv, [Next]_vars PROVE [OneShot!Next]_OneShot!vars
<1>1. ASSUME NEW c \in Calls, CommitWireClaim(c) PROVE [OneShot!Next]_OneShot!vars
  <2>1. Id(c) \in Ids /\ req[c] # None /\ wireClaim \in [Ids -> Requests \cup {None}]
    BY <1>1, Began, Grounded DEF CommitWireClaim, Settle, Writes, IInv, TypeOK
  <2>2. UNCHANGED <<posts, executed, wireTerm>>
    BY <1>1 DEF CommitWireClaim, Settle, venue
  <2>3. CASE wireClaim[Id(c)] = None
    <3>1. wireClaim' = [wireClaim EXCEPT ![Id(c)] = req[c]]
      BY <1>1, <2>3 DEF CommitWireClaim, Insert
    <3>2. PICK i \in Ids : i = Id(c)
      BY <2>1
    <3>3. OneShot!Claim(i)
      BY <2>1, <2>2, <2>3, <3>1, <3>2 DEF OneShot!Claim
    <3> QED
      BY <3>3 DEF OneShot!Next
  <2>4. CASE wireClaim[Id(c)] # None
    <3>1. UNCHANGED wireClaim
      BY <1>1, <2>4 DEF CommitWireClaim, Insert
    <3> QED
      BY <2>2, <3>1, OneShotStutter
  <2> QED
    BY <2>3, <2>4
<1>2. ASSUME NEW c \in Calls, Post(c) PROVE [OneShot!Next]_OneShot!vars
  <2>1. pc[c] = "recheck" /\ pc[c] # "idle"
    BY <1>2 DEF Post
  <2>2. Id(c) \in Ids /\ wireBy[Id(c)] = c /\ wireClaim[Id(c)] # None
    BY <2>1, Grounded, Rechecks
  <2>3. posts[Id(c)] = 0 /\ wireTerm[Id(c)] = "none" /\ posts \in [Ids -> Nat]
    BY <2>1, <2>2 DEF IInv, TypeOK, WireOwner
  <2>4. posts' = [posts EXCEPT ![Id(c)] = 1] /\ UNCHANGED <<wireClaim, executed, wireTerm>>
    BY <1>2, <2>3 DEF Post, Forward, Move, tables
  <2>5. PICK i \in Ids : i = Id(c)
    BY <2>2
  <2>6. OneShot!Send(i)
    BY <2>2, <2>3, <2>4, <2>5 DEF OneShot!Send
  <2> QED
    BY <2>6 DEF OneShot!Next
<1>3. ASSUME NEW i \in Ids, VenueExecutes(i) PROVE [OneShot!Next]_OneShot!vars
  <2>1. executed \in [Ids -> Nat] /\ posts[i] \in Nat /\ posts[i] <= 1
    BY DEF IInv, TypeOK, Wiring
  <2>2. executed[i] = 0 /\ posts[i] > 0 /\ executed' = [executed EXCEPT ![i] = 1]
    <3>1. executed[i] \in Nat /\ executed[i] < posts[i]
      BY <1>3, <2>1 DEF VenueExecutes
    <3>2. executed[i] = 0 /\ posts[i] > 0
      BY <2>1, <3>1
    <3> QED
      BY <1>3, <3>2 DEF VenueExecutes
  <2>3. UNCHANGED <<wireClaim, posts, wireTerm>>
    BY <1>3 DEF VenueExecutes, tables
  <2>4. OneShot!Execute(i)
    BY <2>1, <2>2, <2>3 DEF OneShot!Execute
  <2> QED
    BY <2>4 DEF OneShot!Next
<1>4. ASSUME NEW c \in Calls, NEW k \in Writes, NEW o \in {"COMPLETED", "UNRESOLVED"},
             CommitWireTerminal(c, k, o), o = "COMPLETED" => k = "wire_done"
      PROVE [OneShot!Next]_OneShot!vars
  <2>1. <<k, c>> \in tx /\ Id(c) \in Ids /\ req[c] # None
    BY <1>4, Began, Grounded DEF CommitWireTerminal, Settle
  <2>2. UNCHANGED <<wireClaim, posts, executed>>
    BY <1>4 DEF CommitWireTerminal, Settle, venue
  <2>3. \/ wireTerm' = wireTerm
        \/ /\ wireTerm' = [wireTerm EXCEPT ![Id(c)] = o]
           /\ wireTerm[Id(c)] = "none" /\ wireClaim[Id(c)] # None
    <3>1. wireTerm' = Terminal(wireClaim, wireTerm, c, o)
      BY <1>4 DEF CommitWireTerminal
    <3> QED
      BY <2>1, <3>1 DEF Terminal
  <2>4. o = "COMPLETED" => executed[Id(c)] = 1
    BY <1>4, <2>1 DEF IInv, Wiring
  <2>5. CASE wireTerm' = wireTerm
    BY <2>2, <2>5, OneShotStutter
  <2>6. CASE /\ wireTerm' = [wireTerm EXCEPT ![Id(c)] = o]
             /\ wireTerm[Id(c)] = "none" /\ wireClaim[Id(c)] # None
    <3>1. PICK i \in Ids : i = Id(c)
      BY <2>1
    <3>2. OneShot!Resolve(i, o)
      BY <2>1, <2>2, <2>4, <2>6, <3>1 DEF OneShot!Resolve
    <3> QED
      BY <3>2 DEF OneShot!Next
  <2> QED
    BY <2>3, <2>5, <2>6
<1>5. ASSUME UNCHANGED <<wireClaim, posts, executed, wireTerm>> PROVE [OneShot!Next]_OneShot!vars
  BY <1>5, OneShotStutter
<1>6. ASSUME NEW c \in Calls, Database(c) \/ BackendSigns(c) PROVE [OneShot!Next]_OneShot!vars
  <2>1. CASE CommitReserve(c) \/ CommitSignClaim(c)
             \/ CommitSignTerminal(c, "sign_done", "COMPLETED")
             \/ CommitSignTerminal(c, "sign_unres", "UNRESOLVED")
    BY <1>5, <2>1 DEF CommitReserve, CommitSignClaim, CommitSignTerminal, Settle, venue
  <2>2. CASE \E k \in Writes : Drop(c, k)
    BY <1>5, <2>2 DEF Drop, Settle, venue, tables
  <2>3. CASE BackendSigns(c)
    BY <1>5, <2>3 DEF BackendSigns, venue, tables
  <2>4. CASE CommitWireTerminal(c, "wire_done", "COMPLETED")
    BY <1>4, <2>4 DEF Writes
  <2>5. CASE CommitWireTerminal(c, "wire_unres", "UNRESOLVED")
    BY <1>4, <2>5 DEF Writes
  <2> QED
    BY <1>1, <1>6, <2>1, <2>2, <2>3, <2>4, <2>5 DEF Database
<1>7. ASSUME NEW c \in Calls, Proceed(c) \/ Stop(c) \/ Crash(c) PROVE [OneShot!Next]_OneShot!vars
  <2>1. ASSUME NEW p, Move(c, p), UNCHANGED venue PROVE [OneShot!Next]_OneShot!vars
    BY <1>5, <2>1 DEF Move, venue, tables
  <2>2. ASSUME NEW p, End(c, p) PROVE [OneShot!Next]_OneShot!vars
    BY <1>5, <2>2 DEF End, venue, tables
  <2>3. CASE ReadEvidence(c)
    BY <1>5, <2>3 DEF ReadEvidence, venue, tables
  <2>4. CASE Stop(c) \/ Return(c) \/ Forget(c) \/ Crash(c)
    BY <2>1, <2>2, <2>4 DEF Stop, Return, Forget, Crash, Await, Forward
  <2>5. CASE (\E r \in Requests : Start(c, r)) \/ Inspected(c) \/ AuthorizedEntry(c)
             \/ Dispatch(c) \/ ClaimSigning(c) \/ Sign(c) \/ Signed(c) \/ SignFailed(c)
    BY <2>1, <2>5 DEF Start, Inspected, AuthorizedEntry, Dispatch, ClaimSigning, Sign, Signed,
       SignFailed, Enter, Await, Forward
  <2>6. CASE Loaded(c) \/ Verified(c) \/ ClaimWire(c) \/ WireClaimed(c) \/ Responded(c)
             \/ FinishCompleted(c)
    BY <2>1, <2>6 DEF Loaded, Verified, ClaimWire, WireClaimed, Responded, FinishCompleted,
       Await, Forward
  <2> QED
    BY <1>2, <1>7, <2>3, <2>4, <2>5, <2>6 DEF Proceed
<1>8. CASE World \/ UNCHANGED vars
  BY <1>5, <1>8 DEF World, vars, venue, tables
<1> QED
  BY <1>3, <1>6, <1>7, <1>8 DEF Next

\* The whole dispatcher, with its races, timeouts and crashes, is a one-shot
\* effect: claimed once and for ever, sent at most once and never after its
\* outcome, COMPLETED only when executed, the outcome final (dispatch_one).
THEOREM DispatchImplementsOneShot == Spec => ImplementsOneShot
<1>1. Init => OneShot!Init
  BY OneShotInit
<1>2. IInv /\ [Next]_vars => [OneShot!Next]_OneShot!vars
  BY OneShotNext
<1> QED
  BY <1>1, <1>2, Inductive, PTL DEF Spec, ImplementsOneShot, OneShot!Spec
=============================================================================
