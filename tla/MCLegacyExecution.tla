-------------------------- MODULE MCLegacyExecution --------------------------
(* One OPEN and one CLOSE of one symbol, and a cache that holds one of them. *)
EXTENDS LegacyExecution

CONSTANTS open1, close1

MCOpens == {open1}
MCCloses == {close1}
MCMaxFaults == [q \in SUBSET {open1, close1} |-> IF q = {open1, close1} THEN 1 ELSE 3]
=============================================================================
