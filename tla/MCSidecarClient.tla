--------------------------- MODULE MCSidecarClient ---------------------------
(* Two preflights, a mutation and a read share one client and its children. *)
EXTENDS SidecarClient

CONSTANTS login, again, order, query

MCCalls == {login, again, order, query}
MCKindOf == [c \in MCCalls |->
    CASE c \in {login, again} -> "preflight" [] c = query -> "read" [] OTHER -> "mutation"]
=============================================================================
