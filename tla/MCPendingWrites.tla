--------------------------- MODULE MCPendingWrites ---------------------------
(***************************************************************************)
(* An item and its attachment.                                             *)
(***************************************************************************)
EXTENDS PendingWrites, TLC

CONSTANTS item, note

Parents == [k \in Keys |-> IF k = note THEN item ELSE None]

Symmetric == Permutations(Values \ {Initial})
=============================================================================
