---------------------------- MODULE WriteLedger -----------------------------
(***************************************************************************)
(* What a mutation run promises about its writes: a request leaves the     *)
(* process only while every earlier write that landed, or may have, has a  *)
(* journal record, and a record once made is never lost.                   *)
(***************************************************************************)
CONSTANT Ops

VARIABLES
    owed,       \* the operations whose writes reached the library, or may have
    recorded    \* the operations an undo finds in the journal

Init ==
    /\ owed = {}
    /\ recorded = {}

Dispatch ==
    /\ owed \subseteq recorded
    /\ \E S \in SUBSET (Ops \ owed) : owed' = owed \cup S
    /\ UNCHANGED recorded

Record ==
    /\ \E S \in SUBSET owed : recorded' = recorded \cup S
    /\ UNCHANGED owed

Next == Dispatch \/ Record

Spec == Init /\ [][Next]_<<owed, recorded>>
=============================================================================
