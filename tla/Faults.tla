------------------------------- MODULE Faults -------------------------------
(***************************************************************************)
(* The failures of one behaviour, bounded.  Modules that compose count     *)
(* theirs together.                                                        *)
(***************************************************************************)
EXTENDS Naturals

CONSTANT MaxFaults      \* bound: failures, kills and lost answers

ASSUME FaultsAssumption == MaxFaults \in Nat

VARIABLE faults

NoFault == UNCHANGED faults

Fault ==
    /\ faults < MaxFaults
    /\ faults' = faults + 1
=============================================================================
