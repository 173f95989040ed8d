----------------------------- MODULE FaultBudget -----------------------------
(***************************************************************************)
(* A budget of faults.  Every step in which something goes wrong (a crash, *)
(* a failed write, a timeout, a stall) spends one unit, so that a          *)
(* behaviour holds finitely many faults.  MaxFaults is a modelling bound,  *)
(* not a constant of the code; the proofs hold for every value of it.      *)
(***************************************************************************)
EXTENDS Naturals

CONSTANT MaxFaults

ASSUME MaxFaultsAssumption == MaxFaults \in Nat

VARIABLE faults

\* A step that goes wrong.
Fault ==
    /\ faults < MaxFaults
    /\ faults' = faults + 1

\* A step that goes well.
NoFault == UNCHANGED faults
=============================================================================
