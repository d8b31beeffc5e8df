---------------------------- MODULE TrainerCells ----------------------------
(***************************************************************************)
(* What the specifications of the trainer cells share: which cells there   *)
(* are, and how many faults their environment injects.                     *)
(***************************************************************************)
EXTENDS Naturals, FiniteSets

CONSTANTS
    Cells,      \* cell indices, numbers
    MaxFaults   \* bound: faults

ASSUME CellsAssumption == Cells \subseteq Nat /\ Cells # {} /\ IsFiniteSet(Cells)

VARIABLE faults

Fault == faults < MaxFaults /\ faults' = faults + 1
=============================================================================
