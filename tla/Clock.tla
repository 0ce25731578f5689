------------------------------- MODULE Clock -------------------------------
(***************************************************************************)
(* The block number of frame_system, for the pallets that read it.         *)
(***************************************************************************)
EXTENDS Naturals

CONSTANT MaxBlock   \* bound on the block number

ASSUME ClockAssumption == MaxBlock \in Nat

VARIABLE block

NextBlock ==
    /\ block < MaxBlock
    /\ block' = block + 1
=============================================================================
