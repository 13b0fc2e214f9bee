------------------------------- MODULE Clock -------------------------------
(***************************************************************************)
(* block.timestamp, shared by the contracts that are modelled together.    *)
(***************************************************************************)
EXTENDS Naturals

CONSTANT MaxTime     \* bound: the last timestamp of a behaviour

ASSUME MaxTimeAssumption == MaxTime \in Nat

VARIABLE timestamp

ClockTypeOK == timestamp \in Nat \ {0}

ClockInit == timestamp = 1

\* A new block.  Any number of transactions share a timestamp.
NextBlock == timestamp < MaxTime /\ timestamp' = timestamp + 1
=============================================================================
