---------------------------- MODULE MCAirControl ----------------------------
(* A small instance of AirControl for TLC: two gases with thresholds from  *)
(* 1 to 3, and readings in every band.  A command writes values that are   *)
(* taken, that the other threshold refuses, and that are out of range.     *)
EXTENDS AirControl, TLC

MCLowest == [g \in Gas |-> 1]
MCHighest == [g \in Gas |-> 3]
MCValue == {2, 3, 4}
MCReading == {0, 2, 3}
Symmetry == Permutations(Gas)
=============================================================================
