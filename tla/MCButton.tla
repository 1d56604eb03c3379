------------------------------- MODULE MCButton -------------------------------
(* A small instance of Button for TLC: 500 ms is 5 polls instead of 25,    *)
(* 5 s is 9; the order of the thresholds, and a click that fits twice into *)
(* the first, are kept.                                                    *)
EXTENDS Button
=============================================================================
