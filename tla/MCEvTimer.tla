----------------------------- MODULE MCEvTimer -----------------------------
(* A small instance of EvTimer for TLC. *)
EXTENDS EvTimer

CONSTANTS led, outdoor, button, page

MCSlot == 1..3
MCRestarted == {led, outdoor}
MCForgetful == {outdoor}
MCPeriodic == {button}
MCOneShot == {page}
\* the LED has two lengths
MCPeriods == [c \in Client |-> IF c = led THEN {1, 2} ELSE {2}]
=============================================================================
