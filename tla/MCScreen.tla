------------------------------ MODULE MCScreen ------------------------------
(* A small instance of Screen for TLC: the clock has a minute before and   *)
(* two in the time of the cleaning, a sensor two readings.                 *)
EXTENDS Screen

MCReadings ==
    [minutes |-> {0, 1, 2}, temp_in |-> {20, 32768}, lux |-> {0, 7}, level |-> {0, 3}]
MCClearTime == {1, 2}
=============================================================================
