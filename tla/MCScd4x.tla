------------------------------ MODULE MCScd4x ------------------------------
(* A small instance of Scd4x for TLC: two pressures, one result of a       *)
(* calibration, and one value an uninitialised variable may hold.          *)
EXTENDS Scd4x

MCCorrection == {0, 5}
MCGarbage == {77}
=============================================================================
