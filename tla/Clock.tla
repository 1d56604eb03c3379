------------------------------- MODULE Clock -------------------------------
(***************************************************************************)
(* The local time (app_time.c, app_zclReadRspCmd).  The monitor asks the   *)
(* coordinator for it, every ten seconds until it has been told once and   *)
(* every quarter of an hour then, and counts seconds in between.           *)
(*                                                                         *)
(* The clock is modelled by its difference to the true time.  A timer is   *)
(* rescheduled when it has run, so a second that passes while app_clockCb  *)
(* is due is lost to the clock.  The DS3231, which shows the time where it *)
(* is fitted, is not modelled.                                             *)
(***************************************************************************)
EXTENDS Integers

CONSTANTS
    Fast, Slow,    \* TIMEOUT_10SEC and TIMEOUT_15MIN, in ticks
    MaxTransit,    \* bound on the ticks an answer travels, below Fast
    MaxMissed      \* bound on the ticks lost between two answers

VARIABLES
    joined,        \* zb_isDeviceJoinedNwk
    local,         \* the attribute: "set", "unknown" (0xFFFFFFFF), or "garbage",
                   \* an uninitialized value that has been stored
    offset,        \* its difference to the true time, when it is set
    time_sent,
    clocks,        \* the number of timers of app_clockCb
    due,           \* how many of them are to be called
    ask_in,        \* when app_time_cmdCb is called
    period,        \* of its timer
    answers,       \* the answer under way, if any: its age, and what it says
    missed,        \* observer: seconds lost since the clock was set
    transit,       \* observer: the age of the answer that set it
    steady         \* the hub is there and knows the time, nothing is held up

clockVars == <<joined, local, offset, time_sent, clocks, due, ask_in, period, answers,
          missed, transit, steady>>

ClockInit ==
    /\ joined \in BOOLEAN /\ steady = FALSE
    /\ local = "unknown" /\ offset = 0 /\ time_sent = FALSE /\ clocks = 0 /\ due = 0
    /\ ask_in = Fast /\ period = Fast /\ answers = {}
    /\ missed = 0 /\ transit = 0

-----------------------------------------------------------------------------

(* app_clockCb.  get_time leaves local_time as it was, uninitialized, when *)
(* the attribute is unknown: what is stored then is anything.              *)
app_clockCb ==
    /\ due > 0 /\ due' = due - 1
    /\ local' \in IF local = "unknown" THEN {"unknown", "garbage"} ELSE {local}
    /\ offset' = IF local = "set" THEN offset + 1 ELSE 0
    /\ UNCHANGED <<joined, time_sent, clocks, ask_in, period, answers,
                   missed, transit, steady>>

\* out of the network the timer ends
FaultyNext == IF joined THEN (IF time_sent THEN Slow ELSE period) ELSE -1

(* What app_time_cmdCb returns; 0 leaves the timer its period.             *)
NextPeriod == IF joined /\ time_sent THEN Slow ELSE period

app_time_cmdCb ==
    /\ ask_in = 0
    /\ period' = NextPeriod /\ ask_in' = NextPeriod
    /\ IF joined
       THEN \E knows \in BOOLEAN : /\ steady => knows
                                   /\ answers' = {[age |-> 0, knows |-> knows]}
       ELSE UNCHANGED answers
    /\ UNCHANGED <<joined, local, offset, time_sent, clocks, due, missed, transit, steady>>

\* every answer schedules a timer
Faulty_set_time_sent == time_sent' = TRUE /\ clocks' = IF clocks < 2 THEN clocks + 1 ELSE 2

set_time_sent ==
    /\ time_sent' = TRUE
    /\ clocks' = IF time_sent THEN clocks ELSE clocks + 1

(* A hub that does not know its own time says 0xFFFFFFFF.                  *)
app_zclReadRspCmd ==
    /\ \E a \in answers :
         /\ local' = IF a.knows THEN "set" ELSE "unknown"
         /\ offset' = (IF a.knows THEN -a.age ELSE 0) /\ transit' = a.age /\ missed' = 0
    /\ answers' = {}
    /\ set_time_sent
    /\ UNCHANGED <<joined, due, ask_in, period, steady>>

-----------------------------------------------------------------------------

(* A second passes.  While the main loop is held up a clock that is due is *)
(* not called, and stays due once.                                         *)
Second ==
    /\ due > 0 => ~steady /\ missed < MaxMissed
    /\ ask_in = 0 => ~steady
    /\ \A a \in answers : a.age < MaxTransit
    /\ offset' = IF local = "set" THEN offset - 1 ELSE 0
    /\ missed' = IF due > 0 THEN missed + 1 ELSE missed
    /\ due' = clocks
    /\ ask_in' = IF ask_in > 0 THEN ask_in - 1 ELSE ask_in
    /\ answers' = {[a EXCEPT !.age = @ + 1] : a \in answers}
    /\ UNCHANGED <<joined, local, time_sent, clocks, period, transit, steady>>

(* The answer is lost, is an error, or the attribute has no value.         *)
LoseAnswer ==
    /\ ~steady /\ answers # {} /\ answers' = {}
    /\ UNCHANGED <<joined, local, offset, time_sent, clocks, due, ask_in, period,
                   missed, transit, steady>>

JoinOrLeave ==
    /\ ~steady /\ joined' = ~joined
    /\ UNCHANGED <<local, offset, time_sent, clocks, due, ask_in, period, answers,
                   missed, transit, steady>>

Restart ==
    /\ ~steady
    /\ local' = "unknown" /\ offset' = 0 /\ time_sent' = FALSE /\ clocks' = 0 /\ due' = 0
    /\ ask_in' = Fast /\ period' = Fast /\ answers' = {}
    /\ missed' = 0 /\ transit' = 0
    /\ UNCHANGED <<joined, steady>>

(* From now on the hub answers, and knows the time.                        *)
Steady ==
    /\ ~steady /\ joined /\ answers = {} /\ steady' = TRUE
    /\ UNCHANGED <<joined, local, offset, time_sent, clocks, due, ask_in, period,
                   answers, missed, transit>>

ClockNext ==
    \/ app_clockCb \/ app_time_cmdCb \/ app_zclReadRspCmd
    \/ Second \/ LoseAnswer \/ JoinOrLeave \/ Restart \/ Steady

ClockSpec == ClockInit /\ [][ClockNext]_clockVars

-----------------------------------------------------------------------------
(* Properties *)

(* A clock that has been set is wrong by the time the answer travelled and *)
(* the seconds the main loop was held up since, and by one second more,    *)
(* however often it is set, lost and set again: it never counts double.    *)
ClockInStep == local = "set" => offset + missed + transit \in -1..1

(* Once the hub is there for good and knows the time, the clock comes to   *)
(* show it and never shows anything else, whatever had been stored while   *)
(* the hub did not know.                                                   *)
ClockSet == <>steady => <>[](local = "set")
=============================================================================
