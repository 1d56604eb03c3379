------------------------------- MODULE Screen -------------------------------
(***************************************************************************)
(* The e-paper screen (app_epd.c).  Every ten seconds, and when asked to,  *)
(* epd_screen_var compares each reading with the one it remembers having   *)
(* drawn (epd_screen_variable) and draws what differs; forgetting is done  *)
(* by storing a sentinel, hoped not to be a reading.  A forced update      *)
(* forgets everything and wipes the screen.  It is asked for by settings   *)
(* and clicks, twice a day to clean the panel, and by epd_screen_var       *)
(* itself when the panel does not answer: the two functions call each     *)
(* other, and their calls are a stack here.                                *)
(***************************************************************************)
EXTENDS Integers, Sequences, FiniteSets

CONSTANTS
    Readings,    \* Readings[c]: what the sensor or clock of a cell may give;
                 \* the clock gives minutes of one hour
    Blank,       \* nothing drawn
    ClearTime,   \* the minutes of the daily cleaning, CLEAR_TIME_..._START to _STOP
    MaxBusy,     \* bound: time-outs of the panel in a row
    MaxTasks,    \* bound: updates that the user has waiting
    MaxOrphans   \* bound: timers whose handle was lost

(* epd_screen_variable, as it is initialised and put back.                 *)
Sentinel ==
    [minutes |-> 61, temp_in |-> 32769, lux |-> 0, level |-> 6]

(* What there is to show before the first measurement.                     *)
AtBoot == [temp_in |-> 32768, lux |-> 0, level |-> 0]

\* the clock, the inner temperature, the light and the level of the signal
Cell == DOMAIN Sentinel

ASSUME ScreenAssumption ==
    /\ \A c \in Cell : /\ Readings[c] \subseteq Nat
                       /\ c # "minutes" => AtBoot[c] \in Readings[c]
    /\ Readings["minutes"] \subseteq 0..59 /\ Readings["minutes"] # {}
    /\ MaxBusy \in Nat /\ MaxTasks \in Nat /\ MaxOrphans \in Nat

VARIABLES
    reading,   \* what each sensor gives now
    d_mode,    \* config.d_mode, the unit of temperatures
    blocked,   \* steering, LED, button or sound keep the screen as it is
    epd,       \* the screen and its driver, see EpdRec
    stack,     \* the calls under way, the innermost first, see Frame
    clears     \* observer: cleanings since the clock entered ClearTime

screenVars == <<reading, d_mode, blocked, epd, stack, clears>>

EpdRec ==
    [remembered : [Cell -> Nat],   \* epd_screen_variable
     image : [Cell -> Seq(Nat) \cup {Blank}],   \* image_bw
     clear_time : Nat, clear_screen : BOOLEAN,
     timer : BOOLEAN,              \* timerScreenUpdate is not NULL
     orphans : Nat,                \* timers that run without a handle
     tasks : Seq({"var", "force"})]   \* the task queue

(* "draw" is epd_screen_var about to start; "var" is one that waits for the *)
(* forced update it has called, and "force" is a forced update, or at the  *)
(* start app_first_start_epd, that waits for its epd_screen_var.           *)
Frame == {"draw", "var", "force"}

ScreenTypeOK ==
    /\ reading \in [Cell -> Nat] /\ \A c \in Cell : reading[c] \in Readings[c]
    /\ d_mode \in {0, 1} /\ blocked \in BOOLEAN
    /\ epd \in EpdRec /\ stack \in Seq(Frame) /\ clears \in Nat

-----------------------------------------------------------------------------
(* What is drawn for a reading: a temperature in the unit of the day.     *)
Look(c, v) == IF c = "temp_in" THEN <<v, d_mode>> ELSE <<v>>

Differs(e) == {c \in Cell : reading[c] # e.remembered[c]}

Drawn(e) ==
    [e EXCEPT
       !.remembered = [c \in Cell |-> IF c \in Differs(e) THEN reading[c] ELSE @[c]],
       !.image = [c \in Cell |-> IF c \in Differs(e) THEN Look(c, reading[c]) ELSE @[c]],
       !.clear_time = IF "minutes" \in Differs(e) THEN reading["minutes"] ELSE @]

(* The forced update: the timer is cancelled, everything is forgotten and  *)
(* the image cleared.                                                      *)
Wiped(e) ==
    [e EXCEPT !.timer = FALSE,
              !.remembered = [c \in Cell |-> Sentinel[c]],
              !.image = [c \in Cell |-> Blank]]

Calls(frames, f) == Cardinality({i \in DOMAIN frames : frames[i] = f})

\* a new timer takes the handle of one that is still running
Scheduled(e) == [e EXCEPT !.orphans = IF e.timer THEN @ + 1 ELSE @, !.timer = TRUE]

\* the cleaning is asked for at every update in its ten minutes
FaultyCleaning(e) ==
    IF e.clear_time \in ClearTime THEN [e EXCEPT !.tasks = Append(@, "force")] ELSE e

Cleaning(e) ==
    IF e.clear_time \notin ClearTime THEN [e EXCEPT !.clear_screen = FALSE]
    ELSE IF e.clear_screen THEN e
    ELSE [e EXCEPT !.clear_screen = TRUE, !.tasks = Append(@, "force")]

(* A call of epd_screen_var for those that wait.  If the panel, having been *)
(* given something to draw, is busy, it calls the forced update, and that  *)
(* one epd_screen_var.                                                     *)
epd_screen_var(e, callers) ==
    \/ /\ blocked
       /\ epd' = e /\ stack' = callers
    \/ /\ ~blocked
       /\ epd' = Cleaning(Drawn(e)) /\ stack' = callers
    \/ /\ ~blocked /\ Differs(e) # {}
       /\ Calls(callers, "var") < MaxBusy
       /\ e.orphans + Calls(callers, "force") <= MaxOrphans
       /\ epd' = Wiped(Drawn(e)) /\ stack' = <<"draw", "force", "var">> \o callers

\* the forced update leaves the timer to the next one
FaultyResumed(frame, e) == IF frame = "force" THEN e ELSE Cleaning(e)

(* What is left to do when the call has returned: the forced update, with  *)
(* app_first_start_epd at its end, starts the timer.                       *)
Resumed(frame, e) == IF frame = "force" THEN Scheduled(e) ELSE Cleaning(e)

-----------------------------------------------------------------------------

Fresh ==
    [remembered |-> [c \in Cell |-> Sentinel[c]], image |-> [c \in Cell |-> Blank],
     clear_time |-> 0, clear_screen |-> FALSE, timer |-> FALSE, orphans |-> 0, tasks |-> << >>]

(* app_first_start_epd, at the end of user_app_init.                       *)
ScreenInit ==
    /\ \E m \in Readings["minutes"] :
         reading = [c \in Cell |-> IF c = "minutes" THEN m ELSE AtBoot[c]]
    /\ d_mode = 0 /\ blocked = FALSE
    /\ epd = Fresh /\ stack = <<"draw", "force">>
    /\ clears = 0

\* the cleanings asked for in this step, which began with e
Counted(e) == clears' = clears + Len(epd'.tasks) - Len(e.tasks)

(* The first task of the queue runs, epd_screen_var or forced update.      *)
RunTask ==
    /\ stack = << >> /\ epd.tasks # << >>
    /\ LET e == [epd EXCEPT !.tasks = Tail(@)]
       IN  /\ \/ Head(epd.tasks) = "var" /\ epd_screen_var(e, << >>)
              \/ Head(epd.tasks) = "force" /\ epd_screen_var(Wiped(e), <<"force">>)
           /\ Counted(e)
    /\ UNCHANGED <<reading, d_mode, blocked>>

(* The innermost call, of epd_screen_var, runs.                            *)
Draw ==
    /\ stack # << >> /\ Head(stack) = "draw"
    /\ epd_screen_var(epd, Tail(stack))
    /\ Counted(epd)
    /\ UNCHANGED <<reading, d_mode, blocked>>

(* A call has returned to the one that waits for it.                       *)
Return ==
    /\ stack # << >> /\ Head(stack) # "draw"
    /\ epd' = Resumed(Head(stack), epd) /\ stack' = Tail(stack)
    /\ Counted(epd)
    /\ UNCHANGED <<reading, d_mode, blocked>>

(* epd_screen_varCb, by the timer or by one without a handle.  Ten seconds *)
(* are enough for the task queue to run empty.                             *)
TimerCb ==
    /\ stack = << >> /\ epd.tasks = << >>
    /\ epd.timer \/ epd.orphans > 0
    /\ epd' = [epd EXCEPT !.tasks = Append(@, "var")]
    /\ UNCHANGED <<reading, d_mode, blocked, stack, clears>>

(* A sensor or the clock gives a new reading.                              *)
NewReading ==
    /\ stack = << >>
    /\ \E c \in Cell : \E v \in Readings[c] \ {reading[c]} :
         /\ reading' = [reading EXCEPT ![c] = v]
         /\ clears' = IF c = "minutes" /\ v \notin ClearTime THEN 0 ELSE clears
    /\ UNCHANGED <<d_mode, blocked, epd, stack>>

(* Rotation, inversion or sound is changed.                                *)
AskForUpdate ==
    /\ stack = << >> /\ Len(epd.tasks) < MaxTasks
    /\ \E t \in {"var", "force"} : epd' = [epd EXCEPT !.tasks = Append(@, t)]
    /\ UNCHANGED <<reading, d_mode, blocked, stack, clears>>

\* the screen keeps the old unit until the temperature changes
FaultyKeepsUnit ==
    /\ stack = << >>
    /\ d_mode' = 1 - d_mode
    /\ UNCHANGED <<reading, blocked, epd, stack, clears>>

(* The unit is changed; epd_update_temperature_display_mode forgets the    *)
(* temperature.                                                            *)
DisplayMode ==
    /\ stack = << >>
    /\ d_mode' = 1 - d_mode
    /\ epd' = [epd EXCEPT !.remembered["temp_in"] = Sentinel["temp_in"]]
    /\ UNCHANGED <<reading, blocked, stack, clears>>

(* epd_clearZbIcon, when the button has been held: no network, no level.   *)
ClearZbIcon ==
    /\ stack = << >>
    /\ epd' = [epd EXCEPT !.remembered["level"] = Sentinel["level"], !.image["level"] = <<0>>]
    /\ blocked' = TRUE
    /\ UNCHANGED <<reading, d_mode, stack, clears>>

Block ==
    /\ stack = << >>
    /\ blocked' = ~blocked
    /\ UNCHANGED <<reading, d_mode, epd, stack, clears>>

ScreenNext == \/ TimerCb \/ RunTask \/ Draw \/ Return \/ NewReading \/ AskForUpdate \/ DisplayMode \/ ClearZbIcon
        \/ Block

ScreenSpec == ScreenInit /\ [][ScreenNext]_screenVars

(* Timers and the task queue are polled by the main loop, and calls return. *)
ScreenFairSpec ==
    /\ ScreenSpec
    /\ WF_screenVars(TimerCb) /\ WF_screenVars(RunTask)
    /\ WF_screenVars(Draw) /\ WF_screenVars(Return)

-----------------------------------------------------------------------------
(* Properties *)

(* The screen is refreshed for ever: no forced update, nested as it may be *)
(* in another, leaves the monitor without a timer.                         *)
NeverWithoutTimer == stack = << >> => epd.timer

(* The panel is cleaned at most once in the ten minutes that are set aside *)
(* for it, although the cleaning itself makes epd_screen_var run, and the  *)
(* user may force updates at that time.                                    *)
OneCleaning == clears <= 1

Right(c) == epd.image[c] = Look(c, reading[c])

(* A screen that may be written shows every reading that stays, in the     *)
(* unit chosen, unless it happens to be the sentinel of its cell, as 0 lux *)
(* is: that one is not drawn on a screen that was wiped.                   *)
ReadingsShown ==
    <>[]~blocked /\ <>[][UNCHANGED <<reading, d_mode>>]_screenVars
        => <>[](\A c \in Cell : reading[c] # Sentinel[c] => Right(c))
=============================================================================
