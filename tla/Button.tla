------------------------------- MODULE Button -------------------------------
(***************************************************************************)
(* button_handlerCb (app_button.c): every 20 ms it reads the pin, debounces *)
(* it, and makes of the presses either a group of quick clicks or a reset  *)
(* after five seconds.  Time is counted in polls.  While a group is open   *)
(* the screen is not refreshed and no report is sent (button_idle), so a   *)
(* group must always be closed.                                            *)
(***************************************************************************)
EXTENDS Integers

CONSTANTS
    DEBOUNCE_BUTTON,  \* 3
    Multi,            \* TIMEOUT_TICK_500MS, in polls
    HoldTime,         \* TIMEOUT_TICK_5SEC, in polls
    MinStay,          \* the contact keeps a level for at least so many polls
    MaxTaps           \* bound: presses of the finger in one group

ASSUME ButtonAssumption ==
    /\ DEBOUNCE_BUTTON \in Nat /\ DEBOUNCE_BUTTON > 1
    /\ Multi \in Nat /\ HoldTime \in Nat /\ Multi < HoldTime
    /\ MinStay \in Nat \ {0} /\ MaxTaps \in 1..254

VARIABLES
    down,      \* the level of the pin: the finger is down
    stay,      \* for how many polls, up to HoldTime + DEBOUNCE_BUTTON + 1
    button,    \* app_button, with one age for pressed_time and hold_time
    clicks,    \* the count of the group this poll has closed, or 0
    reset,     \* this poll has made the reset
    taps,      \* observer: times the finger went down since a group was closed
    resets     \* observer: resets since the finger went down, up to 2

buttonVars == <<down, stay, button, clicks, reset, taps, resets>>

Oldest == HoldTime + 1
Longest == HoldTime + DEBOUNCE_BUTTON + 1
Older(n, limit) == IF n < limit THEN n + 1 ELSE n

Buttons ==
    [released : BOOLEAN, pressed : BOOLEAN, hold : BOOLEAN, counter : 0..255,
     debounce : 1..DEBOUNCE_BUTTON, age : 0..Oldest]

ButtonTypeOK ==
    /\ down \in BOOLEAN /\ stay \in 1..Longest /\ button \in Buttons
    /\ clicks \in 0..MaxTaps \cup {255} /\ reset \in BOOLEAN
    /\ taps \in 0..MaxTaps /\ resets \in 0..2

ButtonInit ==
    /\ down = FALSE /\ stay = Longest
    /\ button = [released |-> FALSE, pressed |-> FALSE, hold |-> FALSE, counter |-> 0,
                 debounce |-> 1, age |-> Oldest]
    /\ clicks = 0 /\ reset = FALSE /\ taps = 0 /\ resets = 0

-----------------------------------------------------------------------------
(* The parts of the handler, each from app_button to app_button *)

\* a reset does not mark the group, and the next poll makes it again
FaultyHeld(b) ==
    IF b.pressed /\ b.counter # 255 /\ b.age > Multi /\ ~b.hold
    THEN [b EXCEPT !.hold = TRUE]
    ELSE b

(* Down: the second poll past 500 ms starts to look for the five seconds.  *)
(* The counter of 0xFF says that the reset has been made.                  *)
Held(b) ==
    IF ~(b.pressed /\ b.counter # 255 /\ b.age > Multi) THEN b
    ELSE IF ~b.hold THEN [b EXCEPT !.hold = TRUE]
    ELSE IF b.age > HoldTime THEN [b EXCEPT !.counter = 255]
    ELSE b

Resets(b) == b.pressed /\ b.counter # 255 /\ b.hold /\ b.age > HoldTime

\* the press counts at the first poll that reads the pin down
FaultyDebounceDown(b) ==
    IF b.debounce = DEBOUNCE_BUTTON THEN b
    ELSE [b EXCEPT !.debounce = b.debounce + 1, !.age = 0, !.pressed = TRUE,
                   !.counter = (b.counter + 1) % 256]

(* Down: the third poll in a row is a press, the first of a group or one   *)
(* more if it comes within 500 ms.                                         *)
DebounceDown(b) ==
    IF b.debounce = DEBOUNCE_BUTTON THEN b
    ELSE IF b.debounce + 1 < DEBOUNCE_BUTTON THEN [b EXCEPT !.debounce = b.debounce + 1]
    ELSE [b EXCEPT !.debounce = DEBOUNCE_BUTTON, !.age = 0,
                   !.pressed = b.pressed \/ b.counter = 0,
                   !.counter = IF b.counter = 0 \/ (b.pressed /\ b.age <= Multi)
                               THEN (b.counter + 1) % 256 ELSE b.counter]

(* Up: back at 1 the press is over.                                        *)
DebounceUp(b) ==
    IF b.debounce = 1 THEN b
    ELSE [b EXCEPT !.debounce = b.debounce - 1,
                   !.released = b.released \/ (b.debounce = 2 /\ b.pressed)]

(* 500 ms after the last press of a group with a release in it.            *)
Closes(b) == b.released /\ b.pressed /\ b.age > Multi

\* a closed group keeps its count
FaultyClosed(b) == [b EXCEPT !.pressed = FALSE, !.released = FALSE, !.hold = FALSE]

Closed(b) == [b EXCEPT !.counter = 0, !.pressed = FALSE, !.released = FALSE, !.hold = FALSE]

button_idle ==
    \/ button.debounce \notin {1, DEBOUNCE_BUTTON}
    \/ button.counter # 0 \/ button.pressed

(* One poll: the finger may have moved, then the handler runs.             *)
Aged == [button EXCEPT !.age = Older(@, Oldest)]

Polled(low) == IF low THEN DebounceDown(Held(Aged)) ELSE DebounceUp(Aged)

button_handlerCb(low) ==
    LET c == Polled(low)
    IN  /\ button' = IF Closes(c) THEN Closed(c) ELSE c
        /\ clicks' = IF Closes(c) THEN c.counter ELSE 0
        /\ reset' = (low /\ Resets(Aged))

(* A press that is still being debounced when a group closes belongs to    *)
(* the next one.                                                           *)
Observed ==
    /\ taps' = IF clicks' > 0
               THEN (IF down' /\ button'.debounce < DEBOUNCE_BUTTON THEN 1 ELSE 0)
               ELSE IF down' /\ ~down THEN taps + 1 ELSE taps
    /\ resets' = IF down' /\ ~down THEN 0
                 ELSE IF reset' /\ resets < 2 THEN resets + 1 ELSE resets

Stays ==
    /\ UNCHANGED down /\ stay' = Older(stay, Longest)
    /\ button_handlerCb(down)
    /\ Observed

Moves ==
    /\ stay >= MinStay /\ (down \/ taps < MaxTaps)
    /\ down' = ~down /\ stay' = 1
    /\ button_handlerCb(down')
    /\ Observed

ButtonNext == Stays \/ Moves

ButtonSpec == ButtonInit /\ [][ButtonNext]_buttonVars

-----------------------------------------------------------------------------
(* Properties *)

(* No phantom click: a group never counts more clicks than the finger made *)
(* since the last one.  255 is the group that was used up by a reset.      *)
NoPhantomClick ==
    [][clicks' \in 1..254 => clicks' <= taps]_buttonVars

(* A reset throws the device out of its network, so it takes a finger that *)
(* has been down without a break for five seconds, and happens once.       *)
ResetNeedsHold == /\ reset => down /\ stay > HoldTime
                  /\ resets <= 1

(* A finger that has let go for half a second and a debounce leaves no     *)
(* group open, however it had clicked and held before: reports and screen  *)
(* refreshes, which wait for button_idle, go on.                           *)
NeverStuck == ~down /\ stay > Multi + DEBOUNCE_BUTTON => ~button_idle
=============================================================================
