------------------------------- MODULE Pairing -------------------------------
(***************************************************************************)
(* Joining a network: the push button (app_button.c), the steering retries *)
(* and commissioning callbacks (zb_appCb.c), and the one LED (app_led.c)   *)
(* that button, commissioning, Identify cluster and screen refresh share.  *)
(*                                                                         *)
(* Holding the button resets the device and opens a pairing window; three  *)
(* timers then run beside the commissioning state machine of the stack:    *)
(* net_steer_start_offCb closes the window, steerTimerEvt retries, and     *)
(* timerLedEvt animates the LED.  Five clicks ask the same state machine   *)
(* to find and bind, which keeps it busy for minutes.  Time is a count of  *)
(* ticks; a timer that has reached 0 runs before time goes on.  The stack  *)
(* starts every procedure and delivers every callback from its task queue, *)
(* never from inside the call that asked.                                  *)
(***************************************************************************)
EXTENDS Integers, FiniteSets

CONSTANTS
    HoldTime,     \* how long the button is held for a reset (5 s)
    Window,       \* TIMEOUT_1MIN30SEC
    RedTime,      \* 90 cycles of the red effect, a little over 90 s
    GreenTime,    \* 3 cycles of the green effect, about 3 s
    Delays,       \* the jitter before a retry, 5 to 10 s
    FindBindDelay,  \* from five clicks to app_bdbFindAndBindStart (1 s)
    FindBindTime,   \* BDBC_MIN_COMMISSIONING_TIME (180 s)
    Identifies,     \* identifyTime of Identify commands; 0 stops
    MaxPresses,     \* bound: presses of the button
    MaxFindBinds,   \* bound: groups of five clicks that find the flag clear
    MaxIdentify     \* bound: Identify commands

ASSUME PairingAssumption ==
    /\ HoldTime \in Nat /\ Window \in Nat \ {0} /\ GreenTime \in Nat
    /\ RedTime \in Nat /\ RedTime > Window
    /\ Delays \subseteq Nat /\ Delays # {}
    /\ FindBindDelay \in Nat /\ FindBindTime \in Nat \ {0}
    /\ Identifies \subseteq Nat
    /\ MaxPresses \in Nat /\ MaxFindBinds \in Nat /\ MaxIdentify \in Nat

VARIABLES
    button,       \* "up", "pressed", or "held" once the reset has been made
    downFor,      \* how long it has been pressed
    joined,       \* zb_isDeviceJoinedNwk
    factoryNew,   \* zb_isDeviceFactoryNew
    leaving,      \* the leave of zb_factoryReset is not confirmed yet
    refused,      \* ... and was answered with an error
    bdb,          \* what the stack is at
    mode,         \* commissioningMode: "steer" or "bind"
    findBind,     \* g_appCtx.bdbFindBindFlg
    findBindTimer,  \* when each pending app_bdbFindAndBindStart runs
    bindTimer,    \* how long finding and binding may still last, {} if it is not
    steering,     \* g_appCtx.net_steer_start
    windows,      \* when each pending net_steer_start_offCb runs
    steerTimer,   \* when steerTimerEvt fires; {} when NULL
    identify,     \* what is left of the identify time; {} without a timer
    effect,       \* what timerLedEvt is playing, or "none"
    effectLeft,   \* ... and for how long
    shown,        \* the colour of the LED: the air "status", "off", or
                  \* "transient", a colour out of an effect
    ori,          \* oriColor, what the end of a blink restores
    sinceHold,    \* observer: ticks since the last reset, up to Window
    late,         \* observer: attempts asked for with no window open since then
    presses, findBinds, identifies   \* how many of each so far

network == <<joined, factoryNew, leaving, refused, bdb>>
find == <<mode, findBind, findBindTimer, bindTimer>>
led == <<effect, effectLeft, shown, ori>>
observers == <<sinceHold, late>>
inputs == <<presses, findBinds, identifies>>
vars == <<button, downFor, network, find, steering, windows, steerTimer, identify, led,
          observers, inputs>>

Colours == {"status", "off", "transient"}

\* of the states of bdb_task those that this device reaches: "starting" is
\* idle with a commissioning start in the queue, "rejoining" idle with the
\* network layer at a rejoin
Procedures == {"idle", "starting", "steering", "rejoining", "binding"}

TypeOK ==
    /\ button \in {"up", "pressed", "held"} /\ downFor \in 0..HoldTime
    /\ joined \in BOOLEAN /\ factoryNew \in BOOLEAN
    /\ leaving \in BOOLEAN /\ refused \in BOOLEAN
    /\ bdb \in Procedures
    /\ mode \in {"steer", "bind"} /\ findBind \in BOOLEAN
    /\ findBindTimer \subseteq 0..FindBindDelay
    /\ bindTimer \subseteq 0..FindBindTime /\ Cardinality(bindTimer) <= 1
    /\ steering \in BOOLEAN /\ windows \subseteq 0..Window
    /\ steerTimer \subseteq Nat /\ Cardinality(steerTimer) <= 1
    /\ identify \subseteq Nat /\ Cardinality(identify) <= 1
    /\ effect \in {"none", "press", "pairing", "joined", "identify"}
    /\ effectLeft \in Nat
    /\ shown \in Colours /\ ori \in Colours
    /\ sinceHold \in 0..Window /\ late \in Nat
    /\ presses \in 0..MaxPresses /\ findBinds \in 0..MaxFindBinds
    /\ identifies \in 0..MaxIdentify

(* After start-up: on a network, new, or with a network it cannot reach.   *)
Init ==
    /\ button = "up" /\ downFor = 0
    /\ joined \in BOOLEAN /\ factoryNew \in BOOLEAN /\ ~(joined /\ factoryNew)
    /\ leaving = FALSE /\ refused = FALSE /\ bdb = "idle"
    /\ mode = "steer" /\ findBind = FALSE /\ findBindTimer = {} /\ bindTimer = {}
    /\ steering = FALSE /\ windows = {} /\ steerTimer = {} /\ identify = {}
    /\ effect = "none" /\ effectLeft = 0 /\ shown = "off" /\ ori = "off"
    /\ sinceHold = 0 /\ late = 0 /\ presses = 0 /\ findBinds = 0 /\ identifies = 0

-----------------------------------------------------------------------------
(* The LED *)

\* led_blink_start and led_effect_start, the LED showing colour: either one
\* cancels what is playing
LedStart(kind, time, colour) ==
    /\ effect' = kind /\ effectLeft' = time
    /\ ori' = colour /\ shown' = "transient"

led_blink_stop ==
    /\ effect' = "none" /\ effectLeft' = 0 /\ ori' = ori
    /\ shown' = IF effect = "none" THEN shown ELSE ori

\* the animation ends but its timer handle is not cleared
FaultyLedTimer ==
    /\ effect # "none" /\ effectLeft = 0
    /\ effectLeft' = RedTime /\ shown' = ori
    /\ UNCHANGED <<button, downFor, network, find, steering, windows, steerTimer, identify,
                   effect, ori, observers, inputs>>

(* The last step of led_flashCb, which restores the colour, or of          *)
(* led_effectCb, which leaves the LED off.                                 *)
LedTimer ==
    /\ effect # "none" /\ effectLeft = 0
    /\ effect' = "none"
    /\ shown' = IF effect \in {"press", "identify"} THEN ori ELSE "off"
    /\ UNCHANGED <<button, downFor, network, find, steering, windows, steerTimer, identify,
                   effectLeft, ori, observers, inputs>>

(* epd_screen_var with something new to display.                           *)
EpdRefresh ==
    /\ ~steering /\ effect = "none" /\ button = "up"
    /\ shown' = "status"
    /\ UNCHANGED <<button, downFor, network, find, steering, windows, steerTimer, identify,
                   effect, effectLeft, ori, observers, inputs>>

-----------------------------------------------------------------------------
(* The button *)

(* The debounced press of button_handlerCb.                                *)
Press ==
    /\ button = "up" /\ presses < MaxPresses
    /\ button' = "pressed" /\ downFor' = 0 /\ presses' = presses + 1
    /\ LedStart("press", 0, shown)
    /\ bdb' = IF ~joined /\ ~factoryNew /\ bdb \in {"idle", "starting"}
              THEN "rejoining" ELSE bdb
    /\ UNCHANGED <<joined, factoryNew, leaving, refused, find, steering, windows, steerTimer,
                   identify, observers, findBinds, identifies>>

(* Five seconds down: zb_factoryReset asks the network to let the device   *)
(* go (and gives up a rejoin), and the pairing window opens.               *)
Hold ==
    /\ button = "pressed" /\ downFor = HoldTime
    /\ button' = "held" /\ downFor' = 0
    /\ leaving' = TRUE /\ refused' = FALSE /\ factoryNew' = TRUE
    /\ bdb' = IF bdb = "rejoining" THEN "idle" ELSE bdb
    /\ steering' = TRUE /\ windows' = windows \cup {Window}
    /\ LedStart("pairing", RedTime, "off")
    /\ sinceHold' = 0 /\ late' = 0
    /\ UNCHANGED <<joined, find, steerTimer, identify, inputs>>

(* A release that ends a group of clicks: of the groups only that of five  *)
(* clicks reaches commissioning, once per round of the flag.               *)
Release ==
    /\ button # "up" /\ ~(button = "pressed" /\ downFor = HoldTime)
    /\ button' = "up" /\ downFor' = 0
    /\ \/ UNCHANGED <<findBind, findBindTimer, findBinds>>
       \/ /\ button = "pressed" /\ ~findBind /\ findBinds < MaxFindBinds
          /\ findBind' = TRUE /\ findBindTimer' = findBindTimer \cup {FindBindDelay}
          /\ findBinds' = findBinds + 1
    /\ UNCHANGED <<network, mode, bindTimer, steering, windows, steerTimer, identify, led,
                   observers, presses, identifies>>

\* the window closes and the LED goes on flickering
FaultyWindowTimer ==
    /\ 0 \in windows
    /\ windows' = windows \ {0} /\ steering' = FALSE
    /\ UNCHANGED <<button, downFor, network, find, steerTimer, identify, led, observers, inputs>>

(* net_steer_start_offCb.  Its handle is kept nowhere: nothing cancels it. *)
WindowTimer ==
    /\ 0 \in windows
    /\ windows' = windows \ {0} /\ steering' = FALSE
    /\ led_blink_stop
    /\ UNCHANGED <<button, downFor, network, find, steerTimer, identify, observers, inputs>>

-----------------------------------------------------------------------------
(* Commissioning *)

(* bdb_networkSteerStart: the mode is set in any case, but the stack drops *)
(* the call unless it is idle.                                             *)
bdb_networkSteerStart ==
    /\ mode' = "steer"
    /\ bdb' = IF bdb = "idle" THEN "starting" ELSE bdb
    /\ late' = IF steering THEN late ELSE late + 1

(* app_bdbNetworkSteerStart                                                *)
SteerTimer ==
    /\ 0 \in steerTimer
    /\ bdb_networkSteerStart
    /\ steerTimer' = {}
    /\ UNCHANGED <<button, downFor, joined, factoryNew, leaving, refused, findBind,
                   findBindTimer, bindTimer, steering, windows, identify, led, sinceHold, inputs>>

(* app_bdbFindAndBindStart: as dropped as the other call.                  *)
FindBindTimer ==
    /\ 0 \in findBindTimer /\ findBindTimer' = findBindTimer \ {0}
    /\ mode' = "bind"
    /\ bdb' = IF bdb = "idle" THEN "starting" ELSE bdb
    /\ UNCHANGED <<button, downFor, joined, factoryNew, leaving, refused, findBind, bindTimer,
                   steering, windows, steerTimer, identify, led, observers, inputs>>

\* zb_bdbCommissioningCb with NO_NETWORK, TCLK_EX_FAILURE or TARGET_FAILURE
Retry == IF steering THEN \E d \in Delays : steerTimer' = {d} ELSE steerTimer' = steerTimer

\* zb_bdbCommissioningCb with SUCCESS closes the window, whatever succeeded
Success ==
    /\ steering' = FALSE /\ steerTimer' = {}
    /\ LedStart("joined", GreenTime, shown)

\* bdb_commissioningFindBind identifies this device as the target
FindBindTarget ==
    /\ bdb' = "binding" /\ bindTimer' = {FindBindTime} /\ identify' = {FindBindTime}
    /\ IF identify = {} THEN LedStart("identify", FindBindTime, shown) ELSE UNCHANGED led

(* bdb_task starts what the mode asks for by now; without a network there  *)
(* is nobody to bind with.                                                 *)
BdbTask ==
    /\ bdb = "starting"
    /\ \/ /\ mode = "steer" /\ bdb' = "steering"
          /\ UNCHANGED <<bindTimer, identify, led, steerTimer>>
       \/ mode = "bind" /\ joined /\ FindBindTarget /\ steerTimer' = steerTimer
       \/ /\ mode = "bind" /\ ~joined /\ bdb' = "idle" /\ Retry
          /\ UNCHANGED <<bindTimer, identify, led>>
    /\ UNCHANGED <<button, downFor, joined, factoryNew, leaving, refused, mode, findBind,
                   findBindTimer, steering, windows, observers, inputs>>

\* the retry is armed whether the window is open or not
FaultyAttemptFails ==
    /\ bdb = "steering"
    /\ bdb' = "idle"
    /\ \E d \in Delays : steerTimer' = {d}
    /\ UNCHANGED <<button, downFor, joined, factoryNew, leaving, refused, find, steering,
                   windows, identify, led, observers, inputs>>

(* An attempt to join that finds no network or is turned away.             *)
AttemptFails ==
    /\ bdb = "steering"
    /\ bdb' = "idle" /\ Retry
    /\ UNCHANGED <<button, downFor, joined, factoryNew, leaving, refused, find, steering,
                   windows, identify, led, observers, inputs>>

(* An attempt or a rejoin succeeds.  Five clicks during the attempt have   *)
(* changed its mode: it goes on to bind, and success is told after that.   *)
(* A rejoin that fails is asked for again at once and changes nothing.     *)
Commissioned ==
    /\ bdb \in {"steering", "rejoining"}
    /\ joined' = TRUE /\ factoryNew' = FALSE
    /\ IF bdb = "steering" /\ mode = "bind"
       THEN FindBindTarget /\ UNCHANGED <<steering, steerTimer>>
       ELSE bdb' = "idle" /\ Success /\ UNCHANGED <<bindTimer, identify>>
    /\ UNCHANGED <<button, downFor, leaving, refused, mode, findBind, findBindTimer, windows,
                   observers, inputs>>

(* bdb_findBindIdentifyTimeout: finding and binding ends, always with      *)
(* success, when the device no longer identifies itself or time is up.  A  *)
(* leave in the meantime does not end it.                                  *)
FindBindDone ==
    /\ bdb = "binding" /\ (identify \subseteq {0} \/ 0 \in bindTimer)
    /\ bdb' = "idle" /\ bindTimer' = {} /\ Success
    /\ UNCHANGED <<button, downFor, joined, factoryNew, leaving, refused, mode, findBind,
                   findBindTimer, windows, identify, observers, inputs>>

\* a confirmed leave does not start to look for a network
FaultyLeaveCnf ==
    /\ leaving \/ joined
    /\ leaving' = FALSE
    /\ \/ joined' = FALSE /\ factoryNew' = TRUE /\ refused' = refused
       \/ leaving /\ refused' = TRUE /\ UNCHANGED <<joined, factoryNew>>
    /\ UNCHANGED <<button, downFor, bdb, find, steering, windows, steerTimer, identify, led,
                   observers, inputs>>

(* app_leaveCnfHandler, after zb_factoryReset or when the network has told *)
(* the device to leave, which puts the attributes of the stack back to     *)
(* their defaults but not what it is at; with an error it does nothing.    *)
LeaveCnf ==
    /\ leaving \/ joined
    /\ leaving' = FALSE
    /\ \/ /\ joined' = FALSE /\ factoryNew' = TRUE /\ refused' = refused
          /\ IF steering THEN bdb_networkSteerStart
                         ELSE mode' = "steer" /\ UNCHANGED <<bdb, late>>
       \/ leaving /\ refused' = TRUE /\ UNCHANGED <<joined, factoryNew, bdb, mode, late>>
    /\ UNCHANGED <<button, downFor, findBind, findBindTimer, bindTimer, steering, windows,
                   steerTimer, identify, led, sinceHold, inputs>>

(* app_zclIdentifyCmdHandler: only the first of two commands blinks.       *)
Identify ==
    /\ joined /\ identifies < MaxIdentify /\ identifies' = identifies + 1
    /\ \E n \in Identifies :
         \/ n = 0 /\ identify' = {} /\ findBind' = FALSE /\ led_blink_stop
         \/ n > 0 /\ identify' = {n} /\ findBind' = findBind
            /\ IF identify = {} THEN LedStart("identify", n, shown) ELSE UNCHANGED led
    /\ UNCHANGED <<button, downFor, network, mode, findBindTimer, bindTimer, steering, windows,
                   steerTimer, observers, presses, findBinds>>

IdentifyTimer ==
    /\ 0 \in identify /\ identify' = {} /\ findBind' = FALSE
    /\ UNCHANGED <<button, downFor, network, mode, findBindTimer, bindTimer, steering, windows,
                   steerTimer, led, observers, inputs>>

-----------------------------------------------------------------------------

Sooner(timers) == {t - 1 : t \in timers}

(* Time passes once nothing is due.                                        *)
Tick ==
    /\ 0 \notin windows \cup steerTimer \cup findBindTimer \cup bindTimer \cup identify
    /\ effect = "none" \/ effectLeft > 0
    /\ button # "pressed" \/ downFor < HoldTime
    /\ windows' = Sooner(windows) /\ steerTimer' = Sooner(steerTimer)
    /\ findBindTimer' = Sooner(findBindTimer) /\ bindTimer' = Sooner(bindTimer)
    /\ identify' = Sooner(identify)
    /\ effectLeft' = IF effect = "none" THEN effectLeft ELSE effectLeft - 1
    /\ downFor' = IF button = "pressed" THEN downFor + 1 ELSE downFor
    /\ sinceHold' = IF sinceHold < Window THEN sinceHold + 1 ELSE sinceHold
    /\ UNCHANGED <<button, network, mode, findBind, steering, effect, shown, ori, late, inputs>>

Timers == WindowTimer \/ SteerTimer \/ FindBindTimer \/ LedTimer \/ IdentifyTimer

Next ==
    \/ Press \/ Hold \/ Release \/ Timers \/ EpdRefresh
    \/ BdbTask \/ AttemptFails \/ Commissioned \/ FindBindDone \/ LeaveCnf \/ Identify \/ Tick

Spec == Init /\ [][Next]_vars

(* The main loop runs the timers, the task queue of the stack and the      *)
(* refresh of the screen, whose clock shows a new time every minute; a     *)
(* finger does not stay for ever.                                          *)
FairSpec ==
    /\ Spec
    /\ WF_vars(Tick) /\ WF_vars(WindowTimer) /\ WF_vars(SteerTimer) /\ WF_vars(LedTimer)
    /\ WF_vars(FindBindTimer) /\ WF_vars(BdbTask) /\ WF_vars(FindBindDone)
    /\ WF_vars(IdentifyTimer) /\ WF_vars(Hold) /\ WF_vars(Release) /\ WF_vars(EpdRefresh)

-----------------------------------------------------------------------------
(* Properties *)

(* While the LED plays the red effect that invites the user to pair the    *)
(* device, the window is open: no order of the three timers, presses and   *)
(* commissioning callbacks leaves it flickering over a closed window.      *)
FlickerMeansOpen == effect = "pairing" => steering

(* An open window is used or soon closed.  Unless the reset still waits    *)
(* for the network to let go, or was refused, the device is off the        *)
(* network and about to try, trying, or waiting for the timer of the next  *)
(* attempt, although bdb_networkSteerStart silently drops a call that      *)
(* finds the stack busy and every link of the retry chain is armed by the  *)
(* one before.  The one exception is the find-and-bind of five clicks: the *)
(* call that it swallows is not made up for, but its end closes the window.*)
OpenWindowWorks ==
    steering /\ ~leaving /\ ~refused =>
        bdb = "binding" \/ (~joined /\ (bdb \in {"starting", "steering"} \/ steerTimer # {}))

(* Once the window is closed the retry chain ends: the retry that is armed *)
(* may still be made, no other after it.                                   *)
OneLateAttempt == late <= 1

(* Whatever was played over what, when the user, the network and the       *)
(* window leave it alone the LED shows the air status again, and for good. *)
LedSettles == <>[](effect = "none" /\ shown = "status")

(* The window stays open for its minute and a half after the last reset,   *)
(* unless the device has joined (README, Pairing).                         *)
WindowLasts == [][steering /\ ~steering' /\ ~joined' => sinceHold = Window]_vars
=============================================================================
