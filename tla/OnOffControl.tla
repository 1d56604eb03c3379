---------------------------- MODULE OnOffControl ----------------------------
(***************************************************************************)
(* Control of a relay or fan by the CO2 and VOC readings, past the         *)
(* coordinator (proc_co2_voc_onoff, app_sensors.c; the settings it reads   *)
(* are written by app_zclWriteReqCmd, zcl_appCb.c).                        *)
(*                                                                         *)
(* A reading counts only by where it is: "low", at or below the low        *)
(* threshold, "high", at or above the high one, or "mid".  That it is      *)
(* never both is what module AirControl adds, where the thresholds and     *)
(* readings are numbers.  "on" and "off" are the commands that the Switch  *)
(* Actions setting names for the two cases; it is not changed here.        *)
(***************************************************************************)
EXTENDS Integers, Sequences

CONSTANTS
    Gas,           \* CO2 and VOC
    Environment    \* what may happen besides readings and settings:
                   \* "restart", "leave", and "lose": a command is lost

VARIABLES
    level,     \* the bands of app_scd4x_get_co2 and app_sgp40_get_voc
    onoff,     \* config.co2_onoff and config.voc_onoff
    joined,    \* zb_isDeviceJoinedNwk
    sw_onoff,  \* the device has been switched on
    relay,     \* the state of the device bound to the On/Off cluster
    sent,      \* the commands of the last run of the handler
    fresh,     \* the readings and settings are those of that run
    forgotten, \* observer: the monitor restarted while the relay was on, and
               \* has sent no command since
    lost       \* observer: the last command since then did not arrive

vars == <<level, onoff, joined, sw_onoff, relay, sent, fresh, forgotten, lost>>

TypeOK ==
    /\ level \in [Gas -> {"low", "mid", "high"}] /\ onoff \in [Gas -> BOOLEAN]
    /\ joined \in BOOLEAN /\ sw_onoff \in BOOLEAN /\ relay \in BOOLEAN
    /\ sent \in {<< >>, <<"on">>, <<"off">>} /\ fresh \in BOOLEAN
    /\ forgotten \in BOOLEAN /\ lost \in BOOLEAN

(* After power-up the readings are 0.  The relay is off.                   *)
Init ==
    /\ level = [g \in Gas |-> "low"] /\ onoff \in [Gas -> BOOLEAN]
    /\ joined \in BOOLEAN /\ sw_onoff = FALSE /\ relay = FALSE
    /\ sent = << >> /\ fresh = FALSE /\ forgotten = FALSE /\ lost = FALSE

-----------------------------------------------------------------------------
(* proc_co2_voc_onoff *)

ctrl_on(g) == onoff[g] /\ level[g] = "high"
ctrl_off(g) == onoff[g] /\ level[g] = "low"

Disabled == \A g \in Gas : ~onoff[g]
TurnOn == \E g \in Gas : ctrl_on(g)

\* a low reading switches off although the other gas is high
FaultyTurnOff == \E g \in Gas : ctrl_off(g)

(* One gas is low, and the other does not ask for the device.              *)
TurnOff == \E g \in Gas : ctrl_off(g) /\ \A h \in Gas \ {g} : ~ctrl_on(h)

\* turning the control off clears the flag and sends nothing
FaultyCommands(was) ==
    LET kept == was /\ ~Disabled
    IN  (IF TurnOn /\ ~kept THEN <<"on">> ELSE << >>)
        \o (IF TurnOff /\ (TurnOn \/ kept) THEN <<"off">> ELSE << >>)

(* The three switches of the handler in their order: the control has been  *)
(* disabled, on, off.  Each sends only what changes sw_onoff.              *)
Commands(was) ==
    LET kept == was /\ ~Disabled
    IN  (IF was /\ Disabled THEN <<"off">> ELSE << >>)
        \o (IF TurnOn /\ ~kept THEN <<"on">> ELSE << >>)
        \o (IF TurnOff /\ (TurnOn \/ kept) THEN <<"off">> ELSE << >>)

After(commands, was) == IF commands = << >> THEN was ELSE commands[Len(commands)] = "on"

(* A bound device obeys the commands that reach it; that one has not is    *)
(* not noticed.                                                            *)
proc_co2_voc_onoff(arrives) ==
    /\ arrives \/ "lose" \in Environment
    /\ joined
    /\ sent' = Commands(sw_onoff)
    /\ sw_onoff' = (~Disabled /\ After(sent', sw_onoff))
    /\ relay' = IF arrives THEN After(sent', relay) ELSE relay
    /\ fresh' = TRUE
    /\ forgotten' = (forgotten /\ sent' = << >>)
    /\ lost' = IF sent' = << >> THEN lost ELSE ~arrives
    /\ UNCHANGED <<level, onoff, joined>>

-----------------------------------------------------------------------------

(* mesurement_scd4x and mesurement_sgp40 read other values.                *)
Measure ==
    /\ level' \in [Gas -> {"low", "mid", "high"}]
    /\ fresh' = FALSE /\ sent' = << >>
    /\ UNCHANGED <<onoff, joined, sw_onoff, relay, forgotten, lost>>

(* The control by one of the gases is enabled or disabled.                 *)
WriteOnOff ==
    /\ \E g \in Gas : onoff' = [onoff EXCEPT ![g] = ~@]
    /\ fresh' = FALSE /\ sent' = << >>
    /\ UNCHANGED <<level, joined, sw_onoff, relay, forgotten, lost>>

LeaveOrJoin ==
    /\ "leave" \in Environment
    /\ joined' = ~joined
    /\ fresh' = FALSE /\ sent' = << >>
    /\ UNCHANGED <<level, onoff, sw_onoff, relay, forgotten, lost>>

(* The monitor restarts: settings are restored, sw_onoff is not.           *)
Restart ==
    /\ "restart" \in Environment
    /\ level' = [g \in Gas |-> "low"] /\ sw_onoff' = FALSE
    /\ fresh' = FALSE /\ sent' = << >> /\ forgotten' = relay /\ lost' = FALSE
    /\ UNCHANGED <<onoff, joined, relay>>

Next ==
    \/ \E arrives \in BOOLEAN : proc_co2_voc_onoff(arrives)
    \/ Measure \/ WriteOnOff \/ LeaveOrJoin \/ Restart

Spec == Init /\ [][Next]_vars

-----------------------------------------------------------------------------
(* Properties *)

In(band) == \E g \in Gas : onoff[g] /\ level[g] = band

(* A gas that is high has switched the device on; one that is low, with    *)
(* the other not high, has switched it off; and so has disabling both.     *)
(* The relay itself is meant, through every change of the settings and     *)
(* every leave, join and restart in between, not the flag that stands for  *)
(* it.  Only a device that was on when the monitor restarted stays on in   *)
(* good air, until the air has been bad again (README, Low co2), and a     *)
(* device that a command has not reached stays as it is until the next.    *)
RelayFollowsAir ==
    fresh /\ ~lost =>
        /\ In("high") => relay
        /\ ~In("high") /\ (In("low") \/ ~In("mid")) => ~relay \/ forgotten

(* The relay does not chatter: under readings and settings that stay, a    *)
(* second run of the handler sends nothing, whichever bands they are in.   *)
NoChatter == [][fresh /\ fresh' => sent' = << >>]_vars
=============================================================================
