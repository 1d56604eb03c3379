----------------------------- MODULE AirControl -----------------------------
(***************************************************************************)
(* The relay control over the settings it reads: the composition of        *)
(* Settings, where a hub writes thresholds, and OnOffControl, which knows  *)
(* a reading only by its band.  Readings and thresholds are numbers here,  *)
(* and the bands are computed from them: Control is OnOffControl with the  *)
(* bands for its levels, and this module implements its specification.     *)
(***************************************************************************)
EXTENDS Settings, Sequences

CONSTANTS
    Reading,       \* the values of app_scd4x_get_co2 and app_sgp40_get_voc
    Environment    \* what may happen besides: see OnOffControl

ASSUME AirAssumption ==
    /\ Reading \subseteq Nat /\ 0 \in Reading
    /\ Environment \subseteq {"restart", "leave", "lose"}

VARIABLES
    reading,       \* co2 and voc_index
    joined, sw_onoff, relay, sent, fresh, forgotten, lost   \* as in OnOffControl

relayVars == <<joined, sw_onoff, relay, forgotten, lost>>
airVars == <<vars, reading, relayVars, sent, fresh>>

(* ctrl_off wins over ctrl_on.                                             *)
Band(g) ==
    IF reading[g] <= config.low[g] THEN "low"
    ELSE IF reading[g] >= config.high[g] THEN "high" ELSE "mid"

Control == INSTANCE OnOffControl
    WITH level <- [g \in Gas |-> Band(g)], onoff <- config.onoff

AirTypeOK == TypeOK /\ reading \in [Gas -> Reading] /\ Control!TypeOK

AirInit ==
    /\ Init /\ reading = [g \in Gas |-> 0]
    /\ joined \in BOOLEAN /\ sw_onoff = FALSE /\ relay = FALSE
    /\ sent = << >> /\ fresh = FALSE /\ forgotten = FALSE /\ lost = FALSE

-----------------------------------------------------------------------------

(* mesurement_scd4x or mesurement_sgp40.                                   *)
Measure(g, r) ==
    /\ reading' = [reading EXCEPT ![g] = r]
    /\ fresh' = FALSE /\ sent' = << >>
    /\ UNCHANGED <<vars, relayVars>>

(* The last task of a measurement.                                         *)
Handle(arrives) ==
    /\ UNCHANGED <<vars, reading>>
    /\ Control!proc_co2_voc_onoff(arrives)

(* A command that changes what the handler compares with.                  *)
WriteControl ==
    /\ \/ \E g \in Gas, low, high \in Value \cup {Absent}, lowFirst \in BOOLEAN :
              WriteThresholds(g, low, high, lowFirst)
       \/ \E g \in Gas : WriteOnOff(g)
    /\ fresh' = FALSE /\ sent' = << >>
    /\ UNCHANGED <<reading, relayVars>>

(* The settings of the screen, which the handler does not read.            *)
WriteScreen ==
    /\ \/ \E written \in [Flag -> 0..2 \cup {Absent}] : WriteFlags(written)
       \/ \E f \in Flag : Click(f)
    /\ UNCHANGED <<reading, relayVars, sent, fresh>>

LeaveOrJoin ==
    /\ "leave" \in Environment
    /\ joined' = ~joined
    /\ fresh' = FALSE /\ sent' = << >>
    /\ UNCHANGED <<vars, reading, sw_onoff, relay, forgotten, lost>>

(* Power is lost, or an exception saves the settings first: what the       *)
(* readings and the flag stand for begins anew, the relay stays.           *)
AirRestart ==
    /\ "restart" \in Environment
    /\ Restart \/ Exception
    /\ reading' = [g \in Gas |-> 0] /\ sw_onoff' = FALSE
    /\ fresh' = FALSE /\ sent' = << >> /\ forgotten' = relay /\ lost' = FALSE
    /\ UNCHANGED <<joined, relay>>

AirNext ==
    \/ \E g \in Gas, r \in Reading : Measure(g, r)
    \/ \E arrives \in BOOLEAN : Handle(arrives)
    \/ WriteControl \/ WriteScreen \/ LeaveOrJoin \/ AirRestart

AirSpec == AirInit /\ [][AirNext]_airVars

-----------------------------------------------------------------------------
(* Properties *)

(* The composition implements the relay control over bands: a threshold    *)
(* that moves under a reading is, for the handler, another reading; the    *)
(* settings of the screen are nothing to it; and a restart brings back the *)
(* enabling settings the handler had, because every setting in use has     *)
(* been saved.                                                             *)
ControlImplemented == Control!Spec

(* What the handler promises of the bands holds of the numbers: as in      *)
(* OnOffControl, for thresholds written at any moment, by any commands.    *)
RelayFollowsAir == Control!RelayFollowsAir

(* The same of the commands that unchanged readings must not repeat.       *)
NoChatter == Control!NoChatter
=============================================================================
