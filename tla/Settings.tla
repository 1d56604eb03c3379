------------------------------ MODULE Settings ------------------------------
(***************************************************************************)
(* The settings (config_t): the copy in use, the copy in flash, and the    *)
(* ZCL attributes through which a hub sees and writes them (app_config.c,  *)
(* app_zclWriteReqCmd in zcl_appCb.c, the click actions of app_button.c).  *)
(* The thresholds of the relay control stand for the 16-bit settings with  *)
(* a range, onoff and the elements of Flag for those of two values.        *)
(***************************************************************************)
EXTENDS Integers

CONSTANTS
    Gas,          \* CO2 and VOC: each has a low and a high threshold
    Lowest, Highest,  \* Lowest[g]..Highest[g]: CO2_ONOFF_MIN to _MAX, ...
    Value,        \* what a hub writes to a threshold, in range or not
    Flag,         \* settings of the screen: rotate, d_mode, ...
    Absent,       \* an attribute that a command does not write
    Empty         \* no settings in flash yet

Allowed(g) == Lowest[g]..Highest[g]

ConfigRec ==
    [onoff : [Gas -> BOOLEAN], low : [Gas -> Nat], high : [Gas -> Nat],
     flag : [Flag -> {0, 1}]]

\* the attributes of the other settings are written without a condition
AttrRec == [low : [Gas -> Nat], high : [Gas -> Nat]]

ASSUME SettingsAssumption ==
    /\ Lowest \in [Gas -> Nat] /\ Highest \in [Gas -> Nat]
    /\ \A g \in Gas : Lowest[g] < Highest[g]
    /\ Value \subseteq Nat
    /\ Empty \notin ConfigRec

VARIABLES
    config,    \* config
    attr,      \* g_zcl_customAttrs and g_zcl_thermostatCfgAttrs
    nv         \* NV_ITEM_APP_USER_CFG

vars == <<config, attr, nv>>

TypeOK ==
    /\ config \in ConfigRec /\ attr \in AttrRec
    /\ nv \in ConfigRec \/ nv = Empty

DefaultConfig ==
    [onoff |-> [g \in Gas |-> FALSE], low |-> Lowest, high |-> Highest,
     flag |-> [f \in Flag |-> 0]]

(* The attributes after config_restore.                                    *)
Shown(c) == [low |-> c.low, high |-> c.high]

(* config_restore, of settings that have a checksum.                       *)
Restored == IF nv = Empty THEN DefaultConfig ELSE nv

Init == config = DefaultConfig /\ attr = Shown(DefaultConfig) /\ nv = Empty

-----------------------------------------------------------------------------
(* app_zclWriteReqCmd runs after the SDK has stored the values in the      *)
(* attributes.  The handlers of one attribute map [config, attr, save].    *)

\* the threshold is compared with the attribute of the other one, which the
\* command may have just changed
FaultyLowWritten(s, g, v) ==
    IF v = Absent \/ v \notin Allowed(g) THEN s
    ELSE IF v < s.attr.high[g]
    THEN [s EXCEPT !.config.low[g] = v, !.save = @ \/ v # s.config.low[g]]
    ELSE [s EXCEPT !.attr.low[g] = s.config.low[g]]

(* Accepted in its range and below the high threshold; put back if only    *)
(* the second fails.                                                       *)
LowWritten(s, g, v) ==
    IF v = Absent \/ v \notin Allowed(g) THEN s
    ELSE IF v < s.config.high[g]
    THEN [s EXCEPT !.config.low[g] = v, !.save = @ \/ v # s.config.low[g]]
    ELSE [s EXCEPT !.attr.low[g] = s.config.low[g]]

\* a threshold that conflicts with the other is dropped and not put back
FaultyHighWritten(s, g, v) ==
    IF v = Absent \/ v \notin Allowed(g) \/ v <= s.config.low[g] THEN s
    ELSE [s EXCEPT !.config.high[g] = v, !.save = @ \/ v # s.config.high[g]]

\* whether to save is decided by the last attribute alone
FaultyHighWrittenSave(s, g, v) ==
    IF v = Absent \/ v \notin Allowed(g) THEN s
    ELSE IF v > s.config.low[g]
    THEN [s EXCEPT !.config.high[g] = v, !.save = v # s.config.high[g]]
    ELSE [s EXCEPT !.attr.high[g] = s.config.high[g]]

HighWritten(s, g, v) ==
    IF v = Absent \/ v \notin Allowed(g) THEN s
    ELSE IF v > s.config.low[g]
    THEN [s EXCEPT !.config.high[g] = v, !.save = @ \/ v # s.config.high[g]]
    ELSE [s EXCEPT !.attr.high[g] = s.config.high[g]]

Written(old, v) == IF v = Absent THEN old ELSE v

Stored(g, low, high) ==
    [attr EXCEPT !.low[g] = Written(@, low), !.high[g] = Written(@, high)]

(* One command to the cluster of a gas: either threshold or both, in the   *)
(* order the hub lists them.                                               *)
WriteThresholds(g, low, high, lowFirst) ==
    LET s == [config |-> config, attr |-> Stored(g, low, high), save |-> FALSE]
        t == IF lowFirst THEN HighWritten(LowWritten(s, g, low), g, high)
                         ELSE LowWritten(HighWritten(s, g, high), g, low)
    IN  /\ config' = t.config /\ attr' = t.attr
        /\ nv' = IF t.save THEN t.config ELSE nv

Taken(old, v) == IF v \in {0, 1} THEN v ELSE old

(* One command to the user interface cluster, for any of the flags; only 0 *)
(* and 1 are taken.                                                        *)
WriteFlags(written) ==
    /\ config' = [config EXCEPT !.flag = [f \in Flag |-> Taken(@[f], written[f])]]
    /\ nv' = IF config' = config THEN nv ELSE config'
    /\ UNCHANGED attr

\* it is switched in use and not in flash
FaultyWriteOnOff(g) ==
    /\ config' = [config EXCEPT !.onoff[g] = ~@]
    /\ UNCHANGED <<nv, attr>>

(* The control by a gas is switched on or off.  A command that also writes *)
(* thresholds has the effect of two: neither looks at the other.           *)
WriteOnOff(g) ==
    /\ config' = [config EXCEPT !.onoff[g] = ~@]
    /\ nv' = config' /\ UNCHANGED attr

(* Two clicks of the button rotate, four change the unit.                  *)
Click(f) ==
    /\ config' = [config EXCEPT !.flag[f] = 1 - @]
    /\ nv' = config' /\ UNCHANGED attr

(* The system exception handler saves before it resets.                    *)
Exception ==
    nv' = config /\ config' = config /\ attr' = Shown(config)

Restart == config' = Restored /\ attr' = Shown(Restored) /\ UNCHANGED nv

Next ==
    \/ \E g \in Gas, low, high \in Value \cup {Absent}, lowFirst \in BOOLEAN :
           WriteThresholds(g, low, high, lowFirst)
    \/ \E written \in [Flag -> 0..2 \cup {Absent}] : WriteFlags(written)
    \/ \E g \in Gas : WriteOnOff(g)
    \/ \E f \in Flag : Click(f)
    \/ Exception \/ Restart

Spec == Init /\ [][Next]_vars

-----------------------------------------------------------------------------
(* Properties *)

(* The low threshold in use is below the high one, and both in range, also *)
(* when one command writes both, in either order, and after a restart.     *)
(* Without it a reading could ask for the relay to be on and off at once.  *)
LowBelowHigh ==
    \A g \in Gas : /\ config.low[g] \in Allowed(g) /\ config.high[g] \in Allowed(g)
                   /\ config.low[g] < config.high[g]

(* Every setting in use would survive a restart at once: whatever path     *)
(* changed it, it has been saved.                                          *)
NothingUnsaved == config = Restored

(* A threshold that a hub reads is the one in use, unless it is out of     *)
(* range: a value in range that was refused for the sake of the other      *)
(* threshold has been put back.                                            *)
ThresholdsShown ==
    \A g \in Gas : /\ attr.low[g] \in {config.low[g]} \cup (Value \ Allowed(g))
                   /\ attr.high[g] \in {config.high[g]} \cup (Value \ Allowed(g))
=============================================================================
