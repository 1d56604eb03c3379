---------------------------- MODULE OutsideSensor ----------------------------
(***************************************************************************)
(* The readings of an outdoor sensor bound directly to the monitor         *)
(* (app_sensors.c, app_zclReportCmd).  The first sensor that reports owns  *)
(* the table; others are ignored until it has been silent for two hours,   *)
(* or until the user clears the binding.                                   *)
(***************************************************************************)
EXTENDS Integers, FiniteSets

CONSTANTS
    Sensor,            \* short addresses that may report
    Cluster,           \* temperature, humidity and power configuration
    BIND_CLUSTER_NUM,  \* 3
    NoSensor,          \* the initial content of values and src_addr
    Timeout,           \* BIND_TIMEOUT
    MaxClears          \* bound: how often the user clears the binding

ASSUME OutsideAssumption ==
    /\ NoSensor \notin Sensor
    /\ Timeout \in Nat \ {0} /\ MaxClears \in Nat
    /\ IsFiniteSet(Cluster) /\ Cardinality(Cluster) <= BIND_CLUSTER_NUM

VARIABLES
    src_addr,      \* the sensor that owns the table
    cluster_id,    \* the clusters it has reported, used = Cardinality
    value,         \* whose reading each outside_... variable holds
    timer,         \* when checkBindTimerEvt fires; {} when the handle is NULL
    orphans,       \* when timers fire whose handle was overwritten
    silent,        \* observer: ticks since the owner's last report
    clears         \* how often the binding was cleared

table == <<src_addr, cluster_id>>
vars == <<table, value, timer, orphans, silent, clears>>

TypeOK ==
    /\ src_addr \in Sensor \cup {NoSensor} /\ cluster_id \subseteq Cluster
    /\ value \in [Cluster -> Sensor \cup {NoSensor}]
    /\ timer \subseteq 0..Timeout /\ Cardinality(timer) <= 1
    /\ orphans \subseteq 0..Timeout
    /\ silent \in 0..Timeout /\ clears \in 0..MaxClears

Init ==
    /\ src_addr = NoSensor /\ cluster_id = {}
    /\ value = [c \in Cluster |-> NoSensor]
    /\ timer = {} /\ orphans = {} /\ silent = 0 /\ clears = 0

-----------------------------------------------------------------------------

(* bind_outsise_proc returns OUTSIDE_SRC_CLUSTER_OK.                       *)
Accepted(s, c) ==
    /\ cluster_id = {} \/ s = src_addr
    /\ Cardinality(cluster_id \cup {c}) <= BIND_CLUSTER_NUM

\* the timer of the last report is not cancelled
FaultyUncancelled == timer' = timer \cup {Timeout}

\* the timer of the last report is cancelled, and none is scheduled then
FaultyUnscheduled == timer' = IF timer = {} THEN {Timeout} ELSE {}

(* bind_outside_update_timer: cancel and schedule anew.                    *)
bind_outside_update_timer == timer' = {Timeout}

(* app_zclReportCmd for one attribute.                                     *)
Report(s, c) ==
    /\ Accepted(s, c)
    /\ src_addr' = IF cluster_id = {} THEN s ELSE src_addr
    /\ cluster_id' = cluster_id \cup {c}
    /\ value' = [value EXCEPT ![c] = s]
    /\ bind_outside_update_timer
    /\ silent' = 0
    /\ UNCHANGED <<orphans, clears>>

(* The memset that empties the table also overwrites the timer handle: a   *)
(* timer that was running goes on without one.                             *)
Erase(running) ==
    /\ src_addr' = NoSensor /\ cluster_id' = {}
    /\ timer' = {} /\ orphans' = running

\* clearing takes the owner but leaves the clusters
FaultyClear ==
    /\ clears < MaxClears /\ clears' = clears + 1
    /\ src_addr' = NoSensor /\ timer' = {} /\ orphans' = orphans \cup timer
    /\ UNCHANGED <<cluster_id, value, silent>>

(* bind_outside_init: Clear Bind, or the reset by the button.              *)
Clear ==
    /\ clears < MaxClears /\ clears' = clears + 1
    /\ Erase(orphans \cup timer)
    /\ UNCHANGED <<value, silent>>

(* bind_outside_timerCb, run by the timer with a handle or by an orphan.   *)
TimerCb ==
    /\ \/ 0 \in timer /\ Erase(orphans)
       \/ 0 \in orphans /\ Erase((orphans \ {0}) \cup timer)
    /\ UNCHANGED <<value, silent, clears>>

Sooner(timers) == {t - 1 : t \in timers}

Tick ==
    /\ 0 \notin timer \cup orphans
    /\ timer' = Sooner(timer) /\ orphans' = Sooner(orphans)
    /\ silent' = IF silent < Timeout THEN silent + 1 ELSE silent
    /\ UNCHANGED <<table, value, clears>>

Next ==
    \/ \E s \in Sensor, c \in Cluster : Report(s, c)
    \/ Clear \/ TimerCb \/ Tick

Spec == Init /\ [][Next]_vars

-----------------------------------------------------------------------------
(* Properties *)

(* app_get_outside_...: what the screen shows for a cluster.               *)
Shown(c) == IF c \in cluster_id THEN value[c] ELSE NoSensor

(* The readings on the screen all come from the one sensor that owns the   *)
(* table, also after the owner has changed: no reading of an earlier       *)
(* sensor, still in its variable, comes back beside the new one's.         *)
OneSensorShown == \A c \in Cluster : Shown(c) \in {NoSensor, src_addr}

(* A sensor on the screen that has gone silent is taken off it after two   *)
(* hours: a timer is running that is due by then.                          *)
SilentIsErased == cluster_id # {} => \E t \in timer \cup orphans : t <= Timeout - silent

(* Readings are erased by time only if nothing has come for two hours      *)
(* (README, readings of the outdoor sensor), unless the user has cleared   *)
(* the binding: then a timer whose handle was lost may take a sensor off   *)
(* the screen that reports, and the timer running at that moment loses its *)
(* handle in turn.                                                         *)
ErasedOnlyWhenSilent ==
    [][cluster_id # {} /\ cluster_id' = {} /\ clears' = clears
         => silent = Timeout \/ (0 \in orphans /\ clears > 0)]_vars
=============================================================================
