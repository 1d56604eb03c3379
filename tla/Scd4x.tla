------------------------------- MODULE Scd4x -------------------------------
(***************************************************************************)
(* The CO2 sensor SCD40 and its driver (app_scd4x.c, scd4x/scd4x.c).       *)
(*                                                                         *)
(* Every command goes over I2C and may be lost: the sensor does not        *)
(* acknowledge it and has not seen it.  A handler sends several commands   *)
(* and mostly ignores what becomes of each, so the sensor, the driver's    *)
(* picture of it and the settings may part.  An operator on the state      *)
(* yields the set of states it may end in; Then chains them.               *)
(***************************************************************************)
EXTENDS Integers

CONSTANTS
    Pressure,         \* values of the pressure attribute
    UnknownPressure,  \* 0x8000, the initial value of pressure_pa
    DefaultPressure,  \* what the sensor assumes after it was reinitialised
    Correction,       \* results of a forced calibration, and 0
    Garbage           \* what an uninitialised int16_t may hold

ASSUME Scd4xAssumption ==
    /\ UnknownPressure \notin Pressure /\ DefaultPressure \notin Pressure
    /\ Correction \subseteq Int /\ 0 \in Correction /\ Garbage \subseteq Int

VARIABLES
    s,          \* sensor and driver, see State
    pressure,   \* the pressure attribute, written by app_bme280_measurement
    good        \* no command is lost

scd4xVars == <<s, pressure, good>>

State ==
    [mode : {"idle", "periodic"},   \* the sensor
     ready : BOOLEAN,               \* it has a reading that was not fetched
     ambient : Pressure \cup {DefaultPressure},      \* its ambient pressure
     correction : Correction,       \* its forced calibration: 0x8000 less the
                                    \* word that it answered with
     dev : {"none", "linked", "cut"},  \* dev and the function pointers in it:
                                    \* "cut" when dev is set and they are NULL
     periodic_runnig : BOOLEAN,
     pressure_pa : Pressure \cup {UnknownPressure},
     err_cnt : 0..1,
     co2_frc : Correction \cup Garbage,  \* config.co2_frc and its attribute
     ok : BOOLEAN,                  \* the last command returned SCD4X_OK
     fault : BOOLEAN,               \* a NULL pointer has been called
     taken : BOOLEAN,               \* observer: the last measurement has read
     misused : BOOLEAN]             \* observer: the sensor got a command that
                                    \* it does not accept while it measures

Scd4xTypeOK == s \in State /\ pressure \in Pressure /\ good \in BOOLEAN

-----------------------------------------------------------------------------
(* Commands *)

Then(states, F(_)) == UNION {IF t.fault THEN {t} ELSE F(t) : t \in states}

Lost(t) == {[t EXCEPT !.ok = FALSE]}

\* a command turns t into u, is lost, or finds no driver to send it
Command(t, u) ==
    CASE t.dev = "none"   -> Lost(t)
      [] t.dev = "cut"    -> {[t EXCEPT !.fault = TRUE]}
      [] t.dev = "linked" -> {[u EXCEPT !.ok = TRUE]} \cup (IF good THEN {} ELSE Lost(t))

\* a command for an idle sensor
IdleCommand(t, u) ==
    IF t.dev = "linked" /\ t.mode = "periodic"
    THEN Lost([t EXCEPT !.misused = TRUE])
    ELSE Command(t, u)

scd4x_cmd_stop_periodic(t) == Command(t, [t EXCEPT !.mode = "idle", !.ready = FALSE])

scd4x_cmd_start_periodic(t) == Command(t, [t EXCEPT !.mode = "periodic"])

scd4x_cmd_reinit(t) ==
    IF t.periodic_runnig THEN Lost(t)
    ELSE IdleCommand(t, [t EXCEPT !.ambient = DefaultPressure])

scd4x_cmd_get_ambient_pressure(t) ==
    IF t.periodic_runnig THEN Lost(t) ELSE IdleCommand(t, t)

\* the pressure of the last call is sent, not the one just read
Faulty_set_pressure(t) ==
    IF pressure = t.pressure_pa THEN {t}
    ELSE LET u == [t EXCEPT !.pressure_pa = pressure]
         IN  Command(u, [u EXCEPT !.ambient = IF t.pressure_pa = UnknownPressure
                                              THEN pressure ELSE t.pressure_pa])

(* app_scd4x_set_pressure: only a changed pressure is sent, and it is      *)
(* remembered whether or not the sensor got it.                            *)
app_scd4x_set_pressure(t) ==
    IF pressure = t.pressure_pa THEN {t}
    ELSE LET u == [t EXCEPT !.pressure_pa = pressure]
         IN  Command(u, [u EXCEPT !.ambient = pressure])

-----------------------------------------------------------------------------
(* Initialisation *)

\* the driver keeps its picture of the mode
FaultyLinked(t) ==
    LET u == [t EXCEPT !.err_cnt = 0]
    IN  {[u EXCEPT !.dev = "linked"]}
            \cup (IF good THEN {} ELSE {[u EXCEPT !.dev = IF @ = "none" THEN @ ELSE "cut"]})

(* The function pointers are cleared, and set if the sensor is found; dev  *)
(* is set by scd4x_init and never cleared.                                 *)
Linked(t) ==
    LET u == [t EXCEPT !.err_cnt = 0, !.periodic_runnig = TRUE]
    IN  {[u EXCEPT !.dev = "linked"]}
            \cup (IF good THEN {} ELSE {[u EXCEPT !.dev = IF @ = "none" THEN @ ELSE "cut"]})

Stopped(t) ==
    {[u EXCEPT !.periodic_runnig = @ /\ ~u.ok] : u \in scd4x_cmd_stop_periodic(t)}

\* the sensor is left as it is after its reset
FaultyStarted(t) == {t}

Started(t) ==
    {[u EXCEPT !.periodic_runnig = @ \/ u.ok] : u \in scd4x_cmd_start_periodic(t)}

app_scd4x_init(t) ==
    Then(Then(Then(Then(Then(Linked(t), Stopped), scd4x_cmd_reinit),
              app_scd4x_set_pressure), scd4x_cmd_get_ambient_pressure), Started)

-----------------------------------------------------------------------------
(* The handlers *)

(* scd4x_cmd_read: a reading must be ready.  Errors are counted from one   *)
(* initialisation to the next, not from the last success.                  *)
scd4x_cmd_read(t) ==
    IF t.dev = "linked" /\ t.ready /\ t.mode = "periodic"
    THEN {[u EXCEPT !.taken = u.ok, !.err_cnt = IF u.ok THEN @ ELSE @ + 1] :
             u \in Command(t, [t EXCEPT !.ready = FALSE])}
    ELSE {[u EXCEPT !.taken = FALSE, !.err_cnt = @ + 1] : u \in Command(t, t)}

Repaired(t) == IF t.err_cnt = 2 THEN app_scd4x_init(t) ELSE {t}

app_scd4x_measurement ==
    /\ ~s.fault
    /\ s' \in Then(Then(app_scd4x_set_pressure(s), scd4x_cmd_read), Repaired)
    /\ UNCHANGED <<pressure, good>>

(* An idle sensor carries the calibration out, or answers 0xFFFF; either   *)
(* answer may be lost.  Without a correction for an answer the result is 0.*)
scd4x_cmd_forced_calibration(t) ==
    LET done == {[t EXCEPT !.correction = c] : c \in Correction \ {0}}
        unanswered == IF t.dev = "linked" /\ t.mode = "idle"
                      THEN {t} \cup (IF good THEN {} ELSE done) ELSE {}
        all == (UNION {IdleCommand(t, u) : u \in done}) \cup (UNION {Lost(u) : u \in unanswered})
    IN  {[u EXCEPT !.co2_frc = IF u.ok THEN u.correction ELSE 0] : u \in all}

\* the calibration does not stop the sensor first
Faulty_forced_calibration ==
    /\ ~s.fault
    /\ s' \in Then(scd4x_cmd_forced_calibration(s), scd4x_cmd_start_periodic)
    /\ UNCHANGED <<pressure, good>>

(* app_scd4x_forced_calibration: the local frc is set by the calibration   *)
(* only, and saved in any case.                                            *)
app_scd4x_forced_calibration ==
    /\ ~s.fault
    /\ s' \in Then(scd4x_cmd_stop_periodic(s),
                   LAMBDA t : IF t.ok
                              THEN Then(scd4x_cmd_forced_calibration(t), scd4x_cmd_start_periodic)
                              ELSE {[t EXCEPT !.co2_frc = g] : g \in Garbage})
    /\ UNCHANGED <<pressure, good>>

scd4x_factory_reset(t) ==
    {[u EXCEPT !.co2_frc = IF u.ok THEN 0 ELSE @] : u \in IdleCommand(t, [t EXCEPT !.correction = 0])}

app_scd4x_factory_reset ==
    /\ ~s.fault
    /\ s' \in Then(scd4x_cmd_stop_periodic(s),
                   LAMBDA t : IF t.ok
                              THEN Then(scd4x_factory_reset(t), scd4x_cmd_start_periodic)
                              ELSE {t})
    /\ UNCHANGED <<pressure, good>>

-----------------------------------------------------------------------------
(* The first call of app_scd4x_init, at boot: the sensor may be measuring  *)
(* already, from before the monitor restarted.                             *)
Booted(t) ==
    Then({[t EXCEPT !.dev = "none", !.pressure_pa = UnknownPressure, !.err_cnt = 0, !.fault = FALSE,
                    !.taken = FALSE, !.periodic_runnig = TRUE]}, app_scd4x_init)

Scd4xInit ==
    /\ pressure \in Pressure /\ good \in BOOLEAN
    /\ s \in Booted([mode |-> "idle", ready |-> FALSE, ambient |-> DefaultPressure,
                     correction |-> 0, dev |-> "none", periodic_runnig |-> TRUE,
                     pressure_pa |-> UnknownPressure, err_cnt |-> 0, co2_frc |-> 0,
                     ok |-> FALSE, fault |-> FALSE, taken |-> FALSE, misused |-> FALSE])

Restart == s' \in Booted(s) /\ UNCHANGED <<pressure, good>>

(* A sensor that measures has a new reading every five seconds.            *)
Sample ==
    /\ s.mode = "periodic" /\ ~s.ready
    /\ s' = [s EXCEPT !.ready = TRUE]
    /\ UNCHANGED <<pressure, good>>

SetAttrPressure == pressure' \in Pressure \ {pressure} /\ UNCHANGED <<s, good>>

BusChange == good' = ~good /\ UNCHANGED <<s, pressure>>

Scd4xNext ==
    \/ app_scd4x_measurement \/ app_scd4x_forced_calibration \/ app_scd4x_factory_reset
    \/ Restart \/ Sample \/ SetAttrPressure \/ BusChange

Scd4xSpec == Scd4xInit /\ [][Scd4xNext]_scd4xVars

(* The sensors are read over and over (app_mesurementCb), with a period of *)
(* at least READ_SENSORS_PERIOD_MIN, the five seconds the sensor takes.    *)
Scd4xFairSpec == Scd4xSpec /\ WF_scd4xVars(app_scd4x_measurement) /\ WF_scd4xVars(Sample)

-----------------------------------------------------------------------------
(* Properties *)

(* Whichever commands were lost, the sensor never gets one that it does    *)
(* not accept while it measures (SCD4X_ERR_MODE_FAIL): when the driver     *)
(* takes it to be idle it is, although calibration and factory reset stop  *)
(* and start it without telling periodic_runnig.                           *)
ModeRespected == ~s.misused

Disturbed == Restart \/ app_scd4x_forced_calibration \/ app_scd4x_factory_reset

(* A sensor that is left idle, or was not found, by lost commands does not *)
(* stay so: when the bus works again, and the user leaves it alone, two    *)
(* failed measurements initialise it, and readings go on.                  *)
Recovers == <>[](good /\ ~s.fault) /\ <>[][~Disturbed]_scd4xVars => []<>s.taken

(* A reading is taken at the pressure that the BME280 has measured         *)
(* (README, CO2), provided that no command is lost and that the pressure   *)
(* has changed or the sensor still has the one it was last given.  A       *)
(* pressure that was lost, or dropped by a reinitialisation, is not sent   *)
(* again until the next change: this change puts it right at once.         *)
PressureApplied ==
    [][app_scd4x_measurement /\ good /\ s'.taken
         /\ (pressure # s.pressure_pa \/ s.ambient = s.pressure_pa)
       => s'.ambient = pressure]_scd4xVars

(* On a bus that works, a forced calibration of a known sensor gives a     *)
(* setting "Frc co2 correction" that is the correction in the sensor       *)
(* (README, settings), and measuring goes on, whatever state sensor and    *)
(* driver were in.  If the sensor refuses, although it is idle when it is  *)
(* asked, it keeps the correction it has had, and the setting says 0.      *)
FrcIsResult ==
    [][app_scd4x_forced_calibration /\ good /\ s.dev = "linked"
       => /\ \/ s'.co2_frc = s'.correction
             \/ s'.co2_frc = 0 /\ s'.correction = s.correction /\ s'.misused = s.misused
          /\ s'.mode = "periodic"]_scd4xVars

(* The driver calls no function pointer that is NULL: like scd4x_init, it  *)
(* is guarded against a device without them (SCD4X_ERR_NULL_PTR).          *)
NeverNullCall == ~s.fault
=============================================================================
