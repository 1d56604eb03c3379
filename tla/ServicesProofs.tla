---------------------------- MODULE ServicesProofs ----------------------------
(***************************************************************************)
(* Proofs about three services of the main loop.                           *)
(*                                                                         *)
(* The outdoor sensor, for any sensors, clusters, timeout and number of    *)
(* clears.  That readings are erased only when the sensor is silent needs  *)
(* to know what the timer with a handle measures (TimerMeasuresSilence)    *)
(* and where timers without one come from (OrphansFromClears).             *)
(*                                                                         *)
(* The clock, for every period, transit and hold-up: at most one timer     *)
(* counts it, and the second that is due is the only one that it may be    *)
(* ahead or behind.                                                        *)
(*                                                                         *)
(* The lifetime, for any number of hours: the hours since it was saved are *)
(* those of a sixth of a day that has begun.                               *)
(***************************************************************************)
EXTENDS OutsideSensor, Clock, Lifetime, FiniteSetTheorems, TLAPS

-----------------------------------------------------------------------------
(* The outdoor sensor *)

Typed ==
    /\ src_addr \in Sensor \cup {NoSensor} /\ cluster_id \subseteq Cluster
    /\ value \in [Cluster -> Sensor \cup {NoSensor}]
    /\ orphans \subseteq 0..Timeout
    /\ silent \in 0..Timeout /\ clears \in 0..MaxClears

AtMostOne == timer = {} \/ \E t \in 0..Timeout : timer = {t}

TimerMeasuresSilence == \A t \in timer : t = Timeout - silent

OrphansFromClears == orphans # {} => clears > 0

IInv ==
    /\ Typed /\ AtMostOne /\ OneSensorShown /\ SilentIsErased
    /\ TimerMeasuresSilence /\ OrphansFromClears

LEMMA InitIInv == Init => IInv
  BY OutsideAssumption
  DEF Init, IInv, Typed, AtMostOne, OneSensorShown, Shown, SilentIsErased,
      TimerMeasuresSilence, OrphansFromClears

(* The owner reports, or the first sensor after the table was empty.       *)
LEMMA ReportStep ==
    ASSUME IInv, NEW s \in Sensor, NEW c \in Cluster, Report(s, c)
    PROVE  IInv'
<1> USE DEF IInv
<1>1. /\ src_addr' = IF cluster_id = {} THEN s ELSE src_addr
      /\ cluster_id' = cluster_id \cup {c} /\ value' = [value EXCEPT ![c] = s]
      /\ timer' = {Timeout} /\ silent' = 0 /\ orphans' = orphans /\ clears' = clears
      /\ cluster_id = {} \/ s = src_addr
  BY DEF Report, Accepted, bind_outside_update_timer
<1>2. Typed'
  BY <1>1, OutsideAssumption DEF Typed
<1>3. AtMostOne' /\ TimerMeasuresSilence' /\ OrphansFromClears'
  BY <1>1, OutsideAssumption DEF AtMostOne, TimerMeasuresSilence, OrphansFromClears
<1>4. OneSensorShown'
  <2> SUFFICES ASSUME NEW d \in Cluster, d \in cluster_id'
               PROVE  value'[d] \in {NoSensor, src_addr'}
    BY DEF OneSensorShown, Shown
  <2>1. src_addr' = s
    BY <1>1
  <2>2. CASE d = c
    BY <1>1, <2>1, <2>2 DEF Typed
  <2>3. CASE d # c
    <3>1. d \in cluster_id /\ s = src_addr /\ value'[d] = value[d]
      BY <1>1, <2>3 DEF Typed
    <3> QED
      BY <2>1, <3>1 DEF OneSensorShown, Shown
  <2> QED
    BY <2>2, <2>3
<1>5. SilentIsErased'
  BY <1>1, OutsideAssumption DEF SilentIsErased
<1> QED
  BY <1>2, <1>3, <1>4, <1>5

(* Both ways to empty the table lose the handle of a running timer.        *)
LEMMA EraseStep ==
    ASSUME IInv, NEW running \in SUBSET (0..Timeout), Erase(running),
           UNCHANGED <<value, silent>>, clears' \in 0..MaxClears,
           running # {} => clears' > 0
    PROVE  IInv'
  BY DEF IInv, Erase, Typed, AtMostOne, OneSensorShown, Shown, SilentIsErased,
         TimerMeasuresSilence, OrphansFromClears

LEMMA ClearStep == ASSUME IInv, Clear PROVE IInv'
<1>1. clears \in 0..MaxClears /\ clears < MaxClears /\ clears' = clears + 1
  BY DEF Clear, IInv, Typed
<1>2. clears' \in 0..MaxClears /\ clears' > 0
  BY <1>1, OutsideAssumption
<1>3. orphans \cup timer \in SUBSET (0..Timeout)
  BY DEF IInv, Typed, AtMostOne
<1>4. Erase(orphans \cup timer) /\ UNCHANGED <<value, silent>>
  BY DEF Clear
<1> QED
  BY <1>2, <1>3, <1>4, EraseStep

LEMMA TimerCbStep == ASSUME IInv, TimerCb PROVE IInv'
<1>1. /\ clears' = clears /\ clears' \in 0..MaxClears
      /\ UNCHANGED <<value, silent>>
  BY DEF TimerCb, IInv, Typed
<1>2. CASE 0 \in timer /\ Erase(orphans)
  <2>1. orphans \in SUBSET (0..Timeout) /\ (orphans # {} => clears' > 0)
    BY <1>1 DEF IInv, Typed, OrphansFromClears
  <2> QED
    BY <1>1, <1>2, <2>1, EraseStep
<1>3. CASE 0 \in orphans /\ Erase((orphans \ {0}) \cup timer)
  <2>1. (orphans \ {0}) \cup timer \in SUBSET (0..Timeout)
    BY DEF IInv, Typed, AtMostOne
  <2>2. clears' > 0
    BY <1>1, <1>3 DEF IInv, OrphansFromClears
  <2> QED
    BY <1>1, <1>3, <2>1, <2>2, EraseStep
<1> QED
  BY <1>2, <1>3 DEF TimerCb

(* Time never passes an expired timer, so that what a timer has left and   *)
(* what the sensor has been silent add up.                                 *)
LEMMA TickStep == ASSUME IInv, Tick PROVE IInv'
<1> USE DEF IInv
<1>1. /\ 0 \notin timer /\ 0 \notin orphans
      /\ timer' = {t - 1 : t \in timer} /\ orphans' = {t - 1 : t \in orphans}
      /\ silent' = IF silent < Timeout THEN silent + 1 ELSE silent
      /\ src_addr' = src_addr /\ cluster_id' = cluster_id /\ value' = value
      /\ clears' = clears
  BY DEF Tick, Sooner, table
<1>2. timer \subseteq 0..Timeout /\ orphans \subseteq 0..Timeout /\ silent \in 0..Timeout
  BY DEF Typed, AtMostOne
<1>3. Timeout \in Nat
  BY OutsideAssumption
<1>4. Typed'
  <2>1. silent' \in 0..Timeout
    BY <1>1, <1>2, <1>3
  <2>2. \A t \in orphans : t - 1 \in 0..Timeout
    BY <1>1, <1>2, <1>3
  <2> QED
    BY <1>1, <2>1, <2>2 DEF Typed
<1>5. AtMostOne'
  <2>1. CASE timer = {}
    BY <1>1, <2>1 DEF AtMostOne
  <2>2. CASE timer # {}
    <3>1. PICK t \in 0..Timeout : timer = {t}
      BY <2>2 DEF AtMostOne
    <3>2. timer' = {t - 1}
      BY <1>1, <3>1
    <3>3. t # 0
      BY <1>1, <3>1
    <3>4. t - 1 \in 0..Timeout
      BY <1>3, <3>3
    <3> QED
      BY <3>2, <3>4 DEF AtMostOne
  <2> QED
    BY <2>1, <2>2
<1>6. TimerMeasuresSilence'
  <2> SUFFICES ASSUME NEW t \in timer
               PROVE  t - 1 = Timeout - silent'
    BY <1>1 DEF TimerMeasuresSilence
  <2>1. t \in 0..Timeout /\ t # 0 /\ t = Timeout - silent
    BY <1>1, <1>2 DEF TimerMeasuresSilence
  <2> QED
    BY <1>1, <1>2, <1>3, <2>1
<1>7. SilentIsErased'
  <2> SUFFICES ASSUME cluster_id # {}
               PROVE  \E t \in timer' \cup orphans' : t <= Timeout - silent'
    BY <1>1 DEF SilentIsErased
  <2>1. PICK t \in timer \cup orphans : t <= Timeout - silent
    BY DEF SilentIsErased
  <2>2. t \in 0..Timeout /\ t # 0
    BY <1>1, <1>2
  <2>3. t - 1 <= Timeout - silent'
    BY <1>1, <1>2, <1>3, <2>1, <2>2
  <2>4. t - 1 \in timer' \cup orphans'
    BY <1>1
  <2> QED
    BY <2>3, <2>4
<1>8. OneSensorShown'
  BY <1>1 DEF OneSensorShown, Shown
<1>9. OrphansFromClears'
  BY <1>1 DEF OrphansFromClears
<1> QED
  BY <1>4, <1>5, <1>6, <1>7, <1>8, <1>9

LEMMA NextIInv == IInv /\ [Next]_vars => IInv'
<1> SUFFICES ASSUME IInv, [Next]_vars PROVE IInv'
  OBVIOUS
<1>1. ASSUME NEW s \in Sensor, NEW c \in Cluster, Report(s, c) PROVE IInv'
  BY <1>1, ReportStep
<1>2. CASE Clear
  BY <1>2, ClearStep
<1>3. CASE TimerCb
  BY <1>3, TimerCbStep
<1>4. CASE Tick
  BY <1>4, TickStep
<1>5. CASE UNCHANGED vars
  BY <1>5 DEF vars, table, IInv, Typed, AtMostOne, OneSensorShown, Shown, SilentIsErased,
              TimerMeasuresSilence, OrphansFromClears
<1> QED
  BY <1>1, <1>2, <1>3, <1>4, <1>5 DEF Next

-----------------------------------------------------------------------------

LEMMA TimerCardinality == AtMostOne => timer \subseteq 0..Timeout /\ Cardinality(timer) <= 1
<1> SUFFICES ASSUME AtMostOne
             PROVE  timer \subseteq 0..Timeout /\ Cardinality(timer) <= 1
  OBVIOUS
<1>1. CASE timer = {}
  BY <1>1, FS_EmptySet
<1>2. CASE timer # {}
  <2>1. PICK t \in 0..Timeout : timer = {t}
    BY <1>2 DEF AtMostOne
  <2>2. Cardinality({t}) = 1
    BY FS_Singleton
  <2> QED
    BY <2>1, <2>2
<1> QED
  BY <1>1, <1>2

(* At most one timer has a handle, and every variable has its type.        *)
THEOREM TypeCorrect == Spec => []TypeOK
<1>1. IInv => TypeOK
  BY TimerCardinality DEF IInv, Typed, TypeOK
<1> QED
  BY InitIInv, NextIInv, <1>1, PTL DEF Spec

(* The readings shown come from the one sensor that owns the table.        *)
THEOREM OneSensorShownHolds == Spec => []OneSensorShown
<1>1. IInv => OneSensorShown
  BY DEF IInv
<1> QED
  BY InitIInv, NextIInv, <1>1, PTL DEF Spec

(* A sensor that has gone silent is taken off the screen in two hours.     *)
THEOREM SilentIsErasedHolds == Spec => []SilentIsErased
<1>1. IInv => SilentIsErased
  BY DEF IInv
<1> QED
  BY InitIInv, NextIInv, <1>1, PTL DEF Spec

(* Time takes a sensor off the screen only if it has been silent, or if    *)
(* the binding has been cleared and a timer without a handle runs out.     *)
THEOREM ErasedOnlyWhenSilentHolds == Spec => ErasedOnlyWhenSilent
<1> DEFINE Justified == cluster_id # {} /\ cluster_id' = {} /\ clears' = clears
                          => silent = Timeout \/ (0 \in orphans /\ clears > 0)
<1>1. IInv /\ [Next]_vars => [Justified]_vars
  <2> SUFFICES ASSUME IInv, [Next]_vars,
                      cluster_id # {}, cluster_id' = {}, clears' = clears
               PROVE  silent = Timeout \/ (0 \in orphans /\ clears > 0)
    OBVIOUS
  <2>1. TimerCb
    <3>1. ASSUME NEW s \in Sensor, NEW c \in Cluster, Report(s, c) PROVE FALSE
      BY <3>1 DEF Report
    <3>2. ~Clear
      BY DEF Clear, IInv, Typed
    <3>3. ~Tick /\ ~(UNCHANGED vars)
      BY DEF Tick, table, vars
    <3> QED
      BY <3>1, <3>2, <3>3 DEF Next
  <2>2. CASE 0 \in timer
    <3>1. 0 = Timeout - silent /\ silent \in 0..Timeout
      BY <2>2 DEF IInv, TimerMeasuresSilence, Typed
    <3> QED
      BY <3>1, OutsideAssumption
  <2>3. CASE 0 \in orphans
    BY <2>3 DEF IInv, OrphansFromClears
  <2> QED
    BY <2>1, <2>2, <2>3 DEF TimerCb
<1> QED
  BY InitIInv, NextIInv, <1>1, PTL DEF Spec, ErasedOnlyWhenSilent

-----------------------------------------------------------------------------
(* The clock *)

(* The types the arithmetic needs.                                         *)
Numbers ==
    /\ offset \in Int /\ missed \in Nat /\ transit \in Nat /\ clocks \in Nat /\ due \in Nat
    /\ local \in {"set", "unknown", "garbage"}

Ages == \A a \in answers : a.age \in Nat

(* One timer is scheduled with the first answer, and none later.           *)
OneTimer == clocks = (IF time_sent THEN 1 ELSE 0) /\ due <= clocks

(* A clock that is set has its timer, and is behind only while a second is *)
(* due.                                                                    *)
Behind ==
    local = "set" => /\ time_sent
                     /\ -due <= offset + missed + transit
                     /\ offset + missed + transit <= 1 - due

ClockInv == Numbers /\ Ages /\ OneTimer /\ Behind

LEMMA ClockInvInit == ClockInit => ClockInv
<1> SUFFICES ASSUME ClockInit PROVE ClockInv
  OBVIOUS
<1>1. Numbers
  BY DEF ClockInit, Numbers
<1>2. OneTimer
  BY DEF ClockInit, OneTimer
<1>3. Behind
  BY DEF ClockInit, Behind
<1>4. Ages
  BY DEF ClockInit, Ages
<1> QED
  BY <1>1, <1>2, <1>3, <1>4 DEF ClockInv

LEMMA NextAges == Ages /\ [ClockNext]_clockVars => Ages'
<1> SUFFICES ASSUME Ages, [ClockNext]_clockVars, NEW b \in answers' PROVE b.age \in Nat
  BY DEF Ages
<1>1. CASE app_time_cmdCb
  BY <1>1 DEF app_time_cmdCb, Ages
<1>2. CASE Second
  <2>1. PICK a \in answers : b = [a EXCEPT !.age = @ + 1]
    BY <1>2 DEF Second
  <2>2. a.age \in Nat
    BY DEF Ages
  <2>3. b.age = a.age + 1
    BY <2>1
  <2> QED
    BY <2>2, <2>3
<1>3. CASE answers' = {}
  BY <1>3
<1>4. CASE answers' = answers
  BY <1>4 DEF Ages
<1> QED
  BY <1>1, <1>2, <1>3, <1>4
     DEF ClockNext, clockVars, app_clockCb, app_zclReadRspCmd, LoseAnswer, JoinOrLeave, Restart, Steady

(* Each step, for the numbers alone.                                       *)
LEMMA ClockInvNext == ClockInv /\ [ClockNext]_clockVars => ClockInv'
<1> SUFFICES ASSUME Numbers, Ages, OneTimer, Behind, [ClockNext]_clockVars
             PROVE  Numbers' /\ OneTimer' /\ Behind'
  BY NextAges DEF ClockInv
<1> USE DEF Numbers, OneTimer, Behind
<1>1. CASE app_clockCb
  BY <1>1 DEF app_clockCb
<1>2. CASE app_time_cmdCb
  BY <1>2 DEF app_time_cmdCb
<1>3. CASE app_zclReadRspCmd
  <2>1. PICK a \in answers : /\ local' = IF a.knows THEN "set" ELSE "unknown"
                             /\ offset' = (IF a.knows THEN -a.age ELSE 0)
                             /\ transit' = a.age /\ missed' = 0
    BY <1>3 DEF app_zclReadRspCmd
  <2>2. a.age \in Nat
    BY DEF Ages
  <2>3. time_sent' = TRUE /\ clocks' = 1 /\ due' = due
    BY <1>3 DEF app_zclReadRspCmd, set_time_sent
  <2>4. transit' \in Nat /\ offset' \in Int /\ missed' = 0
    BY <2>1, <2>2
  <2>5. local' = "set" => offset' + missed' + transit' = 0
    BY <2>1, <2>2
  <2>6. local' \in {"set", "unknown"}
    BY <2>1
  <2>7. due' \in {0, 1}
    BY <2>3
  <2>8. Numbers' /\ OneTimer'
    BY <2>3, <2>4, <2>6
  <2>9. Behind'
    <3>1. local' = "set" => time_sent'
      BY <2>3, Zenon
    <3>2. local' = "set" => /\ -due' <= offset' + missed' + transit'
                           /\ offset' + missed' + transit' <= 1 - due'
      BY <2>5, <2>7, SMT
    <3> QED
      BY <3>1, <3>2, Zenon
  <2> QED
    BY <2>8, <2>9
<1>4. CASE Second
  <2>1. UNCHANGED <<local, transit, time_sent, clocks>> /\ due' = clocks
    BY <1>4 DEF Second
  <2>2. offset' = (IF local = "set" THEN offset - 1 ELSE 0)
    BY <1>4 DEF Second
  <2>3. missed' = IF due > 0 THEN missed + 1 ELSE missed
    BY <1>4 DEF Second
  <2> QED
    BY <2>1, <2>2, <2>3
<1>5. CASE LoseAnswer
  BY <1>5 DEF LoseAnswer
<1>6. CASE JoinOrLeave
  BY <1>6 DEF JoinOrLeave
<1>7. CASE Restart
  BY <1>7 DEF Restart
<1>8. CASE Steady
  BY <1>8 DEF Steady
<1>9. CASE UNCHANGED clockVars
  BY <1>9 DEF clockVars
<1> QED
  BY <1>1, <1>2, <1>3, <1>4, <1>5, <1>6, <1>7, <1>8, <1>9 DEF ClockNext

LEMMA ClockInvInStep == ClockInv => ClockInStep
  BY DEF ClockInv, Numbers, OneTimer, Behind, ClockInStep

(* However often the hub answers, loses, forgets and gives the time again, *)
(* the clock is in step with it.                                           *)
THEOREM ClockAlwaysInStep == ClockSpec => []ClockInStep
  BY ClockInvInit, ClockInvNext, ClockInvInStep, PTL DEF ClockSpec
-----------------------------------------------------------------------------
(* The lifetime *)

(* The record in flash, if any, is no newer than the counter, and this has *)
(* not passed a multiple of six since.                                     *)
SixHours ==
    /\ counter \in Nat /\ flash \subseteq Nat
    /\ \A n \in flash : n <= counter /\ counter <= n - (n % 6) + 5
    /\ \A m, n \in flash : m = n

LEMMA NotPassed ==
  ASSUME NEW n \in Nat, NEW c \in Nat, c <= n - (n % 6) + 5, n <= c, (c + 1) % 6 # 0
  PROVE  c + 1 <= n - (n % 6) + 5
  OBVIOUS

LEMMA JustSaved == \A n \in Nat : n <= n - (n % 6) + 5
  OBVIOUS

LEMMA AtMostFive ==
  ASSUME NEW n \in Nat, NEW c \in Nat, c <= n - (n % 6) + 5 PROVE c - n <= 5
  OBVIOUS

LEMMA InitSixHours == LifetimeInit => SixHours
  BY DEF LifetimeInit, SixHours

LEMMA NextSixHours == SixHours /\ [LifetimeNext]_lifetimeVars => SixHours'
<1> SUFFICES ASSUME SixHours, [LifetimeNext]_lifetimeVars PROVE SixHours'
  OBVIOUS
<1>1. CASE app_lifetimeCb
  <2>1. counter' = counter + 1 /\ counter' <= MaxHours
    BY <1>1, LifetimeAssumption DEF app_lifetimeCb, SixHours
  <2>2. CASE counter' \in SaveHours
    <3>1. flash' = {}
      BY <1>1, <2>2 DEF app_lifetimeCb, Erased
    <3> QED
      BY <2>1, <3>1 DEF SixHours
  <2>3. CASE counter' \notin SaveHours
    <3>1. flash' = flash
      BY <1>1, <2>3 DEF app_lifetimeCb
    <3>2. (counter + 1) % 6 # 0
      BY <2>1, <2>3, LifetimeAssumption DEF SaveHours, SixHours
    <3>3. ASSUME NEW n \in flash PROVE n <= counter' /\ counter' <= n - (n % 6) + 5
      <4>1. n \in Nat /\ counter \in Nat /\ n <= counter /\ counter <= n - (n % 6) + 5
        BY DEF SixHours
      <4>2. counter + 1 <= n - (n % 6) + 5
        BY <3>2, <4>1, NotPassed
      <4> QED
        BY <2>1, <4>1, <4>2
    <3> QED
      BY <2>1, <3>1, <3>3 DEF SixHours
  <2> QED
    BY <2>2, <2>3
<1>2. CASE Close
  BY <1>2 DEF Close, Erased, SixHours
<1>3. CASE Written
  <2>1. flash' = {counter} /\ counter' = counter
    BY <1>3 DEF Written
  <2>2. counter <= counter - (counter % 6) + 5
    BY JustSaved DEF SixHours
  <2> QED
    BY <2>1, <2>2 DEF SixHours
<1>4. CASE Boot
  <2>1. CASE flash = {} /\ counter' = 0 /\ flash' = flash
    BY <2>1 DEF SixHours
  <2>2. CASE counter' \in flash /\ flash' = flash
    <3>1. counter' \in Nat
      BY <2>2 DEF SixHours
    <3>2. counter' <= counter' - (counter' % 6) + 5
      BY <3>1, JustSaved
    <3>3. \A n \in flash' : n = counter'
      BY <2>2 DEF SixHours
    <3> QED
      BY <2>2, <3>1, <3>2, <3>3 DEF SixHours
  <2> QED
    BY <1>4, <2>1, <2>2 DEF Boot
<1>5. CASE UNCHANGED lifetimeVars
  BY <1>5 DEF lifetimeVars, SixHours
<1> QED
  BY <1>1, <1>2, <1>3, <1>4, <1>5 DEF LifetimeNext

LEMMA KeptByStep ==
  SixHours /\ [LifetimeNext]_lifetimeVars
    => [counter' < counter => counter - counter' <= 5 \/ flash = {}]_lifetimeVars
<1> SUFFICES ASSUME SixHours, LifetimeNext, counter' < counter
             PROVE  counter - counter' <= 5 \/ flash = {}
  BY DEF lifetimeVars
<1>1. CASE Boot
  <2>1. CASE counter' \in flash
    BY <2>1, AtMostFive DEF SixHours
  <2> QED
    BY <1>1, <2>1 DEF Boot
<1>2. CASE app_lifetimeCb
  BY <1>2 DEF app_lifetimeCb, SixHours
<1>3. CASE Close \/ Written
  BY <1>3 DEF Close, Written, SixHours
<1> QED
  BY <1>1, <1>2, <1>3 DEF LifetimeNext

(* A reset at any moment forgets at most five hours, unless it finds the   *)
(* sector erased.                                                          *)
THEOREM LifetimeAlwaysKept == LifetimeSpec => LifetimeKept
  BY InitSixHours, NextSixHours, KeptByStep, PTL DEF LifetimeSpec, LifetimeKept
=============================================================================
