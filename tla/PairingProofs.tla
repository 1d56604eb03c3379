--------------------------- MODULE PairingProofs ---------------------------
(***************************************************************************)
(* The pairing window for any times, jitters, presses and Identify         *)
(* commands: the LED does not flicker over a closed window, an open window *)
(* is worked on, and the retry chain ends with it.                         *)
(***************************************************************************)
EXTENDS Pairing, FiniteSetTheorems, TLAPS

-----------------------------------------------------------------------------
(* Types *)

(* A timer with a handle is pending once or not at all.                   *)
Single(S) == \A m, n \in S : m = n

(* TypeOK by groups of variables.                                         *)
ButtonType == button \in {"up", "pressed", "held"} /\ downFor \in 0..HoldTime

NetworkType ==
    /\ joined \in BOOLEAN /\ factoryNew \in BOOLEAN
    /\ leaving \in BOOLEAN /\ refused \in BOOLEAN /\ steering \in BOOLEAN
    /\ bdb \in Procedures /\ mode \in {"steer", "bind"} /\ findBind \in BOOLEAN

TimersType ==
    /\ windows \subseteq 0..Window
    /\ steerTimer \subseteq Nat /\ Single(steerTimer)
    /\ identify \subseteq Nat /\ Single(identify)
    /\ findBindTimer \subseteq 0..FindBindDelay
    /\ bindTimer \subseteq 0..FindBindTime /\ Single(bindTimer)

LedType ==
    /\ effect \in {"none", "press", "pairing", "joined", "identify"}
    /\ effectLeft \in Nat /\ shown \in Colours /\ ori \in Colours

CountType ==
    /\ sinceHold \in 0..Window /\ late \in Nat
    /\ presses \in 0..MaxPresses /\ findBinds \in 0..MaxFindBinds
    /\ identifies \in 0..MaxIdentify

LEMMA SingleCard == ASSUME NEW S, Single(S) PROVE Cardinality(S) <= 1
<1>1. CASE S = {}
  BY <1>1, FS_EmptySet
<1>2. CASE S # {}
  <2>1. PICK n \in S : TRUE
    BY <1>2
  <2>2. S = {n}
    BY <2>1 DEF Single
  <2> QED
    BY <2>2, FS_Singleton
<1> QED
  BY <1>1, <1>2

(* Each step keeps the types of each group.                                *)
LEMMA ButtonTypeStep == ButtonType /\ [Next]_vars => ButtonType'
  BY PairingAssumption
     DEF ButtonType, vars, network, find, led, observers, inputs, Next, Timers, Press, Hold, Release,
         WindowTimer, SteerTimer, FindBindTimer, LedTimer, IdentifyTimer, EpdRefresh, BdbTask,
         AttemptFails, Commissioned, FindBindDone, LeaveCnf, Identify, Tick

LEMMA NetworkTypeStep == NetworkType /\ [Next]_vars => NetworkType'
<1> SUFFICES ASSUME NetworkType, [Next]_vars PROVE NetworkType'
  OBVIOUS
<1> USE DEF NetworkType, Procedures, network, find
<1>1. CASE Press \/ Hold \/ Release
  BY <1>1 DEF Press, Hold, Release
<1>2. CASE WindowTimer \/ LedTimer \/ IdentifyTimer \/ EpdRefresh \/ Tick
  BY <1>2 DEF WindowTimer, LedTimer, IdentifyTimer, EpdRefresh, Tick
<1>3. CASE SteerTimer \/ FindBindTimer
  BY <1>3 DEF SteerTimer, FindBindTimer, bdb_networkSteerStart
<1>4. CASE BdbTask \/ AttemptFails
  BY <1>4 DEF BdbTask, AttemptFails, FindBindTarget
<1>5. CASE Commissioned \/ FindBindDone
  BY <1>5 DEF Commissioned, FindBindDone, FindBindTarget, Success
<1>6. CASE LeaveCnf
  BY <1>6 DEF LeaveCnf, bdb_networkSteerStart
<1>7. CASE Identify
  BY <1>7 DEF Identify
<1>8. CASE UNCHANGED vars
  BY <1>8 DEF vars
<1> QED
  BY <1>1, <1>2, <1>3, <1>4, <1>5, <1>6, <1>7, <1>8 DEF Next, Timers

LEMMA LedTypeStep == LedType /\ [Next]_vars => LedType'
  BY PairingAssumption
     DEF LedType, vars, network, find, led, observers, inputs, Next, Timers, Press, Hold, Release,
         WindowTimer, SteerTimer, FindBindTimer, LedTimer, IdentifyTimer, EpdRefresh, BdbTask,
         AttemptFails, Commissioned, FindBindDone, LeaveCnf, Identify, Tick,
         LedStart, led_blink_stop, FindBindTarget, Success, Retry, Colours

LEMMA CountTypeStep == CountType /\ [Next]_vars => CountType'
  BY PairingAssumption
     DEF CountType, vars, network, find, led, observers, inputs, Next, Timers, Press, Hold, Release,
         WindowTimer, SteerTimer, FindBindTimer, LedTimer, IdentifyTimer, EpdRefresh, BdbTask,
         AttemptFails, Commissioned, FindBindDone, LeaveCnf, Identify, Tick, bdb_networkSteerStart

(* Time takes a tick off a timer that is not due.                         *)
LEMMA SingleSooner ==
  ASSUME NEW S, S \subseteq Nat, Single(S), 0 \notin S
  PROVE  Sooner(S) \subseteq Nat /\ Single(Sooner(S))
  BY DEF Sooner, Single

LEMMA SingleOne == Single({}) /\ \A n : Single({n})
  BY DEF Single

LEMMA TimersTypeStep == TimersType /\ [Next]_vars => TimersType'
<1> SUFFICES ASSUME TimersType, [Next]_vars PROVE TimersType'
  OBVIOUS
<1> USE PairingAssumption DEF TimersType, find
<1>1. CASE Hold
  BY <1>1 DEF Hold
<1>2. CASE Release
  <2>1. /\ UNCHANGED <<windows, steerTimer, identify, bindTimer>>
        /\ findBindTimer' \subseteq findBindTimer \cup {FindBindDelay}
    BY <1>2 DEF Release
  <2> QED
    BY <2>1
<1>3. CASE WindowTimer
  BY <1>3 DEF WindowTimer
<1>4. CASE SteerTimer
  BY <1>4 DEF SteerTimer, Single
<1>5. CASE FindBindTimer
  BY <1>5 DEF FindBindTimer
<1>6. CASE BdbTask
  <2>1. /\ UNCHANGED <<windows, findBindTimer>>
        /\ steerTimer' = steerTimer \/ \E d \in Delays : steerTimer' = {d}
    BY <1>6 DEF BdbTask, Retry
  <2>2. /\ bindTimer' = bindTimer \/ bindTimer' = {FindBindTime}
        /\ identify' = identify \/ identify' = {FindBindTime}
    BY <1>6 DEF BdbTask, FindBindTarget
  <2>3. bindTimer' \subseteq 0..FindBindTime /\ identify' \subseteq Nat
    <3>1. {FindBindTime} \subseteq 0..FindBindTime /\ {FindBindTime} \subseteq Nat
      OBVIOUS
    <3>2. bindTimer \subseteq 0..FindBindTime /\ identify \subseteq Nat
      OBVIOUS
    <3> QED
      BY <2>2, <3>1, <3>2, Zenon
  <2>4. Single(bindTimer') /\ Single(identify') /\ Single(steerTimer')
    BY <2>1, <2>2, SingleOne, Zenon
  <2> QED
    BY <2>1, <2>3, <2>4
<1>7. CASE AttemptFails
  BY <1>7 DEF AttemptFails, Retry, Single
<1>8. CASE Commissioned
  <2>1. /\ UNCHANGED <<windows, findBindTimer>>
        /\ steerTimer' = steerTimer \/ steerTimer' = {}
    BY <1>8 DEF Commissioned, Success
  <2>2. /\ bindTimer' = bindTimer \/ bindTimer' = {FindBindTime}
        /\ identify' = identify \/ identify' = {FindBindTime}
    BY <1>8 DEF Commissioned, FindBindTarget
  <2>3. bindTimer' \subseteq 0..FindBindTime /\ identify' \subseteq Nat
    <3>1. {FindBindTime} \subseteq 0..FindBindTime /\ {FindBindTime} \subseteq Nat
      OBVIOUS
    <3>2. bindTimer \subseteq 0..FindBindTime /\ identify \subseteq Nat
      OBVIOUS
    <3> QED
      BY <2>2, <3>1, <3>2, Zenon
  <2>4. Single(bindTimer') /\ Single(identify') /\ Single(steerTimer')
    BY <2>1, <2>2, SingleOne, Zenon
  <2> QED
    BY <2>1, <2>3, <2>4
<1>9. CASE FindBindDone
  BY <1>9 DEF FindBindDone, Success, Single
<1>10. CASE Identify
  BY <1>10 DEF Identify, Single
<1>11. CASE IdentifyTimer
  BY <1>11 DEF IdentifyTimer, Single
<1>12. CASE Tick
  <2>1. /\ 0 \notin windows /\ 0 \notin steerTimer /\ 0 \notin identify
        /\ 0 \notin findBindTimer /\ 0 \notin bindTimer
    BY <1>12 DEF Tick
  <2>2. /\ windows' = Sooner(windows) /\ steerTimer' = Sooner(steerTimer)
        /\ identify' = Sooner(identify)
        /\ findBindTimer' = Sooner(findBindTimer) /\ bindTimer' = Sooner(bindTimer)
    BY <1>12 DEF Tick
  <2>3. /\ Sooner(windows) \subseteq 0..Window /\ Sooner(bindTimer) \subseteq 0..FindBindTime
        /\ Sooner(findBindTimer) \subseteq 0..FindBindDelay
    BY <2>1 DEF Sooner
  <2>4. Single(Sooner(bindTimer))
    <3>1. bindTimer \subseteq Nat
      OBVIOUS
    <3> QED
      BY <2>1, <3>1, SingleSooner
  <2> QED
    BY <2>1, <2>2, <2>3, <2>4, SingleSooner
<1>13. CASE UNCHANGED <<windows, steerTimer, identify, findBindTimer, bindTimer>>
  BY <1>13 DEF Single
<1> QED
  BY <1>1, <1>2, <1>3, <1>4, <1>5, <1>6, <1>7, <1>8, <1>9, <1>10, <1>11, <1>12, <1>13
     DEF Next, Timers, vars, find, Press, LedTimer, EpdRefresh, LeaveCnf

LEMMA InitType ==
  Init => ButtonType /\ NetworkType /\ TimersType /\ LedType /\ CountType
<1> SUFFICES ASSUME Init
             PROVE  ButtonType /\ NetworkType /\ TimersType /\ LedType /\ CountType
  OBVIOUS
<1>1. ButtonType
  BY PairingAssumption DEF Init, ButtonType
<1>2. NetworkType
  BY DEF Init, NetworkType, Procedures
<1>3. TimersType
  BY PairingAssumption DEF Init, TimersType, Single
<1>4. LedType
  BY DEF Init, LedType, Colours
<1>5. CountType
  BY PairingAssumption DEF Init, CountType
<1> QED
  BY <1>1, <1>2, <1>3, <1>4, <1>5

LEMMA TypesTogether ==
  ButtonType /\ NetworkType /\ TimersType /\ LedType /\ CountType => TypeOK
  BY SingleCard DEF ButtonType, NetworkType, TimersType, LedType, CountType, TypeOK

(* The variables keep their types for any times: no timer is left below    *)
(* zero, and one that has a handle is pending at most once.                *)
THEOREM TypeCorrect == Spec => []TypeOK
  BY InitType, ButtonTypeStep, NetworkTypeStep, TimersTypeStep, LedTypeStep, CountTypeStep,
     TypesTogether, PTL DEF Spec

-----------------------------------------------------------------------------
(* The window *)

(* A retry that was made after the window had closed was the last one.     *)
LateIsLast == late \in {0, 1} /\ (late = 1 => ~steering /\ steerTimer = {})

(* While the window is open the device is new, or on a network that it has *)
(* not left yet, so that no press makes the stack rejoin one.              *)
WindowIsNew ==
    /\ bdb \in Procedures
    /\ steering => (factoryNew \/ joined) /\ bdb # "rejoining"

IInv == FlickerMeansOpen /\ LateIsLast /\ WindowIsNew /\ OpenWindowWorks

LEMMA InitIInv == Init => IInv
  BY DEF Init, IInv, FlickerMeansOpen, LateIsLast, WindowIsNew, OpenWindowWorks, Procedures

-----------------------------------------------------------------------------

LEMMA FlickerStep == FlickerMeansOpen /\ [Next]_vars => FlickerMeansOpen'
<1> SUFFICES ASSUME FlickerMeansOpen, [Next]_vars PROVE FlickerMeansOpen'
  OBVIOUS
<1> USE DEF FlickerMeansOpen, LedStart, led_blink_stop, led
<1>1. CASE Press
  BY <1>1 DEF Press
<1>2. CASE Hold
  BY <1>2 DEF Hold
<1>3. CASE Release
  BY <1>3 DEF Release
<1>4. CASE WindowTimer
  BY <1>4 DEF WindowTimer
<1>5. CASE SteerTimer
  BY <1>5 DEF SteerTimer
<1>6. CASE FindBindTimer
  BY <1>6 DEF FindBindTimer
<1>7. CASE LedTimer
  BY <1>7 DEF LedTimer
<1>8. CASE IdentifyTimer
  BY <1>8 DEF IdentifyTimer
<1>9. CASE EpdRefresh
  BY <1>9 DEF EpdRefresh
<1>10. CASE BdbTask
  BY <1>10 DEF BdbTask, FindBindTarget
<1>11. CASE AttemptFails
  BY <1>11 DEF AttemptFails
<1>12. CASE Commissioned
  BY <1>12 DEF Commissioned, FindBindTarget, Success
<1>13. CASE FindBindDone
  BY <1>13 DEF FindBindDone, Success
<1>14. CASE LeaveCnf
  BY <1>14 DEF LeaveCnf
<1>15. CASE Identify
  BY <1>15 DEF Identify
<1>16. CASE Tick
  BY <1>16 DEF Tick
<1>17. CASE UNCHANGED vars
  BY <1>17 DEF vars
<1> QED
  BY <1>1, <1>2, <1>3, <1>4, <1>5, <1>6, <1>7, <1>8, <1>9, <1>10, <1>11, <1>12, <1>13, <1>14,
     <1>15, <1>16, <1>17
     DEF Next, Timers

LEMMA ChainStep ==
  LateIsLast /\ WindowIsNew /\ OpenWindowWorks /\ [Next]_vars
    => (LateIsLast /\ WindowIsNew /\ OpenWindowWorks)'
<1> SUFFICES ASSUME LateIsLast, WindowIsNew, OpenWindowWorks, [Next]_vars
             PROVE  (LateIsLast /\ WindowIsNew /\ OpenWindowWorks)'
  OBVIOUS
<1> USE DEF LateIsLast, WindowIsNew, OpenWindowWorks, network, observers,
            bdb_networkSteerStart
<1>1. CASE Press
  <2>1. /\ UNCHANGED <<joined, factoryNew, leaving, refused>>
        /\ UNCHANGED <<steering, steerTimer, late>>
    BY <1>1 DEF Press
  <2>2. CASE steering
    <3>1. bdb' = bdb
      BY <1>1, <2>2 DEF Press
    <3> QED
      BY <2>1, <3>1, Zenon
  <2>3. CASE ~steering
    <3>1. bdb' \in Procedures
      BY <1>1 DEF Press, Procedures
    <3> QED
      BY <2>1, <2>3, <3>1
  <2> QED
    BY <2>2, <2>3
<1>2. CASE Hold
  <2>1. late' = 0 /\ leaving' /\ factoryNew'
    BY <1>2 DEF Hold
  <2>2. bdb' \in Procedures /\ bdb' # "rejoining"
    BY <1>2 DEF Hold, Procedures
  <2> QED
    BY <2>1, <2>2
<1>3. CASE Release
  BY <1>3 DEF Release
<1>4. CASE WindowTimer
  BY <1>4 DEF WindowTimer
<1>5. CASE SteerTimer
  BY <1>5 DEF SteerTimer, Procedures
<1>6. CASE FindBindTimer
  BY <1>6 DEF FindBindTimer, Procedures
<1>7. CASE LedTimer
  BY <1>7 DEF LedTimer
<1>8. CASE IdentifyTimer
  BY <1>8 DEF IdentifyTimer
<1>9. CASE EpdRefresh
  BY <1>9 DEF EpdRefresh
<1>10. CASE BdbTask
  BY <1>10 DEF BdbTask, FindBindTarget, Retry, Procedures
<1>11. CASE AttemptFails
  BY <1>11 DEF AttemptFails, Retry, Procedures
<1>12. CASE Commissioned
  BY <1>12 DEF Commissioned, FindBindTarget, Success, Procedures
<1>13. CASE FindBindDone
  BY <1>13 DEF FindBindDone, Success, Procedures
<1>14. CASE LeaveCnf
  BY <1>14 DEF LeaveCnf, Procedures
<1>15. CASE Identify
  BY <1>15 DEF Identify
<1>16. CASE Tick
  BY <1>16 DEF Tick, Sooner
<1>17. CASE UNCHANGED vars
  BY <1>17 DEF vars
<1> QED
  BY <1>1, <1>2, <1>3, <1>4, <1>5, <1>6, <1>7, <1>8, <1>9, <1>10, <1>11, <1>12, <1>13, <1>14,
     <1>15, <1>16, <1>17
     DEF Next, Timers

LEMMA NextIInv == IInv /\ [Next]_vars => IInv'
  BY FlickerStep, ChainStep DEF IInv

LEMMA Safe == IInv => FlickerMeansOpen /\ OpenWindowWorks /\ OneLateAttempt
  BY DEF IInv, LateIsLast, OneLateAttempt

-----------------------------------------------------------------------------

(* The red effect, whatever cancels or outlives it, is only played while   *)
(* the window is open.                                                     *)
THEOREM FlickerAlwaysMeansOpen == Spec => []FlickerMeansOpen
  BY InitIInv, NextIInv, Safe, PTL DEF Spec

(* Every link of the retry chain is armed by the one before, although the  *)
(* stack drops calls that find it busy; what it drops for finding and      *)
(* binding is the one exception.                                           *)
THEOREM OpenWindowAlwaysWorks == Spec => []OpenWindowWorks
  BY InitIInv, NextIInv, Safe, PTL DEF Spec

(* The chain makes at most one attempt after the window has closed.        *)
THEOREM AtMostOneLateAttempt == Spec => []OneLateAttempt
  BY InitIInv, NextIInv, Safe, PTL DEF Spec
=============================================================================
