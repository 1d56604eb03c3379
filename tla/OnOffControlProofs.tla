-------------------------- MODULE OnOffControlProofs --------------------------
(***************************************************************************)
(* Proofs about module OnOffControl, for any gases and any number of       *)
(* leaves, joins, restarts and lost commands.                              *)
(*                                                                         *)
(* The handler decides by sw_onoff, the property is about the relay.  The  *)
(* two agree except for a relay that a restart has forgotten or the last   *)
(* command has not reached (FlagAndRelay); and a run of the handler leaves *)
(* nothing for another to do (Settled).                                    *)
(***************************************************************************)
EXTENDS OnOffControl, TLAPS

(* No gas is both high and low: the first two cases of the handler exclude *)
(* each other, and a disabled control has neither.                         *)
LEMMA OnExcludesOff == /\ TurnOn => ~TurnOff /\ ~Disabled
                       /\ TurnOff => ~Disabled
  BY DEF TurnOn, TurnOff, ctrl_on, ctrl_off, Disabled

(* At most one command is sent.                                            *)
LEMMA CommandCases ==
    ASSUME NEW was \in BOOLEAN
    PROVE  Commands(was) = IF was /\ Disabled THEN <<"off">>
                           ELSE IF TurnOn /\ ~was THEN <<"on">>
                           ELSE IF TurnOff /\ was THEN <<"off">> ELSE << >>
<1>1. CASE was /\ Disabled
  <2>1. ~TurnOn /\ ~TurnOff
    BY <1>1, OnExcludesOff
  <2>2. Commands(was) = (<<"off">> \o << >>) \o << >>
    BY <1>1, <2>1 DEF Commands
  <2>3. (<<"off">> \o << >>) \o << >> = <<"off">>
    OBVIOUS
  <2> QED
    BY <1>1, <2>2, <2>3, Zenon
<1>2. CASE ~(was /\ Disabled) /\ TurnOn /\ ~was
  <2>1. ~TurnOff
    BY <1>2, OnExcludesOff
  <2>2. Commands(was) = (<< >> \o <<"on">>) \o << >>
    BY <1>2, <2>1 DEF Commands
  <2> QED
    BY <1>2, <2>2
<1>3. CASE ~(was /\ Disabled) /\ ~(TurnOn /\ ~was) /\ TurnOff /\ was
  <2>1. ~TurnOn
    BY <1>3, OnExcludesOff
  <2>2. Commands(was) = (<< >> \o << >>) \o <<"off">>
    BY <1>3, <2>1 DEF Commands
  <2>3. (<< >> \o << >>) \o <<"off">> = <<"off">>
    OBVIOUS
  <2> QED
    BY <1>3, <2>2, <2>3, Zenon
<1>4. CASE ~(was /\ Disabled) /\ ~(TurnOn /\ ~was) /\ ~(TurnOff /\ was)
  <2>1. ~(TurnOff /\ (TurnOn \/ (was /\ ~Disabled)))
    BY <1>4, OnExcludesOff
  <2>2. ~(TurnOn /\ ~(was /\ ~Disabled))
    BY <1>4, OnExcludesOff
  <2>3. Commands(was) = (<< >> \o << >>) \o << >>
    BY <1>4, <2>1, <2>2 DEF Commands
  <2> QED
    BY <1>4, <2>3
<1> QED
  BY <1>1, <1>2, <1>3, <1>4

LEMMA AfterOne ==
    \A was \in BOOLEAN : /\ After(<< >>, was) = was
                         /\ After(<<"on">>, was) = TRUE
                         /\ After(<<"off">>, was) = FALSE
  BY DEF After

-------------------------------------------------------------------------------

FlagAndRelay ==
    ~lost => IF forgotten THEN relay /\ ~sw_onoff ELSE relay = sw_onoff

Settled == fresh => Commands(sw_onoff) = << >>

IInv == TypeOK /\ FlagAndRelay /\ Settled /\ RelayFollowsAir

LEMMA InitIInv == Init => IInv
<1> SUFFICES ASSUME Init PROVE IInv
  OBVIOUS
<1>1. /\ level \in [Gas -> {"low", "mid", "high"}]
      /\ sent \in {<< >>, <<"on">>, <<"off">>}
  BY DEF Init
<1>2. TypeOK
  BY <1>1 DEF Init, TypeOK
<1>3. FlagAndRelay /\ Settled /\ RelayFollowsAir
  BY DEF Init, FlagAndRelay, Settled, RelayFollowsAir
<1> QED
  BY <1>2, <1>3 DEF IInv

(* A run of the handler.                                                   *)
LEMMA HandlerStep ==
    ASSUME IInv, NEW arrives \in BOOLEAN, proc_co2_voc_onoff(arrives)
    PROVE  IInv'
<1>1. /\ joined /\ sent' = Commands(sw_onoff)
      /\ sw_onoff' = (~Disabled /\ After(sent', sw_onoff))
      /\ relay' = (IF arrives THEN After(sent', relay) ELSE relay) /\ fresh' = TRUE
      /\ forgotten' = (forgotten /\ sent' = << >>)
      /\ lost' = (IF sent' = << >> THEN lost ELSE ~arrives)
      /\ level' = level /\ onoff' = onoff /\ joined' = joined
  BY DEF proc_co2_voc_onoff
<1>2. /\ sw_onoff \in BOOLEAN /\ relay \in BOOLEAN /\ forgotten \in BOOLEAN /\ lost \in BOOLEAN
      /\ level \in [Gas -> {"low", "mid", "high"}] /\ onoff \in [Gas -> BOOLEAN]
  BY DEF IInv, TypeOK
<1>3. sent' = IF sw_onoff /\ Disabled THEN <<"off">>
              ELSE IF TurnOn /\ ~sw_onoff THEN <<"on">>
              ELSE IF TurnOff /\ sw_onoff THEN <<"off">> ELSE << >>
  BY <1>1, <1>2, CommandCases
<1>4. /\ Disabled' = Disabled /\ TurnOn' = TurnOn /\ TurnOff' = TurnOff
      /\ \A band : In(band)' = In(band)
  BY <1>1 DEF Disabled, TurnOn, TurnOff, ctrl_on, ctrl_off, In
<1>5. <<"on">> # << >> /\ <<"off">> # << >>
  OBVIOUS
<1>6. /\ sw_onoff' = IF TurnOn THEN TRUE
                     ELSE sw_onoff /\ ~Disabled /\ ~TurnOff
      /\ arrives => relay' = IF sw_onoff /\ Disabled THEN FALSE
                             ELSE IF TurnOn /\ ~sw_onoff THEN TRUE
                             ELSE IF TurnOff /\ sw_onoff THEN FALSE ELSE relay
  <2>1. CASE sw_onoff /\ Disabled
    BY <1>1, <1>2, <1>3, <2>1, AfterOne, OnExcludesOff
  <2>2. CASE ~(sw_onoff /\ Disabled) /\ TurnOn /\ ~sw_onoff
    BY <1>1, <1>2, <1>3, <2>2, AfterOne, OnExcludesOff
  <2>3. CASE ~(sw_onoff /\ Disabled) /\ ~(TurnOn /\ ~sw_onoff) /\ TurnOff /\ sw_onoff
    BY <1>1, <1>2, <1>3, <2>3, AfterOne, OnExcludesOff
  <2>4. CASE ~(sw_onoff /\ Disabled) /\ ~(TurnOn /\ ~sw_onoff) /\ ~(TurnOff /\ sw_onoff)
    BY <1>1, <1>2, <1>3, <2>4, AfterOne, OnExcludesOff
  <2> QED
    BY <2>1, <2>2, <2>3, <2>4
<1>7. TypeOK'
  <2>1. sent' \in {<< >>, <<"on">>, <<"off">>}
    BY <1>3
  <2>2. /\ sw_onoff' \in BOOLEAN /\ relay' \in BOOLEAN /\ forgotten' \in BOOLEAN
        /\ fresh' \in BOOLEAN /\ lost' \in BOOLEAN
    BY <1>1, <1>2, <1>6
  <2> QED
    BY <1>1, <1>2, <2>1, <2>2 DEF IInv, TypeOK
<1>8. FlagAndRelay'
  <2>1. forgotten' = (/\ forgotten /\ ~(sw_onoff /\ Disabled) /\ ~(TurnOn /\ ~sw_onoff)
                      /\ ~(TurnOff /\ sw_onoff))
    BY <1>1, <1>2, <1>3, <1>5
  <2>2. CASE sent' = << >>
    <3>1. lost' = lost /\ forgotten' = forgotten /\ relay' = relay
      BY <1>1, <1>2, <2>2, AfterOne
    <3>2. ~(sw_onoff /\ Disabled) /\ ~(TurnOn /\ ~sw_onoff) /\ ~(TurnOff /\ sw_onoff)
      BY <1>3, <1>5, <2>2
    <3>3. sw_onoff' = sw_onoff
      BY <1>2, <1>6, <3>2
    <3> QED
      BY <3>1, <3>3 DEF IInv, FlagAndRelay
  <2>3. CASE sent' # << >> /\ arrives
    <3>1. ~forgotten'
      BY <1>1, <2>3
    <3>2. relay' = sw_onoff'
      BY <1>2, <1>3, <1>6, <2>3, OnExcludesOff
    <3> QED
      BY <3>1, <3>2 DEF FlagAndRelay
  <2>4. CASE sent' # << >> /\ ~arrives
    BY <1>1, <2>4 DEF FlagAndRelay
  <2> QED
    BY <2>2, <2>3, <2>4
<1>9. Settled'
  <2>1. (Commands(sw_onoff))' = IF sw_onoff' /\ Disabled' THEN <<"off">>
                                ELSE IF TurnOn' /\ ~sw_onoff' THEN <<"on">>
                                ELSE IF TurnOff' /\ sw_onoff' THEN <<"off">> ELSE << >>
    <3>1. sw_onoff' \in BOOLEAN
      BY <1>7 DEF TypeOK
    <3>2. (Commands(sw_onoff))' = Commands(sw_onoff')
      BY <1>4 DEF Commands
    <3> QED
      BY <1>4, <3>1, <3>2, CommandCases
  <2> QED
    BY <1>2, <1>4, <1>6, <2>1, OnExcludesOff DEF Settled
<1>10. RelayFollowsAir'
  <2>1. In("high") = TurnOn
    BY DEF In, TurnOn, ctrl_on
  <2>2. ~In("high") /\ In("low") => TurnOff
    BY DEF In, TurnOff, ctrl_off, ctrl_on
  <2>3. ~In("high") /\ ~In("low") /\ ~In("mid") => Disabled
    BY <1>2 DEF In, Disabled
  <2>4. ~lost' => IF forgotten' THEN relay' /\ ~sw_onoff' ELSE relay' = sw_onoff'
    BY <1>8 DEF FlagAndRelay
  <2>5. ~lost' /\ TurnOn => relay'
    BY <1>6, <2>4
  <2>6. ~lost' /\ ~TurnOn /\ (TurnOff \/ Disabled) => ~relay' \/ forgotten'
    BY <1>6, <2>4
  <2> QED
    BY <1>4, <2>1, <2>2, <2>3, <2>5, <2>6 DEF RelayFollowsAir
<1> QED
  BY <1>7, <1>8, <1>9, <1>10 DEF IInv

(* The other steps leave work for the handler.                             *)
LEMMA OtherStep ==
    ASSUME IInv, Measure \/ WriteOnOff \/ LeaveOrJoin \/ Restart
    PROVE  IInv'
<1>1. fresh' = FALSE /\ sent' = << >>
  BY DEF Measure, WriteOnOff, LeaveOrJoin, Restart
<1>2. Settled' /\ RelayFollowsAir'
  BY <1>1 DEF Settled, RelayFollowsAir
<1>3. FlagAndRelay'
  <2>1. FlagAndRelay /\ relay \in BOOLEAN
    BY DEF IInv, TypeOK
  <2>2. CASE Measure \/ WriteOnOff \/ LeaveOrJoin
    BY <2>1, <2>2 DEF FlagAndRelay, Measure, WriteOnOff, LeaveOrJoin
  <2>3. CASE Restart
    BY <2>1, <2>3 DEF FlagAndRelay, Restart
  <2> QED
    BY <2>2, <2>3
<1>4. TypeOK'
  <2>1. CASE Measure
    BY <2>1 DEF IInv, TypeOK, Measure
  <2>2. CASE WriteOnOff
    BY <2>2 DEF IInv, TypeOK, WriteOnOff
  <2>3. CASE LeaveOrJoin
    <3>1. joined' \in BOOLEAN
      BY <2>3 DEF LeaveOrJoin
    <3> QED
      BY <2>3, <3>1 DEF IInv, TypeOK, LeaveOrJoin
  <2>4. CASE Restart
    BY <2>4 DEF IInv, TypeOK, Restart
  <2> QED
    BY <2>1, <2>2, <2>3, <2>4
<1> QED
  BY <1>2, <1>3, <1>4 DEF IInv

LEMMA NextIInv == IInv /\ [Next]_vars => IInv'
<1> SUFFICES ASSUME IInv, [Next]_vars PROVE IInv'
  OBVIOUS
<1>1. ASSUME NEW arrives \in BOOLEAN, proc_co2_voc_onoff(arrives) PROVE IInv'
  BY <1>1, HandlerStep
<1>2. CASE Measure \/ WriteOnOff \/ LeaveOrJoin \/ Restart
  BY <1>2, OtherStep
<1>3. CASE UNCHANGED vars
  BY <1>3 DEF vars, IInv, TypeOK, FlagAndRelay, Settled, RelayFollowsAir, Commands,
              Disabled, TurnOn, TurnOff, ctrl_on, ctrl_off, In
<1> QED
  BY <1>1, <1>2, <1>3 DEF Next

(* A run of the handler sends one command at most, and all variables keep  *)
(* their types.                                                            *)
THEOREM TypeCorrect == Spec => []TypeOK
<1>1. IInv => TypeOK
  BY DEF IInv
<1> QED
  BY InitIInv, NextIInv, <1>1, PTL DEF Spec

(* The relay follows the air and the settings, through every leave, join   *)
(* and restart, but for a relay that a restart has forgotten, or that the  *)
(* last command has not reached.                                           *)
THEOREM RelayFollowsAirHolds == Spec => []RelayFollowsAir
<1>1. IInv => RelayFollowsAir
  BY DEF IInv
<1> QED
  BY InitIInv, NextIInv, <1>1, PTL DEF Spec

(* A second run of the handler on the same readings sends nothing.         *)
THEOREM NoChatterHolds == Spec => NoChatter
<1>1. IInv /\ [Next]_vars => [fresh /\ fresh' => sent' = << >>]_vars
  <2> SUFFICES ASSUME IInv, Next, fresh, fresh'
               PROVE  sent' = << >>
    OBVIOUS
  <2>1. PICK arrives \in BOOLEAN : proc_co2_voc_onoff(arrives)
    BY DEF Next, Measure, WriteOnOff, LeaveOrJoin, Restart
  <2> QED
    BY <2>1 DEF proc_co2_voc_onoff, IInv, Settled
<1> QED
  BY InitIInv, NextIInv, <1>1, PTL DEF Spec, NoChatter

===============================================================================
