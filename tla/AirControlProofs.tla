--------------------------- MODULE AirControlProofs ---------------------------
(***************************************************************************)
(* Proofs about modules Settings and AirControl, for any gases, ranges and *)
(* written values.                                                         *)
(*                                                                         *)
(* Settings: the three safety properties of a run are invariants of Spec,  *)
(* and together with TypeOK they are inductive.  The two handlers of a     *)
(* threshold work on a record that carries config, the attributes and      *)
(* whether to save.  What either does to that record is stated once        *)
(* (LowWrittenFacts, HighWrittenFacts); a command is the two of them in    *)
(* either order.                                                           *)
(*                                                                         *)
(* AirControl: the composition implements both of its parts, so that what  *)
(* is proved of Settings and of OnOffControl holds of it.  That it         *)
(* implements OnOffControl needs the settings' own invariant: a restart    *)
(* restores the enabling settings the handler had because every setting in *)
(* use is saved, and puts every reading in the low band because no low     *)
(* threshold is negative.                                                  *)
(***************************************************************************)
EXTENDS AirControl, TLAPS

-----------------------------------------------------------------------------
(* The settings *)

StateRec == [config : ConfigRec, attr : AttrRec, save : BOOLEAN]

Ordered(c) ==
    \A g \in Gas : /\ c.low[g] \in Allowed(g) /\ c.high[g] \in Allowed(g)
                   /\ c.low[g] < c.high[g]

\* nothing has changed, or it will be saved
Noted(s, c) == s.save \/ s.config = c

LowShown(s, g) == s.attr.low[g] \in {s.config.low[g]} \cup (Value \ Allowed(g))
HighShown(s, g) == s.attr.high[g] \in {s.config.high[g]} \cup (Value \ Allowed(g))

\* the attribute holds what the command writes, or is as it was
Pending(shown, held, v) == IF v = Absent THEN shown ELSE held = v

(* The handler of the low threshold keeps the record well-formed and the   *)
(* thresholds ordered, notes a change, and leaves the attribute of the low *)
(* threshold showing the setting; everything about the high threshold and  *)
(* the other gases is left alone.                                          *)
LEMMA LowWrittenFacts ==
    ASSUME NEW s \in StateRec, NEW g \in Gas, NEW v \in Value \cup {Absent},
           NEW c \in ConfigRec,
           Ordered(s.config), Noted(s, c),
           Pending(LowShown(s, g), s.attr.low[g], v)
    PROVE  LET t == LowWritten(s, g, v)
           IN  /\ t \in StateRec
               /\ Ordered(t.config)
               /\ Noted(t, c)
               /\ LowShown(t, g)
               /\ t.attr.high = s.attr.high /\ t.config.high = s.config.high
               /\ \A h \in Gas \ {g} : /\ t.attr.low[h] = s.attr.low[h]
                                       /\ t.config.low[h] = s.config.low[h]
<1> DEFINE t == LowWritten(s, g, v)
<1>1. CASE v = Absent \/ v \notin Allowed(g)
  <2>1. t = s
    BY <1>1 DEF LowWritten
  <2>2. LowShown(s, g)
    BY <1>1 DEF Pending, LowShown
  <2> QED
    BY <2>1, <2>2
<1>2. CASE v # Absent /\ v \in Allowed(g) /\ v < s.config.high[g]
  <2>1. t = [s EXCEPT !.config.low[g] = v, !.save = @ \/ v # s.config.low[g]]
    BY <1>2 DEF LowWritten
  <2>2. v \in Nat /\ s.config \in ConfigRec /\ s.attr \in AttrRec /\ s.save \in BOOLEAN
    BY <1>2, SettingsAssumption DEF StateRec
  <2>3. /\ t.config = [s.config EXCEPT !.low[g] = v] /\ t.attr = s.attr
        /\ t.save = (s.save \/ v # s.config.low[g])
    BY <2>1 DEF StateRec
  <2>4. t.config \in ConfigRec /\ t.config.high = s.config.high
    BY <2>2, <2>3 DEF ConfigRec
  <2>5. t \in StateRec
    BY <2>1, <2>2, <2>3, <2>4 DEF StateRec
  <2>6. /\ t.config.low[g] = v
        /\ \A h \in Gas \ {g} : t.config.low[h] = s.config.low[h]
    BY <2>2, <2>3 DEF ConfigRec
  <2>7. Ordered(t.config)
    BY <1>2, <2>4, <2>6 DEF Ordered
  <2>8. v = s.config.low[g] => t.config = s.config
    <3> SUFFICES ASSUME v = s.config.low[g]
                 PROVE  t.config = s.config
      OBVIOUS
    <3>1. [s.config.low EXCEPT ![g] = v] = s.config.low
      BY <2>2 DEF ConfigRec
    <3> QED
      BY <2>2, <2>3, <3>1 DEF ConfigRec
  <2>9. Noted(t, c)
    BY <2>3, <2>8 DEF Noted
  <2>10. LowShown(t, g)
    BY <1>2, <2>3, <2>6 DEF LowShown, Pending
  <2> QED
    BY <2>3, <2>4, <2>5, <2>6, <2>7, <2>9, <2>10
<1>3. CASE v # Absent /\ v \in Allowed(g) /\ ~(v < s.config.high[g])
  <2>1. t = [s EXCEPT !.attr.low[g] = s.config.low[g]]
    BY <1>3 DEF LowWritten
  <2>2. s.config \in ConfigRec /\ s.attr \in AttrRec
    BY DEF StateRec
  <2>3. /\ t.config = s.config /\ t.save = s.save
        /\ t.attr = [s.attr EXCEPT !.low[g] = s.config.low[g]]
    BY <2>1 DEF StateRec
  <2>4. t.attr \in AttrRec /\ t.attr.high = s.attr.high
    BY <2>2, <2>3 DEF AttrRec, ConfigRec
  <2>5. t \in StateRec
    BY <2>1, <2>2, <2>3, <2>4 DEF StateRec
  <2>6. /\ t.attr.low[g] = s.config.low[g]
        /\ \A h \in Gas \ {g} : t.attr.low[h] = s.attr.low[h]
    BY <2>2, <2>3 DEF AttrRec
  <2> QED
    BY <2>3, <2>4, <2>5, <2>6 DEF Noted, LowShown
<1> QED
  BY <1>1, <1>2, <1>3

(* The same of the handler of the high threshold.                          *)
LEMMA HighWrittenFacts ==
    ASSUME NEW s \in StateRec, NEW g \in Gas, NEW v \in Value \cup {Absent},
           NEW c \in ConfigRec,
           Ordered(s.config), Noted(s, c),
           Pending(HighShown(s, g), s.attr.high[g], v)
    PROVE  LET t == HighWritten(s, g, v)
           IN  /\ t \in StateRec
               /\ Ordered(t.config)
               /\ Noted(t, c)
               /\ HighShown(t, g)
               /\ t.attr.low = s.attr.low /\ t.config.low = s.config.low
               /\ \A h \in Gas \ {g} : /\ t.attr.high[h] = s.attr.high[h]
                                       /\ t.config.high[h] = s.config.high[h]
<1> DEFINE t == HighWritten(s, g, v)
<1>1. CASE v = Absent \/ v \notin Allowed(g)
  <2>1. t = s
    BY <1>1 DEF HighWritten
  <2>2. HighShown(s, g)
    BY <1>1 DEF Pending, HighShown
  <2> QED
    BY <2>1, <2>2
<1>2. CASE v # Absent /\ v \in Allowed(g) /\ v > s.config.low[g]
  <2>1. t = [s EXCEPT !.config.high[g] = v, !.save = @ \/ v # s.config.high[g]]
    BY <1>2 DEF HighWritten
  <2>2. v \in Nat /\ s.config \in ConfigRec /\ s.attr \in AttrRec /\ s.save \in BOOLEAN
    BY <1>2, SettingsAssumption DEF StateRec
  <2>3. /\ t.config = [s.config EXCEPT !.high[g] = v] /\ t.attr = s.attr
        /\ t.save = (s.save \/ v # s.config.high[g])
    BY <2>1 DEF StateRec
  <2>4. t.config \in ConfigRec /\ t.config.low = s.config.low
    BY <2>2, <2>3 DEF ConfigRec
  <2>5. t \in StateRec
    BY <2>1, <2>2, <2>3, <2>4 DEF StateRec
  <2>6. /\ t.config.high[g] = v
        /\ \A h \in Gas \ {g} : t.config.high[h] = s.config.high[h]
    BY <2>2, <2>3 DEF ConfigRec
  <2>7. Ordered(t.config)
    <3>1. s.config.low[g] \in Nat
      BY <2>2 DEF ConfigRec
    <3> QED
      BY <1>2, <2>2, <2>4, <2>6, <3>1 DEF Ordered
  <2>8. v = s.config.high[g] => t.config = s.config
    <3> SUFFICES ASSUME v = s.config.high[g]
                 PROVE  t.config = s.config
      OBVIOUS
    <3>1. [s.config.high EXCEPT ![g] = v] = s.config.high
      BY <2>2 DEF ConfigRec
    <3> QED
      BY <2>2, <2>3, <3>1 DEF ConfigRec
  <2>9. Noted(t, c)
    BY <2>3, <2>8 DEF Noted
  <2>10. HighShown(t, g)
    BY <1>2, <2>3, <2>6 DEF HighShown, Pending
  <2> QED
    BY <2>3, <2>4, <2>5, <2>6, <2>7, <2>9, <2>10
<1>3. CASE v # Absent /\ v \in Allowed(g) /\ ~(v > s.config.low[g])
  <2>1. t = [s EXCEPT !.attr.high[g] = s.config.high[g]]
    BY <1>3 DEF HighWritten
  <2>2. s.config \in ConfigRec /\ s.attr \in AttrRec
    BY DEF StateRec
  <2>3. /\ t.config = s.config /\ t.save = s.save
        /\ t.attr = [s.attr EXCEPT !.high[g] = s.config.high[g]]
    BY <2>1 DEF StateRec
  <2>4. t.attr \in AttrRec /\ t.attr.low = s.attr.low
    BY <2>2, <2>3 DEF AttrRec, ConfigRec
  <2>5. t \in StateRec
    BY <2>1, <2>2, <2>3, <2>4 DEF StateRec
  <2>6. /\ t.attr.high[g] = s.config.high[g]
        /\ \A h \in Gas \ {g} : t.attr.high[h] = s.attr.high[h]
    BY <2>2, <2>3 DEF AttrRec
  <2> QED
    BY <2>3, <2>4, <2>5, <2>6 DEF Noted, HighShown
<1> QED
  BY <1>1, <1>2, <1>3

-------------------------------------------------------------------------------
(* The inductive invariant: the thresholds in use are ordered and saved,   *)
(* and the attributes show them.                                           *)
IInv == TypeOK /\ LowBelowHigh /\ NothingUnsaved /\ ThresholdsShown

LEMMA InitIInv == Init => IInv
<1> SUFFICES ASSUME Init PROVE IInv
  OBVIOUS
<1>1. DefaultConfig \in ConfigRec /\ Shown(DefaultConfig) \in AttrRec
  BY SettingsAssumption DEF DefaultConfig, Shown, ConfigRec, AttrRec
<1>2. \A g \in Gas : /\ Lowest[g] \in Nat /\ Highest[g] \in Nat
                     /\ Lowest[g] < Highest[g]
  BY SettingsAssumption
<1>3. TypeOK /\ NothingUnsaved
  BY <1>1 DEF Init, TypeOK, NothingUnsaved, Restored
<1>4. LowBelowHigh
  <2>1. config.low = Lowest /\ config.high = Highest
    BY DEF Init, DefaultConfig
  <2>2. \A g \in Gas : Lowest[g] \in Allowed(g) /\ Highest[g] \in Allowed(g)
    <3> SUFFICES ASSUME NEW g \in Gas
                 PROVE  Lowest[g] \in Allowed(g) /\ Highest[g] \in Allowed(g)
      OBVIOUS
    <3>1. Lowest[g] \in Nat /\ Highest[g] \in Nat /\ Lowest[g] < Highest[g]
      BY <1>2
    <3> QED
      BY <3>1 DEF Allowed
  <2> QED
    BY <1>2, <2>1, <2>2 DEF LowBelowHigh
<1>5. ThresholdsShown
  BY DEF Init, ThresholdsShown, Shown
<1> QED
  BY <1>3, <1>4, <1>5 DEF IInv

(* A command to one gas.                                                   *)
LEMMA WriteThresholdsStep ==
    ASSUME IInv, NEW g \in Gas, NEW low \in Value \cup {Absent},
           NEW high \in Value \cup {Absent}, NEW lowFirst \in BOOLEAN,
           WriteThresholds(g, low, high, lowFirst)
    PROVE  IInv'
<1> DEFINE s == [config |-> config, attr |-> Stored(g, low, high), save |-> FALSE]
           l == LowWritten(s, g, low)
           h == HighWritten(s, g, high)
           t == IF lowFirst THEN HighWritten(l, g, high) ELSE LowWritten(h, g, low)
<1>1. config' = t.config /\ attr' = t.attr /\ nv' = IF t.save THEN t.config ELSE nv
  BY DEF WriteThresholds
<1>2. config \in ConfigRec /\ attr \in AttrRec /\ Ordered(config)
  BY DEF IInv, TypeOK, LowBelowHigh, Ordered
<1>3. /\ s.attr \in AttrRec
      /\ s.attr.low[g] = Written(attr.low[g], low)
      /\ s.attr.high[g] = Written(attr.high[g], high)
      /\ \A a \in Gas \ {g} : s.attr.low[a] = attr.low[a] /\ s.attr.high[a] = attr.high[a]
  <2>1. (low # Absent => low \in Nat) /\ (high # Absent => high \in Nat)
    BY SettingsAssumption
  <2>2. /\ Written(attr.low[g], low) \in Nat
        /\ Written(attr.high[g], high) \in Nat
    BY <1>2, <2>1 DEF Written, AttrRec
  <2>3. s.attr = [attr EXCEPT !.low = [attr.low EXCEPT ![g] = Written(attr.low[g], low)],
                              !.high = [attr.high EXCEPT ![g] = Written(attr.high[g], high)]]
    BY <1>2 DEF Stored, AttrRec
  <2> HIDE DEF s
  <2>4. /\ s.attr.low = [attr.low EXCEPT ![g] = Written(attr.low[g], low)]
        /\ s.attr.high = [attr.high EXCEPT ![g] = Written(attr.high[g], high)]
    BY <1>2, <2>3 DEF AttrRec
  <2>5. attr.low \in [Gas -> Nat] /\ attr.high \in [Gas -> Nat]
    BY <1>2 DEF AttrRec
  <2>6. s.attr.low \in [Gas -> Nat] /\ s.attr.high \in [Gas -> Nat]
    BY <2>2, <2>4, <2>5
  <2>7. s.attr \in AttrRec
    BY <1>2, <2>3, <2>4, <2>6 DEF AttrRec
  <2> QED
    BY <2>4, <2>5, <2>7
<1>4. s \in StateRec /\ Ordered(s.config) /\ Noted(s, config)
  BY <1>2, <1>3 DEF StateRec, Noted
<1>5. /\ Pending(LowShown(s, g), s.attr.low[g], low)
      /\ Pending(HighShown(s, g), s.attr.high[g], high)
  BY <1>3 DEF Pending, Written, LowShown, HighShown, IInv, ThresholdsShown
<1>6. /\ t \in StateRec /\ Ordered(t.config) /\ Noted(t, config)
      /\ LowShown(t, g) /\ HighShown(t, g)
      /\ \A a \in Gas \ {g} : /\ t.attr.low[a] = s.attr.low[a]
                              /\ t.attr.high[a] = s.attr.high[a]
                              /\ t.config.low[a] = s.config.low[a]
                              /\ t.config.high[a] = s.config.high[a]
  <2> HIDE DEF s
  <2>1. CASE lowFirst
    <3>1. /\ l \in StateRec /\ Ordered(l.config) /\ Noted(l, config) /\ LowShown(l, g)
          /\ l.attr.high = s.attr.high /\ l.config.high = s.config.high
          /\ \A a \in Gas \ {g} : /\ l.attr.low[a] = s.attr.low[a]
                                  /\ l.config.low[a] = s.config.low[a]
      BY <1>2, <1>4, <1>5, LowWrittenFacts
    <3>2. Pending(HighShown(l, g), l.attr.high[g], high)
      BY <1>5, <3>1 DEF Pending, HighShown
    <3>3. t = HighWritten(l, g, high)
      BY <2>1
    <3> HIDE DEF l, t
    <3>4. /\ t \in StateRec /\ Ordered(t.config) /\ Noted(t, config) /\ HighShown(t, g)
          /\ t.attr.low = l.attr.low /\ t.config.low = l.config.low
          /\ \A a \in Gas \ {g} : /\ t.attr.high[a] = l.attr.high[a]
                                  /\ t.config.high[a] = l.config.high[a]
      BY <1>2, <3>1, <3>2, <3>3, HighWrittenFacts
    <3>5. LowShown(t, g)
      BY <3>1, <3>4 DEF LowShown
    <3> QED
      BY <3>1, <3>4, <3>5
  <2>2. CASE ~lowFirst
    <3>1. /\ h \in StateRec /\ Ordered(h.config) /\ Noted(h, config) /\ HighShown(h, g)
          /\ h.attr.low = s.attr.low /\ h.config.low = s.config.low
          /\ \A a \in Gas \ {g} : /\ h.attr.high[a] = s.attr.high[a]
                                  /\ h.config.high[a] = s.config.high[a]
      BY <1>2, <1>4, <1>5, HighWrittenFacts
    <3>2. Pending(LowShown(h, g), h.attr.low[g], low)
      BY <1>5, <3>1 DEF Pending, LowShown
    <3>3. t = LowWritten(h, g, low)
      BY <2>2
    <3> HIDE DEF h, t
    <3>4. /\ t \in StateRec /\ Ordered(t.config) /\ Noted(t, config) /\ LowShown(t, g)
          /\ t.attr.high = h.attr.high /\ t.config.high = h.config.high
          /\ \A a \in Gas \ {g} : /\ t.attr.low[a] = h.attr.low[a]
                                  /\ t.config.low[a] = h.config.low[a]
      BY <1>2, <3>1, <3>2, <3>3, LowWrittenFacts
    <3>5. HighShown(t, g)
      BY <3>1, <3>4 DEF HighShown
    <3> QED
      BY <3>1, <3>4, <3>5
  <2> QED
    BY <2>1, <2>2
<1>7. s.config = config
  OBVIOUS
<1> HIDE DEF s, t
<1>8. TypeOK'
  BY <1>1, <1>6 DEF TypeOK, StateRec, IInv
<1>9. LowBelowHigh'
  BY <1>1, <1>6 DEF LowBelowHigh, Ordered
<1>10. NothingUnsaved'
  <2>1. CASE t.save
    <3>1. nv' = config' /\ config' # Empty
      BY <1>1, <1>6, <2>1, SettingsAssumption DEF StateRec
    <3> QED
      BY <3>1 DEF NothingUnsaved, Restored
  <2>2. CASE ~t.save
    <3>1. nv' = nv /\ config' = config
      BY <1>1, <1>6, <2>2 DEF Noted
    <3> QED
      BY <3>1 DEF NothingUnsaved, Restored, IInv
  <2> QED
    BY <2>1, <2>2
<1>11. ThresholdsShown'
  <2> SUFFICES ASSUME NEW a \in Gas
               PROVE  LowShown(t, a) /\ HighShown(t, a)
    BY <1>1 DEF ThresholdsShown, LowShown, HighShown
  <2>1. CASE a = g
    BY <1>6, <2>1
  <2>2. CASE a # g
    <3>1. /\ t.attr.low[a] = attr.low[a] /\ t.attr.high[a] = attr.high[a]
          /\ t.config.low[a] = config.low[a] /\ t.config.high[a] = config.high[a]
      BY <1>3, <1>6, <1>7, <2>2
    <3> QED
      BY <3>1 DEF LowShown, HighShown, IInv, ThresholdsShown
  <2> QED
    BY <2>1, <2>2
<1> QED
  BY <1>8, <1>9, <1>10, <1>11 DEF IInv

\* the step touches no threshold and saves what it changes
ThresholdsKept ==
    /\ config'.low = config.low /\ config'.high = config.high
    /\ attr'.low = attr.low /\ attr'.high = attr.high

LEMMA FlagStep ==
    ASSUME IInv, ThresholdsKept, config' \in ConfigRec, attr' \in AttrRec,
           nv' = config' \/ (nv' = nv /\ config' = config)
    PROVE  IInv'
<1>1. TypeOK'
  BY DEF IInv, TypeOK
<1>2. LowBelowHigh'
  BY DEF IInv, LowBelowHigh, ThresholdsKept
<1>3. NothingUnsaved'
  BY SettingsAssumption DEF IInv, NothingUnsaved, Restored
<1>4. ThresholdsShown'
  BY DEF IInv, ThresholdsShown, ThresholdsKept
<1> QED
  BY <1>1, <1>2, <1>3, <1>4 DEF IInv

\* the settings and the attributes are set from the same record
LEMMA ReloadStep ==
    ASSUME IInv, config' = config, attr' = Shown(config), nv' \in {nv, config}
    PROVE  IInv'
<1>1. config \in ConfigRec /\ Shown(config) \in AttrRec
  BY DEF IInv, TypeOK, Shown, ConfigRec, AttrRec
<1>2. TypeOK'
  BY <1>1 DEF IInv, TypeOK
<1>3. LowBelowHigh'
  BY DEF IInv, LowBelowHigh
<1>4. NothingUnsaved'
  BY <1>1, SettingsAssumption DEF IInv, NothingUnsaved, Restored
<1>5. ThresholdsShown'
  BY DEF ThresholdsShown, Shown
<1> QED
  BY <1>2, <1>3, <1>4, <1>5 DEF IInv

LEMMA NextIInv == IInv /\ [Next]_vars => IInv'
<1> SUFFICES ASSUME IInv, [Next]_vars PROVE IInv'
  OBVIOUS
<1> USE DEF IInv
<1>0. config \in ConfigRec /\ attr \in AttrRec
  BY DEF TypeOK
<1>1. ASSUME NEW g \in Gas, NEW low \in Value \cup {Absent},
             NEW high \in Value \cup {Absent}, NEW lowFirst \in BOOLEAN,
             WriteThresholds(g, low, high, lowFirst)
      PROVE  IInv'
  BY <1>1, WriteThresholdsStep
<1>2. ASSUME NEW written \in [Flag -> 0..2 \cup {Absent}], WriteFlags(written)
      PROVE  IInv'
  <2>1. \A f \in Flag : Taken(config.flag[f], written[f]) \in {0, 1}
    BY <1>0 DEF Taken, ConfigRec
  <2>2. config' \in ConfigRec /\ attr' \in AttrRec /\ ThresholdsKept
    BY <1>0, <1>2, <2>1 DEF WriteFlags, ConfigRec, ThresholdsKept
  <2>3. nv' = config' \/ (nv' = nv /\ config' = config)
    BY <1>2 DEF WriteFlags
  <2> QED
    BY <2>2, <2>3, FlagStep
<1>3. ASSUME NEW g \in Gas, WriteOnOff(g) PROVE IInv'
  <2>1. config' \in ConfigRec /\ attr' \in AttrRec /\ ThresholdsKept
    BY <1>0, <1>3 DEF WriteOnOff, ConfigRec, ThresholdsKept
  <2> QED
    BY <1>3, <2>1, FlagStep DEF WriteOnOff
<1>4. ASSUME NEW f \in Flag, Click(f) PROVE IInv'
  <2>1. config.flag \in [Flag -> {0, 1}] /\ 1 - config.flag[f] \in {0, 1}
    BY <1>0 DEF ConfigRec
  <2>2. config' \in ConfigRec /\ attr' \in AttrRec /\ ThresholdsKept
    BY <1>0, <1>4, <2>1 DEF Click, ConfigRec, ThresholdsKept
  <2> QED
    BY <1>4, <2>2, FlagStep DEF Click
<1>5. CASE Exception
  BY <1>5, ReloadStep DEF Exception
<1>6. CASE Restart
  BY <1>6, ReloadStep DEF Restart, NothingUnsaved
<1>7. CASE UNCHANGED vars
  BY <1>7 DEF vars, TypeOK, LowBelowHigh, NothingUnsaved, Restored, ThresholdsShown
<1> QED
  BY <1>1, <1>2, <1>3, <1>4, <1>5, <1>6, <1>7 DEF Next

(* The settings, their copy in flash and the attributes are well-formed,   *)
(* whatever is written in whichever order (app_zclWriteReqCmd,             *)
(* config_restore).                                                        *)
THEOREM TypeCorrect == Spec => []TypeOK
<1>1. IInv => TypeOK
  BY DEF IInv
<1> QED
  BY InitIInv, NextIInv, <1>1, PTL DEF Spec

(* The thresholds in use are in range and low is below high.               *)
THEOREM LowBelowHighHolds == Spec => []LowBelowHigh
<1>1. IInv => LowBelowHigh
  BY DEF IInv
<1> QED
  BY InitIInv, NextIInv, <1>1, PTL DEF Spec

(* Every setting in use has been saved.                                    *)
THEOREM NothingUnsavedHolds == Spec => []NothingUnsaved
<1>1. IInv => NothingUnsaved
  BY DEF IInv
<1> QED
  BY InitIInv, NextIInv, <1>1, PTL DEF Spec

(* A hub reads the thresholds that are in use, or a value out of range.    *)
THEOREM ThresholdsShownHolds == Spec => []ThresholdsShown
<1>1. IInv => ThresholdsShown
  BY DEF IInv
<1> QED
  BY InitIInv, NextIInv, <1>1, PTL DEF Spec

-----------------------------------------------------------------------------
(* The composition *)

(* What is proved of the control over bands, for the bands of readings.    *)
Bands == INSTANCE OnOffControlProofs
    WITH level <- [g \in Gas |-> Band(g)], onoff <- config.onoff

(* Every step of the composition is a step of the settings, or leaves them *)
(* alone.                                                                  *)
LEMMA SettingsStep == [AirNext]_airVars => [Next]_vars
<1> SUFFICES ASSUME [AirNext]_airVars PROVE [Next]_vars
  OBVIOUS
<1>1. ASSUME NEW g \in Gas, NEW r \in Reading, Measure(g, r) PROVE UNCHANGED vars
  BY <1>1 DEF Measure
<1>2. ASSUME NEW arrives \in BOOLEAN, Handle(arrives) PROVE UNCHANGED vars
  BY <1>2 DEF Handle
<1>3. CASE WriteControl
  BY <1>3 DEF WriteControl, Next
<1>4. CASE WriteScreen
  BY <1>4 DEF WriteScreen, Next
<1>5. CASE LeaveOrJoin
  BY <1>5 DEF LeaveOrJoin
<1>6. CASE AirRestart
  BY <1>6 DEF AirRestart, Next
<1>7. CASE UNCHANGED airVars
  BY <1>7 DEF airVars
<1> QED
  BY <1>1, <1>2, <1>3, <1>4, <1>5, <1>6, <1>7 DEF AirNext

(* The composition implements the settings.                                *)
LEMMA SettingsImplemented == AirSpec => Spec
<1>1. AirInit => Init
  BY DEF AirInit
<1> QED
  BY <1>1, SettingsStep, PTL DEF AirSpec, Spec

(* The thresholds in use stay in range with low below high, whatever the   *)
(* relay control does in between.                                          *)
THEOREM LowBelowHighInAir == AirSpec => []LowBelowHigh
  BY SettingsImplemented, LowBelowHighHolds, PTL

(* Every setting in use has been saved.                                    *)
THEOREM NothingUnsavedInAir == AirSpec => []NothingUnsaved
  BY SettingsImplemented, NothingUnsavedHolds, PTL

(* A hub reads the thresholds that are in use, or a value out of range.    *)
THEOREM ThresholdsShownInAir == AirSpec => []ThresholdsShown
  BY SettingsImplemented, ThresholdsShownHolds, PTL

-------------------------------------------------------------------------------

\* what the steps of the composition need to know
AirInv == TypeOK /\ NothingUnsaved /\ reading \in [Gas -> Reading]

ReadingOK == reading \in [Gas -> Reading]

LEMMA AirInvHolds == AirSpec => []AirInv
<1>1. AirInit => ReadingOK
  BY AirAssumption DEF AirInit, ReadingOK
<1>2. ReadingOK /\ [AirNext]_airVars => ReadingOK'
  <2> SUFFICES ASSUME ReadingOK, [AirNext]_airVars PROVE ReadingOK'
    OBVIOUS
  <2>1. ASSUME NEW g \in Gas, NEW r \in Reading, Measure(g, r) PROVE ReadingOK'
    BY <2>1 DEF Measure, ReadingOK
  <2>2. CASE UNCHANGED reading
    BY <2>2 DEF ReadingOK
  <2>3. CASE AirRestart
    BY <2>3, AirAssumption DEF AirRestart, ReadingOK
  <2> QED
    BY <2>1, <2>2, <2>3
    DEF AirNext, Handle, WriteControl, WriteScreen, LeaveOrJoin, airVars
<1>3. TypeOK /\ NothingUnsaved /\ ReadingOK => AirInv
  BY DEF AirInv, ReadingOK
<1>4. AirSpec => []ReadingOK
  BY <1>1, <1>2, PTL DEF AirSpec
<1>5. AirSpec => []TypeOK
  BY SettingsImplemented, TypeCorrect, PTL
<1> QED
  BY <1>3, <1>4, <1>5, NothingUnsavedInAir, PTL

LEMMA BandsTyped == [g \in Gas |-> Band(g)] \in [Gas -> {"low", "mid", "high"}]
  BY DEF Band

(* A reading of 0 is low whatever the thresholds.                          *)
LEMMA ZeroIsLow ==
    ASSUME TypeOK, reading = [g \in Gas |-> 0]
    PROVE  [g \in Gas |-> Band(g)] = [g \in Gas |-> "low"]
<1> SUFFICES ASSUME NEW g \in Gas PROVE Band(g) = "low"
  OBVIOUS
<1>1. config.low[g] \in Nat
  BY DEF TypeOK, ConfigRec
<1> QED
  BY <1>1 DEF Band

LEMMA InitControl == AirInit => Control!Init
<1> SUFFICES ASSUME AirInit PROVE Control!Init
  OBVIOUS
<1>1. TypeOK
  BY InitIInv DEF AirInit, IInv
<1>2. [g \in Gas |-> Band(g)] = [g \in Gas |-> "low"]
  BY <1>1, ZeroIsLow DEF AirInit
<1>3. config.onoff \in [Gas -> BOOLEAN]
  BY <1>1 DEF TypeOK, ConfigRec
<1> QED
  BY <1>2, <1>3 DEF AirInit, Control!Init

(* The thresholds written and the readings read are, for the handler, other *)
(* readings.                                                               *)
LEMMA MeasureControl ==
    ASSUME config'.onoff = config.onoff, fresh' = FALSE, sent' = << >>,
           UNCHANGED relayVars
    PROVE  Control!Measure
  BY BandsTyped DEF Control!Measure, relayVars, Band

(* The handlers of the thresholds leave the enabling settings alone.       *)
LEMMA EnablingUntouched ==
    ASSUME NEW s, NEW g, NEW v
    PROVE  /\ LowWritten(s, g, v).config.onoff = s.config.onoff
           /\ HighWritten(s, g, v).config.onoff = s.config.onoff
<1>1. LowWritten(s, g, v).config.onoff = s.config.onoff
  BY DEF LowWritten
<1>2. HighWritten(s, g, v).config.onoff = s.config.onoff
  BY DEF HighWritten
<1> QED
  BY <1>1, <1>2

LEMMA StepControl == AirInv /\ AirInv' /\ [AirNext]_airVars => [Control!Next]_Control!vars
<1> SUFFICES ASSUME AirInv, AirInv', [AirNext]_airVars
             PROVE  Control!Next \/ UNCHANGED Control!vars
  OBVIOUS
<1>1. ASSUME NEW g \in Gas, NEW r \in Reading, Measure(g, r) PROVE Control!Next
  <2>1. Control!Measure
    BY <1>1, MeasureControl DEF Measure, vars
  <2> QED
    BY <2>1 DEF Control!Next
<1>2. ASSUME NEW arrives \in BOOLEAN, Handle(arrives) PROVE Control!Next
  BY <1>2 DEF Handle, Control!Next
<1>3. CASE WriteControl
  <2>1. ASSUME NEW g \in Gas, NEW low \in Value \cup {Absent}, NEW high \in Value \cup {Absent},
               NEW lowFirst \in BOOLEAN, WriteThresholds(g, low, high, lowFirst)
        PROVE  config'.onoff = config.onoff
    <3> DEFINE s == [config |-> config, attr |-> Stored(g, low, high), save |-> FALSE]
               l == LowWritten(s, g, low)
               h == HighWritten(s, g, high)
    <3>1. config' = IF lowFirst THEN HighWritten(l, g, high).config ELSE LowWritten(h, g, low).config
      BY <2>1 DEF WriteThresholds
    <3>2. s.config = config
      OBVIOUS
    <3> HIDE DEF s
    <3>3. /\ l.config.onoff = s.config.onoff
          /\ h.config.onoff = s.config.onoff
      BY EnablingUntouched
    <3> HIDE DEF l, h
    <3>4. /\ HighWritten(l, g, high).config.onoff = l.config.onoff
          /\ LowWritten(h, g, low).config.onoff = h.config.onoff
      BY EnablingUntouched
    <3> QED
      BY <3>1, <3>2, <3>3, <3>4
  <2>2. ASSUME NEW g \in Gas, WriteOnOff(g) PROVE Control!WriteOnOff
    <3>1. /\ config'.onoff = [config.onoff EXCEPT ![g] = ~@]
          /\ config'.low = config.low /\ config'.high = config.high
      BY <2>2 DEF WriteOnOff, AirInv, TypeOK, ConfigRec
    <3>2. fresh' = FALSE /\ sent' = << >> /\ UNCHANGED <<reading, relayVars>>
      BY <1>3 DEF WriteControl
    <3>3. \A h \in Gas : Band(h)' = Band(h)
      BY <3>1, <3>2 DEF Band
    <3> QED
      BY <3>1, <3>2, <3>3 DEF Control!WriteOnOff, relayVars
  <2> QED
    BY <1>3, <2>1, <2>2, MeasureControl DEF WriteControl, Control!Next
<1>4. CASE WriteScreen
  <2>1. /\ config'.onoff = config.onoff /\ config'.low = config.low
        /\ config'.high = config.high
    BY <1>4 DEF WriteScreen, WriteFlags, Click, AirInv, TypeOK, ConfigRec
  <2> QED
    BY <1>4, <2>1 DEF WriteScreen, relayVars, Control!vars, Band
<1>5. CASE LeaveOrJoin
  BY <1>5 DEF LeaveOrJoin, Control!LeaveOrJoin, Control!Next, Band, vars
<1>6. CASE AirRestart
  <2>1. config' = config
    BY <1>6 DEF AirRestart, Restart, Exception, AirInv, NothingUnsaved
  <2>2. ([g \in Gas |-> Band(g)])' = [g \in Gas |-> "low"]
    <3> SUFFICES ASSUME NEW g \in Gas PROVE Band(g)' = "low"
      OBVIOUS
    <3>1. config'.low[g] \in Nat
      BY <2>1 DEF AirInv, TypeOK, ConfigRec
    <3>2. reading'[g] = 0
      BY <1>6 DEF AirRestart
    <3> QED
      BY <3>1, <3>2 DEF Band
  <2> QED
    BY <1>6, <2>1, <2>2 DEF AirRestart, Control!Restart, Control!Next
<1>7. CASE UNCHANGED airVars
  BY <1>7 DEF airVars, relayVars, vars, Control!vars, Band
<1> QED
  BY <1>1, <1>2, <1>3, <1>4, <1>5, <1>6, <1>7 DEF AirNext

(* The composition implements the relay control over bands.                *)
THEOREM ControlIsImplemented == AirSpec => ControlImplemented
<1>1. AirSpec => Control!Init /\ [][Control!Next]_Control!vars
  BY InitControl, StepControl, AirInvHolds, PTL DEF AirSpec
<1> QED
  BY <1>1 DEF ControlImplemented, Control!Spec

\* the two instances of OnOffControl, with and without its proofs, are one
LEMMA SameInit == Control!Init => Bands!Init
  BY DEF Control!Init, Bands!Init

LEMMA SameNext == [Control!Next]_Control!vars => [Bands!Next]_Bands!vars
<1> USE DEF Control!vars, Bands!vars
<1>1. ASSUME NEW arrives \in BOOLEAN, Control!proc_co2_voc_onoff(arrives)
      PROVE  Bands!proc_co2_voc_onoff(arrives)
  BY <1>1 DEF Control!proc_co2_voc_onoff, Bands!proc_co2_voc_onoff, Control!Commands,
     Bands!Commands, Control!After, Bands!After, Control!Disabled, Bands!Disabled,
     Control!TurnOn, Bands!TurnOn, Control!TurnOff, Bands!TurnOff, Control!ctrl_on,
     Bands!ctrl_on, Control!ctrl_off, Bands!ctrl_off
<1>2. Control!Measure => Bands!Measure
  BY DEF Control!Measure, Bands!Measure
<1>3. Control!WriteOnOff => Bands!WriteOnOff
  BY DEF Control!WriteOnOff, Bands!WriteOnOff
<1>4. Control!LeaveOrJoin => Bands!LeaveOrJoin
  BY DEF Control!LeaveOrJoin, Bands!LeaveOrJoin
<1>5. Control!Restart => Bands!Restart
  BY DEF Control!Restart, Bands!Restart
<1> QED
  BY <1>1, <1>2, <1>3, <1>4, <1>5 DEF Control!Next, Bands!Next

LEMMA BandsImplemented == AirSpec => Bands!Init /\ [][Bands!Next]_Bands!vars
  BY ControlIsImplemented, SameInit, SameNext, PTL DEF ControlImplemented, Control!Spec

(* All variables keep their types; one command at most in each run.        *)
THEOREM AirTypeCorrect == AirSpec => []AirTypeOK
<1>1. Bands!Init /\ [][Bands!Next]_Bands!vars => []Bands!TypeOK
  BY Bands!TypeCorrect DEF Bands!Spec
<1>2. AirInv /\ Bands!TypeOK => AirTypeOK
  BY DEF AirInv, AirTypeOK, Bands!TypeOK, Control!TypeOK
<1> QED
  BY <1>1, <1>2, BandsImplemented, AirInvHolds, PTL

(* The relay follows the readings and thresholds as numbers.               *)
THEOREM RelayFollowsAirInNumbers == AirSpec => []RelayFollowsAir
<1>1. Bands!Init /\ [][Bands!Next]_Bands!vars => []Bands!RelayFollowsAir
  BY Bands!RelayFollowsAirHolds DEF Bands!Spec
<1>2. Bands!RelayFollowsAir => RelayFollowsAir
  BY DEF RelayFollowsAir, Control!RelayFollowsAir, Bands!RelayFollowsAir, Control!In, Bands!In
<1> QED
  BY BandsImplemented, <1>1, <1>2, PTL

(* What unchanged readings and thresholds must not repeat.                 *)
THEOREM NoChatterInNumbers == AirSpec => NoChatter
<1>1. Bands!Init /\ [][Bands!Next]_Bands!vars => Bands!NoChatter
  BY Bands!NoChatterHolds DEF Bands!Spec
<1>2. Bands!NoChatter => NoChatter
  BY PTL DEF NoChatter, Control!NoChatter, Bands!NoChatter, Control!vars, Bands!vars
<1> QED
  BY BandsImplemented, <1>1, <1>2, PTL
=============================================================================
