--------------------------- MODULE DevicesProofs ---------------------------
(***************************************************************************)
(* The drivers of the button, the CO2 sensor and the screen, for any       *)
(* times, readings and losses.                                             *)
(***************************************************************************)
EXTENDS Button, Scd4x, Screen, TLAPS

-----------------------------------------------------------------------------
(* Button: what the parts of the handler do to app_button *)

LEMMA FieldTypes ==
  ASSUME NEW b \in Buttons
  PROVE  /\ \A x \in BOOLEAN : /\ [b EXCEPT !.pressed = x] \in Buttons
                               /\ [b EXCEPT !.released = x] \in Buttons
                               /\ [b EXCEPT !.hold = x] \in Buttons
         /\ \A n \in 0..255 : [b EXCEPT !.counter = n] \in Buttons
         /\ \A n \in 1..DEBOUNCE_BUTTON : [b EXCEPT !.debounce = n] \in Buttons
         /\ \A n \in 0..Oldest : [b EXCEPT !.age = n] \in Buttons
<1>1. ASSUME NEW x \in BOOLEAN PROVE [b EXCEPT !.pressed = x] \in Buttons
  BY DEF Buttons
<1>2. ASSUME NEW x \in BOOLEAN PROVE [b EXCEPT !.released = x] \in Buttons
  BY DEF Buttons
<1>3. ASSUME NEW x \in BOOLEAN PROVE [b EXCEPT !.hold = x] \in Buttons
  BY DEF Buttons
<1>4. ASSUME NEW n \in 0..255 PROVE [b EXCEPT !.counter = n] \in Buttons
  BY DEF Buttons
<1>5. ASSUME NEW n \in 1..DEBOUNCE_BUTTON PROVE [b EXCEPT !.debounce = n] \in Buttons
  BY DEF Buttons
<1>6. ASSUME NEW n \in 0..Oldest PROVE [b EXCEPT !.age = n] \in Buttons
  BY DEF Buttons
<1> QED
  BY <1>1, <1>2, <1>3, <1>4, <1>5, <1>6

LEMMA AgedFacts ==
  ASSUME button \in Buttons
  PROVE  /\ Aged \in Buttons
         /\ Aged.age = IF button.age < Oldest THEN button.age + 1 ELSE Oldest
         /\ Aged.debounce = button.debounce /\ Aged.counter = button.counter
         /\ (Aged.pressed <=> button.pressed) /\ (Aged.released <=> button.released)
         /\ (Aged.hold <=> button.hold)
  BY ButtonAssumption DEF Aged, Buttons, Older, Oldest

LEMMA HeldFacts ==
  ASSUME NEW b \in Buttons, NEW h, h = Held(b)
  PROVE  /\ h \in Buttons
         /\ h.age = b.age /\ h.debounce = b.debounce
         /\ (h.pressed <=> b.pressed) /\ (h.released <=> b.released)
         /\ h.counter = IF Resets(b) THEN 255 ELSE b.counter
<1>1. CASE ~(b.pressed /\ b.counter # 255 /\ b.age > Multi)
  <2>1. h = b
    BY <1>1 DEF Held
  <2>2. ~Resets(b)
    BY <1>1, ButtonAssumption DEF Resets, Buttons, Oldest
  <2> QED
    BY <2>1, <2>2
<1>2. CASE b.pressed /\ b.counter # 255 /\ b.age > Multi /\ ~b.hold
  <2>1. h = [b EXCEPT !.hold = TRUE]
    BY <1>2 DEF Held
  <2>2. ~Resets(b)
    BY <1>2 DEF Resets
  <2>3. h \in Buttons
    BY <2>1, FieldTypes
  <2>4. /\ h.age = b.age /\ h.debounce = b.debounce /\ h.counter = b.counter
        /\ (h.pressed <=> b.pressed) /\ (h.released <=> b.released)
    BY <2>1 DEF Buttons
  <2> QED
    BY <2>2, <2>3, <2>4
<1>3. CASE b.pressed /\ b.counter # 255 /\ b.age > Multi /\ b.hold /\ b.age > HoldTime
  <2>1. h = [b EXCEPT !.counter = 255]
    BY <1>3 DEF Held
  <2>2. Resets(b)
    BY <1>3 DEF Resets
  <2>3. h \in Buttons
    <3>1. 255 \in 0..255
      OBVIOUS
    <3>2. [b EXCEPT !.counter = 255] \in Buttons
      BY <3>1, FieldTypes, Zenon
    <3> QED
      BY <2>1, <3>2, Zenon
  <2>4. /\ h.age = b.age /\ h.debounce = b.debounce /\ h.counter = 255
        /\ (h.pressed <=> b.pressed) /\ (h.released <=> b.released)
    BY <2>1 DEF Buttons
  <2> QED
    BY <2>2, <2>3, <2>4
<1>4. CASE b.pressed /\ b.counter # 255 /\ b.age > Multi /\ b.hold /\ ~(b.age > HoldTime)
  BY <1>4 DEF Held, Resets
<1> QED
  BY <1>1, <1>2, <1>3, <1>4

LEMMA DownFacts ==
  ASSUME NEW b \in Buttons, NEW c, c = DebounceDown(b)
  PROVE  /\ c \in Buttons /\ (c.released <=> b.released)
         /\ b.debounce = DEBOUNCE_BUTTON => c = b
         /\ b.debounce + 1 < DEBOUNCE_BUTTON =>
              /\ c.debounce = b.debounce + 1 /\ c.age = b.age
              /\ (c.pressed <=> b.pressed) /\ c.counter = b.counter
         /\ b.debounce + 1 = DEBOUNCE_BUTTON =>
              /\ c.debounce = DEBOUNCE_BUTTON /\ c.age = 0
              /\ c.pressed <=> b.pressed \/ b.counter = 0
              /\ c.counter = b.counter \/ c.counter = (b.counter + 1) % 256
              /\ b.counter = 0 => c.counter = 1
<1>1. b.debounce \in 1..DEBOUNCE_BUTTON /\ DEBOUNCE_BUTTON \in Nat /\ b.counter \in 0..255
  BY ButtonAssumption DEF Buttons
<1>2. CASE b.debounce = DEBOUNCE_BUTTON
  <2>1. c = b
    BY <1>2 DEF DebounceDown
  <2> QED
    BY <1>1, <1>2, <2>1
<1>3. CASE b.debounce + 1 < DEBOUNCE_BUTTON
  <2>1. c = [b EXCEPT !.debounce = b.debounce + 1]
    BY <1>1, <1>3 DEF DebounceDown
  <2>2. b.debounce + 1 \in 1..DEBOUNCE_BUTTON
    BY <1>1, <1>3
  <2> QED
    BY <1>1, <1>3, <2>1, <2>2 DEF Buttons
<1>4. CASE b.debounce + 1 = DEBOUNCE_BUTTON
  <2> DEFINE p == b.pressed \/ b.counter = 0
             n == IF b.counter = 0 \/ (b.pressed /\ b.age <= Multi)
                  THEN (b.counter + 1) % 256 ELSE b.counter
             u == [b EXCEPT !.debounce = DEBOUNCE_BUTTON, !.age = 0]
  <2>1. p \in BOOLEAN /\ n \in 0..255 /\ (n = b.counter \/ n = (b.counter + 1) % 256)
    BY <1>1
  <2>2. b.counter = 0 => n = 1
    BY <1>1
  <2>3. u \in Buttons
    <3>1. [b EXCEPT !.debounce = DEBOUNCE_BUTTON] \in Buttons
      <4>1. DEBOUNCE_BUTTON \in 1..DEBOUNCE_BUTTON
        BY ButtonAssumption
      <4> QED
        BY <4>1, FieldTypes, Zenon
    <3>2. u = [[b EXCEPT !.debounce = DEBOUNCE_BUTTON] EXCEPT !.age = 0]
      OBVIOUS
    <3>3. 0 \in 0..Oldest
      BY ButtonAssumption DEF Oldest
    <3> HIDE DEF u
    <3> QED
      BY <3>1, <3>2, <3>3, FieldTypes
  <2>4. c = [b EXCEPT !.debounce = DEBOUNCE_BUTTON, !.age = 0, !.pressed = p, !.counter = n]
    BY <1>1, <1>4 DEF DebounceDown
  <2> HIDE DEF p, n
  <2>5. c = [u EXCEPT !.pressed = p, !.counter = n]
    BY <2>4
  <2>6. c \in Buttons
    <3>1. [u EXCEPT !.pressed = p] \in Buttons
      BY <2>1, <2>3, FieldTypes
    <3>2. c = [[u EXCEPT !.pressed = p] EXCEPT !.counter = n]
      BY <2>5
    <3> DEFINE v == [u EXCEPT !.pressed = p]
    <3> HIDE DEF u, v
    <3>3. [v EXCEPT !.counter = n] \in Buttons
      BY <2>1, <3>1, FieldTypes, Zenon DEF v
    <3> QED
      BY <3>2, <3>3, Zenon DEF v
  <2>7. /\ c.debounce = DEBOUNCE_BUTTON /\ c.age = 0 /\ (c.released <=> b.released)
        /\ (c.pressed <=> p) /\ c.counter = n
    BY <2>4 DEF Buttons
  <2>8. c.pressed <=> b.pressed \/ b.counter = 0
    BY <2>7 DEF p
  <2>9. b.debounce # DEBOUNCE_BUTTON /\ ~(b.debounce + 1 < DEBOUNCE_BUTTON)
    BY <1>1, <1>4
  <2>10. (c.counter = b.counter \/ c.counter = (b.counter + 1) % 256)
         /\ (b.counter = 0 => c.counter = 1)
    BY <2>1, <2>2, <2>7
  <2> QED
    BY <2>6, <2>7, <2>8, <2>9, <2>10
<1>5. b.debounce = DEBOUNCE_BUTTON \/ b.debounce + 1 < DEBOUNCE_BUTTON
        \/ b.debounce + 1 = DEBOUNCE_BUTTON
  BY <1>1
<1> QED
  BY <1>2, <1>3, <1>4, <1>5

LEMMA UpFacts ==
  ASSUME NEW b \in Buttons, NEW c, c = DebounceUp(b)
  PROVE  /\ c \in Buttons
         /\ c.debounce = IF b.debounce = 1 THEN 1 ELSE b.debounce - 1
         /\ c.released <=> b.released \/ (b.debounce = 2 /\ b.pressed)
         /\ c.age = b.age /\ (c.pressed <=> b.pressed) /\ c.counter = b.counter
<1>1. CASE b.debounce = 1
  BY <1>1 DEF DebounceUp
<1>2. CASE b.debounce # 1
  <2> DEFINE r == b.released \/ (b.debounce = 2 /\ b.pressed)
  <2>1. r \in BOOLEAN /\ b.debounce - 1 \in 1..DEBOUNCE_BUTTON
    BY <1>2, ButtonAssumption DEF Buttons
  <2>2. c = [b EXCEPT !.debounce = b.debounce - 1, !.released = r]
    BY <1>2 DEF DebounceUp
  <2> HIDE DEF r
  <2>3. c \in Buttons
    BY <2>1, <2>2 DEF Buttons
  <2>4. /\ c.debounce = b.debounce - 1 /\ (c.released <=> r)
        /\ c.age = b.age /\ (c.pressed <=> b.pressed) /\ c.counter = b.counter
    BY <2>2 DEF Buttons
  <2> QED
    BY <1>2, <2>3, <2>4 DEF r
<1> QED
  BY <1>1, <1>2

LEMMA ClosedFacts ==
  ASSUME NEW b \in Buttons, NEW c, c = Closed(b)
  PROVE  /\ c \in Buttons /\ c.debounce = b.debounce /\ c.age = b.age
         /\ c.counter = 0 /\ ~c.pressed /\ ~c.released
<1> DEFINE u == [b EXCEPT !.counter = 0, !.pressed = FALSE]
           v == [u EXCEPT !.released = FALSE]
<1>1. u = [[b EXCEPT !.counter = 0] EXCEPT !.pressed = FALSE]
  OBVIOUS
<1>2. c = [v EXCEPT !.hold = FALSE]
  BY DEF Closed
<1>3. c \in Buttons
  <2>1. u \in Buttons
    <3>1. [b EXCEPT !.counter = 0] \in Buttons
      <4>1. 0 \in 0..255
        OBVIOUS
      <4> QED
        BY <4>1, FieldTypes, Zenon
    <3> QED
      BY <1>1, <3>1, FieldTypes
  <2> HIDE DEF u
  <2>2. v \in Buttons
    BY <2>1, FieldTypes
  <2> HIDE DEF v
  <2> QED
    BY <1>2, <2>2, FieldTypes
<1>4. /\ c.debounce = b.debounce /\ c.age = b.age
      /\ c.counter = 0 /\ ~c.pressed /\ ~c.released
  BY DEF Closed, Buttons
<1> QED
  BY <1>3, <1>4

(* A group has a press; a press that is over is marked; and a group that   *)
(* has been quiet for long enough is not there any more.                   *)
GroupOK(b) ==
    /\ b.counter # 0 => b.pressed
    /\ b.pressed /\ b.debounce = 1 => b.released
    /\ b.pressed /\ b.released => b.age <= Multi

(* One poll with the pin low, before a group is closed.                    *)
LEMMA PolledDown ==
  ASSUME button \in Buttons, GroupOK(button), NEW c, c = DebounceDown(Held(Aged)),
         NEW n, n = IF Resets(Aged) THEN 255 ELSE button.counter
  PROVE  /\ c \in Buttons /\ (c.released <=> button.released)
         /\ c.counter # 0 => c.pressed
         /\ c.debounce = IF button.debounce = DEBOUNCE_BUTTON THEN DEBOUNCE_BUTTON
                         ELSE button.debounce + 1
         /\ button.debounce + 1 # DEBOUNCE_BUTTON =>
              c.age = Aged.age /\ (c.pressed <=> button.pressed) /\ c.counter = n
         /\ button.debounce + 1 = DEBOUNCE_BUTTON =>
              c.age = 0 /\ (c.counter = n \/ c.counter = (n + 1) % 256)
<1> DEFINE h == Held(Aged)
<1>1. /\ Aged \in Buttons /\ Aged.debounce = button.debounce /\ Aged.counter = button.counter
      /\ (Aged.pressed <=> button.pressed) /\ (Aged.released <=> button.released)
  BY AgedFacts
<1>2. /\ h \in Buttons /\ h.age = Aged.age /\ h.debounce = button.debounce
      /\ (h.pressed <=> button.pressed) /\ (h.released <=> button.released)
      /\ h.counter = n
  BY <1>1, HeldFacts
<1>3. h.counter # 0 => h.pressed
  BY <1>1, <1>2 DEF GroupOK, Resets
<1>4. c = DebounceDown(h)
  OBVIOUS
<1> HIDE DEF h
<1>5. c \in Buttons
  BY <1>2, <1>4, DownFacts
<1>6. c.released <=> button.released
  BY <1>2, <1>4, DownFacts
<1>7. h.debounce = DEBOUNCE_BUTTON => c = h
  BY <1>2, <1>4, DownFacts
<1>8. h.debounce + 1 < DEBOUNCE_BUTTON =>
        /\ c.debounce = h.debounce + 1 /\ c.age = h.age
        /\ (c.pressed <=> h.pressed) /\ c.counter = h.counter
  BY <1>2, <1>4, DownFacts
<1>9. h.debounce + 1 = DEBOUNCE_BUTTON =>
        /\ c.debounce = DEBOUNCE_BUTTON /\ c.age = 0
        /\ (c.pressed <=> h.pressed \/ h.counter = 0)
        /\ c.counter = h.counter \/ c.counter = (h.counter + 1) % 256
  BY <1>2, <1>4, DownFacts
<1>10. DEBOUNCE_BUTTON \in Nat /\ DEBOUNCE_BUTTON > 1 /\ h.debounce \in 1..DEBOUNCE_BUTTON
  BY <1>2, ButtonAssumption DEF Buttons
<1>11. c.counter # 0 => c.pressed
  <2>1. CASE h.debounce = DEBOUNCE_BUTTON
    BY <1>3, <1>7, <2>1, Zenon
  <2>2. CASE h.debounce + 1 < DEBOUNCE_BUTTON
    BY <1>3, <1>8, <2>2, Zenon
  <2>3. CASE h.debounce + 1 = DEBOUNCE_BUTTON
    BY <1>3, <1>9, <2>3, Zenon
  <2> QED
    BY <1>10, <2>1, <2>2, <2>3
<1>12. c.debounce = IF button.debounce = DEBOUNCE_BUTTON THEN DEBOUNCE_BUTTON
                    ELSE button.debounce + 1
  BY <1>2, <1>7, <1>8, <1>9, <1>10
<1>13. button.debounce + 1 # DEBOUNCE_BUTTON =>
         c.age = Aged.age /\ (c.pressed <=> button.pressed) /\ c.counter = n
  <2>1. CASE button.debounce = DEBOUNCE_BUTTON
    BY <1>2, <1>7, <2>1, Zenon
  <2>2. CASE button.debounce + 1 < DEBOUNCE_BUTTON
    BY <1>2, <1>8, <2>2, Zenon
  <2> QED
    BY <1>2, <1>10, <2>1, <2>2
<1>14. button.debounce + 1 = DEBOUNCE_BUTTON =>
         c.age = 0 /\ (c.counter = n \/ c.counter = (n + 1) % 256)
  BY <1>2, <1>9, Zenon
<1> QED
  BY <1>2, <1>5, <1>6, <1>10, <1>11, <1>12, <1>13, <1>14

(* One poll with the pin high, before a group is closed.                   *)
LEMMA PolledUp ==
  ASSUME button \in Buttons, GroupOK(button), NEW c, c = DebounceUp(Aged)
  PROVE  /\ c \in Buttons /\ c.age = Aged.age
         /\ (c.pressed <=> button.pressed) /\ c.counter = button.counter
         /\ c.debounce = IF button.debounce = 1 THEN 1 ELSE button.debounce - 1
         /\ c.debounce = 1 /\ c.pressed => c.released
         /\ button.released => c.released
<1>1. /\ Aged \in Buttons /\ Aged.debounce = button.debounce /\ Aged.counter = button.counter
      /\ (Aged.pressed <=> button.pressed) /\ (Aged.released <=> button.released)
  BY AgedFacts
<1>3. /\ c \in Buttons
      /\ c.debounce = IF Aged.debounce = 1 THEN 1 ELSE Aged.debounce - 1
      /\ c.released <=> Aged.released \/ (Aged.debounce = 2 /\ Aged.pressed)
      /\ c.age = Aged.age /\ (c.pressed <=> Aged.pressed) /\ c.counter = Aged.counter
  BY <1>1, UpFacts
<1>4. button.debounce \in Nat
  BY ButtonAssumption DEF Buttons
<1>5. c \in Buttons /\ c.age = Aged.age
  BY <1>3
<1>6. c.pressed <=> button.pressed
  BY <1>1, <1>3
<1>7. c.counter = button.counter
  BY <1>1, <1>3
<1>8. c.debounce = IF button.debounce = 1 THEN 1 ELSE button.debounce - 1
  BY <1>1, <1>3
<1>9. button.released => c.released
  BY <1>1, <1>3
<1>10. button.debounce = 2 /\ button.pressed => c.released
  BY <1>1, <1>3
<1>11. c.debounce = 1 /\ c.pressed => c.released
  <2> SUFFICES ASSUME c.debounce = 1, c.pressed PROVE c.released
    OBVIOUS
  <2>1. button.debounce = 1 \/ button.debounce = 2
    BY <1>4, <1>8
  <2>2. button.pressed
    BY <1>6, Zenon
  <2>3. button.debounce = 1 => button.released
    BY <2>2, Zenon DEF GroupOK
  <2> QED
    BY <2>1, <2>2, <2>3, <1>9, <1>10, Zenon
<1> QED
  BY <1>5, <1>6, <1>7, <1>8, <1>9, <1>11

(* The end of a poll, when the group may be closed.                        *)
LEMMA PollEnd ==
  ASSUME NEW c \in Buttons, c.counter # 0 => c.pressed, c.debounce = 1 /\ c.pressed => c.released,
         NEW d, d = IF Closes(c) THEN Closed(c) ELSE c
  PROVE  /\ d \in Buttons /\ d.debounce = c.debounce /\ d.age = c.age
         /\ GroupOK(d)
         /\ Closes(c) => d.counter = 0 /\ ~d.pressed
<1>1. CASE Closes(c)
  <2>1. d = Closed(c)
    BY <1>1
  <2>2. /\ d \in Buttons /\ d.debounce = c.debounce /\ d.age = c.age
        /\ d.counter = 0 /\ ~d.pressed /\ ~d.released
    BY <2>1, ClosedFacts
  <2> QED
    BY <2>2 DEF GroupOK
<1>2. CASE ~Closes(c)
  <2>1. d = c
    BY <1>2
  <2>2. c.pressed /\ c.released => c.age <= Multi
    BY <1>2, ButtonAssumption DEF Closes, Buttons, Oldest
  <2>3. GroupOK(c)
    BY <2>2, Zenon DEF GroupOK
  <2> QED
    BY <1>2, <2>1, <2>3
<1> QED
  BY <1>1, <1>2

-----------------------------------------------------------------------------
(* Button: the invariant *)

(* A finger that is up for some polls: the debouncing is over or under way, *)
(* and no press was counted since.                                         *)
UpOK ==
    ~down => /\ button.debounce = 1 \/ button.debounce + stay <= DEBOUNCE_BUTTON
             /\ button.age = Oldest \/ button.age >= stay

(* The clicks of a group were made by the finger, the one that is being    *)
(* debounced included.                                                     *)
TapsOK ==
    button.counter # 255 =>
      /\ button.counter <= taps
      /\ down /\ button.debounce < DEBOUNCE_BUTTON => button.counter + 1 <= taps

ButtonInv ==
    /\ ButtonTypeOK
    /\ GroupOK(button) /\ UpOK /\ TapsOK

LEMMA ButtonInvInit == ButtonInit => ButtonInv
<1> SUFFICES ASSUME ButtonInit PROVE ButtonInv
  OBVIOUS
<1>1. stay \in 1..Longest
  BY ButtonAssumption DEF ButtonInit, Longest
<1>2. button \in Buttons
  BY ButtonAssumption DEF ButtonInit, Buttons, Oldest
<1>3. GroupOK(button) /\ UpOK /\ TapsOK
  BY DEF ButtonInit, GroupOK, UpOK, TapsOK
<1>4. down \in BOOLEAN /\ reset \in BOOLEAN
  BY Zenon DEF ButtonInit
<1>5. resets \in 0..2 /\ taps \in 0..MaxTaps /\ clicks \in 0..MaxTaps \cup {255}
  BY ButtonAssumption DEF ButtonInit
<1> QED
  BY <1>1, <1>2, <1>3, <1>4, <1>5 DEF ButtonInv, ButtonTypeOK

(* A poll that reads the pin low.                                          *)
LEMMA DownPoll ==
  ASSUME ButtonInv, down', button_handlerCb(down'), Observed, ~down => taps < MaxTaps
  PROVE  /\ button' \in Buttons /\ GroupOK(button') /\ TapsOK' /\ taps' \in 0..MaxTaps
         /\ clicks' \in 0..MaxTaps \cup {255}
         /\ clicks' \in 1..254 => clicks' <= taps
<1> PICK n : n = IF Resets(Aged) THEN 255 ELSE button.counter
  OBVIOUS
<1> PICK c : c = DebounceDown(Held(Aged))
  OBVIOUS
<1>1. button \in Buttons /\ GroupOK(button)
  BY DEF ButtonInv, ButtonTypeOK
<1>2. /\ button' = IF Closes(c) THEN Closed(c) ELSE c
      /\ clicks' = IF Closes(c) THEN c.counter ELSE 0
  BY DEF button_handlerCb, Polled
<1>3. /\ c \in Buttons
      /\ c.counter # 0 => c.pressed
      /\ c.debounce = IF button.debounce = DEBOUNCE_BUTTON THEN DEBOUNCE_BUTTON
                      ELSE button.debounce + 1
      /\ button.debounce + 1 # DEBOUNCE_BUTTON => c.counter = n
      /\ button.debounce + 1 = DEBOUNCE_BUTTON =>
           c.age = 0 /\ (c.counter = n \/ c.counter = (n + 1) % 256)
  BY <1>1, PolledDown
<1>4. /\ button.debounce \in 1..DEBOUNCE_BUTTON /\ button.counter \in 0..255
      /\ c.counter \in 0..255 /\ taps \in 0..MaxTaps /\ MaxTaps \in 1..254
      /\ DEBOUNCE_BUTTON \in Nat /\ DEBOUNCE_BUTTON > 1
      /\ n = 255 \/ n = button.counter
  BY <1>1, <1>3, ButtonAssumption DEF Buttons, ButtonInv, ButtonTypeOK
<1>5. c.debounce # 1
  BY <1>3, <1>4
<1>6. /\ button' \in Buttons /\ button'.debounce = c.debounce
      /\ GroupOK(button')
      /\ Closes(c) => button'.counter = 0
  BY <1>2, <1>3, <1>5, PollEnd
<1>7. Closes(c) => button.debounce + 1 # DEBOUNCE_BUTTON
  BY <1>3, ButtonAssumption DEF Closes
<1>8. button.counter # 255 =>
        /\ button.counter <= taps
        /\ down /\ button.debounce < DEBOUNCE_BUTTON => button.counter + 1 <= taps
  BY DEF ButtonInv, TapsOK
<1>9. ~down => button.debounce < DEBOUNCE_BUTTON
  BY <1>4, ButtonAssumption DEF ButtonInv, ButtonTypeOK, UpOK
<1>10. taps' = IF clicks' > 0 THEN (IF c.debounce < DEBOUNCE_BUTTON THEN 1 ELSE 0)
               ELSE IF ~down THEN taps + 1 ELSE taps
  BY <1>6 DEF Observed
<1>11. taps' \in 0..MaxTaps
  BY <1>4, <1>10
<1>12. Closes(c) => c.counter = 255 \/ c.counter <= taps
  BY <1>3, <1>4, <1>7, <1>8
<1>13. /\ clicks' \in 0..MaxTaps \cup {255}
       /\ clicks' \in 1..254 => clicks' <= taps
  BY <1>2, <1>4, <1>12
<1>14. TapsOK'
  <2>1. CASE Closes(c)
    <3>1. button'.counter = 0 /\ clicks' = c.counter /\ c.counter = n
      BY <1>2, <1>3, <1>6, <1>7, <2>1
    <3>2. button'.debounce < DEBOUNCE_BUTTON => taps' >= 1
      <4> SUFFICES ASSUME c.debounce < DEBOUNCE_BUTTON PROVE taps' >= 1
        BY <1>6
      <4>1. CASE clicks' > 0
        BY <1>10, <4>1
      <4>2. CASE clicks' = 0
        BY <1>3, <1>4, <1>8, <1>10, <3>1, <4>2
      <4> QED
        BY <1>4, <3>1, <4>1, <4>2
    <3> QED
      BY <1>11, <3>1, <3>2 DEF TapsOK
  <2>2. CASE ~Closes(c)
    <3>1. button' = c /\ clicks' = 0
      BY <1>2, <2>2
    <3>2. taps' = IF ~down THEN taps + 1 ELSE taps
      BY <1>10, <3>1
    <3>3. CASE button.debounce + 1 = DEBOUNCE_BUTTON
      <4>1. n # 255 => n + 1 <= taps'
        BY <1>4, <1>8, <3>2, <3>3
      <4>2. c.counter = 255 \/ c.counter <= taps'
        <5>1. CASE c.counter = n
          BY <1>4, <4>1, <5>1, <1>11
        <5>2. CASE c.counter = (n + 1) % 256
          BY <1>4, <4>1, <5>2, <1>11
        <5> QED
          BY <1>3, <3>3, <5>1, <5>2
      <4>3. c.debounce = DEBOUNCE_BUTTON
        BY <1>3, <1>4, <3>3
      <4> QED
        BY <1>4, <3>1, <4>2, <4>3 DEF TapsOK
    <3>4. CASE button.debounce + 1 # DEBOUNCE_BUTTON
      <4>1. c.counter = n
        BY <1>3, <3>4
      <4>2. n # 255 => n <= taps' /\ (c.debounce < DEBOUNCE_BUTTON => n + 1 <= taps')
        BY <1>3, <1>4, <1>8, <3>2
      <4> QED
        BY <3>1, <4>1, <4>2 DEF TapsOK
    <3> QED
      BY <3>3, <3>4
  <2> QED
    BY <2>1, <2>2
<1> QED
  BY <1>6, <1>11, <1>13, <1>14

(* A poll that reads the pin high.                                         *)
LEMMA UpPoll ==
  ASSUME ButtonInv, ~down', button_handlerCb(down'), Observed,
         IF down THEN stay' = 1 ELSE stay' = Older(stay, Longest)
  PROVE  /\ button' \in Buttons /\ GroupOK(button') /\ UpOK' /\ TapsOK' /\ taps' \in 0..MaxTaps
         /\ clicks' \in 0..MaxTaps \cup {255}
         /\ clicks' \in 1..254 => clicks' <= taps
<1> PICK c : c = DebounceUp(Aged)
  OBVIOUS
<1>1. button \in Buttons /\ GroupOK(button)
  BY DEF ButtonInv, ButtonTypeOK
<1>2. /\ button' = IF Closes(c) THEN Closed(c) ELSE c
      /\ clicks' = IF Closes(c) THEN c.counter ELSE 0
  BY DEF button_handlerCb, Polled
<1>3. /\ c \in Buttons /\ c.age = Aged.age /\ c.counter = button.counter
      /\ (c.pressed <=> button.pressed)
      /\ c.debounce = IF button.debounce = 1 THEN 1 ELSE button.debounce - 1
      /\ c.debounce = 1 /\ c.pressed => c.released
  BY <1>1, PolledUp
<1>4. c.counter # 0 => c.pressed
  BY <1>1, <1>3, Zenon DEF GroupOK
<1>5. /\ button.debounce \in 1..DEBOUNCE_BUTTON /\ button.counter \in 0..255
      /\ button.age \in 0..Oldest /\ Oldest \in Nat \ {0}
      /\ taps \in 0..MaxTaps /\ MaxTaps \in 1..254 /\ stay \in 1..Longest
      /\ DEBOUNCE_BUTTON \in Nat /\ DEBOUNCE_BUTTON > 1
  BY <1>1, ButtonAssumption DEF Buttons, ButtonInv, ButtonTypeOK, Oldest
<1>6. Aged.age = IF button.age < Oldest THEN button.age + 1 ELSE Oldest
  BY <1>1, AgedFacts
<1>7. /\ button' \in Buttons /\ button'.debounce = c.debounce /\ button'.age = c.age
      /\ GroupOK(button')
      /\ Closes(c) => button'.counter = 0
  BY <1>2, <1>3, <1>4, PollEnd
<1>8. taps' = IF clicks' > 0 THEN 0 ELSE taps
  BY DEF Observed
<1>9. button.counter # 255 => button.counter <= taps
  BY DEF ButtonInv, TapsOK
<1>10. /\ taps' \in 0..MaxTaps
       /\ clicks' \in 0..MaxTaps \cup {255}
       /\ clicks' \in 1..254 => clicks' <= taps
  BY <1>2, <1>3, <1>5, <1>8, <1>9
<1>11. TapsOK'
  <2>1. CASE Closes(c)
    BY <1>7, <1>10, <2>1 DEF TapsOK
  <2>2. CASE ~Closes(c)
    <3>1. button' = c /\ clicks' = 0
      BY <1>2, <2>2
    <3> QED
      BY <1>3, <1>5, <1>8, <1>9, <3>1 DEF TapsOK
  <2> QED
    BY <2>1, <2>2
<1>12. UpOK'
  <2>1. button'.debounce = 1 \/ button'.debounce + stay' <= DEBOUNCE_BUTTON
    <3>1. CASE down
      BY <1>3, <1>5, <1>7, <3>1
    <3>2. CASE ~down
      <4>1. button.debounce = 1 \/ button.debounce + stay <= DEBOUNCE_BUTTON
        BY <3>2 DEF ButtonInv, UpOK
      <4>2. stay' <= stay + 1 /\ stay' \in Nat
        BY <1>5, <3>2, ButtonAssumption DEF Older, Longest
      <4> QED
        BY <1>3, <1>5, <1>7, <4>1, <4>2
    <3> QED
      BY <3>1, <3>2
  <2>2. button'.age = Oldest \/ button'.age >= stay'
    <3>1. CASE down
      BY <1>3, <1>5, <1>6, <1>7, <3>1
    <3>2. CASE ~down
      <4>1. button.age = Oldest \/ button.age >= stay
        BY <3>2 DEF ButtonInv, UpOK
      <4>2. stay' <= stay + 1 /\ stay' \in Nat
        BY <1>5, <3>2, ButtonAssumption DEF Older, Longest
      <4> QED
        BY <1>3, <1>5, <1>6, <1>7, <4>1, <4>2
    <3> QED
      BY <3>1, <3>2
  <2> QED
    BY <2>1, <2>2 DEF UpOK
<1> QED
  BY <1>7, <1>10, <1>11, <1>12

LEMMA ButtonInvStep ==
  ASSUME ButtonInv, [ButtonNext]_buttonVars
  PROVE  /\ ButtonInv'
         /\ UNCHANGED buttonVars \/ (clicks' \in 1..254 => clicks' <= taps)
<1>1. /\ down \in BOOLEAN /\ stay \in 1..Longest /\ resets \in 0..2
      /\ Longest \in Nat \ {0}
  BY ButtonAssumption DEF ButtonInv, ButtonTypeOK, Longest
<1>2. CASE ButtonNext
  <2>1. /\ down' \in BOOLEAN /\ stay' \in 1..Longest /\ button_handlerCb(down') /\ Observed
        /\ ~down' => IF down THEN stay' = 1 ELSE stay' = Older(stay, Longest)
        /\ down' /\ ~down => taps < MaxTaps
    <3>1. CASE Stays
      BY <1>1, <3>1 DEF Stays, Older
    <3>2. CASE Moves
      <4>1. button_handlerCb(down') /\ Observed
        BY <3>2, Zenon DEF Moves
      <4>2. down' \in BOOLEAN /\ (down' <=> ~down)
        BY <3>2, Zenon DEF Moves
      <4>3. stay' = 1 /\ (down \/ taps < MaxTaps)
        BY <3>2 DEF Moves
      <4> QED
        BY <1>1, <4>1, <4>2, <4>3
    <3> QED
      BY <1>2, <3>1, <3>2 DEF ButtonNext
  <2>2. resets' \in 0..2
    BY <1>1, <2>1 DEF Observed
  <2>3. reset' \in BOOLEAN
    BY <2>1, Zenon DEF button_handlerCb
  <2>4. CASE down'
    <3>1. UpOK'
      BY <2>4 DEF UpOK
    <3> QED
      BY <2>1, <2>2, <2>3, <2>4, <3>1, DownPoll DEF ButtonInv, ButtonTypeOK
  <2>5. CASE ~down'
    BY <2>1, <2>2, <2>3, <2>5, UpPoll DEF ButtonInv, ButtonTypeOK
  <2> QED
    BY <2>4, <2>5
<1>3. CASE UNCHANGED buttonVars
  BY <1>3 DEF buttonVars, ButtonInv, ButtonTypeOK, UpOK, TapsOK
<1> QED
  BY <1>2, <1>3

(* The pin, the button and the observers keep their types: the counter of  *)
(* clicks (app_button.c:96-104) stays in its byte.                         *)
THEOREM ButtonTypeCorrect == ButtonSpec => []ButtonTypeOK
<1>1. ButtonInv => ButtonTypeOK
  BY DEF ButtonInv
<1> QED
  BY <1>1, ButtonInvInit, ButtonInvStep, PTL DEF ButtonSpec

(* Once the finger is up for long enough no group stays open               *)
(* (app_button.c:113-117, button_idle), for every debounce and all times.  *)
THEOREM NeverStuckHolds == ButtonSpec => []NeverStuck
<1>1. ButtonInv => NeverStuck
  <2> SUFFICES ASSUME ButtonInv, ~down, stay > Multi + DEBOUNCE_BUTTON PROVE ~button_idle
    BY DEF NeverStuck
  <2>1. /\ button.debounce \in 1..DEBOUNCE_BUTTON /\ button.age \in 0..Oldest
        /\ Multi \in Nat /\ HoldTime \in Nat /\ Multi < HoldTime /\ DEBOUNCE_BUTTON \in Nat
        /\ stay \in Nat
    BY ButtonAssumption DEF ButtonInv, ButtonTypeOK, Buttons, Longest
  <2>2. button.debounce = 1 /\ button.age > Multi
    BY <2>1 DEF ButtonInv, UpOK, Oldest
  <2>3. ~(button.age <= Multi)
    BY <2>1, <2>2
  <2>4. ~button.pressed
    BY <2>2, <2>3, Zenon DEF ButtonInv, GroupOK
  <2>5. button.counter = 0
    BY <2>4, Zenon DEF ButtonInv, GroupOK
  <2> QED
    BY <2>2, <2>4, <2>5 DEF button_idle
<1> QED
  BY <1>1, ButtonInvInit, ButtonInvStep, PTL DEF ButtonSpec

(* No poll closes a group with more clicks than the finger made            *)
(* (app_button.c:113-122), however the contact bounces.                    *)
THEOREM NoPhantomClickHolds == ButtonSpec => NoPhantomClick
<1>1. ButtonInv /\ [ButtonNext]_buttonVars => [clicks' \in 1..254 => clicks' <= taps]_buttonVars
  BY ButtonInvStep
<1> QED
  BY <1>1, ButtonInvInit, ButtonInvStep, PTL DEF ButtonSpec, NoPhantomClick

(* A press without a release yet has been debounced, and its age is less   *)
(* than the time the finger is down; the reset has used up its group.      *)
HoldInv ==
    /\ down /\ button.pressed /\ ~button.released =>
         button.debounce = DEBOUNCE_BUTTON /\ button.age < stay
    /\ resets <= 1
    /\ down /\ resets > 0 => button.counter = 255 /\ button.pressed /\ ~button.released
    /\ reset => down /\ stay > HoldTime

(* The two ways the pin is low: the finger is still down, or has just come. *)
LEMMA HeldOn ==
  ASSUME ButtonInv, HoldInv, down, Stays
  PROVE  HoldInv'
<1> PICK n : n = IF Resets(Aged) THEN 255 ELSE button.counter
  OBVIOUS
<1> PICK c : c = DebounceDown(Held(Aged))
  OBVIOUS
<1>1. button \in Buttons /\ GroupOK(button) /\ resets \in 0..2 /\ stay \in 1..Longest
  BY DEF ButtonInv, ButtonTypeOK
<1>2. /\ button' = IF Closes(c) THEN Closed(c) ELSE c
      /\ reset' <=> Resets(Aged)
  BY DEF Stays, button_handlerCb, Polled
<1>3. resets' = IF reset' /\ resets < 2 THEN resets + 1 ELSE resets
  BY DEF Stays, Observed
<1>4. down' /\ stay' = IF stay < Longest THEN stay + 1 ELSE stay
  BY DEF Stays, Older
<1>5. /\ c \in Buttons /\ (c.released <=> button.released)
      /\ c.counter # 0 => c.pressed
      /\ c.debounce = IF button.debounce = DEBOUNCE_BUTTON THEN DEBOUNCE_BUTTON
                      ELSE button.debounce + 1
      /\ button.debounce + 1 # DEBOUNCE_BUTTON =>
           c.age = Aged.age /\ (c.pressed <=> button.pressed) /\ c.counter = n
      /\ button.debounce + 1 = DEBOUNCE_BUTTON => c.age = 0
  BY <1>1, PolledDown
<1>6. /\ button.debounce \in 1..DEBOUNCE_BUTTON /\ button.age \in 0..Oldest
      /\ DEBOUNCE_BUTTON \in Nat /\ DEBOUNCE_BUTTON > 1
      /\ Longest \in Nat /\ Oldest < Longest /\ Oldest = HoldTime + 1
      /\ HoldTime \in Nat /\ Multi \in Nat /\ Multi < HoldTime
  BY <1>1, ButtonAssumption DEF Buttons, Oldest, Longest
<1>7. /\ Aged.age = IF button.age < Oldest THEN button.age + 1 ELSE Oldest
      /\ Aged.counter = button.counter
      /\ (Aged.pressed <=> button.pressed) /\ (Aged.released <=> button.released)
  BY <1>1, AgedFacts
<1>8. c.debounce # 1
  BY <1>5, <1>6
<1>9. /\ button'.debounce = c.debounce /\ button'.age = c.age
      /\ Closes(c) => ~button'.pressed
  BY <1>2, <1>5, <1>8, PollEnd
<1>10. ~Closes(c) => button' = c
  BY <1>2
<1>11. button.pressed /\ ~button.released =>
         button.debounce = DEBOUNCE_BUTTON /\ button.age < stay
  BY DEF HoldInv
<1>12. button'.pressed /\ ~button'.released =>
         button'.debounce = DEBOUNCE_BUTTON /\ button'.age < stay'
  <2> SUFFICES ASSUME button'.pressed, ~button'.released
               PROVE  button'.debounce = DEBOUNCE_BUTTON /\ button'.age < stay'
    OBVIOUS
  <2>1. c.pressed /\ ~c.released
    BY <1>9, <1>10, Zenon
  <2>2. CASE button.debounce + 1 = DEBOUNCE_BUTTON
    BY <1>1, <1>4, <1>5, <1>6, <1>9, <2>2
  <2>3. CASE button.debounce + 1 # DEBOUNCE_BUTTON
    <3>1. button.debounce = DEBOUNCE_BUTTON /\ button.age < stay
      BY <1>5, <1>11, <2>1, <2>3
    <3> QED
      BY <1>1, <1>4, <1>5, <1>6, <1>7, <1>9, <3>1
  <2> QED
    BY <2>2, <2>3
<1>13. reset' => /\ button.pressed /\ ~button.released /\ button.counter # 255
                 /\ stay' > HoldTime
  <2> SUFFICES ASSUME Resets(Aged)
               PROVE  /\ button.pressed /\ ~button.released /\ button.counter # 255
                      /\ stay' > HoldTime
    BY <1>2
  <2>1. Aged.pressed /\ Aged.counter # 255 /\ Aged.age > HoldTime
    BY DEF Resets
  <2>2. button.pressed /\ button.counter # 255
    BY <1>7, <2>1
  <2>3. ~(button.age <= Multi)
    BY <1>6, <1>7, <2>1
  <2>4. ~button.released
    BY <1>1, <2>2, <2>3, Zenon DEF GroupOK
  <2>5. button.age < stay
    BY <1>11, <2>2, <2>4
  <2> QED
    BY <1>1, <1>4, <1>6, <1>7, <2>1, <2>2, <2>4, <2>5
<1>14. resets > 0 => button.counter = 255 /\ button.pressed /\ ~button.released
  BY DEF HoldInv
<1>15. resets' <= 1
  BY <1>1, <1>3, <1>13, <1>14 DEF HoldInv
<1>16. resets' > 0 => button'.counter = 255 /\ button'.pressed /\ ~button'.released
  <2> SUFFICES ASSUME resets' > 0
               PROVE  button'.counter = 255 /\ button'.pressed /\ ~button'.released
    OBVIOUS
  <2>1. button.pressed /\ ~button.released /\ (Resets(Aged) \/ button.counter = 255)
    BY <1>1, <1>2, <1>3, <1>13, <1>14
  <2>2. n = 255
    BY <2>1
  <2>3. button.debounce + 1 # DEBOUNCE_BUTTON
    BY <1>6, <1>11, <2>1
  <2>4. c.counter = 255 /\ c.pressed /\ ~c.released
    BY <1>5, <2>1, <2>2, <2>3
  <2>5. ~Closes(c)
    BY <2>4, Zenon DEF Closes
  <2> QED
    BY <1>10, <2>4, <2>5, Zenon
<1> QED
  BY <1>4, <1>12, <1>13, <1>15, <1>16 DEF HoldInv

LEMMA HeldFirst ==
  ASSUME MinStay >= DEBOUNCE_BUTTON - 1, ButtonInv, ~down, Moves
  PROVE  HoldInv'
<1> PICK c : c = DebounceDown(Held(Aged))
  OBVIOUS
<1>1. button \in Buttons /\ GroupOK(button) /\ stay \in 1..Longest
  BY DEF ButtonInv, ButtonTypeOK
<1>2. down'
  BY Zenon DEF Moves
<1>3. /\ button' = IF Closes(c) THEN Closed(c) ELSE c
      /\ reset' <=> Resets(Aged)
  BY <1>2 DEF Moves, button_handlerCb, Polled
<1>4. resets' = 0 /\ stay' = 1 /\ stay >= MinStay
  BY <1>2 DEF Moves, Observed
<1>5. /\ c \in Buttons /\ (c.released <=> button.released)
      /\ c.counter # 0 => c.pressed
      /\ c.debounce = IF button.debounce = DEBOUNCE_BUTTON THEN DEBOUNCE_BUTTON
                      ELSE button.debounce + 1
      /\ button.debounce + 1 # DEBOUNCE_BUTTON => (c.pressed <=> button.pressed)
      /\ button.debounce + 1 = DEBOUNCE_BUTTON => c.age = 0
  BY <1>1, PolledDown
<1>6. /\ button.debounce \in 1..DEBOUNCE_BUTTON /\ button.age \in 0..Oldest
      /\ DEBOUNCE_BUTTON \in Nat /\ DEBOUNCE_BUTTON > 1 /\ MinStay \in Nat /\ stay \in Nat
      /\ Oldest = HoldTime + 1 /\ HoldTime \in Nat /\ Multi \in Nat /\ Multi < HoldTime
  BY <1>1, ButtonAssumption DEF Buttons, Oldest, Longest
<1>7. /\ Aged.age = IF button.age < Oldest THEN button.age + 1 ELSE Oldest
      /\ (Aged.pressed <=> button.pressed)
  BY <1>1, AgedFacts
<1>8. button.debounce = 1
  BY <1>4, <1>6 DEF ButtonInv, UpOK
<1>9. button.pressed => button.released /\ button.age <= Multi
  BY <1>1, <1>8, Zenon DEF GroupOK
<1>10. ~Resets(Aged)
  BY <1>6, <1>7, <1>9 DEF Resets
<1>11. /\ button'.debounce = c.debounce /\ button'.age = c.age
       /\ Closes(c) => ~button'.pressed
  BY <1>3, <1>5, <1>6, <1>8, PollEnd
<1>12. button'.pressed /\ ~button'.released =>
         button'.debounce = DEBOUNCE_BUTTON /\ button'.age < stay'
  <2> SUFFICES ASSUME button'.pressed, ~button'.released
               PROVE  button'.debounce = DEBOUNCE_BUTTON /\ button'.age < stay'
    OBVIOUS
  <2>1. c.pressed /\ ~c.released
    BY <1>3, <1>11, Zenon
  <2>2. button.debounce + 1 = DEBOUNCE_BUTTON
    BY <1>5, <1>9, <2>1
  <2> QED
    BY <1>4, <1>5, <1>6, <1>11, <2>2
<1> QED
  BY <1>3, <1>4, <1>10, <1>12 DEF HoldInv

LEMMA HoldInvStep ==
  ASSUME MinStay >= DEBOUNCE_BUTTON - 1, ButtonInv, HoldInv, [ButtonNext]_buttonVars
  PROVE  HoldInv'
<1>1. ASSUME ButtonNext, ~down' PROVE HoldInv'
  <2>1. button_handlerCb(down') /\ Observed
    <3>1. CASE Stays
      BY <3>1 DEF Stays
    <3>2. CASE Moves
      BY <3>2, Zenon DEF Moves
    <3> QED
      BY <1>1, <3>1, <3>2 DEF ButtonNext
  <2>2. ~reset'
    BY <1>1, <2>1, Zenon DEF button_handlerCb
  <2>3. resets' = resets
    BY <1>1, <2>1, <2>2 DEF Observed
  <2> QED
    BY <1>1, <2>2, <2>3 DEF HoldInv
<1>2. ASSUME ButtonNext, down' PROVE HoldInv'
  <2>1. CASE Stays
    BY <1>2, <2>1, HeldOn DEF Stays
  <2>2. CASE Moves
    <3>1. ~down
      BY <1>2, <2>2, Zenon DEF Moves
    <3> QED
      BY <2>2, <3>1, HeldFirst
  <2> QED
    BY <1>2, <2>1, <2>2 DEF ButtonNext
<1>3. CASE UNCHANGED buttonVars
  BY <1>3 DEF buttonVars, HoldInv
<1> QED
  BY <1>1, <1>2, <1>3

(* If the contact keeps a level for as many polls as the debouncing looks  *)
(* at but one, the device is reset only by a finger that has been down for *)
(* five seconds, and once (app_button.c:67-83).                            *)
THEOREM ResetNeedsHoldHolds ==
  ASSUME MinStay >= DEBOUNCE_BUTTON - 1
  PROVE  ButtonSpec => []ResetNeedsHold
<1>1. ButtonInit => HoldInv
  BY DEF ButtonInit, HoldInv
<1>2. ButtonInv /\ HoldInv /\ [ButtonNext]_buttonVars => HoldInv'
  BY HoldInvStep
<1>3. HoldInv => ResetNeedsHold
  BY DEF HoldInv, ResetNeedsHold
<1>4. ButtonInv /\ [ButtonNext]_buttonVars => ButtonInv'
  BY ButtonInvStep
<1> QED
  BY <1>1, <1>2, <1>3, <1>4, ButtonInvInit, PTL DEF ButtonSpec

-----------------------------------------------------------------------------
(* CO2 sensor: what the commands do to sensor and driver                   *)

(* Before a measurement repairs the driver, its second error is counted.   *)
Counting ==
    [mode : {"idle", "periodic"}, ready : BOOLEAN,
     ambient : Pressure \cup {DefaultPressure}, correction : Correction,
     dev : {"none", "linked", "cut"}, periodic_runnig : BOOLEAN,
     pressure_pa : Pressure \cup {UnknownPressure}, err_cnt : 0..2,
     co2_frc : Correction \cup Garbage,
     ok : BOOLEAN, fault : BOOLEAN, taken : BOOLEAN, misused : BOOLEAN]

LEMMA CountingIsState ==
  ASSUME NEW t
  PROVE  t \in State <=> t \in Counting /\ t.err_cnt \in 0..1
  BY DEF State, Counting

LEMMA SensorFields ==
  ASSUME NEW t \in Counting
  PROVE  /\ \A x \in {"idle", "periodic"} : [t EXCEPT !.mode = x] \in Counting
         /\ \A x \in {"none", "linked", "cut"} : [t EXCEPT !.dev = x] \in Counting
         /\ \A x \in BOOLEAN : /\ [t EXCEPT !.ready = x] \in Counting
                               /\ [t EXCEPT !.periodic_runnig = x] \in Counting
                               /\ [t EXCEPT !.ok = x] \in Counting
                               /\ [t EXCEPT !.fault = x] \in Counting
                               /\ [t EXCEPT !.taken = x] \in Counting
                               /\ [t EXCEPT !.misused = x] \in Counting
         /\ \A x \in 0..2 : [t EXCEPT !.err_cnt = x] \in Counting
         /\ \A x \in Pressure \cup {DefaultPressure} : [t EXCEPT !.ambient = x] \in Counting
         /\ \A x \in Pressure \cup {UnknownPressure} : [t EXCEPT !.pressure_pa = x] \in Counting
         /\ \A x \in Correction : [t EXCEPT !.correction = x] \in Counting
         /\ \A x \in Correction \cup Garbage : [t EXCEPT !.co2_frc = x] \in Counting
<1> USE DEF Counting
<1>1. ASSUME NEW x \in BOOLEAN
      PROVE  /\ [t EXCEPT !.ready = x] \in Counting
             /\ [t EXCEPT !.periodic_runnig = x] \in Counting
             /\ [t EXCEPT !.ok = x] \in Counting
             /\ [t EXCEPT !.fault = x] \in Counting
             /\ [t EXCEPT !.taken = x] \in Counting
             /\ [t EXCEPT !.misused = x] \in Counting
  OBVIOUS
<1>2. ASSUME NEW x \in {"idle", "periodic"} PROVE [t EXCEPT !.mode = x] \in Counting
  OBVIOUS
<1>3. ASSUME NEW x \in {"none", "linked", "cut"} PROVE [t EXCEPT !.dev = x] \in Counting
  OBVIOUS
<1>4. ASSUME NEW x \in 0..2 PROVE [t EXCEPT !.err_cnt = x] \in Counting
  OBVIOUS
<1>5. ASSUME NEW x \in Pressure \cup {DefaultPressure} PROVE [t EXCEPT !.ambient = x] \in Counting
  OBVIOUS
<1>6. ASSUME NEW x \in Pressure \cup {UnknownPressure} PROVE [t EXCEPT !.pressure_pa = x] \in Counting
  OBVIOUS
<1>7. ASSUME NEW x \in Correction PROVE [t EXCEPT !.correction = x] \in Counting
  OBVIOUS
<1>8. ASSUME NEW x \in Correction \cup Garbage PROVE [t EXCEPT !.co2_frc = x] \in Counting
  OBVIOUS
<1> HIDE DEF Counting
<1> QED
  BY <1>1, <1>2, <1>3, <1>4, <1>5, <1>6, <1>7, <1>8

(* What no command touches.                                                *)
Rest(v, t) ==
    /\ v.dev = t.dev /\ v.err_cnt = t.err_cnt
    /\ v.taken <=> t.taken
    /\ v.misused <=> t.misused
    /\ v.periodic_runnig <=> t.periodic_runnig

LEMMA LostFacts ==
  ASSUME NEW t \in Counting, NEW v \in Lost(t)
  PROVE  /\ v \in Counting /\ Rest(v, t) /\ ~v.ok /\ v.mode = t.mode /\ (v.fault <=> t.fault)
         /\ v.correction = t.correction
<1>1. v = [t EXCEPT !.ok = FALSE]
  BY DEF Lost
<1>2. v \in Counting
  BY <1>1, SensorFields
<1>3. /\ Rest(v, t) /\ ~v.ok /\ v.mode = t.mode /\ (v.fault <=> t.fault)
      /\ v.correction = t.correction
  BY <1>1 DEF Counting, Rest
<1> QED
  BY <1>2, <1>3

LEMMA CommandFacts ==
  ASSUME NEW t \in Counting, NEW u \in Counting, Rest(u, t), u.fault <=> t.fault,
         NEW v \in Command(t, u)
  PROVE  /\ v \in Counting /\ Rest(v, t)
         /\ v.fault <=> t.fault \/ t.dev = "cut"
         /\ v.mode = t.mode \/ v.mode = u.mode
         /\ t.dev = "none" => ~v.ok
         /\ t.dev = "linked" /\ v.ok => v.mode = u.mode
         /\ t.dev = "linked" /\ good => v = [u EXCEPT !.ok = TRUE]
<1>1. t.dev \in {"none", "linked", "cut"}
  BY DEF Counting
<1>2. CASE t.dev # "cut" /\ v \in Lost(t) /\ (t.dev = "linked" => ~good)
  BY <1>2, LostFacts
<1>3. CASE t.dev = "cut"
  <2>1. v = [t EXCEPT !.fault = TRUE]
    BY <1>3 DEF Command
  <2>2. v \in Counting
    BY <2>1, SensorFields
  <2>3. Rest(v, t) /\ v.mode = t.mode /\ v.fault
    BY <2>1 DEF Counting, Rest
  <2> QED
    BY <1>3, <2>2, <2>3
<1>4. CASE t.dev = "linked" /\ v = [u EXCEPT !.ok = TRUE]
  <2>1. v \in Counting
    BY <1>4, SensorFields
  <2>2. Rest(v, u) /\ v.mode = u.mode /\ (v.fault <=> u.fault)
    BY <1>4 DEF Counting, Rest
  <2>3. Rest(v, t)
    BY <2>2 DEF Rest
  <2> QED
    BY <1>4, <2>1, <2>2, <2>3
<1>5. t.dev = "none" => v \in Lost(t)
  BY DEF Command
<1>6. t.dev = "linked" => v = [u EXCEPT !.ok = TRUE] \/ (~good /\ v \in Lost(t))
  BY DEF Command
<1> QED
  BY <1>1, <1>2, <1>3, <1>4, <1>5, <1>6

(* A sensor that does not measure takes its commands as any other.         *)
LEMMA IdleCommandFacts ==
  ASSUME NEW t, NEW u, t.dev = "linked" => t.mode # "periodic"
  PROVE  IdleCommand(t, u) = Command(t, u)
  BY DEF IdleCommand

LEMMA StopFacts ==
  ASSUME NEW t \in Counting, NEW v \in scd4x_cmd_stop_periodic(t)
  PROVE  /\ v \in Counting /\ Rest(v, t)
         /\ v.fault <=> t.fault \/ t.dev = "cut"
         /\ t.dev = "none" => ~v.ok
         /\ t.dev = "linked" /\ v.ok => v.mode = "idle"
         /\ t.dev = "linked" /\ good => v.ok /\ v.correction = t.correction
<1> DEFINE m == [t EXCEPT !.mode = "idle"]
           u == [m EXCEPT !.ready = FALSE]
<1>1. [t EXCEPT !.mode = "idle", !.ready = FALSE] = u
  OBVIOUS
<1>2. u \in Counting
  <2>1. m \in Counting
    BY SensorFields
  <2> HIDE DEF m
  <2> QED
    BY <2>1, SensorFields
<1>3. Rest(u, t) /\ u.mode = "idle" /\ (u.fault <=> t.fault) /\ u.correction = t.correction
  BY DEF Counting, Rest
<1> HIDE DEF m, u
<1>4. v \in Command(t, u)
  BY <1>1 DEF scd4x_cmd_stop_periodic
<1>5. v = [u EXCEPT !.ok = TRUE] => v.ok /\ v.correction = u.correction
  BY <1>2 DEF Counting
<1> QED
  BY <1>2, <1>3, <1>4, <1>5, CommandFacts

LEMMA StartFacts ==
  ASSUME NEW t \in Counting, NEW v \in scd4x_cmd_start_periodic(t)
  PROVE  /\ v \in Counting /\ Rest(v, t)
         /\ v.fault <=> t.fault \/ t.dev = "cut"
         /\ t.dev = "linked" /\ good =>
              v.mode = "periodic" /\ v.co2_frc = t.co2_frc /\ v.correction = t.correction
<1> DEFINE u == [t EXCEPT !.mode = "periodic"]
<1>1. u \in Counting
  BY SensorFields
<1>2. /\ Rest(u, t) /\ u.mode = "periodic" /\ (u.fault <=> t.fault)
      /\ u.co2_frc = t.co2_frc /\ u.correction = t.correction
  BY DEF Counting, Rest
<1> HIDE DEF u
<1>3. v \in Command(t, u)
  BY DEF scd4x_cmd_start_periodic, u
<1>4. v = [u EXCEPT !.ok = TRUE] =>
        v.mode = u.mode /\ v.co2_frc = u.co2_frc /\ v.correction = u.correction
  BY <1>1 DEF Counting
<1> QED
  BY <1>1, <1>2, <1>3, <1>4, CommandFacts

LEMMA ReinitFacts ==
  ASSUME NEW t \in Counting, NEW v \in scd4x_cmd_reinit(t),
         t.dev = "linked" /\ ~t.periodic_runnig => t.mode = "idle"
  PROVE  /\ v \in Counting /\ Rest(v, t) /\ v.mode = t.mode
         /\ t.dev # "cut" => (v.fault <=> t.fault)
<1>1. CASE t.periodic_runnig
  <2>1. v \in Lost(t)
    BY <1>1 DEF scd4x_cmd_reinit
  <2> QED
    BY <2>1, LostFacts
<1>2. CASE ~t.periodic_runnig
  <2> DEFINE u == [t EXCEPT !.ambient = DefaultPressure]
  <2>1. u \in Counting
    BY SensorFields
  <2>2. Rest(u, t) /\ u.mode = t.mode /\ (u.fault <=> t.fault)
    BY DEF Counting, Rest
  <2>3. v \in IdleCommand(t, u)
    BY <1>2 DEF scd4x_cmd_reinit
  <2> HIDE DEF u
  <2>4. v \in Command(t, u)
    BY <1>2, <2>3, IdleCommandFacts
  <2> QED
    BY <2>1, <2>2, <2>4, CommandFacts
<1> QED
  BY <1>1, <1>2

LEMMA GetAmbientFacts ==
  ASSUME NEW t \in Counting, NEW v \in scd4x_cmd_get_ambient_pressure(t),
         t.dev = "linked" /\ ~t.periodic_runnig => t.mode = "idle"
  PROVE  /\ v \in Counting /\ Rest(v, t) /\ v.mode = t.mode
         /\ t.dev # "cut" => (v.fault <=> t.fault)
<1>1. CASE t.periodic_runnig
  <2>1. v \in Lost(t)
    BY <1>1 DEF scd4x_cmd_get_ambient_pressure
  <2> QED
    BY <2>1, LostFacts
<1>2. CASE ~t.periodic_runnig
  <2>1. Rest(t, t)
    BY DEF Rest
  <2>2. v \in IdleCommand(t, t)
    BY <1>2 DEF scd4x_cmd_get_ambient_pressure
  <2>3. v \in Command(t, t)
    BY <1>2, <2>2, IdleCommandFacts
  <2> QED
    BY <2>1, <2>3, CommandFacts
<1> QED
  BY <1>1, <1>2

LEMMA SetPressureFacts ==
  ASSUME NEW t \in Counting, NEW v \in app_scd4x_set_pressure(t), pressure \in Pressure
  PROVE  /\ v \in Counting /\ Rest(v, t) /\ v.mode = t.mode
         /\ t.dev # "cut" => (v.fault <=> t.fault)
         /\ good /\ t.dev = "linked" /\ (pressure # t.pressure_pa \/ t.ambient = t.pressure_pa) =>
              v.ambient = pressure
<1>1. CASE pressure = t.pressure_pa
  <2>1. v = t
    BY <1>1 DEF app_scd4x_set_pressure
  <2> QED
    BY <1>1, <2>1 DEF Rest
<1>2. CASE pressure # t.pressure_pa
  <2> DEFINE w == [t EXCEPT !.pressure_pa = pressure]
             u == [w EXCEPT !.ambient = pressure]
  <2>1. w \in Counting
    BY SensorFields
  <2>2. Rest(w, t) /\ w.mode = t.mode /\ (w.fault <=> t.fault)
    BY DEF Counting, Rest
  <2>3. v \in Command(w, u)
    BY <1>2 DEF app_scd4x_set_pressure
  <2> HIDE DEF w
  <2>4. u \in Counting
    BY <2>1, SensorFields
  <2>5. Rest(u, w) /\ u.mode = w.mode /\ (u.fault <=> w.fault) /\ u.ambient = pressure
    BY <2>1 DEF Counting, Rest
  <2> HIDE DEF u
  <2>6. /\ v \in Counting /\ Rest(v, w)
        /\ v.fault <=> w.fault \/ w.dev = "cut"
        /\ v.mode = w.mode \/ v.mode = u.mode
        /\ w.dev = "linked" /\ good => v = [u EXCEPT !.ok = TRUE]
    BY <2>1, <2>3, <2>4, <2>5, CommandFacts
  <2>7. v = [u EXCEPT !.ok = TRUE] => v.ambient = u.ambient
    BY <2>4 DEF Counting
  <2>8. Rest(v, t) /\ w.dev = t.dev
    BY <2>2, <2>6 DEF Rest
  <2> QED
    BY <2>2, <2>5, <2>6, <2>7, <2>8
<1> QED
  BY <1>1, <1>2

-----------------------------------------------------------------------------
(* CO2 sensor: initialisation                                              *)

(* A step of the initialisation that began with t: the driver that takes   *)
(* the sensor to be idle is right, and pointers that are NULL were called. *)
Underway(v, t) ==
    /\ v \in Counting /\ ~v.misused /\ v.err_cnt = 0
    /\ v.taken <=> t.taken
    /\ v.dev = "linked" /\ ~v.periodic_runnig => v.mode = "idle"
    /\ v.dev = "cut" => v.fault

LEMMA LinkedFacts ==
  ASSUME NEW t \in Counting, NEW v \in Linked(t)
  PROVE  /\ v \in Counting /\ v.err_cnt = 0 /\ v.periodic_runnig
         /\ v.taken <=> t.taken
         /\ v.misused <=> t.misused
         /\ v.fault <=> t.fault
<1> DEFINE m == [t EXCEPT !.err_cnt = 0]
           u == [m EXCEPT !.periodic_runnig = TRUE]
<1>1. [t EXCEPT !.err_cnt = 0, !.periodic_runnig = TRUE] = u
  OBVIOUS
<1>2. u \in Counting
  <2>1. m \in Counting
    <3>1. 0 \in 0..2
      OBVIOUS
    <3> QED
      BY <3>1, SensorFields, Zenon
  <2> HIDE DEF m
  <2> QED
    BY <2>1, SensorFields
<1>3. /\ u.err_cnt = 0 /\ u.periodic_runnig
      /\ (u.taken <=> t.taken) /\ (u.misused <=> t.misused) /\ (u.fault <=> t.fault)
  BY DEF Counting
<1> HIDE DEF m, u
<1>4. PICK d \in {"none", "linked", "cut"} : v = [u EXCEPT !.dev = d]
  <2>1. \/ v = [u EXCEPT !.dev = "linked"]
        \/ v = [u EXCEPT !.dev = IF u.dev = "none" THEN u.dev ELSE "cut"]
    BY <1>1 DEF Linked
  <2> QED
    BY <2>1
<1>5. v \in Counting
  BY <1>2, <1>4, SensorFields
<1>6. /\ v.err_cnt = u.err_cnt /\ (v.periodic_runnig <=> u.periodic_runnig)
      /\ (v.taken <=> u.taken) /\ (v.misused <=> u.misused) /\ (v.fault <=> u.fault)
  BY <1>2, <1>4 DEF Counting
<1> QED
  BY <1>3, <1>5, <1>6

LEMMA StoppedFacts ==
  ASSUME NEW t, NEW w \in Counting, w.err_cnt = 0, w.periodic_runnig,
         w.taken <=> t.taken, ~w.misused, NEW v \in Stopped(w)
  PROVE  Underway(v, t)
<1>1. PICK u \in scd4x_cmd_stop_periodic(w) :
        v = [u EXCEPT !.periodic_runnig = u.periodic_runnig /\ ~u.ok]
  BY DEF Stopped
<1>2. /\ u \in Counting /\ Rest(u, w)
      /\ u.fault <=> w.fault \/ w.dev = "cut"
      /\ w.dev = "linked" /\ u.ok => u.mode = "idle"
  BY StopFacts
<1> DEFINE p == u.periodic_runnig /\ ~u.ok
<1>3. p \in BOOLEAN
  OBVIOUS
<1>4. ~p => u.ok
  BY <1>2 DEF Rest
<1>5. v = [u EXCEPT !.periodic_runnig = p]
  BY <1>1
<1> HIDE DEF p
<1>6. v \in Counting
  BY <1>2, <1>3, <1>5, SensorFields
<1>7. /\ v.err_cnt = u.err_cnt /\ (v.periodic_runnig <=> p) /\ v.mode = u.mode /\ v.dev = u.dev
      /\ (v.taken <=> u.taken) /\ (v.misused <=> u.misused) /\ (v.fault <=> u.fault)
  BY <1>2, <1>5 DEF Counting
<1> QED
  BY <1>2, <1>4, <1>6, <1>7 DEF Rest, Underway

LEMMA StartedFacts ==
  ASSUME NEW t, NEW w, Underway(w, t), ~w.fault, NEW v \in Started(w)
  PROVE  /\ v \in Counting /\ ~v.misused /\ v.err_cnt = 0 /\ (v.taken <=> t.taken)
         /\ v.dev = "cut" => v.fault
<1>1. PICK u \in scd4x_cmd_start_periodic(w) :
        v = [u EXCEPT !.periodic_runnig = u.periodic_runnig \/ u.ok]
  BY DEF Started
<1>2. u \in Counting /\ Rest(u, w)
  BY StartFacts DEF Underway
<1> DEFINE p == u.periodic_runnig \/ u.ok
<1>3. p \in BOOLEAN /\ v = [u EXCEPT !.periodic_runnig = p]
  BY <1>1
<1> HIDE DEF p
<1>4. v \in Counting
  BY <1>2, <1>3, SensorFields
<1>5. /\ v.err_cnt = u.err_cnt /\ v.dev = u.dev
      /\ (v.taken <=> u.taken) /\ (v.misused <=> u.misused)
  BY <1>2, <1>3 DEF Counting
<1> QED
  BY <1>2, <1>4, <1>5 DEF Rest, Underway

LEMMA InitialisedFacts ==
  ASSUME NEW t \in Counting, ~t.misused, ~t.fault, pressure \in Pressure,
         NEW v \in app_scd4x_init(t)
  PROVE  /\ v \in Counting /\ ~v.misused /\ v.err_cnt = 0 /\ (v.taken <=> t.taken)
         /\ v.dev = "cut" => v.fault
<1> DEFINE A == Linked(t)
           B == Then(A, Stopped)
           C == Then(B, scd4x_cmd_reinit)
           D == Then(C, app_scd4x_set_pressure)
           E == Then(D, scd4x_cmd_get_ambient_pressure)
<1>1. v \in Then(E, Started)
  BY DEF app_scd4x_init
<1>2. ASSUME NEW x \in B PROVE Underway(x, t)
  <2> HIDE DEF A
  <2>1. PICK w \in A : x \in IF w.fault THEN {w} ELSE Stopped(w)
    BY DEF Then
  <2>2. /\ w \in Counting /\ w.err_cnt = 0 /\ w.periodic_runnig
        /\ (w.taken <=> t.taken) /\ ~w.misused /\ ~w.fault
    BY LinkedFacts DEF A
  <2> QED
    BY <2>1, <2>2, StoppedFacts
<1>3. ASSUME NEW x \in C PROVE Underway(x, t)
  <2> HIDE DEF B
  <2>1. PICK w \in B : x \in IF w.fault THEN {w} ELSE scd4x_cmd_reinit(w)
    BY DEF Then
  <2>2. Underway(w, t)
    BY <1>2
  <2>3. CASE ~w.fault /\ x \in scd4x_cmd_reinit(w)
    <3>1. x \in Counting /\ Rest(x, w) /\ x.mode = w.mode /\ w.dev # "cut"
      BY <2>2, <2>3, ReinitFacts DEF Underway
    <3> QED
      BY <2>2, <3>1 DEF Underway, Rest
  <2> QED
    BY <2>1, <2>2, <2>3
<1>4. ASSUME NEW x \in D PROVE Underway(x, t)
  <2> HIDE DEF C
  <2>1. PICK w \in C : x \in IF w.fault THEN {w} ELSE app_scd4x_set_pressure(w)
    BY DEF Then
  <2>2. Underway(w, t)
    BY <1>3
  <2>3. CASE ~w.fault /\ x \in app_scd4x_set_pressure(w)
    <3>1. x \in Counting /\ Rest(x, w) /\ x.mode = w.mode /\ w.dev # "cut"
      BY <2>2, <2>3, SetPressureFacts DEF Underway
    <3> QED
      BY <2>2, <3>1 DEF Underway, Rest
  <2> QED
    BY <2>1, <2>2, <2>3
<1>5. ASSUME NEW x \in E PROVE Underway(x, t)
  <2> HIDE DEF D
  <2>1. PICK w \in D : x \in IF w.fault THEN {w} ELSE scd4x_cmd_get_ambient_pressure(w)
    BY DEF Then
  <2>2. Underway(w, t)
    BY <1>4
  <2>3. CASE ~w.fault /\ x \in scd4x_cmd_get_ambient_pressure(w)
    <3>1. x \in Counting /\ Rest(x, w) /\ x.mode = w.mode /\ w.dev # "cut"
      BY <2>2, <2>3, GetAmbientFacts DEF Underway
    <3> QED
      BY <2>2, <3>1 DEF Underway, Rest
  <2> QED
    BY <2>1, <2>2, <2>3
<1> HIDE DEF E
<1>6. PICK w \in E : v \in IF w.fault THEN {w} ELSE Started(w)
  BY <1>1 DEF Then
<1>7. Underway(w, t)
  BY <1>5
<1>8. CASE w.fault /\ v = w
  BY <1>7, <1>8 DEF Underway
<1>9. CASE ~w.fault /\ v \in Started(w)
  BY <1>7, <1>9, StartedFacts
<1> QED
  BY <1>6, <1>8, <1>9

-----------------------------------------------------------------------------
(* CO2 sensor: the handlers                                                *)

LEMMA ReadFacts ==
  ASSUME NEW t \in Counting, t.err_cnt \in 0..1, NEW v \in scd4x_cmd_read(t)
  PROVE  /\ v \in Counting /\ v.dev = t.dev
         /\ v.misused <=> t.misused
         /\ t.dev # "cut" => (v.fault <=> t.fault)
         /\ good /\ v.taken => t.dev = "linked" /\ v.ambient = t.ambient /\ v.err_cnt = t.err_cnt
<1>1. CASE t.dev = "linked" /\ t.ready /\ t.mode = "periodic"
  <2> DEFINE u == [t EXCEPT !.ready = FALSE]
  <2>1. PICK w \in Command(t, u) :
          v = [w EXCEPT !.taken = w.ok, !.err_cnt = IF w.ok THEN w.err_cnt ELSE w.err_cnt + 1]
    BY <1>1 DEF scd4x_cmd_read
  <2>2. u \in Counting
    BY SensorFields
  <2>3. Rest(u, t) /\ (u.fault <=> t.fault) /\ u.ambient = t.ambient
    BY DEF Counting, Rest
  <2> HIDE DEF u
  <2>4. /\ w \in Counting /\ Rest(w, t)
        /\ w.fault <=> t.fault \/ t.dev = "cut"
        /\ good => w = [u EXCEPT !.ok = TRUE]
    BY <1>1, <2>2, <2>3, CommandFacts
  <2>5. w = [u EXCEPT !.ok = TRUE] => w.ok /\ w.ambient = t.ambient
    BY <2>2, <2>3 DEF Counting
  <2> DEFINE n == IF w.ok THEN w.err_cnt ELSE w.err_cnt + 1
             x == [w EXCEPT !.taken = w.ok]
  <2>6. n \in 0..2 /\ w.ok \in BOOLEAN
    BY <2>4 DEF Rest, Counting
  <2>7. v = [w EXCEPT !.taken = w.ok, !.err_cnt = n]
    BY <2>1
  <2>8. w.ok => n = t.err_cnt
    BY <2>4 DEF Rest
  <2> HIDE DEF n
  <2>9. v = [x EXCEPT !.err_cnt = n]
    BY <2>7
  <2>10. v \in Counting
    <3>1. x \in Counting
      BY <2>4, <2>6, SensorFields
    <3> HIDE DEF x
    <3> QED
      BY <2>6, <2>9, <3>1, SensorFields
  <2>11. /\ v.dev = w.dev /\ (v.misused <=> w.misused) /\ (v.fault <=> w.fault)
         /\ v.ambient = w.ambient /\ v.err_cnt = n
    BY <2>4, <2>7 DEF Counting
  <2> QED
    BY <1>1, <2>4, <2>5, <2>8, <2>10, <2>11 DEF Rest
<1>2. CASE ~(t.dev = "linked" /\ t.ready /\ t.mode = "periodic")
  <2>1. PICK w \in Command(t, t) : v = [w EXCEPT !.taken = FALSE, !.err_cnt = w.err_cnt + 1]
    BY <1>2 DEF scd4x_cmd_read
  <2>2. Rest(t, t)
    BY DEF Rest
  <2>3. w \in Counting /\ Rest(w, t) /\ (w.fault <=> t.fault \/ t.dev = "cut")
    BY <2>2, CommandFacts
  <2> DEFINE n == w.err_cnt + 1
             x == [w EXCEPT !.taken = FALSE]
  <2>4. n \in 0..2
    BY <2>3 DEF Rest
  <2>5. v = [w EXCEPT !.taken = FALSE, !.err_cnt = n]
    BY <2>1
  <2> HIDE DEF n
  <2>6. v = [x EXCEPT !.err_cnt = n]
    BY <2>5
  <2>7. v \in Counting
    <3>1. x \in Counting
      BY <2>3, SensorFields
    <3> HIDE DEF x
    <3> QED
      BY <2>4, <2>6, <3>1, SensorFields
  <2>8. v.dev = w.dev /\ (v.misused <=> w.misused) /\ (v.fault <=> w.fault) /\ ~v.taken
    BY <2>3, <2>5 DEF Counting
  <2> QED
    BY <2>3, <2>7, <2>8 DEF Rest
<1> QED
  BY <1>1, <1>2

(* What holds between the handlers.                                        *)
Between(t) ==
    /\ t \in State /\ ~t.misused
    /\ t.dev = "cut" => t.fault

LEMMA MeasurementFacts ==
  ASSUME Between(s), pressure \in Pressure, app_scd4x_measurement
  PROVE  /\ Between(s')
         /\ good /\ s'.taken /\ (pressure # s.pressure_pa \/ s.ambient = s.pressure_pa) =>
              s'.ambient = pressure
<1> DEFINE A == app_scd4x_set_pressure(s)
           B == Then(A, scd4x_cmd_read)
<1>1. ~s.fault /\ s' \in Then(B, Repaired)
  BY DEF app_scd4x_measurement
<1>2. s \in Counting /\ s.err_cnt \in 0..1 /\ ~s.misused /\ s.dev # "cut"
  BY <1>1, CountingIsState DEF Between
<1> DEFINE OK(w) == w.ambient = pressure \/ ~good \/ w.dev # "linked"
                      \/ ~(pressure # s.pressure_pa \/ s.ambient = s.pressure_pa)
<1>3. ASSUME NEW w \in A
      PROVE  /\ w \in Counting /\ w.err_cnt \in 0..1 /\ ~w.misused /\ w.dev # "cut" /\ ~w.fault
             /\ OK(w)
  BY <1>1, <1>2, SetPressureFacts DEF Rest
<1>4. ASSUME NEW x \in B
      PROVE  /\ x \in Counting /\ ~x.misused /\ x.dev # "cut" /\ ~x.fault
             /\ good /\ x.taken => OK(x) /\ x.dev = "linked" /\ x.err_cnt \in 0..1
  <2> HIDE DEF A
  <2>1. PICK w \in A : x \in IF w.fault THEN {w} ELSE scd4x_cmd_read(w)
    BY DEF Then
  <2>2. x \in scd4x_cmd_read(w)
    BY <1>3, <2>1
  <2>3. /\ x \in Counting /\ x.dev = w.dev
        /\ x.misused <=> w.misused
        /\ w.dev # "cut" => (x.fault <=> w.fault)
        /\ good /\ x.taken => w.dev = "linked" /\ x.ambient = w.ambient /\ x.err_cnt = w.err_cnt
    BY <1>3, <2>2, ReadFacts
  <2> QED
    BY <1>3, <2>3
<1> HIDE DEF B
<1>5. PICK x \in B : s' \in IF x.fault THEN {x} ELSE Repaired(x)
  BY <1>1 DEF Then
<1>6. s' \in Repaired(x)
  BY <1>4, <1>5
<1>7. CASE x.err_cnt = 2
  <2>1. s' \in app_scd4x_init(x)
    BY <1>6, <1>7 DEF Repaired
  <2>2. /\ s' \in Counting /\ ~s'.misused /\ s'.err_cnt = 0 /\ (s'.taken <=> x.taken)
        /\ s'.dev = "cut" => s'.fault
    BY <1>4, <2>1, InitialisedFacts
  <2>3. ~(good /\ x.taken)
    BY <1>4, <1>7
  <2> QED
    BY <2>2, <2>3, CountingIsState DEF Between
<1>8. CASE x.err_cnt # 2
  <2>1. s' = x
    BY <1>6, <1>8 DEF Repaired
  <2>2. x.err_cnt \in 0..1
    BY <1>4, <1>8 DEF Counting
  <2>3. Between(s')
    BY <1>4, <2>1, <2>2, CountingIsState DEF Between
  <2> QED
    BY <1>4, <2>1, <2>3
<1> QED
  BY <1>7, <1>8

(* What the user sees of a calibration: the correction of the sensor, or 0 *)
(* when it has refused and keeps the old one.                              *)
Result(v, old) == v.co2_frc = v.correction \/ (v.co2_frc = 0 /\ v.correction = old)

LEMMA CalibratedFacts ==
  ASSUME NEW t \in Counting, t.dev # "cut", t.dev = "linked" => t.mode = "idle",
         NEW v \in scd4x_cmd_forced_calibration(t)
  PROVE  /\ v \in Counting /\ Rest(v, t) /\ (v.fault <=> t.fault)
         /\ good /\ t.dev = "linked" => Result(v, t.correction)
<1> DEFINE u(c) == [t EXCEPT !.correction = c]
           done == {u(c) : c \in Correction \ {0}}
           unanswered == IF t.dev = "linked" /\ t.mode = "idle"
                         THEN {t} \cup (IF good THEN {} ELSE done) ELSE {}
<1>1. PICK w \in (UNION {IdleCommand(t, x) : x \in done}) \cup (UNION {Lost(x) : x \in unanswered}) :
        v = [w EXCEPT !.co2_frc = IF w.ok THEN w.correction ELSE 0]
  BY DEF scd4x_cmd_forced_calibration
<1>2. ASSUME NEW x \in done PROVE x \in Counting /\ Rest(x, t) /\ (x.fault <=> t.fault)
  <2>1. PICK c \in Correction : x = u(c)
    OBVIOUS
  <2>2. x \in Counting
    BY <2>1, SensorFields
  <2> QED
    BY <2>1, <2>2 DEF Counting, Rest
<1> HIDE DEF u, done, unanswered
<1>21. (\E x \in done : w \in IdleCommand(t, x)) \/ (\E x \in unanswered : w \in Lost(x))
  BY <1>1, Zenon
<1>3. /\ w \in Counting /\ Rest(w, t) /\ (w.fault <=> t.fault)
      /\ good /\ t.dev = "linked" => w.ok \/ w.correction = t.correction
  <2>1. CASE \E x \in done : w \in IdleCommand(t, x)
    <3>1. PICK x \in done : w \in IdleCommand(t, x)
      BY <2>1
    <3>2. w \in Command(t, x)
      BY <3>1, IdleCommandFacts
    <3>3. /\ w \in Counting /\ Rest(w, t) /\ (w.fault <=> t.fault)
          /\ good /\ t.dev = "linked" => w = [x EXCEPT !.ok = TRUE]
      BY <1>2, <3>2, CommandFacts
    <3>4. w = [x EXCEPT !.ok = TRUE] => w.ok
      BY <1>2 DEF Counting
    <3> QED
      BY <3>3, <3>4
  <2>2. CASE \E x \in unanswered : w \in Lost(x)
    <3>1. PICK x \in unanswered : w \in Lost(x)
      BY <2>2
    <3>2. x \in Counting /\ Rest(x, t) /\ (x.fault <=> t.fault) /\ (good => x = t)
      BY <1>2, <3>1 DEF Rest, unanswered
    <3>3. /\ w \in Counting /\ Rest(w, x) /\ (w.fault <=> x.fault)
          /\ w.correction = x.correction
      BY <3>1, <3>2, LostFacts
    <3>4. Rest(w, t)
      BY <3>2, <3>3 DEF Rest
    <3> QED
      BY <3>2, <3>3, <3>4
  <2> QED
    BY <1>21, <2>1, <2>2
<1> DEFINE f == IF w.ok THEN w.correction ELSE 0
<1>4. f \in Correction \cup Garbage
  BY <1>3, Scd4xAssumption DEF Counting
<1>5. (w.ok => f = w.correction) /\ (~w.ok => f = 0)
  OBVIOUS
<1>6. v = [w EXCEPT !.co2_frc = f]
  BY <1>1
<1> HIDE DEF f
<1>7. v \in Counting
  BY <1>3, <1>4, <1>6, SensorFields
<1>8. Rest(v, w) /\ (v.fault <=> w.fault) /\ v.co2_frc = f /\ v.correction = w.correction
  BY <1>3, <1>6 DEF Counting, Rest
<1>9. Rest(v, t)
  BY <1>3, <1>8 DEF Rest
<1> QED
  BY <1>3, <1>5, <1>7, <1>8, <1>9 DEF Result

LEMMA CalibrationFacts ==
  ASSUME Between(s), app_scd4x_forced_calibration
  PROVE  /\ Between(s')
         /\ good /\ s.dev = "linked" => Result(s', s.correction) /\ s'.mode = "periodic"
<1>1. ~s.fault
  BY DEF app_scd4x_forced_calibration
<1>2. s \in Counting /\ s.err_cnt \in 0..1 /\ ~s.misused /\ s.dev # "cut"
  BY <1>1, CountingIsState DEF Between
<1> DEFINE A == scd4x_cmd_stop_periodic(s)
           C(t) == Then(scd4x_cmd_forced_calibration(t), scd4x_cmd_start_periodic)
           G(t) == {[t EXCEPT !.co2_frc = g] : g \in Garbage}
<1>3. s' \in UNION {IF t.fault THEN {t} ELSE (IF t.ok THEN C(t) ELSE G(t)) : t \in A}
  BY DEF app_scd4x_forced_calibration, Then
<1> HIDE DEF A, C, G
<1>4. PICK u \in A : s' \in IF u.fault THEN {u} ELSE (IF u.ok THEN C(u) ELSE G(u))
  BY <1>3
<1>5. /\ u \in Counting /\ Rest(u, s)
      /\ u.fault <=> s.fault \/ s.dev = "cut"
      /\ s.dev = "none" => ~u.ok
      /\ s.dev = "linked" /\ u.ok => u.mode = "idle"
      /\ s.dev = "linked" /\ good => u.ok /\ u.correction = s.correction
  BY <1>2, StopFacts DEF A
<1>6. ~u.fault /\ u.dev = s.dev /\ u.dev \in {"none", "linked", "cut"}
  BY <1>1, <1>2, <1>5 DEF Rest, Counting
<1>7. CASE u.ok
  <2>1. s' \in Then(scd4x_cmd_forced_calibration(u), scd4x_cmd_start_periodic)
    BY <1>4, <1>6, <1>7 DEF C
  <2>2. PICK v \in scd4x_cmd_forced_calibration(u) :
          s' \in IF v.fault THEN {v} ELSE scd4x_cmd_start_periodic(v)
    BY <2>1 DEF Then
  <2>3. /\ v \in Counting /\ Rest(v, u) /\ (v.fault <=> u.fault)
        /\ good /\ u.dev = "linked" => Result(v, u.correction)
    BY <1>2, <1>5, <1>6, <1>7, CalibratedFacts
  <2>4. s' \in scd4x_cmd_start_periodic(v)
    BY <1>6, <2>2, <2>3
  <2>5. /\ s' \in Counting /\ Rest(s', v)
        /\ v.dev = "linked" /\ good =>
             s'.mode = "periodic" /\ s'.co2_frc = v.co2_frc /\ s'.correction = v.correction
    BY <2>3, <2>4, StartFacts
  <2>6. v.dev = s.dev
    BY <1>6, <2>3 DEF Rest
  <2>7. Between(s')
    BY <1>2, <1>5, <2>3, <2>5, CountingIsState DEF Between, Rest
  <2> QED
    BY <1>5, <1>6, <2>3, <2>5, <2>6, <2>7 DEF Result
<1>8. CASE ~u.ok
  <2>1. PICK g \in Garbage : s' = [u EXCEPT !.co2_frc = g]
    BY <1>4, <1>6, <1>8 DEF G
  <2>2. s' \in Counting
    BY <1>5, <2>1, SensorFields
  <2>3. Rest(s', u)
    BY <1>5, <2>1 DEF Counting, Rest
  <2>4. Between(s')
    BY <1>2, <1>5, <2>2, <2>3, CountingIsState DEF Between, Rest
  <2> QED
    BY <1>5, <1>8, <2>4
<1> QED
  BY <1>7, <1>8

LEMMA FactoryResetFacts ==
  ASSUME Between(s), app_scd4x_factory_reset
  PROVE  Between(s')
<1>1. ~s.fault
  BY DEF app_scd4x_factory_reset
<1>2. s \in Counting /\ s.err_cnt \in 0..1 /\ ~s.misused /\ s.dev # "cut"
  BY <1>1, CountingIsState DEF Between
<1> DEFINE A == scd4x_cmd_stop_periodic(s)
           C(t) == Then(scd4x_factory_reset(t), scd4x_cmd_start_periodic)
<1>3. s' \in UNION {IF t.fault THEN {t} ELSE (IF t.ok THEN C(t) ELSE {t}) : t \in A}
  BY DEF app_scd4x_factory_reset, Then
<1> HIDE DEF A, C
<1>4. PICK u \in A : s' \in IF u.fault THEN {u} ELSE (IF u.ok THEN C(u) ELSE {u})
  BY <1>3
<1>5. /\ u \in Counting /\ Rest(u, s)
      /\ u.fault <=> s.fault \/ s.dev = "cut"
      /\ s.dev = "none" => ~u.ok
      /\ s.dev = "linked" /\ u.ok => u.mode = "idle"
  BY <1>2, StopFacts DEF A
<1>6. ~u.fault /\ u.dev = s.dev /\ u.dev \in {"none", "linked", "cut"}
  BY <1>1, <1>2, <1>5 DEF Rest, Counting
<1>7. CASE u.ok
  <2>1. s' \in Then(scd4x_factory_reset(u), scd4x_cmd_start_periodic)
    BY <1>4, <1>6, <1>7 DEF C
  <2>2. PICK v \in scd4x_factory_reset(u) :
          s' \in IF v.fault THEN {v} ELSE scd4x_cmd_start_periodic(v)
    BY <2>1 DEF Then
  <2> DEFINE x == [u EXCEPT !.correction = 0]
  <2>3. PICK w \in IdleCommand(u, x) :
          v = [w EXCEPT !.co2_frc = IF w.ok THEN 0 ELSE w.co2_frc]
    BY DEF scd4x_factory_reset
  <2>4. x \in Counting
    BY <1>5, Scd4xAssumption, SensorFields
  <2>5. Rest(x, u) /\ (x.fault <=> u.fault)
    BY <1>5 DEF Counting, Rest
  <2> HIDE DEF x
  <2>6. w \in Command(u, x)
    BY <1>2, <1>5, <1>6, <1>7, <2>3, IdleCommandFacts
  <2>7. w \in Counting /\ Rest(w, u) /\ (w.fault <=> u.fault)
    BY <1>2, <1>5, <1>6, <2>4, <2>5, <2>6, CommandFacts
  <2> DEFINE f == IF w.ok THEN 0 ELSE w.co2_frc
  <2>8. f \in Correction \cup Garbage
    BY <2>7, Scd4xAssumption DEF Counting
  <2>9. v = [w EXCEPT !.co2_frc = f]
    BY <2>3
  <2> HIDE DEF f
  <2>10. v \in Counting
    BY <2>7, <2>8, <2>9, SensorFields
  <2>11. Rest(v, w) /\ (v.fault <=> w.fault)
    BY <2>7, <2>9 DEF Counting, Rest
  <2>12. s' \in scd4x_cmd_start_periodic(v)
    BY <1>6, <2>2, <2>7, <2>11
  <2>13. s' \in Counting /\ Rest(s', v)
    BY <2>10, <2>12, StartFacts
  <2> QED
    BY <1>2, <1>5, <2>7, <2>11, <2>13, CountingIsState DEF Between, Rest
<1>8. CASE ~u.ok
  <2>1. s' = u
    BY <1>4, <1>6, <1>8
  <2> QED
    BY <1>2, <1>5, <2>1, CountingIsState DEF Between, Rest
<1> QED
  BY <1>7, <1>8

LEMMA BootedFacts ==
  ASSUME NEW t \in State, ~t.misused, pressure \in Pressure, NEW v \in Booted(t)
  PROVE  Between(v)
<1> DEFINE a == [t EXCEPT !.dev = "none"]
           b == [a EXCEPT !.pressure_pa = UnknownPressure]
           c == [b EXCEPT !.err_cnt = 0]
           d == [c EXCEPT !.fault = FALSE]
           e == [d EXCEPT !.taken = FALSE]
           u == [e EXCEPT !.periodic_runnig = TRUE]
<1>1. [t EXCEPT !.dev = "none", !.pressure_pa = UnknownPressure, !.err_cnt = 0, !.fault = FALSE,
                !.taken = FALSE, !.periodic_runnig = TRUE] = u
  OBVIOUS
<1>2. u \in Counting
  <2>1. a \in Counting
    BY CountingIsState, SensorFields
  <2> HIDE DEF a
  <2>2. b \in Counting
    BY <2>1, SensorFields
  <2> HIDE DEF b
  <2>3. c \in Counting
    <3>1. 0 \in 0..2
      OBVIOUS
    <3> QED
      BY <2>2, <3>1, SensorFields, Zenon
  <2> HIDE DEF c
  <2>4. d \in Counting
    BY <2>3, SensorFields
  <2> HIDE DEF d
  <2>5. e \in Counting
    BY <2>4, SensorFields
  <2> HIDE DEF e
  <2> QED
    BY <2>5, SensorFields
<1>3. ~u.fault /\ (u.misused <=> t.misused)
  BY DEF State
<1> HIDE DEF u
<1>4. v \in Then({u}, app_scd4x_init)
  BY <1>1 DEF Booted
<1>5. v \in app_scd4x_init(u)
  BY <1>3, <1>4 DEF Then
<1>6. v \in Counting /\ ~v.misused /\ v.err_cnt = 0 /\ (v.dev = "cut" => v.fault)
  BY <1>2, <1>3, <1>5, InitialisedFacts
<1> QED
  BY <1>6, CountingIsState DEF Between

-----------------------------------------------------------------------------
(* CO2 sensor: the invariant and what follows *)

Scd4xInv == pressure \in Pressure /\ good \in BOOLEAN /\ Between(s)

LEMMA Scd4xInvInit == Scd4xInit => Scd4xInv
<1> SUFFICES ASSUME Scd4xInit PROVE Scd4xInv
  OBVIOUS
<1> DEFINE b == [mode |-> "idle", ready |-> FALSE, ambient |-> DefaultPressure,
                 correction |-> 0, dev |-> "none", periodic_runnig |-> TRUE,
                 pressure_pa |-> UnknownPressure, err_cnt |-> 0, co2_frc |-> 0,
                 ok |-> FALSE, fault |-> FALSE, taken |-> FALSE, misused |-> FALSE]
<1>1. b \in State /\ ~b.misused
  BY Scd4xAssumption DEF State
<1>2. pressure \in Pressure /\ good \in BOOLEAN
  BY Zenon DEF Scd4xInit
<1>3. s \in Booted(b)
  BY DEF Scd4xInit
<1> HIDE DEF b
<1>4. Between(s)
  BY <1>1, <1>2, <1>3, BootedFacts
<1> QED
  BY <1>2, <1>4 DEF Scd4xInv

LEMMA Scd4xInvStep == Scd4xInv /\ [Scd4xNext]_scd4xVars => Scd4xInv'
<1> SUFFICES ASSUME Scd4xInv, [Scd4xNext]_scd4xVars PROVE Scd4xInv'
  OBVIOUS
<1>1. pressure \in Pressure /\ good \in BOOLEAN /\ Between(s)
  BY DEF Scd4xInv
<1>2. CASE app_scd4x_measurement
  BY <1>1, <1>2, MeasurementFacts DEF Scd4xInv, app_scd4x_measurement, Between
<1>3. CASE app_scd4x_forced_calibration
  BY <1>1, <1>3, CalibrationFacts DEF Scd4xInv, app_scd4x_forced_calibration, Between
<1>4. CASE app_scd4x_factory_reset
  BY <1>1, <1>4, FactoryResetFacts DEF Scd4xInv, app_scd4x_factory_reset, Between
<1>5. CASE Restart
  <2>1. s' \in Booted(s) /\ pressure' = pressure /\ good' = good
    BY <1>5 DEF Restart
  <2>2. Between(s')
    BY <1>1, <2>1, BootedFacts DEF Between
  <2> QED
    BY <1>1, <2>1, <2>2 DEF Scd4xInv, Between
<1>6. CASE Sample
  <2>1. s' = [s EXCEPT !.ready = TRUE] /\ pressure' = pressure /\ good' = good
    BY <1>6 DEF Sample
  <2>2. s \in Counting /\ s.err_cnt \in 0..1
    BY <1>1, CountingIsState DEF Between
  <2>3. s' \in Counting
    BY <2>1, <2>2, SensorFields
  <2>4. /\ s'.err_cnt = s.err_cnt /\ s'.dev = s.dev
        /\ (s'.fault <=> s.fault) /\ (s'.misused <=> s.misused)
    BY <2>1, <2>2 DEF Counting
  <2>5. Between(s')
    BY <1>1, <2>2, <2>3, <2>4, CountingIsState DEF Between
  <2> QED
    BY <1>1, <2>1, <2>5 DEF Scd4xInv, Between
<1>7. CASE SetAttrPressure
  BY <1>1, <1>7 DEF SetAttrPressure, Scd4xInv, Between
<1>8. CASE BusChange
  <2>1. s' = s /\ pressure' = pressure
    BY <1>8 DEF BusChange
  <2>2. good' \in BOOLEAN
    BY <1>8, Zenon DEF BusChange
  <2> QED
    BY <1>1, <2>1, <2>2 DEF Scd4xInv, Between
<1>9. CASE UNCHANGED scd4xVars
  BY <1>1, <1>9 DEF scd4xVars, Scd4xInv, Between
<1> QED
  BY <1>2, <1>3, <1>4, <1>5, <1>6, <1>7, <1>8, <1>9 DEF Scd4xNext

(* Sensor, driver and settings keep their types: the second error in a row *)
(* initialises the driver (app_scd4x.c), so none is counted beyond.        *)
THEOREM Scd4xTypeCorrect == Scd4xSpec => []Scd4xTypeOK
<1>1. Scd4xInv => Scd4xTypeOK
  BY DEF Scd4xInv, Scd4xTypeOK, Between
<1> QED
  BY <1>1, Scd4xInvInit, Scd4xInvStep, PTL DEF Scd4xSpec

(* Whichever commands are lost, none reaches a sensor that does not accept *)
(* it while it measures (scd4x.c, periodic_runnig).                        *)
THEOREM ModeRespectedHolds == Scd4xSpec => []ModeRespected
<1>1. Scd4xInv => ModeRespected
  BY DEF Scd4xInv, Between, ModeRespected
<1> QED
  BY <1>1, Scd4xInvInit, Scd4xInvStep, PTL DEF Scd4xSpec

(* On a bus that works, a reading is taken at the pressure measured        *)
(* (app_scd4x_set_pressure), for any pressures.                            *)
THEOREM PressureAppliedHolds == Scd4xSpec => PressureApplied
<1>1. Scd4xInv /\ [Scd4xNext]_scd4xVars =>
        [app_scd4x_measurement /\ good /\ s'.taken
           /\ (pressure # s.pressure_pa \/ s.ambient = s.pressure_pa)
         => s'.ambient = pressure]_scd4xVars
  BY MeasurementFacts DEF Scd4xInv
<1> QED
  BY <1>1, Scd4xInvInit, Scd4xInvStep, PTL DEF Scd4xSpec, PressureApplied

(* On a bus that works, the setting is the correction of the sensor after  *)
(* a calibration, unless the sensor, which is idle then, has refused; and  *)
(* measuring goes on (app_scd4x_forced_calibration).                       *)
THEOREM FrcIsResultHolds == Scd4xSpec => FrcIsResult
<1>1. Scd4xInv /\ [Scd4xNext]_scd4xVars =>
        [app_scd4x_forced_calibration /\ good /\ s.dev = "linked"
         => /\ \/ s'.co2_frc = s'.correction
               \/ s'.co2_frc = 0 /\ s'.correction = s.correction /\ s'.misused = s.misused
            /\ s'.mode = "periodic"]_scd4xVars
  <2> SUFFICES ASSUME Scd4xInv, app_scd4x_forced_calibration, good, s.dev = "linked"
               PROVE  /\ \/ s'.co2_frc = s'.correction
                         \/ s'.co2_frc = 0 /\ s'.correction = s.correction /\ s'.misused = s.misused
                      /\ s'.mode = "periodic"
    OBVIOUS
  <2>1. Between(s) /\ Between(s') /\ Result(s', s.correction) /\ s'.mode = "periodic"
    BY CalibrationFacts DEF Scd4xInv
  <2>2. s'.misused = s.misused
    BY <2>1 DEF Between, State
  <2> QED
    BY <2>1, <2>2 DEF Result
<1> QED
  BY <1>1, Scd4xInvInit, Scd4xInvStep, PTL DEF Scd4xSpec, FrcIsResult

-----------------------------------------------------------------------------
(* Screen: what the parts of an update do to the screen and its driver     *)

LEMMA EpdFields ==
  ASSUME NEW e \in EpdRec
  PROVE  /\ \A x \in [Cell -> Nat] : [e EXCEPT !.remembered = x] \in EpdRec
         /\ \A x \in [Cell -> Seq(Nat) \cup {Blank}] : [e EXCEPT !.image = x] \in EpdRec
         /\ \A x \in Nat : /\ [e EXCEPT !.clear_time = x] \in EpdRec
                           /\ [e EXCEPT !.orphans = x] \in EpdRec
         /\ \A x \in BOOLEAN : /\ [e EXCEPT !.clear_screen = x] \in EpdRec
                               /\ [e EXCEPT !.timer = x] \in EpdRec
         /\ \A x \in Seq({"var", "force"}) : [e EXCEPT !.tasks = x] \in EpdRec
  BY DEF EpdRec

LEMMA DrawnFacts ==
  ASSUME NEW e \in EpdRec, NEW d, d = Drawn(e),
         reading \in [Cell -> Nat], d_mode \in {0, 1}
  PROVE  /\ d \in EpdRec
         /\ d.remembered["minutes"] = reading["minutes"]
         /\ d.clear_time = IF reading["minutes"] # e.remembered["minutes"]
                           THEN reading["minutes"] ELSE e.clear_time
         /\ (d.timer <=> e.timer) /\ (d.clear_screen <=> e.clear_screen)
         /\ d.tasks = e.tasks
<1> DEFINE r == [c \in Cell |-> IF c \in Differs(e) THEN reading[c] ELSE e.remembered[c]]
           i == [c \in Cell |-> IF c \in Differs(e) THEN Look(c, reading[c]) ELSE e.image[c]]
           t == IF "minutes" \in Differs(e) THEN reading["minutes"] ELSE e.clear_time
           u == [e EXCEPT !.remembered = r]
           v == [u EXCEPT !.image = i]
<1>1. "minutes" \in Cell
  BY DEF Cell, Sentinel
<1>2. /\ e.remembered \in [Cell -> Nat] /\ e.clear_time \in Nat
      /\ e.image \in [Cell -> Seq(Nat) \cup {Blank}]
  BY DEF EpdRec
<1>3. r \in [Cell -> Nat]
  BY <1>2
<1>4. i \in [Cell -> Seq(Nat) \cup {Blank}]
  <2>1. ASSUME NEW c \in Cell PROVE Look(c, reading[c]) \in Seq(Nat)
    BY DEF Look
  <2> QED
    BY <1>2, <2>1
<1>5. t \in Nat
  BY <1>1, <1>2
<1>6. d = [e EXCEPT !.remembered = r, !.image = i, !.clear_time = t]
  BY DEF Drawn
<1>7. r["minutes"] = reading["minutes"]
  BY <1>1 DEF Differs
<1>8. t = IF reading["minutes"] # e.remembered["minutes"] THEN reading["minutes"] ELSE e.clear_time
  BY <1>1 DEF Differs
<1> HIDE DEF r, i, t
<1>9. d = [v EXCEPT !.clear_time = t]
  BY <1>6
<1>10. d \in EpdRec
  <2>1. u \in EpdRec
    BY <1>3, EpdFields
  <2> HIDE DEF u
  <2>2. v \in EpdRec
    BY <1>4, <2>1, EpdFields
  <2> HIDE DEF v
  <2> QED
    BY <1>5, <1>9, <2>2, EpdFields
<1>11. /\ d.remembered = r /\ d.clear_time = t /\ d.tasks = e.tasks
       /\ (d.timer <=> e.timer) /\ (d.clear_screen <=> e.clear_screen)
  BY <1>6 DEF EpdRec
<1> QED
  BY <1>7, <1>8, <1>10, <1>11

LEMMA WipedFacts ==
  ASSUME NEW e \in EpdRec, NEW w, w = Wiped(e)
  PROVE  /\ w \in EpdRec
         /\ w.remembered["minutes"] = 61 /\ w.clear_time = e.clear_time
         /\ ~w.timer /\ (w.clear_screen <=> e.clear_screen)
         /\ w.tasks = e.tasks
<1> DEFINE r == [c \in Cell |-> Sentinel[c]]
           i == [c \in Cell |-> Blank]
           u == [e EXCEPT !.timer = FALSE]
           v == [u EXCEPT !.remembered = r]
<1>1. r \in [Cell -> Nat] /\ r["minutes"] = 61
  BY DEF Cell, Sentinel
<1>2. i \in [Cell -> Seq(Nat) \cup {Blank}]
  OBVIOUS
<1>3. w = [e EXCEPT !.timer = FALSE, !.remembered = r, !.image = i]
  BY DEF Wiped
<1> HIDE DEF r, i
<1>4. w = [v EXCEPT !.image = i]
  BY <1>3
<1>5. w \in EpdRec
  <2>1. u \in EpdRec
    BY EpdFields
  <2> HIDE DEF u
  <2>2. v \in EpdRec
    BY <1>1, <2>1, EpdFields
  <2> HIDE DEF v
  <2> QED
    BY <1>2, <1>4, <2>2, EpdFields
<1>6. /\ w.remembered = r /\ ~w.timer /\ w.clear_time = e.clear_time /\ w.tasks = e.tasks
      /\ (w.clear_screen <=> e.clear_screen)
  BY <1>3 DEF EpdRec
<1> QED
  BY <1>1, <1>5, <1>6

LEMMA ScheduledFacts ==
  ASSUME NEW e \in EpdRec, NEW d, d = Scheduled(e)
  PROVE  /\ d \in EpdRec
         /\ d.remembered = e.remembered /\ d.clear_time = e.clear_time
         /\ d.timer /\ (d.clear_screen <=> e.clear_screen)
         /\ d.tasks = e.tasks
<1> DEFINE n == IF e.timer THEN e.orphans + 1 ELSE e.orphans
           u == [e EXCEPT !.orphans = n]
<1>1. n \in Nat
  BY DEF EpdRec
<1>2. d = [e EXCEPT !.orphans = n, !.timer = TRUE]
  BY DEF Scheduled
<1> HIDE DEF n
<1>3. d = [u EXCEPT !.timer = TRUE]
  BY <1>2
<1>4. d \in EpdRec
  <2>1. u \in EpdRec
    BY <1>1, EpdFields
  <2> HIDE DEF u
  <2> QED
    BY <1>3, <2>1, EpdFields
<1>5. /\ d.remembered = e.remembered /\ d.timer /\ d.clear_time = e.clear_time
      /\ (d.clear_screen <=> e.clear_screen) /\ d.tasks = e.tasks
  BY <1>2 DEF EpdRec
<1> QED
  BY <1>4, <1>5

LEMMA CleaningFacts ==
  ASSUME NEW e \in EpdRec, NEW d, d = Cleaning(e)
  PROVE  /\ d \in EpdRec
         /\ d.remembered = e.remembered /\ d.clear_time = e.clear_time
         /\ (d.timer <=> e.timer)
         /\ e.clear_time \notin ClearTime => ~d.clear_screen /\ d.tasks = e.tasks
         /\ e.clear_time \in ClearTime => d.clear_screen
         /\ e.clear_time \in ClearTime /\ e.clear_screen => d.tasks = e.tasks
         /\ e.clear_time \in ClearTime /\ ~e.clear_screen => Len(d.tasks) = Len(e.tasks) + 1
<1>1. CASE e.clear_time \notin ClearTime
  <2>1. d = [e EXCEPT !.clear_screen = FALSE]
    BY <1>1 DEF Cleaning
  <2>2. d \in EpdRec
    BY <2>1, EpdFields
  <2>3. /\ d.remembered = e.remembered /\ d.clear_time = e.clear_time /\ d.tasks = e.tasks
        /\ (d.timer <=> e.timer) /\ ~d.clear_screen
    BY <2>1 DEF EpdRec
  <2> QED
    BY <1>1, <2>2, <2>3
<1>2. CASE e.clear_time \in ClearTime /\ e.clear_screen
  BY <1>2 DEF Cleaning
<1>3. CASE e.clear_time \in ClearTime /\ ~e.clear_screen
  <2> DEFINE q == Append(e.tasks, "force")
             u == [e EXCEPT !.clear_screen = TRUE]
  <2>1. q \in Seq({"var", "force"}) /\ Len(q) = Len(e.tasks) + 1
    BY DEF EpdRec
  <2>2. d = [e EXCEPT !.clear_screen = TRUE, !.tasks = q]
    BY <1>3 DEF Cleaning
  <2> HIDE DEF q
  <2>3. d = [u EXCEPT !.tasks = q]
    BY <2>2
  <2>4. d \in EpdRec
    <3>1. u \in EpdRec
      BY EpdFields
    <3> HIDE DEF u
    <3> QED
      BY <2>1, <2>3, <3>1, EpdFields
  <2>5. /\ d.remembered = e.remembered /\ d.clear_time = e.clear_time /\ d.tasks = q
        /\ (d.timer <=> e.timer) /\ d.clear_screen
    BY <2>2 DEF EpdRec
  <2> QED
    BY <1>3, <2>1, <2>4, <2>5
<1> QED
  BY <1>1, <1>2, <1>3

-----------------------------------------------------------------------------
(* Screen: the invariant *)

Waits(q, f) == \E i \in DOMAIN q : q[i] = f

(* The clock drawn is the one remembered, or has been forgotten; a cleaning *)
(* that was asked for is remembered as long as the clock is in its time.   *)
CleanOK(e, n) ==
    /\ n \in 0..1
    /\ n = 1 => e.clear_screen /\ reading["minutes"] \in ClearTime
    /\ e.remembered["minutes"] = 61 \/ e.remembered["minutes"] = e.clear_time

(* An update that waits for a forced one was not kept from drawing, and the *)
(* one in the forced one has drawn the clock.                              *)
CallersOK ==
    Waits(stack, "var") =>
      /\ ~blocked
      /\ Head(stack) # "draw" => epd.clear_time = reading["minutes"]

ScreenInv ==
    /\ ScreenTypeOK
    /\ epd.timer \/ Waits(stack, "force")
    /\ CleanOK(epd, clears)
    /\ CallersOK

LEMMA Popped ==
  ASSUME NEW q \in Seq(Frame), q # << >>
  PROVE  /\ Tail(q) \in Seq(Frame) /\ Head(q) \in Frame
         /\ \A f : Waits(Tail(q), f) => Waits(q, f)
         /\ \A f : Waits(q, f) => Waits(Tail(q), f) \/ Head(q) = f
<1>1. /\ Tail(q) \in Seq(Frame) /\ Len(Tail(q)) = Len(q) - 1 /\ Len(q) \in Nat \ {0}
      /\ \A i \in 1..Len(Tail(q)) : Tail(q)[i] = q[i + 1]
      /\ DOMAIN q = 1..Len(q) /\ DOMAIN Tail(q) = 1..Len(Tail(q))
      /\ Head(q) = q[1] /\ Head(q) \in Frame
  OBVIOUS
<1>2. ASSUME NEW f, Waits(Tail(q), f) PROVE Waits(q, f)
  <2>1. PICK i \in 1..Len(Tail(q)) : Tail(q)[i] = f
    BY <1>1, <1>2 DEF Waits
  <2>2. i + 1 \in DOMAIN q /\ q[i + 1] = f
    BY <1>1, <2>1
  <2> QED
    BY <2>2 DEF Waits
<1>3. ASSUME NEW f, Waits(q, f) PROVE Waits(Tail(q), f) \/ Head(q) = f
  <2>1. PICK i \in 1..Len(q) : q[i] = f
    BY <1>1, <1>3 DEF Waits
  <2>2. CASE i = 1
    BY <1>1, <2>1, <2>2
  <2>3. CASE i # 1
    <3>1. i - 1 \in DOMAIN Tail(q) /\ Tail(q)[i - 1] = f
      <4>1. i - 1 \in 1..Len(Tail(q)) /\ (i - 1) + 1 = i
        BY <1>1, <2>3
      <4>2. Tail(q)[i - 1] = q[(i - 1) + 1]
        BY <1>1, <4>1
      <4> QED
        BY <1>1, <2>1, <4>1, <4>2
    <3> QED
      BY <3>1 DEF Waits
  <2> QED
    BY <2>2, <2>3
<1> QED
  BY <1>1, <1>2, <1>3

LEMMA Nested ==
  ASSUME NEW q \in Seq(Frame), NEW r, r = <<"draw", "force", "var">> \o q
  PROVE  r \in Seq(Frame) /\ Head(r) = "draw" /\ Waits(r, "force")
<1>1. <<"draw", "force", "var">> \in Seq(Frame)
  BY DEF Frame
<1>2. /\ r \in Seq(Frame) /\ Len(r) = 3 + Len(q) /\ Len(q) \in Nat
      /\ r[1] = "draw" /\ r[2] = "force"
  BY <1>1
<1>3. 2 \in DOMAIN r /\ Head(r) = "draw"
  BY <1>2
<1> QED
  BY <1>2, <1>3 DEF Waits

LEMMA Minutes ==
  ASSUME reading \in [Cell -> Nat], \A c \in Cell : reading[c] \in Readings[c]
  PROVE  reading["minutes"] # 61 /\ reading["minutes"] \in Nat
<1>1. "minutes" \in Cell
  BY DEF Cell, Sentinel
<1>2. reading["minutes"] \in 0..59
  BY <1>1, ScreenAssumption
<1> QED
  BY <1>2

(* One call of epd_screen_var, with those that wait for it.                *)
LEMMA ScreenVarStep ==
  ASSUME ScreenTypeOK, UNCHANGED <<reading, d_mode, blocked>>,
         NEW e \in EpdRec, NEW q \in Seq(Frame), epd_screen_var(e, q),
         e.timer \/ Waits(q, "force"), CleanOK(e, clears), Waits(q, "var") => ~blocked,
         Counted(e)
  PROVE  ScreenInv'
<1> DEFINE d == Drawn(e)
<1>1. /\ reading \in [Cell -> Nat] /\ d_mode \in {0, 1}
      /\ reading["minutes"] # 61 /\ reading["minutes"] \in Nat
  BY Minutes DEF ScreenTypeOK
<1>2. e.tasks \in Seq({"var", "force"}) /\ Len(e.tasks) \in Nat /\ clears \in 0..1
  BY DEF EpdRec, CleanOK
<1>3. /\ d \in EpdRec
      /\ d.remembered["minutes"] = reading["minutes"]
      /\ d.clear_time = reading["minutes"]
      /\ (d.timer <=> e.timer) /\ (d.clear_screen <=> e.clear_screen)
      /\ d.tasks = e.tasks
  BY <1>1, DrawnFacts DEF CleanOK
<1> HIDE DEF d
<1>4. reading' = reading /\ d_mode' = d_mode /\ blocked' = blocked
  OBVIOUS
<1>5. clears' = clears + Len(epd'.tasks) - Len(e.tasks)
  BY DEF Counted
<1>6. ScreenTypeOK' <=> epd' \in EpdRec /\ stack' \in Seq(Frame) /\ clears' \in Nat
  BY <1>4 DEF ScreenTypeOK
<1>7. CASE epd' = e /\ stack' = q /\ blocked
  <2>1. clears' = clears
    BY <1>2, <1>5, <1>7
  <2>2. CleanOK(epd, clears)'
    BY <1>4, <1>7, <2>1 DEF CleanOK
  <2>3. CallersOK'
    BY <1>4, <1>7 DEF CallersOK
  <2>4. epd'.timer \/ Waits(stack', "force")
    BY <1>7
  <2> QED
    BY <1>2, <1>6, <1>7, <2>1, <2>2, <2>3, <2>4 DEF ScreenInv
<1>8. CASE epd' = Cleaning(d) /\ stack' = q /\ ~blocked
  <2>1. /\ epd' \in EpdRec
        /\ epd'.remembered = d.remembered /\ epd'.clear_time = d.clear_time
        /\ (epd'.timer <=> d.timer)
        /\ d.clear_time \notin ClearTime => ~epd'.clear_screen /\ epd'.tasks = d.tasks
        /\ d.clear_time \in ClearTime => epd'.clear_screen
        /\ d.clear_time \in ClearTime /\ d.clear_screen => epd'.tasks = d.tasks
        /\ d.clear_time \in ClearTime /\ ~d.clear_screen => Len(epd'.tasks) = Len(d.tasks) + 1
    BY <1>3, <1>8, CleaningFacts
  <2>2. clears = 1 => e.clear_screen /\ reading["minutes"] \in ClearTime
    BY DEF CleanOK
  <2>3. clears' \in 0..1
    BY <1>2, <1>3, <1>5, <2>1, <2>2
  <2>4. clears' = 1 => epd'.clear_screen /\ reading["minutes"] \in ClearTime
    <3>1. CASE reading["minutes"] \in ClearTime
      BY <1>3, <2>1, <3>1
    <3>2. CASE reading["minutes"] \notin ClearTime
      <4>1. clears' = clears /\ clears # 1
        BY <1>2, <1>3, <1>5, <2>1, <2>2, <3>2
      <4> QED
        BY <4>1
    <3> QED
      BY <3>1, <3>2
  <2>5. epd'.remembered["minutes"] = epd'.clear_time
    BY <1>3, <2>1
  <2>6. CleanOK(epd, clears)'
    BY <1>4, <2>3, <2>4, <2>5 DEF CleanOK
  <2>7. CallersOK'
    BY <1>3, <1>4, <1>8, <2>1 DEF CallersOK
  <2>8. epd'.timer \/ Waits(stack', "force")
    BY <1>3, <1>8, <2>1
  <2> QED
    BY <1>6, <1>8, <2>1, <2>3, <2>6, <2>7, <2>8 DEF ScreenInv
<1>9. CASE epd' = Wiped(d) /\ stack' = <<"draw", "force", "var">> \o q /\ ~blocked
  <2>1. /\ epd' \in EpdRec
        /\ epd'.remembered["minutes"] = 61
        /\ (epd'.clear_screen <=> d.clear_screen) /\ epd'.tasks = d.tasks
    BY <1>3, <1>9, WipedFacts
  <2>2. stack' \in Seq(Frame) /\ Head(stack') = "draw" /\ Waits(stack', "force")
    BY <1>9, Nested
  <2>3. clears' = clears
    BY <1>2, <1>3, <1>5, <2>1
  <2>4. CleanOK(epd, clears)'
    BY <1>3, <1>4, <2>1, <2>3 DEF CleanOK
  <2>5. CallersOK'
    BY <1>4, <1>9, <2>2 DEF CallersOK
  <2> QED
    BY <1>2, <1>6, <2>1, <2>2, <2>3, <2>4, <2>5 DEF ScreenInv
<1> QED
  BY <1>7, <1>8, <1>9 DEF epd_screen_var, d

LEMMA ScreenInvInit == ScreenInit => ScreenInv
<1> SUFFICES ASSUME ScreenInit PROVE ScreenInv
  OBVIOUS
<1>1. \A c \in Cell : reading[c] \in Readings[c] /\ Readings[c] \subseteq Nat
  BY ScreenAssumption DEF ScreenInit
<1>2. reading \in [Cell -> Nat]
  <2>1. DOMAIN reading = Cell /\ reading = [c \in Cell |-> reading[c]]
    BY DEF ScreenInit
  <2> QED
    BY <1>1, <2>1
<1>3. epd \in EpdRec /\ ~epd.timer /\ epd.remembered["minutes"] = 61
  <2> DEFINE r == [c \in Cell |-> Sentinel[c]]
             i == [c \in Cell |-> Blank]
  <2>1. r \in [Cell -> Nat] /\ r["minutes"] = 61
    BY DEF Cell, Sentinel
  <2>2. i \in [Cell -> Seq(Nat) \cup {Blank}]
    OBVIOUS
  <2>3. epd = [remembered |-> r, image |-> i, clear_time |-> 0, clear_screen |-> FALSE,
               timer |-> FALSE, orphans |-> 0, tasks |-> << >>]
    BY DEF ScreenInit, Fresh
  <2> HIDE DEF r, i
  <2> QED
    BY <2>1, <2>2, <2>3 DEF EpdRec
<1>4. stack \in Seq(Frame) /\ Waits(stack, "force") /\ ~Waits(stack, "var")
  <2>1. stack = <<"draw", "force">>
    BY DEF ScreenInit
  <2>2. 2 \in DOMAIN stack /\ stack[2] = "force"
    BY <2>1
  <2> QED
    BY <2>1, <2>2 DEF Waits, Frame
<1>5. blocked \in BOOLEAN
  BY Zenon DEF ScreenInit
<1>6. d_mode \in {0, 1} /\ clears = 0
  BY DEF ScreenInit
<1>7. ScreenTypeOK
  BY <1>1, <1>2, <1>3, <1>4, <1>5, <1>6 DEF ScreenTypeOK
<1>8. CleanOK(epd, clears)
  BY <1>3, <1>6 DEF CleanOK
<1> QED
  BY <1>4, <1>7, <1>8 DEF ScreenInv, CallersOK

LEMMA ScreenInvStep == ScreenInv /\ [ScreenNext]_screenVars => ScreenInv'
<1> SUFFICES ASSUME ScreenInv, [ScreenNext]_screenVars PROVE ScreenInv'
  OBVIOUS
<1>1. /\ reading \in [Cell -> Nat] /\ \A c \in Cell : reading[c] \in Readings[c]
      /\ d_mode \in {0, 1} /\ blocked \in BOOLEAN
      /\ epd \in EpdRec /\ stack \in Seq(Frame) /\ clears \in Nat
      /\ epd.tasks \in Seq({"var", "force"})
  BY DEF ScreenInv, ScreenTypeOK, EpdRec
<1>2. /\ epd.timer \/ Waits(stack, "force")
      /\ CleanOK(epd, clears) /\ CallersOK
  BY DEF ScreenInv
<1>3. stack = << >> => epd.timer /\ ~Waits(stack, "var") /\ ~Waits(stack, "force")
  BY <1>2 DEF Waits
<1>4. CASE RunTask
  <2> DEFINE e == [epd EXCEPT !.tasks = Tail(epd.tasks)]
  <2>1. Tail(epd.tasks) \in Seq({"var", "force"})
    BY <1>1, <1>4 DEF RunTask
  <2>2. e \in EpdRec
    BY <1>1, <2>1, EpdFields
  <2>3. /\ (e.timer <=> epd.timer) /\ (e.clear_screen <=> epd.clear_screen)
        /\ e.remembered = epd.remembered /\ e.clear_time = epd.clear_time
    BY <1>1 DEF EpdRec
  <2>4. /\ UNCHANGED <<reading, d_mode, blocked>>
        /\ stack = << >> /\ Counted(e)
        /\ epd_screen_var(e, << >>) \/ epd_screen_var(Wiped(e), <<"force">>)
    BY <1>4 DEF RunTask
  <2> HIDE DEF e
  <2>5. CASE epd_screen_var(e, << >>)
    <3>1. << >> \in Seq(Frame) /\ ~Waits(<< >>, "var")
      BY DEF Waits
    <3>2. CleanOK(e, clears) /\ e.timer
      BY <1>2, <1>3, <2>3, <2>4 DEF CleanOK
    <3> QED
      BY <2>2, <2>4, <2>5, <3>1, <3>2, ScreenVarStep DEF ScreenInv
  <2>6. CASE epd_screen_var(Wiped(e), <<"force">>)
    <3> DEFINE w == Wiped(e)
    <3>1. /\ w \in EpdRec /\ w.remembered["minutes"] = 61 /\ w.clear_time = e.clear_time
          /\ (w.clear_screen <=> e.clear_screen) /\ w.tasks = e.tasks
      BY <2>2, WipedFacts
    <3>2. epd_screen_var(w, <<"force">>)
      BY <2>6
    <3> HIDE DEF w
    <3>3. <<"force">> \in Seq(Frame) /\ Waits(<<"force">>, "force") /\ ~Waits(<<"force">>, "var")
      BY DEF Waits, Frame
    <3>4. CleanOK(w, clears) /\ Counted(w)
      BY <1>2, <2>3, <2>4, <3>1 DEF CleanOK, Counted
    <3> QED
      BY <2>4, <3>1, <3>2, <3>3, <3>4, ScreenVarStep DEF ScreenInv
  <2> QED
    BY <2>4, <2>5, <2>6
<1>5. CASE Draw
  <2>1. /\ stack # << >> /\ Head(stack) = "draw" /\ epd_screen_var(epd, Tail(stack))
        /\ Counted(epd) /\ UNCHANGED <<reading, d_mode, blocked>>
    BY <1>5 DEF Draw
  <2>2. /\ Tail(stack) \in Seq(Frame)
        /\ Waits(Tail(stack), "var") => Waits(stack, "var")
        /\ Waits(stack, "force") => Waits(Tail(stack), "force")
    BY <1>1, <2>1, Popped
  <2>3. epd.timer \/ Waits(Tail(stack), "force")
    BY <1>2, <2>2
  <2>4. Waits(Tail(stack), "var") => ~blocked
    BY <1>2, <2>2 DEF CallersOK
  <2> QED
    BY <1>1, <1>2, <2>1, <2>2, <2>3, <2>4, ScreenVarStep DEF ScreenInv
<1>6. CASE Return
  <2>1. /\ stack # << >> /\ Head(stack) # "draw"
        /\ epd' = Resumed(Head(stack), epd) /\ stack' = Tail(stack)
        /\ clears' = clears + Len(epd'.tasks) - Len(epd.tasks)
        /\ reading' = reading /\ d_mode' = d_mode /\ blocked' = blocked
    BY <1>6 DEF Return, Counted
  <2>2. /\ stack' \in Seq(Frame) /\ Head(stack) \in Frame
        /\ Waits(stack', "var") => Waits(stack, "var")
        /\ Waits(stack, "force") => Waits(stack', "force") \/ Head(stack) = "force"
    BY <1>1, <2>1, Popped
  <2>3. CallersOK' <=> (Waits(stack', "var") =>
                          ~blocked /\ (Head(stack') # "draw" =>
                                         epd'.clear_time = reading["minutes"]))
    BY <2>1 DEF CallersOK
  <2>4. ScreenTypeOK' <=> epd' \in EpdRec /\ stack' \in Seq(Frame) /\ clears' \in Nat
    BY <1>1, <2>1 DEF ScreenTypeOK
  <2>5. Len(epd.tasks) \in Nat /\ clears \in 0..1
    BY <1>1, <1>2 DEF CleanOK
  <2>6. CASE Head(stack) = "force"
    <3>1. epd' = Scheduled(epd)
      BY <2>1, <2>6 DEF Resumed
    <3>2. /\ epd' \in EpdRec /\ epd'.timer
          /\ epd'.remembered = epd.remembered /\ epd'.clear_time = epd.clear_time
          /\ (epd'.clear_screen <=> epd.clear_screen) /\ epd'.tasks = epd.tasks
      BY <1>1, <3>1, ScheduledFacts
    <3>3. clears' = clears
      BY <2>1, <2>5, <3>2
    <3>4. CleanOK(epd, clears)'
      BY <1>2, <2>1, <3>2, <3>3 DEF CleanOK
    <3>5. CallersOK'
      BY <1>2, <2>1, <2>2, <2>3, <3>2 DEF CallersOK
    <3> QED
      BY <1>1, <2>2, <2>4, <3>2, <3>3, <3>4, <3>5 DEF ScreenInv
  <2>7. CASE Head(stack) = "var"
    <3>1. epd' = Cleaning(epd)
      BY <2>1, <2>7 DEF Resumed
    <3>2. /\ epd' \in EpdRec
          /\ epd'.remembered = epd.remembered /\ epd'.clear_time = epd.clear_time
          /\ (epd'.timer <=> epd.timer)
          /\ epd.clear_time \notin ClearTime => ~epd'.clear_screen /\ epd'.tasks = epd.tasks
          /\ epd.clear_time \in ClearTime => epd'.clear_screen
          /\ epd.clear_time \in ClearTime /\ epd.clear_screen => epd'.tasks = epd.tasks
          /\ epd.clear_time \in ClearTime /\ ~epd.clear_screen =>
               Len(epd'.tasks) = Len(epd.tasks) + 1
      BY <1>1, <3>1, CleaningFacts
    <3>3. epd.clear_time = reading["minutes"] /\ ~blocked
      <4>1. Waits(stack, "var")
        <5>1. 1 \in DOMAIN stack /\ stack[1] = "var"
          BY <1>1, <2>1, <2>7
        <5> QED
          BY <5>1 DEF Waits
      <4> QED
        BY <1>2, <2>1, <4>1 DEF CallersOK
    <3>4. clears = 1 => epd.clear_screen /\ reading["minutes"] \in ClearTime
      BY <1>2 DEF CleanOK
    <3>5. clears' \in 0..1
      BY <2>1, <2>5, <3>2, <3>3, <3>4
    <3>6. clears' = 1 => epd'.clear_screen /\ reading["minutes"] \in ClearTime
      <4>1. CASE reading["minutes"] \in ClearTime
        BY <3>2, <3>3, <4>1
      <4>2. CASE reading["minutes"] \notin ClearTime
        <5>1. clears' = clears /\ clears # 1
          BY <2>1, <2>5, <3>2, <3>3, <3>4, <4>2
        <5> QED
          BY <5>1
      <4> QED
        BY <4>1, <4>2
    <3>7. epd'.remembered["minutes"] = 61 \/ epd'.remembered["minutes"] = epd'.clear_time
      BY <1>2, <3>2 DEF CleanOK
    <3>8. CleanOK(epd, clears)'
      BY <2>1, <3>5, <3>6, <3>7 DEF CleanOK
    <3>9. CallersOK'
      BY <2>3, <3>2, <3>3
    <3>10. epd'.timer \/ Waits(stack', "force")
      BY <1>2, <2>2, <2>7, <3>2
    <3> QED
      BY <2>2, <2>4, <3>2, <3>5, <3>8, <3>9, <3>10 DEF ScreenInv
  <2> QED
    BY <2>1, <2>2, <2>6, <2>7 DEF Frame
<1>7. stack' = << >> => CallersOK'
  BY DEF CallersOK, Waits
<1>8. CASE TimerCb \/ AskForUpdate
  <2>1. PICK t \in {"var", "force"} : epd' = [epd EXCEPT !.tasks = Append(epd.tasks, t)]
    BY <1>8 DEF TimerCb, AskForUpdate
  <2>2. /\ stack = << >> /\ stack' = stack /\ clears' = clears
        /\ reading' = reading /\ d_mode' = d_mode /\ blocked' = blocked
    BY <1>8 DEF TimerCb, AskForUpdate
  <2>3. Append(epd.tasks, t) \in Seq({"var", "force"})
    BY <1>1
  <2>4. epd' \in EpdRec
    BY <1>1, <2>1, <2>3, EpdFields
  <2>5. /\ (epd'.timer <=> epd.timer) /\ (epd'.clear_screen <=> epd.clear_screen)
        /\ epd'.remembered = epd.remembered /\ epd'.clear_time = epd.clear_time
    BY <1>1, <2>1 DEF EpdRec
  <2>6. CleanOK(epd, clears)'
    BY <1>2, <2>2, <2>5 DEF CleanOK
  <2>7. ScreenTypeOK'
    BY <1>1, <2>2, <2>4 DEF ScreenTypeOK
  <2> QED
    BY <1>3, <1>7, <2>2, <2>5, <2>6, <2>7 DEF ScreenInv
<1>9. CASE NewReading
  <2>1. PICK c \in Cell : \E v \in Readings[c] \ {reading[c]} :
          /\ reading' = [reading EXCEPT ![c] = v]
          /\ clears' = IF c = "minutes" /\ v \notin ClearTime THEN 0 ELSE clears
    BY <1>9 DEF NewReading
  <2>2. PICK v \in Readings[c] :
          /\ reading' = [reading EXCEPT ![c] = v]
          /\ clears' = IF c = "minutes" /\ v \notin ClearTime THEN 0 ELSE clears
    BY <2>1
  <2>3. stack = << >> /\ stack' = stack /\ d_mode' = d_mode /\ blocked' = blocked /\ epd' = epd
    BY <1>9 DEF NewReading
  <2>4. v \in Nat
    BY <2>2, ScreenAssumption
  <2>5. reading' \in [Cell -> Nat] /\ \A x \in Cell : reading'[x] \in Readings[x]
    BY <1>1, <2>2, <2>4
  <2>6. CleanOK(epd, clears)'
    <3>1. clears \in 0..1 /\ (clears = 1 => epd.clear_screen /\ reading["minutes"] \in ClearTime)
      BY <1>2 DEF CleanOK
    <3>2. CASE c = "minutes"
      BY <1>1, <1>2, <2>2, <2>3, <3>1, <3>2 DEF CleanOK
    <3>3. CASE c # "minutes"
      BY <1>1, <1>2, <2>2, <2>3, <3>1, <3>3 DEF CleanOK
    <3> QED
      BY <3>2, <3>3
  <2>7. ScreenTypeOK'
    BY <1>1, <2>2, <2>3, <2>5 DEF ScreenTypeOK
  <2> QED
    BY <1>3, <1>7, <2>3, <2>6, <2>7 DEF ScreenInv
<1>10. CASE DisplayMode
  <2>1. /\ stack = << >> /\ stack' = stack /\ clears' = clears
        /\ reading' = reading /\ blocked' = blocked /\ d_mode' \in {0, 1}
    BY <1>1, <1>10 DEF DisplayMode
  <2> DEFINE r == [epd.remembered EXCEPT !["temp_in"] = Sentinel["temp_in"]]
  <2>2. epd' = [epd EXCEPT !.remembered = r]
    BY <1>1, <1>10 DEF DisplayMode, EpdRec
  <2>3. r \in [Cell -> Nat] /\ r["minutes"] = epd.remembered["minutes"]
    BY <1>1 DEF EpdRec, Cell, Sentinel
  <2> HIDE DEF r
  <2>4. epd' \in EpdRec
    BY <1>1, <2>2, <2>3, EpdFields
  <2>5. /\ (epd'.timer <=> epd.timer) /\ (epd'.clear_screen <=> epd.clear_screen)
        /\ epd'.remembered = r /\ epd'.clear_time = epd.clear_time
    BY <1>1, <2>2 DEF EpdRec
  <2>6. CleanOK(epd, clears)'
    BY <1>2, <2>1, <2>3, <2>5 DEF CleanOK
  <2>7. ScreenTypeOK'
    BY <1>1, <2>1, <2>4 DEF ScreenTypeOK
  <2> QED
    BY <1>3, <1>7, <2>1, <2>5, <2>6, <2>7 DEF ScreenInv
<1>11. CASE ClearZbIcon
  <2>1. /\ stack = << >> /\ stack' = stack /\ clears' = clears
        /\ reading' = reading /\ d_mode' = d_mode
    BY <1>11 DEF ClearZbIcon
  <2> DEFINE r == [epd.remembered EXCEPT !["level"] = Sentinel["level"]]
             i == [epd.image EXCEPT !["level"] = <<0>>]
             u == [epd EXCEPT !.remembered = r]
  <2>2. epd' = [epd EXCEPT !.remembered = r, !.image = i]
    BY <1>1, <1>11 DEF ClearZbIcon, EpdRec
  <2>3. r \in [Cell -> Nat] /\ r["minutes"] = epd.remembered["minutes"]
    BY <1>1 DEF EpdRec, Cell, Sentinel
  <2>4. i \in [Cell -> Seq(Nat) \cup {Blank}]
    <3>1. <<0>> \in Seq(Nat) \cup {Blank} /\ epd.image \in [Cell -> Seq(Nat) \cup {Blank}]
      BY <1>1 DEF EpdRec
    <3> QED
      BY <3>1
  <2> HIDE DEF r, i
  <2>5. epd' \in EpdRec
    <3>1. u \in EpdRec
      BY <1>1, <2>3, EpdFields
    <3>2. epd' = [u EXCEPT !.image = i]
      BY <2>2
    <3> HIDE DEF u
    <3> QED
      BY <2>4, <3>1, <3>2, EpdFields
  <2>6. /\ (epd'.timer <=> epd.timer) /\ (epd'.clear_screen <=> epd.clear_screen)
        /\ epd'.remembered = r /\ epd'.clear_time = epd.clear_time
    BY <1>1, <2>2 DEF EpdRec
  <2>7. CleanOK(epd, clears)'
    BY <1>2, <2>1, <2>3, <2>6 DEF CleanOK
  <2>8. blocked' \in BOOLEAN
    BY <1>11, Zenon DEF ClearZbIcon
  <2>9. ScreenTypeOK'
    BY <1>1, <2>1, <2>5, <2>8 DEF ScreenTypeOK
  <2> QED
    BY <1>3, <1>7, <2>1, <2>6, <2>7, <2>9 DEF ScreenInv
<1>12. CASE Block
  <2>1. /\ stack = << >> /\ stack' = stack /\ clears' = clears /\ epd' = epd
        /\ reading' = reading /\ d_mode' = d_mode
    BY <1>12 DEF Block
  <2>2. blocked' \in BOOLEAN
    BY <1>12, Zenon DEF Block
  <2>3. CleanOK(epd, clears)'
    BY <1>2, <2>1 DEF CleanOK
  <2>4. ScreenTypeOK'
    BY <1>1, <2>1, <2>2 DEF ScreenTypeOK
  <2> QED
    BY <1>3, <1>7, <2>1, <2>3, <2>4 DEF ScreenInv
<1>13. CASE UNCHANGED screenVars
  BY <1>1, <1>2, <1>13 DEF screenVars, ScreenInv, ScreenTypeOK, CleanOK, CallersOK
<1> QED
  BY <1>4, <1>5, <1>6, <1>8, <1>9, <1>10, <1>11, <1>12, <1>13 DEF ScreenNext

(* The screen, its driver, the queue and the calls keep their types,       *)
(* however many time-outs and updates there are (app_epd.c).               *)
THEOREM ScreenTypeCorrect == ScreenSpec => []ScreenTypeOK
<1>1. ScreenInv => ScreenTypeOK
  BY DEF ScreenInv
<1> QED
  BY <1>1, ScreenInvInit, ScreenInvStep, PTL DEF ScreenSpec

(* However deep forced updates are nested (app_epd.c:814-817, 1032-1059),  *)
(* when the calls have returned there is a timer for the next update.      *)
THEOREM NeverWithoutTimerHolds == ScreenSpec => []NeverWithoutTimer
<1>1. ScreenInv => NeverWithoutTimer
  BY DEF ScreenInv, NeverWithoutTimer, Waits
<1> QED
  BY <1>1, ScreenInvInit, ScreenInvStep, PTL DEF ScreenSpec

(* The panel is not cleaned twice in one of its times (app_epd.c:819-828), *)
(* whatever these times are.                                               *)
THEOREM OneCleaningHolds == ScreenSpec => []OneCleaning
<1>1. ScreenInv => OneCleaning
  BY DEF ScreenInv, CleanOK, OneCleaning
<1> QED
  BY <1>1, ScreenInvInit, ScreenInvStep, PTL DEF ScreenSpec
=============================================================================
