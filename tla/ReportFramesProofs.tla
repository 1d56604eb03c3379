------------------------- MODULE ReportFramesProofs -------------------------
(***************************************************************************)
(* The loop of reportAttrs for any table, bindings, clusters and length of *)
(* a frame: what it does to the table is what one look at each entry would *)
(* do, and each due attribute is sent once.                                *)
(***************************************************************************)
EXTENDS ReportFrames, TLAPS

-----------------------------------------------------------------------------
(* One entry *)

(* What is due, and what becomes of it, depends on the entry alone.        *)
LEMMA EntryAlone ==
  ASSUME NEW t, NEW u, NEW b, NEW d, NEW e, t[e] = u[e]
  PROVE  /\ Active(t, b, e) <=> Active(u, b, e)
         /\ Due(t, b, d, e) <=> Due(u, b, d, e)
         /\ Reported(t, b, d, e) = Reported(u, b, d, e)
  BY DEF Active, Due, Reported

LEMMA ReportedType ==
  ASSUME NEW t \in [Entry -> EntryRec], NEW b, NEW d \in [Entry -> Int], NEW e \in Entry
  PROVE  Reported(t, b, d, e) \in EntryRec
  BY DEF Reported, EntryRec

(* An entry that has been looked at is not due, and another look at it     *)
(* changes nothing, even with intervals of 0.                              *)
LEMMA ReportedSettles ==
  ASSUME NEW t \in [Entry -> EntryRec], NEW u, NEW b, NEW d \in [Entry -> Int],
         NEW e \in Entry, u[e] = Reported(t, b, d, e)
  PROVE  ~Due(u, b, d, e) /\ Reported(u, b, d, e) = u[e]
<1>1. t[e] \in EntryRec
  OBVIOUS
<1>2. CASE Due(t, b, d, e)
  <2>1. u[e] = [t[e] EXCEPT !.prevData = d[e], !.minIntCnt = t[e].minInterval,
                            !.maxIntCnt = t[e].maxInterval]
    BY <1>2 DEF Reported
  <2>2. /\ u[e].prevData = d[e]
        /\ u[e].minIntCnt = u[e].minInterval /\ u[e].maxIntCnt = u[e].maxInterval
        /\ u[e] \in EntryRec
    BY <1>1, <2>1 DEF EntryRec
  <2>3. ~Changed(u[e], d[e])
    BY <2>2 DEF Changed
  <2>4. ~Due(u, b, d, e)
    BY <2>2, <2>3 DEF Due
  <2>5. u[e].minIntCnt = 0 => [u[e] EXCEPT !.minIntCnt = u[e].minInterval] = u[e]
    BY <2>2 DEF EntryRec
  <2> QED
    BY <2>4, <2>5 DEF Reported
<1>3. CASE ~Due(t, b, d, e) /\ Active(t, b, e) /\ t[e].maxIntCnt # 0 /\ t[e].minIntCnt = 0
  <2>1. u[e] = [t[e] EXCEPT !.minIntCnt = t[e].minInterval]
    BY <1>3 DEF Reported
  <2>2. /\ u[e].prevData = t[e].prevData /\ u[e].reportableChange = t[e].reportableChange
        /\ u[e].minIntCnt = u[e].minInterval /\ u[e].maxIntCnt = t[e].maxIntCnt
        /\ u[e] \in EntryRec
    BY <1>1, <2>1 DEF EntryRec
  <2>3. ~Changed(t[e], d[e])
    BY <1>3 DEF Due
  <2>4. ~Changed(u[e], d[e])
    BY <2>2, <2>3 DEF Changed
  <2>5. ~Due(u, b, d, e)
    BY <1>3, <2>2, <2>4 DEF Due
  <2>6. u[e].minIntCnt = 0 => [u[e] EXCEPT !.minIntCnt = u[e].minInterval] = u[e]
    BY <2>2 DEF EntryRec
  <2> QED
    BY <2>5, <2>6 DEF Reported
<1>4. CASE ~Due(t, b, d, e) /\ ~(Active(t, b, e) /\ t[e].maxIntCnt # 0 /\ t[e].minIntCnt = 0)
  <2>1. u[e] = t[e]
    BY <1>4 DEF Reported
  <2> QED
    BY <1>4, <2>1, EntryAlone
<1> QED
  BY <1>2, <1>3, <1>4

-----------------------------------------------------------------------------
(* Types *)

LEMMA AppendType ==
  ASSUME NEW S, NEW q \in Seq(S), NEW x \in S
  PROVE  Append(q, x) \in Seq(S)
  OBVIOUS

(* TypeOK, and a frame under construction has a cluster and is not full    *)
(* while the pass goes on.                                                 *)
Shape ==
    /\ TypeOK
    /\ cluster = NoCluster <=> report = << >>
    /\ done => report = << >>
    /\ Scanning => Len(report) < FrameSize

LEMMA ShapeStep == Shape /\ [Next]_vars => Shape'
<1> SUFFICES ASSUME Shape, [Next]_vars PROVE Shape'
  OBVIOUS
<1> USE FramesAssumption DEF Shape, TypeOK
<1>1. \A e \in Entry : Reported(tab, bound, Data, e) \in EntryRec
  BY ReportedType
<1>2. \A e \in Entry : Cluster[e] \in ReportedClusters
  BY DEF ReportedClusters
<1>3. CASE Skip
  <2>1. i \in Entry /\ i + 1 \in 1..NumEntries + 1
    BY <1>3 DEF Skip, Scanning
  <2> QED
    BY <1>1, <1>3, <2>1 DEF Skip, Scanning
<1>4. CASE Postpone
  BY <1>4 DEF Postpone, Scanning
<1>5. CASE Take
  <2>1. i \in Entry /\ i + 1 \in 1..NumEntries + 1
    BY <1>5 DEF Take, Scanning
  <2>2. /\ report' = Append(report, i) /\ Len(report') = Len(report) + 1
        /\ report' \in Seq(Entry) /\ report' # << >>
    BY <1>5, <2>1 DEF Take
  <2>3. tab' \in [Entry -> EntryRec]
    BY <1>1, <1>5, <2>1 DEF Take
  <2>4. cluster' = Cluster[i] /\ cluster' \in ReportedClusters
    BY <1>2, <1>5, <2>1 DEF Take
  <2>5. Len(report') <= FrameSize /\ (Scanning' => Len(report') < FrameSize)
    BY <1>5, <2>2 DEF Take, Scanning
  <2>6. i' \in 1..NumEntries + 1 /\ again' \in BOOLEAN
    <3>1. CASE Len(report') >= FrameSize
      <4>1. again' = TRUE /\ i' = NumEntries + 1
        BY <1>5, <3>1 DEF Take
      <4> QED
        BY <4>1
    <3>2. CASE ~(Len(report') >= FrameSize)
      <4>1. again' = again /\ i' = i + 1
        BY <1>5, <3>2 DEF Take
      <4> QED
        BY <2>1, <4>1
    <3> QED
      BY <3>1, <3>2
  <2> QED
    BY <1>5, <2>2, <2>3, <2>4, <2>5, <2>6 DEF Take, Scanning
<1>6. CASE EndPass
  <2>1. frames' \in Seq(Seq(Entry))
    BY <1>6, AppendType DEF EndPass
  <2>2. report' = << >> /\ Len(report') = 0 /\ report' \in Seq(Entry)
    BY <1>6 DEF EndPass
  <2>3. i' \in 1..NumEntries + 1
    BY <1>6 DEF EndPass
  <2>4. done' \in BOOLEAN /\ again' = FALSE /\ cluster' = NoCluster
    BY <1>6, Zenon DEF EndPass
  <2>6. Len(report') < FrameSize /\ Len(report') <= FrameSize
    BY <2>2
  <2>5. UNCHANGED <<tab, bound, start>>
    BY <1>6 DEF EndPass
  <2> QED
    BY <2>1, <2>2, <2>3, <2>4, <2>5, <2>6
<1>7. CASE UNCHANGED vars
  BY <1>7 DEF vars, Scanning
<1> QED
  BY <1>3, <1>4, <1>5, <1>6, <1>7 DEF Next, Returned

LEMMA ShapeInit == Init => Shape
<1> SUFFICES ASSUME Init PROVE Shape
  OBVIOUS
<1>1. tab \in [Entry -> EntryRec] /\ start \in Tables /\ bound \subseteq ReportedClusters
  BY FramesAssumption DEF Init
<1>2. i \in 1..NumEntries + 1
  BY FramesAssumption DEF Init
<1>3. report \in Seq(Entry) /\ frames \in Seq(Seq(Entry))
  BY DEF Init
<1>4. Len(report) < FrameSize /\ Len(report) <= FrameSize
  BY FramesAssumption DEF Init
<1> QED
  BY <1>1, <1>2, <1>3, <1>4 DEF Init, Shape, TypeOK

(* The variables of the loop keep their types.                             *)
THEOREM TypeCorrect == Spec => []TypeOK
<1>1. Shape => TypeOK
  BY DEF Shape
<1> QED
  BY <1>1, ShapeInit, ShapeStep, PTL DEF Spec

-----------------------------------------------------------------------------
(* What the loop does to the table *)

Target(e) == Reported(start, bound, Data, e)

(* Each entry is as it was or as one look makes it, and those that the     *)
(* pass has behind it are as one look makes them, unless it has asked for  *)
(* another pass.                                                           *)
Settled ==
    /\ \A e \in Entry : tab[e] = start[e] \/ tab[e] = Target(e)
    /\ ~again => \A e \in Entry : e < i => tab[e] = Target(e)
    /\ done => \A e \in Entry : tab[e] = Target(e)

LEMMA TargetKept == [Next]_vars => \A e \in Entry : Target(e)' = Target(e)
  BY DEF Next, Skip, Postpone, Take, EndPass, Returned, vars, Target

(* One look at an entry of the table as it is by now.                      *)
LEMMA LookAgain ==
  ASSUME Shape, Settled, NEW e \in Entry
  PROVE  /\ Reported(tab, bound, Data, e) = Target(e)
         /\ tab[e] = Target(e) => ~Due(tab, bound, Data, e)
<1>1. start \in [Entry -> EntryRec] /\ Data \in [Entry -> Int]
  BY FramesAssumption DEF Shape, TypeOK
<1>2. CASE tab[e] = Target(e)
  BY <1>1, <1>2, ReportedSettles DEF Target
<1>3. CASE tab[e] = start[e] /\ tab[e] # Target(e)
  BY <1>3, EntryAlone DEF Target
<1> QED
  BY <1>2, <1>3 DEF Settled

(* The two steps that rewrite an entry.                                    *)
LEMMA Looked ==
  ASSUME Shape, Settled, Skip \/ Take
  PROVE  /\ i \in Entry /\ tab' = [tab EXCEPT ![i] = Target(i)]
         /\ \A e \in Entry : tab'[e] = IF e = i THEN Target(e) ELSE tab[e]
<1>1. i \in Entry
  BY FramesAssumption DEF Skip, Take, Scanning, Shape, TypeOK
<1>2. tab' = [tab EXCEPT ![i] = Reported(tab, bound, Data, i)]
  BY DEF Skip, Take
<1>3. tab' = [tab EXCEPT ![i] = Target(i)] /\ tab \in [Entry -> EntryRec]
  BY <1>1, <1>2, LookAgain DEF Shape, TypeOK
<1> QED
  BY <1>1, <1>3

LEMMA SettledStep == Shape /\ Settled /\ [Next]_vars => Settled'
<1> SUFFICES ASSUME Shape, Settled, [Next]_vars PROVE Settled'
  OBVIOUS
<1>1. \A e \in Entry : Target(e)' = Target(e)
  BY TargetKept
<1>3. i \in Int /\ Entry \subseteq Int
  BY FramesAssumption DEF Shape, TypeOK
<1>4. ASSUME Skip \/ Take PROVE Settled'
  <2>1. ~done'
    BY <1>4 DEF Skip, Take, Scanning
  <2>2. \A e \in Entry : tab'[e] = IF e = i THEN Target(e) ELSE tab[e]
    BY <1>4, Looked
  <2>3. ~again' => ~again /\ i' = i + 1
    BY <1>4 DEF Skip, Take
  <2>4. ~again' => \A e \in Entry : e < i' => tab'[e] = Target(e)
    <3> SUFFICES ASSUME ~again', NEW e \in Entry, e < i' PROVE tab'[e] = Target(e)
      OBVIOUS
    <3>1. e = i \/ e < i
      BY <1>3, <2>3
    <3> QED
      BY <2>2, <2>3, <3>1 DEF Settled
  <2>5. \A e \in Entry : tab'[e] = start[e] \/ tab'[e] = Target(e)
    BY <2>2 DEF Settled
  <2>6. start' = start
    BY <1>4 DEF Skip, Take
  <2> QED
    BY <1>1, <2>1, <2>4, <2>5, <2>6 DEF Settled
<1>5. CASE Postpone
  BY <1>1, <1>5 DEF Postpone, Scanning, Settled
<1>6. CASE EndPass
  <2>1. \A e \in Entry : e < i /\ ~(e < 1)
    BY <1>6, FramesAssumption DEF EndPass
  <2>2. done' => ~again
    BY <1>6 DEF EndPass
  <2>3. again => i' = 1
    BY <1>6 DEF EndPass
  <2>4. tab' = tab /\ start' = start
    BY <1>6 DEF EndPass
  <2>5. done' => \A e \in Entry : tab'[e] = Target(e)
    BY <2>1, <2>2, <2>4 DEF Settled
  <2>6. ~again => \A e \in Entry : tab'[e] = Target(e)
    BY <2>1, <2>4 DEF Settled
  <2>7. ~again' => \A e \in Entry : e < i' => tab'[e] = Target(e)
    BY <2>1, <2>3, <2>6
  <2> QED
    BY <1>1, <2>4, <2>5, <2>7 DEF Settled
<1>7. CASE UNCHANGED vars
  BY <1>1, <1>7 DEF Settled, vars
<1> QED
  BY <1>4, <1>5, <1>6, <1>7 DEF Next, Returned

LEMMA SettledInit == Init => Settled
  BY FramesAssumption DEF Init, Settled

(* When reportAttrs returns, it has done to each entry what one look does. *)
THEOREM OnePassEffectHolds == Spec => []OnePassEffect
<1>1. Settled => OnePassEffect
  BY DEF Settled, OnePassEffect, Target
<1> QED
  BY <1>1, ShapeInit, ShapeStep, SettledInit, SettledStep, PTL DEF Spec

-----------------------------------------------------------------------------
(* What the loop sends *)

(* The n-th attribute of frame f is e; the frame under construction counts *)
(* as the next one.                                                        *)
At(f, n, e) ==
    \/ f \in 1..Len(frames) /\ n \in 1..Len(frames[f]) /\ frames[f][n] = e
    \/ f = Len(frames) + 1 /\ n \in 1..Len(report) /\ report[n] = e

Nowhere(e) == \A f, n \in Nat : ~At(f, n, e)

Once(e) == \E f, n \in Nat : At(f, n, e) /\ \A g, m \in Nat : At(g, m, e) => g = f /\ m = n

(* The entry was due, and has been taken.                                  *)
Taken(e) == Due(start, bound, Data, e) /\ ~Due(tab, bound, Data, e)

Sent ==
    /\ \A e \in Entry : (Taken(e) => Once(e)) /\ (~Taken(e) => Nowhere(e))
    /\ \A f \in 1..Len(frames) : Len(frames[f]) <= FrameSize

LEMMA SentInit == Init => Sent
<1> SUFFICES ASSUME Init PROVE Sent
  OBVIOUS
<1>1. Len(frames) = 0 /\ Len(report) = 0 /\ start = tab
  BY DEF Init
<1>2. \A e \in Entry : ~Taken(e)
  BY <1>1 DEF Taken
<1>3. \A e \in Entry : Nowhere(e)
  BY <1>1 DEF Nowhere, At
<1> QED
  BY <1>1, <1>2, <1>3 DEF Sent

(* A step that neither takes an entry nor moves a frame.                   *)
LEMMA SameTaken ==
  ASSUME \A e \in Entry : Taken(e)' <=> Taken(e),
         \A e \in Entry : \A f, n \in Nat : At(f, n, e)' <=> At(f, n, e)
  PROVE  /\ \A e \in Entry : Once(e)' <=> Once(e)
         /\ \A e \in Entry : Nowhere(e)' <=> Nowhere(e)
  BY DEF Once, Nowhere

LEMMA SentStep == Shape /\ Settled /\ Sent /\ [Next]_vars => Sent'
<1> SUFFICES ASSUME Shape, Settled, Sent, [Next]_vars PROVE Sent'
  OBVIOUS
<1>1. \A e \in Entry : /\ Reported(tab, bound, Data, e) = Target(e)
                       /\ tab[e] = Target(e) => ~Due(tab, bound, Data, e)
  BY LookAgain
<1>2. \A e \in Entry : tab'[e] = Target(e) => ~Due(tab', bound, Data, e)
  <2>1. start \in [Entry -> EntryRec] /\ Data \in [Entry -> Int]
    BY FramesAssumption DEF Shape, TypeOK
  <2> QED
    BY <2>1, ReportedSettles DEF Target
<1>3. /\ frames \in Seq(Seq(Entry)) /\ report \in Seq(Entry) /\ tab \in [Entry -> EntryRec]
      /\ Len(frames) \in Nat /\ Len(report) \in Nat /\ FrameSize \in Nat
      /\ Len(report) <= FrameSize
  BY FramesAssumption DEF Shape, TypeOK
<1>4. CASE Skip
  <2>1. /\ ~Due(tab, bound, Data, i)
        /\ start' = start /\ bound' = bound /\ report' = report /\ frames' = frames
    BY <1>4 DEF Skip
  <2>2. i \in Entry /\ \A e \in Entry : tab'[e] = IF e = i THEN Target(e) ELSE tab[e]
    BY <1>4, Looked
  <2>3. \A e \in Entry : Due(tab', bound, Data, e) <=> Due(tab, bound, Data, e)
    <3> SUFFICES ASSUME NEW e \in Entry
                 PROVE  Due(tab', bound, Data, e) <=> Due(tab, bound, Data, e)
      OBVIOUS
    <3>1. CASE e = i
      BY <1>2, <2>1, <2>2, <3>1
    <3>2. CASE e # i
      BY <2>2, <3>2, EntryAlone
    <3> QED
      BY <3>1, <3>2
  <2>4. \A e \in Entry : Taken(e)' <=> Taken(e)
    BY <2>1, <2>3 DEF Taken
  <2>5. \A e \in Entry : \A f, n \in Nat : At(f, n, e)' <=> At(f, n, e)
    BY <2>1 DEF At
  <2> QED
    BY <2>1, <2>4, <2>5, SameTaken DEF Sent
<1>5. CASE Take
  <2> PICK j \in Entry : j = i
    BY <1>5, Looked
  <2>1. /\ Due(tab, bound, Data, j)
        /\ start' = start /\ bound' = bound /\ report' = Append(report, j) /\ frames' = frames
    BY <1>5 DEF Take
  <2>2. \A e \in Entry : tab'[e] = IF e = j THEN Target(e) ELSE tab[e]
    BY <1>5, Looked
  <2>3. ~Taken(j) /\ Taken(j)'
    <3>1. tab[j] = start[j]
      BY <1>1, <2>1, <2>2 DEF Settled
    <3>2. Due(start, bound, Data, j)
      BY <2>1, <3>1, EntryAlone
    <3>3. ~Due(tab', bound, Data, j)
      BY <1>2, <2>2
    <3> QED
      BY <2>1, <3>2, <3>3 DEF Taken
  <2>4. ASSUME NEW e \in Entry, e # j PROVE Taken(e)' <=> Taken(e)
    BY <2>1, <2>2, <2>4, EntryAlone DEF Taken
  <2>5. ASSUME NEW e \in Entry, NEW f \in Nat, NEW n \in Nat
        PROVE  At(f, n, e)' <=> \/ At(f, n, e)
                                \/ e = j /\ f = Len(frames) + 1 /\ n = Len(report) + 1
    <3>1. /\ Len(report') = Len(report) + 1 /\ report'[Len(report) + 1] = j
          /\ \A m \in 1..Len(report) : report'[m] = report[m]
      BY <1>3, <2>1
    <3> QED
      BY <1>3, <2>1, <3>1 DEF At
  <2>6. ASSUME NEW e \in Entry, e # j PROVE (Once(e)' <=> Once(e)) /\ (Nowhere(e)' <=> Nowhere(e))
    BY <2>5, <2>6 DEF Once, Nowhere
  <2>7. Once(j)'
    <3>1. Nowhere(j)
      BY <2>2, <2>3 DEF Sent
    <3>2. Len(frames) + 1 \in Nat /\ Len(report) + 1 \in Nat
      BY <1>3
    <3>3. \A f, n \in Nat : At(f, n, j)' <=> f = Len(frames) + 1 /\ n = Len(report) + 1
      BY <2>2, <2>5, <3>1 DEF Nowhere
    <3> QED
      BY <3>2, <3>3 DEF Once
  <2> QED
    BY <2>1, <2>3, <2>4, <2>6, <2>7 DEF Sent
<1>6. CASE EndPass
  <2>1. tab' = tab /\ start' = start /\ bound' = bound /\ report' = << >>
    BY <1>6 DEF EndPass
  <2>2. \A e \in Entry : Taken(e)' <=> Taken(e)
    BY <2>1 DEF Taken
  <2>3. CASE cluster = NoCluster
    <3>1. frames' = frames /\ report = << >>
      BY <1>6, <2>3 DEF EndPass, Shape
    <3>2. \A e \in Entry : \A f, n \in Nat : At(f, n, e)' <=> At(f, n, e)
      BY <2>1, <3>1 DEF At
    <3> QED
      BY <2>2, <3>1, <3>2, SameTaken DEF Sent
  <2>4. CASE cluster # NoCluster
    <3>1. frames' = Append(frames, report)
      BY <1>6, <2>4 DEF EndPass
    <3>2. /\ Len(frames') = Len(frames) + 1 /\ frames'[Len(frames) + 1] = report
          /\ \A f \in 1..Len(frames) : frames'[f] = frames[f]
      BY <1>3, <3>1
    <3>3. ASSUME NEW e \in Entry, NEW f \in Nat, NEW n \in Nat
          PROVE  At(f, n, e)' <=> At(f, n, e)
      <4>1. CASE f \in 1..Len(frames)
        BY <1>3, <2>1, <3>2, <4>1 DEF At
      <4>2. CASE f = Len(frames) + 1
        BY <1>3, <2>1, <3>2, <4>2 DEF At
      <4>3. CASE ~(f \in 1..Len(frames)) /\ f # Len(frames) + 1
        BY <1>3, <2>1, <3>2, <4>3 DEF At
      <4> QED
        BY <4>1, <4>2, <4>3
    <3>4. \A f \in 1..Len(frames') : Len(frames'[f]) <= FrameSize
      <4> SUFFICES ASSUME NEW f \in 1..Len(frames') PROVE Len(frames'[f]) <= FrameSize
        OBVIOUS
      <4>1. f \in 1..Len(frames) \/ f = Len(frames) + 1
        BY <1>3, <3>2
      <4> QED
        BY <1>3, <3>2, <4>1 DEF Sent
    <3> QED
      BY <2>2, <3>3, <3>4, SameTaken DEF Sent
  <2> QED
    BY <2>3, <2>4
<1>7. CASE UNCHANGED <<tab, bound, start, report, frames>>
  <2>1. \A e \in Entry : Taken(e)' <=> Taken(e)
    BY <1>7 DEF Taken
  <2>2. \A e \in Entry : \A f, n \in Nat : At(f, n, e)' <=> At(f, n, e)
    BY <1>7 DEF At
  <2> QED
    BY <1>7, <2>1, <2>2, SameTaken DEF Sent
<1> QED
  BY <1>4, <1>5, <1>6, <1>7 DEF Next, Postpone, Returned, vars

(* When reportAttrs returns, each attribute that was due is in one place   *)
(* of one frame, and no other is in any.                                   *)
THEOREM EachDueSentOnceHolds == Spec => []EachDueSentOnce
<1>1. Shape /\ Settled /\ Sent => EachDueSentOnce
  <2> SUFFICES ASSUME Shape, Settled, Sent, done, NEW e \in Entry
               PROVE  \/ /\ Due(start, bound, Data, e)
                         /\ \E p \in InFrames(e) : InFrames(e) = {p}
                      \/ ~Due(start, bound, Data, e) /\ InFrames(e) = {}
    BY DEF EachDueSentOnce
  <2>1. Taken(e) <=> Due(start, bound, Data, e)
    BY LookAgain DEF Settled, Taken
  <2>2. report = << >> /\ FrameSize \in Nat /\ Len(frames) \in Nat
    BY FramesAssumption DEF Shape, TypeOK
  <2>3. \A f, n \in Nat : At(f, n, e) <=> <<f, n>> \in InFrames(e)
    <3> SUFFICES ASSUME NEW f \in Nat, NEW n \in Nat
                 PROVE  At(f, n, e) <=> <<f, n>> \in InFrames(e)
      OBVIOUS
    <3>1. f \in 1..Len(frames) => Len(frames[f]) \in Nat /\ Len(frames[f]) <= FrameSize
      BY DEF Sent, Shape, TypeOK
    <3> QED
      BY <2>2, <3>1 DEF At, InFrames
  <2>4. \A p \in InFrames(e) : \E f, n \in Nat : p = <<f, n>>
    BY <2>2 DEF InFrames
  <2>5. CASE Due(start, bound, Data, e)
    <3>1. PICK f \in Nat, n \in Nat :
            At(f, n, e) /\ \A g, m \in Nat : At(g, m, e) => g = f /\ m = n
      BY <2>1, <2>5 DEF Sent, Once
    <3>2. InFrames(e) = {<<f, n>>}
      BY <2>3, <2>4, <3>1
    <3> QED
      BY <2>5, <3>2
  <2>6. CASE ~Due(start, bound, Data, e)
    BY <2>1, <2>3, <2>4, <2>6 DEF Sent, Nowhere
  <2> QED
    BY <2>5, <2>6
<1> QED
  BY <1>1, ShapeInit, ShapeStep, SettledInit, SettledStep, SentInit, SentStep, PTL DEF Spec
=============================================================================
