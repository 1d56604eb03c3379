--------------------------- MODULE ReportingProofs ---------------------------
(***************************************************************************)
(* Proofs about Reporting, for every table, every record a Configure       *)
(* Reporting command may carry and every timing: type correctness, and,    *)
(* as long as the binding table does not change, the bounds on how long a  *)
(* report can be away and how close two of them can be.                    *)
(***************************************************************************)
EXTENDS Reporting, TLAPS

(* What the helpers of zcl_reporting.c return is an entry again. *)
LEMMA UpdatedType ==
    ASSUME NEW r \in EntryRec, NEW c \in ConfigRec
    PROVE  Updated(r, c) \in EntryRec
  BY DEF Updated, EntryRec, ConfigRec

LEMMA ResetType ==
    ASSUME NEW r \in EntryRec
    PROVE  ResetToDefault(r) \in EntryRec
  BY DEF ResetToDefault, EntryRec

LEMMA DefaultTableType == DefaultTable \in [Entry -> EntryRec]
  <1>1. Free \in EntryRec
    BY DEF Free, EntryRec
  <1>2. \A e \in Entry : Default[e] # NotUsed => Default[e] \in ConfigRec
    BY ReportingAssumption
  <1> QED
    BY <1>1, <1>2, UpdatedType DEF DefaultTable

LEMMA ConfiguredType ==
    ASSUME NEW r \in EntryRec, NEW c \in Configs
    PROVE  Configured(r, c) \in EntryRec
  <1>1. c \in ConfigRec
    BY ReportingAssumption
  <1> QED
    BY <1>1, UpdatedType, ResetType DEF Configured

LEMMA ReportedType ==
    ASSUME NEW t \in [Entry -> EntryRec], NEW b, NEW d \in [Entry -> Int], NEW e \in Entry
    PROVE  Reported(t, b, d, e) \in EntryRec
  <1>1. t[e] \in EntryRec /\ d[e] \in Int
    OBVIOUS
  <1> QED
    BY <1>1 DEF Reported, EntryRec

LEMMA PlusType ==
    ASSUME NEW a \in Nat, NEW b \in Nat
    PROVE  Plus(a, b) \in 0..Cap
  BY ReportingAssumption DEF Plus

LEMMA MinusType ==
    ASSUME NEW a \in Nat, NEW b \in Nat
    PROVE  Minus(a, b) \in Nat /\ Minus(a, b) <= a
  BY DEF Minus

(* The timer is armed for a counter of the table, so for a natural number. *)
LEMMA TimerStartType ==
    ASSUME NEW t \in [Entry -> EntryRec], seconds \in Nat, left \in 0..seconds, TimerStart(t)
    PROVE  seconds' \in Nat /\ left' \in 0..seconds'
  <1>1. Deadlines(t, bound) \subseteq Nat
    BY DEF Deadlines, EntryRec
  <1> QED
    BY <1>1 DEF TimerStart

LEMMA FlagsType == FlagsOK /\ [Next]_vars => FlagsOK'
  BY Zenon DEF FlagsOK, Next, vars, SetAttr, ReportHandler, TimerCb, Tick, CfgReportCmd,
               GateChange, BindChange, Restart

(* Every variable keeps its type: the counters stay natural numbers under  *)
(* the timer's subtractions and the timer never has more left than it was  *)
(* armed for.                                                              *)
THEOREM TypeCorrect == Spec => []TypeOK
  <1>1. Init => TypeOK
    <2> SUFFICES ASSUME Init PROVE TypeOK
      OBVIOUS
    <2>1. FlagsOK
      BY Zenon DEF Init, FlagsOK
    <2>2. tab \in [Entry -> EntryRec]
      BY DefaultTableType DEF Init
    <2>3. 0 \in 0..Cap
      BY ReportingAssumption
    <2>4. seconds \in Nat /\ left \in 0..seconds
      BY DEF Init
    <2> QED
      BY <2>1, <2>2, <2>3, <2>4, ReportingAssumption DEF Init, TypeOK
  <1>2. TypeOK /\ [Next]_vars => TypeOK'
    <2> SUFFICES ASSUME TypeOK, [Next]_vars PROVE TypeOK'
      OBVIOUS
    <2> USE DEF TypeOK
    <2>a. Values \subseteq Int /\ InitValue \in Values /\ Cap \in Nat /\ data \in [Entry -> Int]
      BY ReportingAssumption
    <2>b. FlagsOK'
      BY FlagsType
    <2>1. ASSUME NEW e \in Entry, NEW v \in Values, SetAttr(e, v) PROVE TypeOK'
      BY <2>b, <2>1, <2>a DEF SetAttr, Restarted
    <2>2. CASE ReportHandler
      <3>1. tab' \in [Entry -> EntryRec]
        BY <2>2, <2>a, ReportedType DEF ReportHandler
      <3>2. seconds' \in Nat /\ left' \in 0..seconds'
        BY <2>2, <3>1, TimerStartType DEF ReportHandler
      <3> QED
        BY <2>b, <2>2, <2>a, <3>1, <3>2 DEF ReportHandler
    <2>3. CASE TimerCb
      <3>1. \A e \in Entry : Minus(tab[e].minIntCnt, seconds) \in Nat
                          /\ Minus(tab[e].maxIntCnt, seconds) \in Nat
        <4> TAKE e \in Entry
        <4>1. tab[e].minIntCnt \in Nat /\ tab[e].maxIntCnt \in Nat
          BY DEF EntryRec
        <4>2. seconds \in Nat
          OBVIOUS
        <4> QED
          BY <4>1, <4>2, MinusType
      <3>2. tab' \in [Entry -> EntryRec]
        BY <2>3, <3>1 DEF TimerCb, EntryRec
      <3> QED
        <4>1. seconds' = 0 /\ left' = 0
          BY <2>3 DEF TimerCb
        <4>2. seconds' \in Nat /\ left' \in 0..seconds'
          BY <4>1
        <4> QED
          BY <2>b, <2>3, <3>2, <4>2 DEF TimerCb
    <2>4. CASE Tick
      <3>1. left' \in 0..seconds
        BY <2>4, MinusType DEF Tick
      <3>2. \A n \in 0..Cap : Plus(n, 1) \in 0..Cap
        BY <2>a, PlusType
      <3>3. since' \in [Entry -> 0..Cap]
        BY <2>4, <3>2 DEF Tick
      <3>4. lost' \in [Entry -> 0..Cap]
        BY <2>4, <3>2 DEF Tick
      <3>5. stale' \in [Entry -> 0..Cap]
        BY <2>4, <3>2 DEF Tick
      <3> QED
        BY <2>b, <2>4, <3>1, <3>3, <3>4, <3>5 DEF Tick
    <2>5. ASSUME NEW e \in Entry, NEW c \in Configs, CfgReportCmd(e, c) PROVE TypeOK'
      <3>1. tab' \in [Entry -> EntryRec]
        BY <2>5, ConfiguredType DEF CfgReportCmd
      <3>2. Elapsed \in Nat
        BY DEF Elapsed
      <3>3. lost' \in [Entry -> 0..Cap]
        <4>1. \A n \in 0..Cap : Plus(n, Elapsed) \in 0..Cap
          <5> TAKE n \in 0..Cap
          <5>1. n \in Nat
            BY <2>a
          <5> QED
            BY <3>2, <5>1, PlusType
        <4> QED
          BY <2>5, <2>a, <4>1 DEF CfgReportCmd
      <3>4. since' \in [Entry -> 0..Cap] /\ stale' \in [Entry -> 0..Cap]
        BY <2>5, <2>a DEF CfgReportCmd, Restarted
      <3> QED
        BY <2>b, <2>5, <3>1, <3>3, <3>4 DEF CfgReportCmd
    <2>6. CASE GateChange
      BY <2>b, <2>6 DEF GateChange
    <2>7. ASSUME NEW k \in ReportedClusters, BindChange(k) PROVE TypeOK'
      BY <2>b, <2>7, <2>a DEF BindChange
    <2>8. CASE Restart
      <3>1. tab' \in [Entry -> EntryRec]
        <4>1. CASE nv = NoTable
          BY <2>8, <4>1, DefaultTableType DEF Restart
        <4>2. CASE nv # NoTable
          <5>1. nv \in [Entry -> EntryRec]
            BY <4>2
          <5>2. \A r \in EntryRec : [r EXCEPT !.prevData = Erased] \in EntryRec
            BY ReportingAssumption DEF EntryRec
          <5> QED
            BY <2>8, <4>2, <5>1, <5>2 DEF Restart
        <4> QED
          BY <4>1, <4>2
      <3> QED
        BY <2>b, <2>8, <2>a, <3>1 DEF Restart
    <2>9. CASE UNCHANGED vars
      BY <2>b, <2>9 DEF vars
    <2> QED
      BY <2>1, <2>2, <2>3, <2>4, <2>5, <2>6, <2>7, <2>8, <2>9 DEF Next
  <1> QED
    BY <1>1, <1>2, PTL DEF Spec
-----------------------------------------------------------------------------
(* The inductive invariant behind the safety properties.                   *)

(* Intervals that zcl_configureReporting has let through, counters below   *)
(* them, in memory and in the NV copy alike.                               *)
Interval(mn, mx) == mx \in {0, NoReport} \/ (mn <= mx /\ mx <= Cap)

GoodEntry(r) ==
    /\ Interval(r.minInterval, r.maxInterval) /\ Interval(r.minIntDft, r.maxIntDft)
    /\ r.minIntCnt <= r.minInterval /\ r.maxIntCnt <= r.maxInterval

TableOK ==
    /\ \A e \in Entry : GoodEntry(tab[e])
    /\ nv # NoTable => \A e \in Entry : GoodEntry(nv[e])

(* Behind a pending timer every counter that should run does run, and does *)
(* not run out before it.                                                  *)
PendingCovers(e) ==
    seconds # 0 /\ IsActive(e) /\ tab[e].maxInterval # 0 =>
        /\ tab[e].maxIntCnt >= seconds
        /\ tab[e].minInterval # 0 => tab[e].minIntCnt >= seconds
        /\ tab[e].minInterval = 0 => tab[e].minIntCnt = 0

(* What is left on a counter and what has been waited add up. *)
MaxBalance(e) ==
    IsActive(e) /\ tab[e].maxInterval # 0 =>
        since[e] + tab[e].maxIntCnt <= tab[e].maxInterval + lost[e] + Elapsed

LatencyBalance(e) ==
    IsActive(e) =>
        /\ stale[e] # 0 => Changed(tab[e], data[e])
        /\ IF tab[e].maxInterval = 0 \/ tab[e].minInterval = 0
           THEN stale[e] = 0
           ELSE stale[e] + tab[e].minIntCnt <= tab[e].minInterval + lost[e] + Elapsed

NothingDue == ran => \A e \in Entry : ~Due(tab, bound, data, e)

EntryInv(e) == PendingCovers(e) /\ MaxBalance(e) /\ LatencyBalance(e)

Inv == TableOK /\ NothingDue /\ \A e \in Entry : EntryInv(e)

(* A report rewrites the counters and the last value of the entries that   *)
(* are due, and an expired minimum interval without a change starts again. *)
LEMMA ReportedFields ==
    ASSUME NEW t \in [Entry -> EntryRec], NEW b, NEW d, NEW e \in Entry
    PROVE  LET r == Reported(t, b, d, e) IN
           /\ r.used = t[e].used
           /\ r.minInterval = t[e].minInterval /\ r.maxInterval = t[e].maxInterval
           /\ r.minIntDft = t[e].minIntDft /\ r.maxIntDft = t[e].maxIntDft
           /\ r.reportableChange = t[e].reportableChange
           /\ Due(t, b, d, e) =>
                 /\ r.prevData = d[e]
                 /\ r.minIntCnt = t[e].minInterval /\ r.maxIntCnt = t[e].maxInterval
           /\ ~Due(t, b, d, e) =>
                 /\ r.prevData = t[e].prevData /\ r.maxIntCnt = t[e].maxIntCnt
                 /\ \/ r.minIntCnt = t[e].minIntCnt
                    \/ /\ t[e].minIntCnt = 0 /\ t[e].maxIntCnt # 0 /\ Active(t, b, e)
                       /\ r.minIntCnt = t[e].minInterval
                 /\ Active(t, b, e) /\ t[e].maxIntCnt # 0 /\ t[e].minIntCnt = 0 =>
                       r.minIntCnt = t[e].minInterval
  <1> t[e] \in EntryRec
    OBVIOUS
  <1>1. CASE Due(t, b, d, e)
    BY <1>1 DEF Reported, EntryRec
  <1>2. CASE ~Due(t, b, d, e)
    BY <1>2 DEF Reported, EntryRec
  <1> QED
    BY <1>1, <1>2

LEMMA EntryFields ==
    ASSUME NEW r \in EntryRec
    PROVE  /\ r.used \in BOOLEAN
           /\ r.minInterval \in Nat /\ r.maxInterval \in Nat
           /\ r.minIntDft \in Nat /\ r.maxIntDft \in Nat
           /\ r.minIntCnt \in Nat /\ r.maxIntCnt \in Nat
           /\ r.reportableChange \in Nat /\ r.prevData \in Int
  BY DEF EntryRec

(* The default table and the records the handlers write hold good entries. *)
LEMMA GoodUpdated ==
    ASSUME NEW r \in EntryRec, GoodEntry(r) \/ r = Free, NEW c \in ConfigRec,
           Acceptable(c), Observable(c)
    PROVE  GoodEntry(Updated(r, c))
  <1>1. Interval(c.min, c.max)
    BY DEF Acceptable, Observable, Interval, ConfigRec
  <1>2. c.min \in Nat /\ c.max \in Nat
    BY DEF ConfigRec
  <1>3. Interval(0, 0)
    BY DEF Interval
  <1>4. Interval(r.minIntDft, r.maxIntDft)
    BY <1>3 DEF GoodEntry, Free
  <1>5. /\ Updated(r, c).minInterval = c.min /\ Updated(r, c).maxInterval = c.max
        /\ Updated(r, c).minIntCnt = c.min /\ Updated(r, c).maxIntCnt = c.max
        /\ \/ Updated(r, c).minIntDft = c.min /\ Updated(r, c).maxIntDft = c.max
           \/ Updated(r, c).minIntDft = r.minIntDft /\ Updated(r, c).maxIntDft = r.maxIntDft
    BY DEF Updated, EntryRec
  <1> QED
    BY <1>1, <1>2, <1>4, <1>5 DEF GoodEntry

LEMMA GoodReset ==
    ASSUME NEW r \in EntryRec, GoodEntry(r)
    PROVE  GoodEntry(ResetToDefault(r))
  <1> DEFINE n == ResetToDefault(r)
  <1>1. /\ n.minInterval = r.minIntDft /\ n.maxInterval = r.maxIntDft
        /\ n.minIntCnt = r.minIntDft /\ n.maxIntCnt = r.maxIntDft
        /\ n.minIntDft = r.minIntDft /\ n.maxIntDft = r.maxIntDft
    BY DEF ResetToDefault, EntryRec
  <1>2. r.minIntDft \in Nat /\ r.maxIntDft \in Nat
    BY EntryFields
  <1> QED
    BY <1>1, <1>2 DEF GoodEntry

LEMMA GoodDefaults == \A e \in Entry : GoodEntry(DefaultTable[e])
  <1> TAKE e \in Entry
  <1>1. Free \in EntryRec /\ GoodEntry(Free)
    BY DEF Free, EntryRec, GoodEntry, Interval
  <1>2. CASE Default[e] = NotUsed
    BY <1>1, <1>2 DEF DefaultTable
  <1>3. CASE Default[e] # NotUsed
    <2>1. Default[e] \in ConfigRec /\ Acceptable(Default[e]) /\ Observable(Default[e])
      BY <1>3, ReportingAssumption
    <2> QED
      BY <1>1, <1>3, <2>1, GoodUpdated DEF DefaultTable
  <1> QED
    BY <1>2, <1>3

(* Times of an entry: numbers, whatever the action does to them. *)
LEMMA EntryTimes ==
    ASSUME TypeOK, NEW e \in Entry
    PROVE  /\ tab[e] \in EntryRec /\ data[e] \in Int
           /\ since[e] \in 0..Cap /\ lost[e] \in 0..Cap /\ stale[e] \in 0..Cap
           /\ seconds \in Nat /\ left \in 0..seconds
           /\ Elapsed \in 0..seconds /\ Cap \in Nat
  <1>1. seconds \in Nat /\ left \in 0..seconds
    BY DEF TypeOK
  <1>2. tab[e] \in EntryRec /\ since[e] \in 0..Cap /\ lost[e] \in 0..Cap /\ stale[e] \in 0..Cap
    BY DEF TypeOK
  <1>3. data[e] \in Values
    BY DEF TypeOK
  <1>4. Values \subseteq Int /\ Cap \in Nat
    BY ReportingAssumption
  <1>5. seconds - left \in 0..seconds
    BY <1>1
  <1> QED
    BY <1>1, <1>2, <1>3, <1>4, <1>5 DEF Elapsed

LEMMA InvInit == Init => Inv
  <1> SUFFICES ASSUME Init PROVE Inv
    OBVIOUS
  <1>1. TableOK
    BY GoodDefaults DEF Init, TableOK
  <1>2. NothingDue
    BY DEF Init, NothingDue
  <1>3. ASSUME NEW e \in Entry PROVE EntryInv(e)
    <2>1. GoodEntry(tab[e]) /\ tab[e] \in EntryRec
      BY <1>1, DefaultTableType DEF Init, TableOK
    <2>2. /\ tab[e].minInterval \in Nat /\ tab[e].maxInterval \in Nat
          /\ tab[e].minIntCnt \in Nat /\ tab[e].maxIntCnt \in Nat
      BY <2>1, EntryFields
    <2>3. since[e] = 0 /\ lost[e] = 0 /\ stale[e] = 0 /\ seconds = 0 /\ Elapsed = 0
      BY DEF Init, Elapsed
    <2> QED
      BY <2>1, <2>2, <2>3 DEF EntryInv, PendingCovers, MaxBalance, LatencyBalance, GoodEntry
  <1> QED
    BY <1>1, <1>2, <1>3 DEF Inv

LEMMA SetAttrInv ==
    ASSUME TypeOK, Inv, NEW a \in Entry, NEW v \in Values, SetAttr(a, v)
    PROVE  Inv'
  <1>1. tab' = tab /\ nv' = nv /\ bound' = bound /\ since' = since /\ lost' = lost
        /\ seconds' = seconds /\ left' = left /\ Elapsed' = Elapsed
    BY DEF SetAttr, Elapsed
  <1>2. TableOK'
    BY <1>1 DEF Inv, TableOK
  <1>3. NothingDue'
    BY DEF SetAttr, NothingDue
  <1>4. ASSUME NEW e \in Entry PROVE EntryInv(e)'
    <2>1. EntryInv(e) /\ GoodEntry(tab[e])
      BY DEF Inv, TableOK
    <2>2. PendingCovers(e)' /\ MaxBalance(e)'
      BY <1>1, <2>1 DEF EntryInv, PendingCovers, MaxBalance, IsActive
    <2>3. CASE e # a
      <3>1. data'[e] = data[e] /\ stale'[e] = stale[e]
        BY <2>3 DEF SetAttr, Restarted, TypeOK
      <3> QED
        BY <1>1, <2>1, <2>2, <3>1 DEF EntryInv, LatencyBalance, IsActive
    <2>4. CASE e = a /\ Changed(tab[e], v)
      <3>1. data'[e] = v /\ stale'[e] = stale[e]
        BY <2>4 DEF SetAttr, TypeOK
      <3> QED
        BY <1>1, <2>1, <2>2, <2>4, <3>1 DEF EntryInv, LatencyBalance, IsActive
    <2>5. CASE e = a /\ ~Changed(tab[e], v)
      <3>1. stale'[e] = 0
        BY <2>5 DEF SetAttr, Restarted, TypeOK
      <3>2. tab[e] \in EntryRec /\ lost[e] \in Nat /\ Elapsed \in Nat
        BY EntryTimes
      <3>3. tab[e].minIntCnt \in Nat /\ tab[e].minInterval \in Nat
            /\ tab[e].minIntCnt <= tab[e].minInterval
        BY <2>1, <3>2, EntryFields DEF GoodEntry
      <3>4. LatencyBalance(e)'
        BY <1>1, <3>1, <3>2, <3>3 DEF LatencyBalance
      <3> QED
        BY <2>2, <3>4 DEF EntryInv
    <2> QED
      BY <2>3, <2>4, <2>5
  <1> QED
    BY <1>2, <1>3, <1>4 DEF Inv

LEMMA TimerCbInv ==
    ASSUME TypeOK, Inv, TimerCb
    PROVE  Inv'
  <1>1. seconds' = 0 /\ left' = 0 /\ Elapsed' = 0 /\ seconds # 0 /\ Elapsed = seconds
        /\ seconds \in Nat
    <2>1. seconds \in Nat /\ left = 0 /\ seconds # 0 /\ seconds' = 0 /\ left' = 0
      BY DEF TimerCb, TypeOK
    <2> QED
      BY <2>1 DEF Elapsed
  <1>2. nv' = nv /\ bound' = bound /\ since' = since /\ lost' = lost /\ stale' = stale
        /\ data' = data
    BY DEF TimerCb
  <1>3. NothingDue'
    BY DEF TimerCb, NothingDue
  <1>4. ASSUME NEW e \in Entry PROVE GoodEntry(tab[e])' /\ EntryInv(e)'
    <2>1. EntryInv(e) /\ GoodEntry(tab[e]) /\ tab[e] \in EntryRec
      BY EntryTimes DEF Inv, TableOK
    <2>2. /\ tab[e].minInterval \in Nat /\ tab[e].maxInterval \in Nat
          /\ tab[e].minIntCnt \in Nat /\ tab[e].maxIntCnt \in Nat
          /\ since[e] \in Nat /\ lost[e] \in Nat /\ stale[e] \in Nat
      BY <2>1, EntryFields, EntryTimes
    <2>3. CASE ~IsActive(e)
      <3>1. tab'[e] = tab[e]
        BY <2>3 DEF TimerCb, IsActive
      <3>2. ~IsActive(e)'
        BY <1>2, <2>3, <3>1 DEF IsActive, Active
      <3> QED
        BY <2>1, <3>1, <3>2 DEF EntryInv, PendingCovers, MaxBalance, LatencyBalance
    <2>4. CASE IsActive(e)
      <3>1. /\ tab'[e].used = tab[e].used
            /\ tab'[e].minInterval = tab[e].minInterval
            /\ tab'[e].maxInterval = tab[e].maxInterval
            /\ tab'[e].minIntDft = tab[e].minIntDft /\ tab'[e].maxIntDft = tab[e].maxIntDft
            /\ tab'[e].reportableChange = tab[e].reportableChange
            /\ tab'[e].prevData = tab[e].prevData
            /\ tab'[e].minIntCnt = Minus(tab[e].minIntCnt, seconds)
            /\ tab'[e].maxIntCnt = Minus(tab[e].maxIntCnt, seconds)
        BY <2>1, <2>4 DEF TimerCb, IsActive, EntryRec
      <3>2. GoodEntry(tab[e])'
        <4>1. tab'[e].minIntCnt <= tab[e].minIntCnt /\ tab'[e].maxIntCnt <= tab[e].maxIntCnt
              /\ tab'[e].minIntCnt \in Nat /\ tab'[e].maxIntCnt \in Nat
          BY <1>1, <2>2, <3>1, MinusType
        <4> QED
          BY <2>1, <2>2, <3>1, <4>1 DEF GoodEntry
      <3>3. tab[e].maxInterval # 0 =>
               /\ tab'[e].maxIntCnt + seconds = tab[e].maxIntCnt
               /\ tab[e].minInterval # 0 =>
                    tab'[e].minIntCnt + seconds = tab[e].minIntCnt
        BY <1>1, <2>1, <2>2, <2>4, <3>1 DEF EntryInv, PendingCovers, Minus
      <3>4. MaxBalance(e)'
        <4>1. tab'[e].maxIntCnt \in Nat
          BY <1>1, <2>2, <3>1, MinusType
        <4> QED
          BY <1>1, <1>2, <2>1, <2>2, <2>4, <3>1, <3>3, <4>1 DEF EntryInv, MaxBalance
      <3>5. LatencyBalance(e)'
        <4>1. Changed(tab[e], data[e])' <=> Changed(tab[e], data[e])
          BY <1>2, <3>1 DEF Changed
        <4>2. tab'[e].minIntCnt \in Nat
          BY <1>1, <2>2, <3>1, MinusType
        <4> QED
          BY <1>1, <1>2, <2>1, <2>2, <2>4, <3>1, <3>3, <4>1, <4>2 DEF EntryInv, LatencyBalance
      <3> QED
        BY <1>1, <3>2, <3>4, <3>5 DEF EntryInv, PendingCovers
    <2> QED
      BY <2>3, <2>4
  <1>5. TableOK'
    BY <1>2, <1>4 DEF Inv, TableOK
  <1> QED
    BY <1>3, <1>4, <1>5 DEF Inv

(* A second passes: either the timer counts it or the observer calls it lost. *)
LEMMA TickInv ==
    ASSUME TypeOK, Inv, Tick
    PROVE  Inv'
  <1>1. tab' = tab /\ nv' = nv /\ bound' = bound /\ data' = data /\ seconds' = seconds
    BY DEF Tick
  <1>2. TableOK' /\ NothingDue'
    BY <1>1 DEF Tick, Inv, TableOK, NothingDue
  <1>3. /\ seconds = 0 => Elapsed = 0 /\ Elapsed' = 0
        /\ seconds # 0 => Elapsed' = Elapsed + 1
    <2>1. seconds \in Nat /\ left \in 0..seconds
      BY DEF TypeOK
    <2>2. seconds # 0 => left > 0 /\ left' = left - 1
      BY <2>1 DEF Tick, Minus
    <2>3. seconds = 0 => left = 0 /\ left' = 0
      BY <2>1 DEF Tick, Minus
    <2> QED
      BY <1>1, <2>1, <2>2, <2>3 DEF Elapsed
  <1>4. ASSUME NEW e \in Entry PROVE EntryInv(e)'
    <2>1. EntryInv(e) /\ GoodEntry(tab[e]) /\ tab[e] \in EntryRec
      BY EntryTimes DEF Inv, TableOK
    <2>2. /\ tab[e].minInterval \in Nat /\ tab[e].maxInterval \in Nat
          /\ tab[e].minIntCnt \in Nat /\ tab[e].maxIntCnt \in Nat
          /\ since[e] \in 0..Cap /\ lost[e] \in 0..Cap /\ stale[e] \in 0..Cap
          /\ Cap \in Nat /\ Elapsed \in Nat /\ seconds \in Nat
      BY <2>1, EntryFields, EntryTimes
    <2>3. IsActive(e)' <=> IsActive(e)
      BY <1>1 DEF IsActive
    <2> SUFFICES ASSUME IsActive(e) PROVE EntryInv(e)'
      BY <2>3 DEF EntryInv, PendingCovers, MaxBalance, LatencyBalance
    <2>4. PendingCovers(e)'
      BY <1>1, <2>1, <2>3 DEF EntryInv, PendingCovers
    <2>5. /\ since'[e] = Plus(since[e], 1)
          /\ seconds = 0 => lost'[e] = Plus(lost[e], 1)
          /\ seconds # 0 => lost'[e] = lost[e]
          /\ \/ stale'[e] = stale[e]
             \/ stale'[e] = Plus(stale[e], 1) /\ open /\ Changed(tab[e], data[e])
      BY DEF Tick, IsActive
    <2>6. MaxBalance(e)'
      BY <1>1, <1>3, <2>1, <2>2, <2>5 DEF MaxBalance, EntryInv, GoodEntry, Plus
    <2>7. LatencyBalance(e)'
      <3>1. Changed(tab[e], data[e])' <=> Changed(tab[e], data[e])
        BY <1>1
      <3>2. stale'[e] # stale[e] => tab[e].maxInterval # 0 /\ tab[e].minInterval # 0
        <4> SUFFICES ASSUME open, Changed(tab[e], data[e])
                     PROVE  tab[e].maxInterval # 0 /\ tab[e].minInterval # 0
          BY <2>5
        <4>1. ~Due(tab, bound, data, e)
          BY DEF Tick, Inv, NothingDue
        <4>2. tab[e].maxIntCnt # 0 /\ tab[e].minIntCnt # 0
          BY <4>1 DEF Due, IsActive
        <4> QED
          BY <2>1, <2>2, <4>2 DEF GoodEntry
      <3>3. stale'[e] # 0 => Changed(tab[e], data[e])
        BY <2>1, <2>5 DEF EntryInv, LatencyBalance
      <3>4. CASE tab[e].maxInterval = 0 \/ tab[e].minInterval = 0
        BY <1>1, <2>1, <3>1, <3>2, <3>3, <3>4 DEF EntryInv, LatencyBalance
      <3>5. CASE tab[e].maxInterval # 0 /\ tab[e].minInterval # 0
        <4>1. stale[e] + tab[e].minIntCnt <= tab[e].minInterval + lost[e] + Elapsed
          BY <2>1, <3>5 DEF EntryInv, LatencyBalance
        <4>2. stale'[e] <= stale[e] + 1 /\ stale'[e] <= Cap /\ stale'[e] \in Nat
          BY <2>2, <2>5 DEF Plus
        <4>3. tab[e].minIntCnt <= tab[e].minInterval
          BY <2>1 DEF GoodEntry
        <4>4. CASE seconds = 0
          <5>1. lost'[e] = lost[e] + 1 \/ lost'[e] = Cap
            BY <2>2, <2>5, <4>4 DEF Plus
          <5>2. stale'[e] + tab[e].minIntCnt <= tab[e].minInterval + lost'[e] + Elapsed'
            BY <1>3, <2>2, <4>1, <4>2, <4>3, <4>4, <5>1
          <5> QED
            BY <1>1, <3>1, <3>3, <3>5, <5>2 DEF LatencyBalance
        <4>5. CASE seconds # 0
          <5>1. stale'[e] + tab[e].minIntCnt <= tab[e].minInterval + lost'[e] + Elapsed'
            BY <1>3, <2>2, <2>5, <4>1, <4>2, <4>5
          <5> QED
            BY <1>1, <3>1, <3>3, <3>5, <5>1 DEF LatencyBalance
        <4> QED
          BY <4>4, <4>5
      <3> QED
        BY <3>4, <3>5
    <2> QED
      BY <2>4, <2>6, <2>7 DEF EntryInv
  <1> QED
    BY <1>2, <1>4 DEF Inv

(* The idle task reports and arms the timer. *)
LEMMA ReportHandlerInv ==
    ASSUME TypeOK, TypeOK', Inv, ReportHandler
    PROVE  Inv'
  <1>1. nv' = nv /\ bound' = bound /\ data' = data /\ ran'
    BY DEF ReportHandler
  <1>2. tab \in [Entry -> EntryRec] /\ tab' \in [Entry -> EntryRec]
        /\ seconds \in Nat /\ seconds' \in Nat /\ left \in 0..seconds
    BY DEF TypeOK
  <1>3. /\ Elapsed' = Elapsed
        /\ seconds # 0 => seconds' = seconds
        /\ seconds = 0 /\ seconds' # 0 =>
             \A n \in Deadlines(tab', bound) : n # 0 => seconds' <= n
    <2>1. CASE UNCHANGED <<seconds, left>>
      BY <2>1 DEF Elapsed
    <2>2. CASE ~UNCHANGED <<seconds, left>>
      <3>1. seconds = 0 /\ left' = seconds' /\ left = 0
            /\ \A n \in Deadlines(tab', bound) : n # 0 => seconds' <= n
        BY <1>2, <2>2 DEF ReportHandler, TimerStart
      <3>2. Elapsed = 0 /\ Elapsed' = 0
        <4>1. seconds = 0 /\ left = 0 /\ left' = seconds' /\ seconds' \in Nat
          BY <1>2, <3>1
        <4>2. \A n \in Nat : n - n = 0
          OBVIOUS
        <4>3. seconds' - left' = 0
          BY <4>1, <4>2
        <4>4. seconds - left = 0
          BY <4>1, <4>2
        <4> QED
          BY <4>3, <4>4 DEF Elapsed
      <3> QED
        BY <3>1, <3>2
    <2> QED
      BY <2>1, <2>2
  <1>4. ASSUME NEW e \in Entry
        PROVE  GoodEntry(tab[e])' /\ EntryInv(e)' /\ ~Due(tab, bound, data, e)'
    <2>1. EntryInv(e) /\ GoodEntry(tab[e]) /\ tab[e] \in EntryRec
      BY EntryTimes DEF Inv, TableOK
    <2>2. /\ tab[e].minInterval \in Nat /\ tab[e].maxInterval \in Nat
          /\ tab[e].minIntCnt \in Nat /\ tab[e].maxIntCnt \in Nat
          /\ since[e] \in 0..Cap /\ lost[e] \in 0..Cap /\ stale[e] \in 0..Cap
          /\ Elapsed \in Nat /\ Elapsed <= seconds /\ data[e] \in Int
      BY <2>1, EntryFields, EntryTimes
    <2> DEFINE due == Due(tab, bound, data, e)
    <2>3. /\ tab'[e].used = tab[e].used
          /\ tab'[e].minInterval = tab[e].minInterval
          /\ tab'[e].maxInterval = tab[e].maxInterval
          /\ tab'[e].minIntDft = tab[e].minIntDft /\ tab'[e].maxIntDft = tab[e].maxIntDft
          /\ tab'[e].reportableChange = tab[e].reportableChange
          /\ due => /\ tab'[e].prevData = data[e]
                    /\ tab'[e].minIntCnt = tab[e].minInterval
                    /\ tab'[e].maxIntCnt = tab[e].maxInterval
          /\ ~due => /\ tab'[e].prevData = tab[e].prevData
                     /\ tab'[e].maxIntCnt = tab[e].maxIntCnt
                     /\ \/ tab'[e].minIntCnt = tab[e].minIntCnt
                        \/ /\ tab[e].minIntCnt = 0 /\ tab[e].maxIntCnt # 0 /\ IsActive(e)
                           /\ tab'[e].minIntCnt = tab[e].minInterval
                     /\ IsActive(e) /\ tab[e].maxIntCnt # 0 /\ tab[e].minIntCnt = 0 =>
                           tab'[e].minIntCnt = tab[e].minInterval
      BY <1>2, ReportedFields DEF ReportHandler, IsActive
    <2>4. since'[e] = (IF due THEN 0 ELSE since[e]) /\ lost'[e] = (IF due THEN 0 ELSE lost[e])
          /\ stale'[e] = (IF due THEN 0 ELSE stale[e])
      BY DEF ReportHandler
    <2> HIDE DEF due
    <2>5. GoodEntry(tab[e])'
      BY <2>1, <2>2, <2>3 DEF GoodEntry
    <2>6. IsActive(e)' <=> IsActive(e)
      BY <1>1, <2>3 DEF IsActive, Active
    <2>7. CASE ~IsActive(e)
      BY <2>5, <2>6, <2>7 DEF EntryInv, PendingCovers, MaxBalance, LatencyBalance, Due, IsActive
    <2>8. CASE IsActive(e)
      <3>1. due <=> IF tab[e].maxIntCnt = 0
                    THEN tab[e].maxInterval # 0 \/ Changed(tab[e], data[e])
                    ELSE tab[e].minIntCnt = 0 /\ Changed(tab[e], data[e])
        BY <2>8 DEF due, Due, IsActive
      <3>2. Changed(tab[e], data[e])' <=> ~due /\ Changed(tab[e], data[e])
        <4>1. CASE due
          BY <1>1, <2>3, <4>1 DEF Changed
        <4>2. CASE ~due
          BY <1>1, <2>3, <4>2 DEF Changed
        <4> QED
          BY <4>1, <4>2
      <3>3. ~Due(tab, bound, data, e)'
        BY <2>1, <2>2, <2>3, <3>1, <3>2 DEF Due, GoodEntry
      <3>4. PendingCovers(e)'
        <4> SUFFICES ASSUME seconds' # 0, tab[e].maxInterval # 0
                     PROVE  /\ tab'[e].maxIntCnt >= seconds'
                            /\ tab[e].minInterval # 0 => tab'[e].minIntCnt >= seconds'
                            /\ tab[e].minInterval = 0 => tab'[e].minIntCnt = 0
          BY <2>3 DEF PendingCovers
        <4>1. CASE seconds # 0
          BY <1>2, <1>3, <2>1, <2>2, <2>3, <2>8, <3>1, <4>1 DEF EntryInv, PendingCovers, GoodEntry
        <4>2. CASE seconds = 0
          <5>1. tab'[e].maxIntCnt \in Deadlines(tab', bound)
                /\ tab'[e].minIntCnt \in Deadlines(tab', bound)
            BY <1>1, <2>6, <2>8 DEF Deadlines, IsActive
          <5>2. tab'[e].maxIntCnt # 0 /\ (tab[e].minInterval # 0 => tab'[e].minIntCnt # 0)
            BY <2>3, <2>8, <3>1
          <5>3. tab[e].minInterval = 0 => tab'[e].minIntCnt = 0
            BY <2>1, <2>2, <2>3 DEF GoodEntry
          <5> QED
            BY <1>2, <1>3, <4>2, <5>1, <5>2, <5>3
        <4> QED
          BY <4>1, <4>2
      <3>5. MaxBalance(e)'
        BY <1>3, <2>1, <2>2, <2>3, <2>4, <2>8 DEF MaxBalance, EntryInv
      <3>6. LatencyBalance(e)'
        <4>1. CASE due
          BY <1>3, <2>2, <2>3, <2>4, <4>1 DEF LatencyBalance
        <4>2. CASE ~due
          <5>1. stale'[e] = stale[e] /\ lost'[e] = lost[e]
            BY <2>4, <4>2
          <5>2. tab'[e].minIntCnt = tab[e].minIntCnt \/ stale[e] = 0
            BY <2>1, <2>3, <2>8, <3>1, <4>2 DEF EntryInv, LatencyBalance
          <5>3. tab'[e].minIntCnt <= tab[e].minInterval /\ tab'[e].minIntCnt \in Nat
            BY <2>1, <2>2, <2>3, <4>2 DEF GoodEntry
          <5> QED
            BY <1>3, <2>1, <2>2, <2>3, <2>8, <3>2, <4>2, <5>1, <5>2, <5>3
               DEF EntryInv, LatencyBalance
        <4> QED
          BY <4>1, <4>2
      <3> QED
        BY <2>5, <3>3, <3>4, <3>5, <3>6 DEF EntryInv
    <2> QED
      BY <2>7, <2>8
  <1>5. TableOK' /\ NothingDue'
    BY <1>1, <1>4 DEF Inv, TableOK, NothingDue
  <1> QED
    BY <1>4, <1>5 DEF Inv

(* A Configure Reporting command either leaves the record alone or starts  *)
(* it afresh with intervals that passed the check.                         *)
LEMMA ConfiguredGood ==
    ASSUME NEW r \in EntryRec, GoodEntry(r), NEW c \in Configs
    PROVE  LET n == Configured(r, c) IN
           /\ GoodEntry(n)
           /\ ~Accepted(r, c) => n = r
           /\ Accepted(r, c) => n.minIntCnt = n.minInterval /\ n.maxIntCnt = n.maxInterval
  <1>1. c \in ConfigRec /\ Observable(c)
    BY ReportingAssumption
  <1>2. CASE ~Accepted(r, c)
    BY <1>2 DEF Accepted, Configured
  <1>3. CASE c.max = 0 /\ c.min = NoReport /\ r.used
    <2>1. Configured(r, c) = ResetToDefault(r)
      BY <1>3 DEF Configured
    <2>2. ResetToDefault(r).minIntCnt = ResetToDefault(r).minInterval
          /\ ResetToDefault(r).maxIntCnt = ResetToDefault(r).maxInterval
      BY DEF ResetToDefault, EntryRec
    <2> QED
      BY <1>3, <2>1, <2>2, GoodReset DEF Accepted
  <1>4. CASE ~(c.max = 0 /\ c.min = NoReport) /\ Acceptable(c) /\ (c.max = NoReport => r.used)
    <2>1. Configured(r, c) = Updated(r, c)
      BY <1>4 DEF Configured
    <2>2. Updated(r, c).minIntCnt = Updated(r, c).minInterval
          /\ Updated(r, c).maxIntCnt = Updated(r, c).maxInterval
      BY DEF Updated, EntryRec
    <2> QED
      BY <1>1, <1>4, <2>1, <2>2, GoodUpdated DEF Accepted
  <1> QED
    BY <1>2, <1>3, <1>4 DEF Accepted

(* An entry that starts afresh owes nothing. *)
LEMMA FreshEntryInv ==
    ASSUME TypeOK', NEW e \in Entry, GoodEntry(tab[e])',
           seconds' = 0, since'[e] = 0, stale'[e] = 0
    PROVE  EntryInv(e)'
  <1>1. tab'[e] \in EntryRec /\ lost'[e] \in Nat /\ Elapsed' \in Nat
    BY DEF TypeOK, Elapsed
  <1>2. /\ tab'[e].minInterval \in Nat /\ tab'[e].maxInterval \in Nat
        /\ tab'[e].minIntCnt \in Nat /\ tab'[e].maxIntCnt \in Nat
    BY <1>1, EntryFields
  <1> QED
    BY <1>1, <1>2 DEF EntryInv, PendingCovers, MaxBalance, LatencyBalance, GoodEntry

LEMMA CfgReportCmdInv ==
    ASSUME TypeOK, TypeOK', Inv, NEW a \in Entry, NEW c \in Configs, CfgReportCmd(a, c)
    PROVE  Inv'
  <1>1. bound' = bound /\ data' = data /\ seconds' = 0 /\ left' = 0 /\ Elapsed' = 0
    BY DEF CfgReportCmd, Elapsed
  <1>2. tab[a] \in EntryRec /\ GoodEntry(tab[a])
    BY EntryTimes DEF Inv, TableOK
  <1>3. tab'[a] = Configured(tab[a], c) /\ \A e \in Entry : e # a => tab'[e] = tab[e]
    BY DEF CfgReportCmd, TypeOK
  <1>4. \A e \in Entry : GoodEntry(tab'[e])
    BY <1>2, <1>3, ConfiguredGood DEF Inv, TableOK
  <1>5. TableOK' /\ NothingDue'
    BY <1>4 DEF CfgReportCmd, Inv, TableOK, NothingDue
  <1>6. ASSUME NEW e \in Entry PROVE EntryInv(e)'
    <2>1. CASE e = a /\ Accepted(tab[a], c)
      <3>1. since'[e] = 0 /\ stale'[e] = 0
        BY <2>1 DEF CfgReportCmd, Restarted, TypeOK
      <3> QED
        BY <1>1, <1>4, <3>1, FreshEntryInv
    <2>2. CASE ~(e = a /\ Accepted(tab[a], c))
      <3>1. tab'[e] = tab[e]
        BY <1>2, <1>3, <2>2, ConfiguredGood
      <3>2. since'[e] = since[e] /\ stale'[e] = stale[e]
        BY <2>2 DEF CfgReportCmd, Restarted, TypeOK
      <3>3. IsActive(e) => lost'[e] = Plus(lost[e], Elapsed)
        BY <2>2 DEF CfgReportCmd, IsActive
      <3>4. EntryInv(e) /\ GoodEntry(tab[e]) /\ tab[e] \in EntryRec
        BY EntryTimes DEF Inv, TableOK
      <3>5. /\ tab[e].minInterval \in Nat /\ tab[e].maxInterval \in Nat
            /\ tab[e].minIntCnt \in Nat /\ tab[e].maxIntCnt \in Nat
            /\ since[e] \in 0..Cap /\ lost[e] \in 0..Cap /\ stale[e] \in 0..Cap
            /\ Elapsed \in Nat /\ Cap \in Nat
        BY <3>4, EntryFields, EntryTimes
      <3>6. IsActive(e)' <=> IsActive(e)
        BY <1>1, <3>1 DEF IsActive, Active
      <3> SUFFICES ASSUME IsActive(e) PROVE EntryInv(e)'
        BY <3>6 DEF EntryInv, PendingCovers, MaxBalance, LatencyBalance
      <3>7. lost'[e] = lost[e] + Elapsed \/ lost'[e] = Cap
        BY <3>3 DEF Plus
      <3>8. PendingCovers(e)'
        BY <1>1 DEF PendingCovers
      <3>9. MaxBalance(e)'
        BY <1>1, <3>1, <3>2, <3>4, <3>5, <3>7 DEF EntryInv, MaxBalance, GoodEntry
      <3>10. LatencyBalance(e)'
        BY <1>1, <3>1, <3>2, <3>4, <3>5, <3>7 DEF EntryInv, LatencyBalance, GoodEntry
      <3> QED
        BY <3>8, <3>9, <3>10 DEF EntryInv
    <2> QED
      BY <2>1, <2>2
  <1> QED
    BY <1>5, <1>6 DEF Inv

LEMMA RestartInv ==
    ASSUME TypeOK, TypeOK', Inv, Restart
    PROVE  Inv'
  <1>1. \A e \in Entry : GoodEntry(tab'[e])
    <2>1. CASE nv = NoTable
      BY <2>1, GoodDefaults DEF Restart
    <2>2. CASE nv # NoTable
      <3> TAKE e \in Entry
      <3>1. nv[e] \in EntryRec /\ GoodEntry(nv[e])
        BY <2>2 DEF TypeOK, Inv, TableOK
      <3>2. GoodEntry([nv[e] EXCEPT !.prevData = Erased])
        BY <3>1 DEF GoodEntry, EntryRec
      <3> QED
        BY <2>2, <3>1, <3>2 DEF Restart
    <2> QED
      BY <2>1, <2>2
  <1>2. TableOK' /\ NothingDue'
    BY <1>1 DEF Restart, Inv, TableOK, NothingDue
  <1>3. ASSUME NEW e \in Entry PROVE EntryInv(e)'
    <2>1. seconds' = 0 /\ since'[e] = 0 /\ stale'[e] = 0
      BY DEF Restart
    <2> QED
      BY <1>1, <2>1, FreshEntryInv
  <1> QED
    BY <1>2, <1>3 DEF Inv

LEMMA InvStep ==
    ASSUME "bind" \notin Environment, TypeOK, TypeOK', Inv, [Next]_vars
    PROVE  Inv'
  <1>1. CASE \E e \in Entry, v \in Values : SetAttr(e, v)
    BY <1>1, SetAttrInv
  <1>2. CASE ReportHandler
    BY <1>2, ReportHandlerInv
  <1>3. CASE TimerCb
    BY <1>3, TimerCbInv
  <1>4. CASE Tick
    BY <1>4, TickInv
  <1>5. CASE \E e \in Entry, c \in Configs : CfgReportCmd(e, c)
    BY <1>5, CfgReportCmdInv
  <1>6. CASE GateChange
    BY <1>6 DEF GateChange, Inv, TableOK, NothingDue, EntryInv, PendingCovers, MaxBalance,
                LatencyBalance, IsActive, Elapsed
  <1>7. CASE \E k \in ReportedClusters : BindChange(k)
    BY <1>7 DEF BindChange
  <1>8. CASE Restart
    BY <1>8, RestartInv
  <1>9. CASE UNCHANGED vars
    BY <1>9 DEF vars, Inv, TableOK, NothingDue, EntryInv, PendingCovers, MaxBalance,
                LatencyBalance, IsActive, Elapsed
  <1> QED
    BY <1>1, <1>2, <1>3, <1>4, <1>5, <1>6, <1>7, <1>8, <1>9 DEF Next

THEOREM Invariance ==
    ASSUME "bind" \notin Environment
    PROVE  Spec => []Inv
  <1>1. Init => Inv
    BY InvInit
  <1>2. TypeOK /\ TypeOK' /\ Inv /\ [Next]_vars => Inv'
    BY InvStep
  <1> QED
    BY <1>1, <1>2, TypeCorrect, PTL DEF Spec

(* An attribute with a maximum interval is reported at least that often,   *)
(* apart from the seconds that no timer was counting.                      *)
THEOREM MaxIntervalTheorem ==
    ASSUME "bind" \notin Environment
    PROVE  Spec => []MaxIntervalKept
  <1>1. TypeOK /\ Inv => MaxIntervalKept
    <2> SUFFICES ASSUME TypeOK, Inv, NEW e \in Entry, IsActive(e), tab[e].maxInterval # 0
                 PROVE  since[e] <= tab[e].maxInterval + lost[e]
      BY DEF MaxIntervalKept
    <2>1. EntryInv(e) /\ tab[e] \in EntryRec /\ since[e] \in 0..Cap /\ lost[e] \in 0..Cap
          /\ Elapsed \in 0..seconds /\ seconds \in Nat /\ Cap \in Nat
      BY EntryTimes DEF Inv
    <2>2. tab[e].maxInterval \in Nat /\ tab[e].maxIntCnt \in Nat
      BY <2>1, EntryFields
    <2>3. Elapsed <= tab[e].maxIntCnt
      BY <2>1, <2>2 DEF EntryInv, PendingCovers
    <2> QED
      BY <2>1, <2>2, <2>3 DEF EntryInv, MaxBalance
  <1> QED
    BY <1>1, TypeCorrect, Invariance, PTL

(* A reportable change waits for the handler at most the minimum interval, *)
(* apart from the seconds that no timer was counting.                      *)
THEOREM ChangeLatencyTheorem ==
    ASSUME "bind" \notin Environment
    PROVE  Spec => []ChangeLatencyBounded
  <1>1. TypeOK /\ Inv => ChangeLatencyBounded
    <2> SUFFICES ASSUME TypeOK, Inv, NEW e \in Entry, IsActive(e)
                 PROVE  stale[e] <= tab[e].minInterval + lost[e]
      BY DEF ChangeLatencyBounded
    <2>1. EntryInv(e) /\ tab[e] \in EntryRec /\ stale[e] \in 0..Cap /\ lost[e] \in 0..Cap
          /\ Elapsed \in 0..seconds /\ seconds \in Nat /\ Cap \in Nat
      BY EntryTimes DEF Inv
    <2>2. tab[e].minInterval \in Nat /\ tab[e].minIntCnt \in Nat /\ tab[e].maxInterval \in Nat
      BY <2>1, EntryFields
    <2>3. CASE tab[e].maxInterval = 0 \/ tab[e].minInterval = 0
      BY <2>1, <2>2, <2>3 DEF EntryInv, LatencyBalance
    <2>4. CASE tab[e].maxInterval # 0 /\ tab[e].minInterval # 0
      <3>1. Elapsed <= tab[e].minIntCnt
        BY <2>1, <2>2, <2>4 DEF EntryInv, PendingCovers
      <3> QED
        BY <2>1, <2>2, <2>4, <3>1 DEF EntryInv, LatencyBalance
    <2> QED
      BY <2>3, <2>4
  <1> QED
    BY <1>1, TypeCorrect, Invariance, PTL

(* The shared timer's subtraction never takes more from a running counter  *)
(* than the counter holds.                                                 *)
THEOREM TimerCoversTheorem ==
    ASSUME "bind" \notin Environment
    PROVE  Spec => []TimerCoversCounters
  <1>1. TypeOK /\ Inv => TimerCoversCounters
    <2> SUFFICES ASSUME TypeOK, Inv, seconds # 0, NEW e \in Entry, IsActive(e),
                        tab[e].maxInterval # 0
                 PROVE  /\ tab[e].maxIntCnt # 0 => seconds <= tab[e].maxIntCnt
                        /\ tab[e].minIntCnt # 0 => seconds <= tab[e].minIntCnt
      BY DEF TimerCoversCounters
    <2>1. EntryInv(e) /\ tab[e] \in EntryRec /\ seconds \in Nat
      BY EntryTimes DEF Inv
    <2> QED
      BY <2>1, EntryFields DEF EntryInv, PendingCovers
  <1> QED
    BY <1>1, TypeCorrect, Invariance, PTL
-----------------------------------------------------------------------------
(* The minimum interval, for tables without throttled change-only records: *)
(* no record with maximum interval 0 and a minimum interval.  Of such a    *)
(* one reportAttrs reports every change at once.                           *)
NoThrottledChangeOnly ==
    /\ \A c \in Configs : c.max = 0 => c.min \in {0, NoReport}
    /\ \A e \in Entry : Default[e] # NotUsed /\ Default[e].max = 0 => Default[e].min = 0

NotChangeOnly(r) ==
    (r.maxInterval = 0 => r.minInterval = 0) /\ (r.maxIntDft = 0 => r.minIntDft = 0)

(* What has been waited and what is left on the counters is never less than *)
(* the intervals, once the entry has reported.                              *)
MinBalance(e) ==
    IsActive(e) /\ tab[e].minInterval # 0 /\ ~fresh[e] =>
        /\ tab[e].minInterval <= since[e] + tab[e].minIntCnt - Elapsed
        /\ tab[e].maxInterval <= since[e] + tab[e].maxIntCnt - Elapsed

MinInv ==
    /\ \A e \in Entry : MinBalance(e) /\ NotChangeOnly(tab[e])
    /\ nv # NoTable => \A e \in Entry : NotChangeOnly(nv[e])

LEMMA NotChangeOnlyUpdated ==
    ASSUME NEW r \in EntryRec, NotChangeOnly(r), NEW c \in ConfigRec, c.max = 0 => c.min = 0
    PROVE  NotChangeOnly(Updated(r, c)) /\ NotChangeOnly(ResetToDefault(r))
  <1>1. NotChangeOnly(Updated(r, c))
    BY DEF NotChangeOnly, Updated, EntryRec
  <1>2. NotChangeOnly(ResetToDefault(r))
    BY DEF NotChangeOnly, ResetToDefault, EntryRec
  <1> QED
    BY <1>1, <1>2

LEMMA NotChangeOnlyDefaults ==
    ASSUME NoThrottledChangeOnly
    PROVE  \A e \in Entry : NotChangeOnly(DefaultTable[e])
  <1> TAKE e \in Entry
  <1>1. Free \in EntryRec /\ NotChangeOnly(Free)
    BY DEF Free, EntryRec, NotChangeOnly
  <1>2. CASE Default[e] = NotUsed
    BY <1>1, <1>2 DEF DefaultTable
  <1>3. CASE Default[e] # NotUsed
    <2>1. Default[e] \in ConfigRec /\ (Default[e].max = 0 => Default[e].min = 0)
      BY <1>3, ReportingAssumption DEF NoThrottledChangeOnly
    <2> QED
      BY <1>1, <1>3, <2>1, NotChangeOnlyUpdated DEF DefaultTable
  <1> QED
    BY <1>2, <1>3

LEMMA MinInvInit ==
    ASSUME NoThrottledChangeOnly, Init
    PROVE  MinInv
  BY NotChangeOnlyDefaults DEF Init, MinInv, MinBalance

LEMMA MinSteps ==
    ASSUME NoThrottledChangeOnly, TypeOK, TypeOK', Inv, MinInv, TimerCb \/ Tick
    PROVE  MinInv'
  <1>1. bound' = bound /\ nv' = nv /\ fresh' = fresh
    BY DEF TimerCb, Tick
  <1>2. ASSUME NEW e \in Entry PROVE MinBalance(e)' /\ NotChangeOnly(tab[e])'
    <2>1. EntryInv(e) /\ GoodEntry(tab[e]) /\ tab[e] \in EntryRec
          /\ MinBalance(e) /\ NotChangeOnly(tab[e])
      BY EntryTimes DEF Inv, TableOK, MinInv
    <2>2. /\ tab[e].minInterval \in Nat /\ tab[e].maxInterval \in Nat
          /\ tab[e].minIntCnt \in Nat /\ tab[e].maxIntCnt \in Nat
          /\ since[e] \in 0..Cap /\ Cap \in Nat
          /\ Elapsed \in 0..seconds /\ seconds \in Nat /\ left \in 0..seconds
      BY <2>1, EntryFields, EntryTimes
    <2>3. CASE TimerCb
      <3>1. Elapsed' = 0 /\ Elapsed = seconds /\ seconds # 0 /\ since' = since
        <4>1. left = 0 /\ seconds # 0 /\ left' = 0 /\ seconds' = 0 /\ since' = since
          BY <2>3 DEF TimerCb
        <4> QED
          BY <2>2, <4>1 DEF Elapsed
      <3>2. CASE IsActive(e)
        <4>1. /\ tab'[e].used = tab[e].used
              /\ tab'[e].minInterval = tab[e].minInterval
              /\ tab'[e].maxInterval = tab[e].maxInterval
              /\ tab'[e].minIntDft = tab[e].minIntDft /\ tab'[e].maxIntDft = tab[e].maxIntDft
              /\ tab'[e].minIntCnt = Minus(tab[e].minIntCnt, seconds)
              /\ tab'[e].maxIntCnt = Minus(tab[e].maxIntCnt, seconds)
          BY <2>1, <2>3, <3>2 DEF TimerCb, IsActive, EntryRec
        <4>2. NotChangeOnly(tab[e])'
          BY <2>1, <4>1 DEF NotChangeOnly
        <4>3. tab'[e].minIntCnt >= tab[e].minIntCnt - seconds
              /\ tab'[e].maxIntCnt >= tab[e].maxIntCnt - seconds
              /\ tab'[e].minIntCnt \in Nat /\ tab'[e].maxIntCnt \in Nat
          BY <2>2, <4>1 DEF Minus
        <4>4. MinBalance(e)'
          BY <1>1, <2>1, <2>2, <3>1, <3>2, <4>1, <4>3 DEF MinBalance
        <4> QED
          BY <4>2, <4>4
      <3>3. CASE ~IsActive(e)
        <4>1. tab'[e] = tab[e]
          BY <2>3, <3>3 DEF TimerCb, IsActive
        <4>2. ~IsActive(e)'
          BY <1>1, <3>3, <4>1 DEF IsActive, Active
        <4> QED
          BY <2>1, <4>1, <4>2 DEF MinBalance
      <3> QED
        BY <3>2, <3>3
    <2>4. CASE Tick
      <3>1. tab' = tab /\ (IsActive(e)' <=> IsActive(e))
        BY <2>4 DEF Tick, IsActive
      <3> SUFFICES ASSUME IsActive(e), tab[e].minInterval # 0, ~fresh[e] PROVE MinBalance(e)'
        BY <1>1, <2>1, <3>1 DEF MinBalance
      <3>2. since'[e] = Plus(since[e], 1)
        BY <2>4 DEF Tick, IsActive
      <3>3. \/ seconds = 0 /\ Elapsed = 0 /\ Elapsed' = 0
            \/ seconds # 0 /\ Elapsed' = Elapsed + 1 /\ Elapsed + 1 <= seconds
        <4>1. CASE seconds = 0
          <5>1. left = 0 /\ left' = 0 /\ seconds' = 0
            BY <2>2, <2>4, <4>1 DEF Tick, Minus
          <5> QED
            BY <4>1, <5>1 DEF Elapsed
        <4>2. CASE seconds # 0
          <5>1. left > 0 /\ left' = left - 1 /\ seconds' = seconds
            BY <2>2, <2>4, <4>2 DEF Tick, Minus
          <5> QED
            BY <2>2, <4>2, <5>1 DEF Elapsed
        <4> QED
          BY <4>1, <4>2
      <3>4. tab[e].maxInterval # 0 /\ tab[e].maxInterval # NoReport
        BY <2>1 DEF NotChangeOnly, IsActive, Active
      <3>5. tab[e].minInterval <= tab[e].maxInterval /\ tab[e].maxInterval <= Cap
        BY <2>1, <3>4 DEF GoodEntry, Interval
      <3>6. seconds # 0 => tab[e].minIntCnt >= seconds /\ tab[e].maxIntCnt >= seconds
        BY <2>1, <3>4 DEF EntryInv, PendingCovers
      <3>7. since'[e] = since[e] + 1 \/ since'[e] = Cap
        BY <3>2 DEF Plus
      <3>8. tab[e].minInterval <= since'[e] + tab[e].minIntCnt - Elapsed'
            /\ tab[e].maxInterval <= since'[e] + tab[e].maxIntCnt - Elapsed'
        BY <2>1, <2>2, <3>3, <3>5, <3>6, <3>7 DEF MinBalance
      <3> QED
        BY <3>1, <3>8 DEF MinBalance
    <2> QED
      BY <2>3, <2>4
  <1> QED
    BY <1>1, <1>2 DEF MinInv

LEMMA MinReport ==
    ASSUME TypeOK, TypeOK', Inv, MinInv, ReportHandler
    PROVE  MinInv'
  <1>1. nv' = nv /\ bound' = bound
    BY DEF ReportHandler
  <1>2. tab \in [Entry -> EntryRec] /\ seconds \in Nat /\ seconds' \in Nat
        /\ left \in 0..seconds
    BY DEF TypeOK
  <1>3. /\ seconds # 0 => Elapsed' = Elapsed
        /\ seconds = 0 => Elapsed' = 0
    <2>1. CASE UNCHANGED <<seconds, left>>
      BY <1>2, <2>1 DEF Elapsed
    <2>2. CASE ~UNCHANGED <<seconds, left>>
      <3>1. seconds = 0 /\ left' = seconds'
        BY <2>2 DEF ReportHandler, TimerStart
      <3>2. \A n \in Nat : n - n = 0
        OBVIOUS
      <3> QED
        BY <1>2, <3>1, <3>2 DEF Elapsed
    <2> QED
      BY <2>1, <2>2
  <1>4. ASSUME NEW e \in Entry PROVE MinBalance(e)' /\ NotChangeOnly(tab[e])'
    <2>1. EntryInv(e) /\ GoodEntry(tab[e]) /\ tab[e] \in EntryRec
          /\ MinBalance(e) /\ NotChangeOnly(tab[e])
      BY EntryTimes DEF Inv, TableOK, MinInv
    <2>2. /\ tab[e].minInterval \in Nat /\ tab[e].maxInterval \in Nat
          /\ tab[e].minIntCnt \in Nat /\ tab[e].maxIntCnt \in Nat
          /\ since[e] \in 0..Cap /\ Elapsed \in 0..seconds
      BY <2>1, EntryFields, EntryTimes
    <2> DEFINE due == Due(tab, bound, data, e)
    <2>3. /\ tab'[e].used = tab[e].used
          /\ tab'[e].minInterval = tab[e].minInterval
          /\ tab'[e].maxInterval = tab[e].maxInterval
          /\ tab'[e].minIntDft = tab[e].minIntDft /\ tab'[e].maxIntDft = tab[e].maxIntDft
          /\ due => /\ tab'[e].minIntCnt = tab[e].minInterval
                    /\ tab'[e].maxIntCnt = tab[e].maxInterval
          /\ ~due => /\ tab'[e].maxIntCnt = tab[e].maxIntCnt
                     /\ \/ tab'[e].minIntCnt = tab[e].minIntCnt
                        \/ tab[e].minIntCnt = 0 /\ tab'[e].minIntCnt = tab[e].minInterval
      BY <1>2, ReportedFields DEF ReportHandler
    <2>4. since'[e] = (IF due THEN 0 ELSE since[e]) /\ (fresh'[e] <=> fresh[e] /\ ~due)
      BY DEF ReportHandler
    <2> HIDE DEF due
    <2>5. NotChangeOnly(tab[e])'
      BY <2>1, <2>3 DEF NotChangeOnly
    <2>6. IsActive(e)' <=> IsActive(e)
      BY <1>1, <2>3 DEF IsActive, Active
    <2> SUFFICES ASSUME IsActive(e), tab[e].minInterval # 0 PROVE MinBalance(e)'
      BY <2>3, <2>5, <2>6 DEF MinBalance
    <2>7. CASE due
      <3>1. seconds = 0
        BY <1>2, <2>1, <2>2, <2>7 DEF due, Due, EntryInv, PendingCovers, NotChangeOnly
      <3> QED
        BY <1>3, <2>2, <2>3, <2>4, <2>7, <3>1 DEF MinBalance
    <2>8. CASE ~due
      <3>1. Elapsed' <= Elapsed /\ Elapsed' \in Nat
        BY <1>2, <1>3, <2>2
      <3>2. tab'[e].minIntCnt >= tab[e].minIntCnt /\ tab'[e].minIntCnt \in Nat
        BY <2>2, <2>3, <2>8
      <3>3. ~fresh'[e] => ~fresh[e]
        BY <2>4, <2>8
      <3> QED
        BY <2>1, <2>2, <2>3, <2>4, <2>8, <3>1, <3>2, <3>3 DEF MinBalance
    <2> QED
      BY <2>7, <2>8
  <1> QED
    BY <1>1, <1>4 DEF MinInv

LEMMA MinConfig ==
    ASSUME NoThrottledChangeOnly, TypeOK, TypeOK', Inv, MinInv,
           NEW a \in Entry, NEW c \in Configs, CfgReportCmd(a, c)
    PROVE  MinInv'
  <1>1. bound' = bound /\ fresh' = fresh /\ Elapsed' = 0
    BY DEF CfgReportCmd, Elapsed
  <1>2. tab[a] \in EntryRec /\ GoodEntry(tab[a]) /\ NotChangeOnly(tab[a])
    BY EntryTimes DEF Inv, TableOK, MinInv
  <1>3. tab'[a] = Configured(tab[a], c) /\ \A e \in Entry : e # a => tab'[e] = tab[e]
    BY DEF CfgReportCmd, TypeOK
  <1>4. NotChangeOnly(Configured(tab[a], c))
    <2>1. c \in ConfigRec /\ (c.max = 0 => c.min \in {0, NoReport})
      BY ReportingAssumption DEF NoThrottledChangeOnly
    <2>2. c.max = 0 /\ c.min # NoReport => c.min = 0
      BY <2>1
    <2>3. CASE c.max = 0 /\ c.min = NoReport
      <3>1. NotChangeOnly(ResetToDefault(tab[a]))
        BY <1>2 DEF NotChangeOnly, ResetToDefault, EntryRec
      <3> QED
        BY <1>2, <2>3, <3>1 DEF Configured
    <2>4. CASE ~(c.max = 0 /\ c.min = NoReport)
      BY <1>2, <2>1, <2>2, <2>4, NotChangeOnlyUpdated DEF Configured
    <2> QED
      BY <2>3, <2>4
  <1>5. \A e \in Entry : NotChangeOnly(tab'[e])
    BY <1>3, <1>4 DEF MinInv
  <1>6. nv' # NoTable => \A e \in Entry : NotChangeOnly(nv'[e])
    BY <1>5 DEF CfgReportCmd, MinInv
  <1>7. ASSUME NEW e \in Entry PROVE MinBalance(e)'
    <2>1. tab'[e] \in EntryRec /\ since'[e] \in Nat
      BY DEF TypeOK
    <2>2. /\ tab'[e].minInterval \in Nat /\ tab'[e].maxInterval \in Nat
          /\ tab'[e].minIntCnt \in Nat /\ tab'[e].maxIntCnt \in Nat
      BY <2>1, EntryFields
    <2>3. CASE e = a /\ Accepted(tab[a], c)
      <3>1. tab'[e].minIntCnt = tab'[e].minInterval /\ tab'[e].maxIntCnt = tab'[e].maxInterval
        BY <1>2, <1>3, <2>3, ConfiguredGood
      <3> QED
        BY <1>1, <2>1, <2>2, <3>1 DEF MinBalance
    <2>4. CASE ~(e = a /\ Accepted(tab[a], c))
      <3>1. tab'[e] = tab[e]
        BY <1>2, <1>3, <2>4, ConfiguredGood
      <3>2. since'[e] = since[e]
        BY <2>4 DEF CfgReportCmd, Restarted, TypeOK
      <3>3. MinBalance(e) /\ Elapsed \in 0..seconds /\ seconds \in Nat
        BY EntryTimes DEF MinInv
      <3>4. IsActive(e)' <=> IsActive(e)
        BY <1>1, <3>1 DEF IsActive, Active
      <3> QED
        BY <1>1, <2>1, <2>2, <3>1, <3>2, <3>3, <3>4 DEF MinBalance
    <2> QED
      BY <2>3, <2>4
  <1> QED
    BY <1>5, <1>6, <1>7 DEF MinInv

LEMMA MinRestart ==
    ASSUME NoThrottledChangeOnly, TypeOK, MinInv, Restart
    PROVE  MinInv'
  <1>1. \A e \in Entry : NotChangeOnly(tab'[e])
    <2>1. CASE nv = NoTable
      BY <2>1, NotChangeOnlyDefaults DEF Restart
    <2>2. CASE nv # NoTable
      <3> TAKE e \in Entry
      <3>1. nv[e] \in EntryRec /\ NotChangeOnly(nv[e])
        BY <2>2 DEF TypeOK, MinInv
      <3>2. NotChangeOnly([nv[e] EXCEPT !.prevData = Erased])
        BY <3>1 DEF NotChangeOnly, EntryRec
      <3> QED
        BY <2>2, <3>1, <3>2 DEF Restart
    <2> QED
      BY <2>1, <2>2
  <1>2. nv' = nv /\ \A e \in Entry : fresh'[e]
    BY DEF Restart
  <1> QED
    BY <1>1, <1>2 DEF MinInv, MinBalance

LEMMA MinStep ==
    ASSUME "bind" \notin Environment, NoThrottledChangeOnly,
           TypeOK, TypeOK', Inv, MinInv, [Next]_vars
    PROVE  MinInv'
  <1>1. CASE \E e \in Entry, v \in Values : SetAttr(e, v)
    BY <1>1 DEF SetAttr, MinInv, MinBalance, IsActive, Elapsed
  <1>2. CASE ReportHandler
    BY <1>2, MinReport
  <1>3. CASE TimerCb \/ Tick
    BY <1>3, MinSteps
  <1>4. CASE \E e \in Entry, c \in Configs : CfgReportCmd(e, c)
    BY <1>4, MinConfig
  <1>5. CASE GateChange
    BY <1>5 DEF GateChange, MinInv, MinBalance, IsActive, Elapsed
  <1>6. CASE \E k \in ReportedClusters : BindChange(k)
    BY <1>6 DEF BindChange
  <1>7. CASE Restart
    BY <1>7, MinRestart
  <1>8. CASE UNCHANGED vars
    BY <1>8 DEF vars, MinInv, MinBalance, IsActive, Elapsed
  <1> QED
    BY <1>1, <1>2, <1>3, <1>4, <1>5, <1>6, <1>7, <1>8 DEF Next

(* Two reports of an attribute are never closer than its minimum interval, *)
(* for every table without a throttled change-only record.                 *)
THEOREM MinIntervalTheorem ==
    ASSUME "bind" \notin Environment, NoThrottledChangeOnly
    PROVE  Spec => []MinIntervalKept
  <1>1. Init => MinInv
    BY MinInvInit
  <1>2. TypeOK /\ TypeOK' /\ Inv /\ MinInv /\ [Next]_vars => MinInv'
    BY MinStep
  <1>3. TypeOK /\ Inv /\ MinInv => MinIntervalKept
    <2> SUFFICES ASSUME TypeOK, Inv, MinInv, NEW e \in Entry, Due(tab, bound, data, e), ~fresh[e]
                 PROVE  tab[e].minInterval <= since[e]
      BY DEF MinIntervalKept
    <2>1. EntryInv(e) /\ GoodEntry(tab[e]) /\ tab[e] \in EntryRec
          /\ MinBalance(e) /\ NotChangeOnly(tab[e])
      BY EntryTimes DEF Inv, TableOK, MinInv
    <2>2. /\ tab[e].minInterval \in Nat /\ tab[e].maxInterval \in Nat
          /\ tab[e].minIntCnt \in Nat /\ tab[e].maxIntCnt \in Nat
          /\ since[e] \in 0..Cap /\ Elapsed \in 0..seconds /\ seconds \in Nat /\ Cap \in Nat
      BY <2>1, EntryFields, EntryTimes
    <2>3. IsActive(e)
      BY DEF Due, IsActive
    <2>4. CASE tab[e].minInterval = 0
      BY <2>2, <2>4
    <2>5. CASE tab[e].minInterval # 0
      <3>1. tab[e].maxInterval # 0
        BY <2>1, <2>5 DEF NotChangeOnly
      <3>2. tab[e].minIntCnt = 0 \/ tab[e].maxIntCnt = 0
        BY DEF Due
      <3>3. seconds = 0 /\ Elapsed = 0
        BY <2>1, <2>2, <2>3, <2>5, <3>1, <3>2 DEF EntryInv, PendingCovers
      <3>4. tab[e].minInterval <= tab[e].maxInterval
        BY <2>1, <2>2, <2>3, <3>1 DEF GoodEntry, Interval, IsActive, Active
      <3> QED
        BY <2>1, <2>2, <2>3, <2>5, <3>2, <3>3, <3>4 DEF MinBalance
    <2> QED
      BY <2>4, <2>5
  <1> QED
    BY <1>1, <1>2, <1>3, TypeCorrect, Invariance, PTL DEF Spec
=============================================================================
