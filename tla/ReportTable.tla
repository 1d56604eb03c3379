----------------------------- MODULE ReportTable -----------------------------
(***************************************************************************)
(* The entries of the reporting table (reportCfgInfo_t) and the functions  *)
(* of src/zcl/zcl_reporting.c that look at one entry or at the table       *)
(* without a state of their own.                                           *)
(*                                                                         *)
(* An entry is named by its slot: entries are never freed, so the slot an  *)
(* attribute gets is fixed once it is in the table.  A value is an         *)
(* integer; the byte layout of the data types is abstracted away, and a    *)
(* discrete attribute is one whose reportableChange is 0.                  *)
(***************************************************************************)
EXTENDS Integers

CONSTANTS
    Entry,        \* slots of reportingTab.reportCfgInfo
    Cluster,      \* Cluster[e]: the cluster of the attribute in slot e
    NoReport      \* the maximum interval 0xFFFF: the attribute is not reported

ReportedClusters == {Cluster[e] : e \in Entry}

ConfigRec == [min : Nat, max : Nat, change : Nat]

EntryRec ==
    [used : BOOLEAN, minIntDft : Nat, maxIntDft : Nat,
     minInterval : Nat, maxInterval : Nat, minIntCnt : Nat, maxIntCnt : Nat,
     reportableChange : Nat, prevData : Int]

Free == [used |-> FALSE, minIntDft |-> 0, maxIntDft |-> 0,
         minInterval |-> 0, maxInterval |-> 0, minIntCnt |-> 0, maxIntCnt |-> 0,
         reportableChange |-> 0, prevData |-> 0]

(* Variants named Faulty... are slips the properties are shown to catch; no *)
(* specification uses them.                                                *)

(* zcl_reportCfgInfoEntryUpdate, both branches *)
Updated(r, c) ==
    [r EXCEPT !.used = TRUE,
              !.minIntDft = IF r.used THEN @ ELSE c.min,
              !.maxIntDft = IF r.used THEN @ ELSE c.max,
              !.minInterval = c.min, !.maxInterval = c.max,
              !.minIntCnt = c.min, !.maxIntCnt = c.max,
              !.reportableChange = c.change]

(* zcl_reportCfgInfoEntryRst *)
ResetToDefault(r) ==
    [r EXCEPT !.minInterval = r.minIntDft, !.maxInterval = r.maxIntDft,
              !.minIntCnt = r.minIntDft, !.maxIntCnt = r.maxIntDft,
              !.reportableChange = 0]

(* reportableChangeValueChk, and memcmp for the discrete types *)
Distance(a, b) == IF a > b THEN a - b ELSE b - a

Changed(r, v) == v # r.prevData /\ Distance(v, r.prevData) >= r.reportableChange

(* the entries that reportAttrs, the timer and its callback look at *)
Active(t, b, e) == t[e].used /\ t[e].maxInterval # NoReport /\ Cluster[e] \in b

\* changes are only looked at when the maximum interval has run out
FaultyDue(t, b, d, e) == Active(t, b, e) /\ t[e].maxIntCnt = 0

Due(t, b, d, e) ==
    /\ Active(t, b, e)
    /\ IF t[e].maxIntCnt = 0
       THEN t[e].maxInterval # 0 \/ Changed(t[e], d[e])
       ELSE t[e].minIntCnt = 0 /\ Changed(t[e], d[e])

(* reportAttrs, all the passes of its do-while loop (see ReportFrames) *)
Reported(t, b, d, e) ==
    IF Due(t, b, d, e)
    THEN [t[e] EXCEPT !.prevData = d[e],
                      !.minIntCnt = t[e].minInterval, !.maxIntCnt = t[e].maxInterval]
    ELSE IF Active(t, b, e) /\ t[e].maxIntCnt # 0 /\ t[e].minIntCnt = 0
    THEN [t[e] EXCEPT !.minIntCnt = t[e].minInterval]
    ELSE t[e]

\* the maximum intervals do not count
FaultyDeadlines(t, b) == {t[e].minIntCnt : e \in {a \in Entry : Active(t, b, a)}}

Deadlines(t, b) ==
    {t[e].minIntCnt : e \in {a \in Entry : Active(t, b, a)}}
        \cup {t[e].maxIntCnt : e \in {a \in Entry : Active(t, b, a)}}

\* no clamp: the 16 bit counter would wrap
FaultyMinus(a, b) == a - b

Minus(a, b) == IF a >= b THEN a - b ELSE 0

=============================================================================
