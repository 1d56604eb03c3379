---------------------------- MODULE EvTimerProofs ----------------------------
(***************************************************************************)
(* Proofs about module EvTimer: the pool and the list agree, handles are   *)
(* owned, timers without one are no more than those forgotten, and the     *)
(* module implements TimerService, for any pool, clients and periods.  The *)
(* walk is the hard part: behind the record it is at come all the expired  *)
(* ones, an order that scheduling at the head and deleting anywhere do not *)
(* disturb.                                                                *)
(***************************************************************************)
EXTENDS EvTimer, TLAPS, FiniteSetTheorems

-----------------------------------------------------------------------------
(* Lists *)

NoTwice(l) == \A i, j \in 1..Len(l) : l[i] = l[j] => i = j

\* a comes before b
Precedes(l, a, b) == \E i, j \in 1..Len(l) : i < j /\ l[i] = a /\ l[j] = b

(* A deleted record shifts those behind it.                                *)
LEMMA DeletedShape ==
    ASSUME NEW l \in Seq(Slot), NoTwice(l), NEW q \in 1..Len(l)
    PROVE  /\ Len(Deleted(l, l[q])) = Len(l) - 1
           /\ Deleted(l, l[q]) \in Seq(Slot)
           /\ \A k \in 1..(Len(l) - 1) :
                  Deleted(l, l[q])[k] = IF k < q THEN l[k] ELSE l[k + 1]
<1> DEFINE d == Deleted(l, l[q])
<1>1. d = [k \in 1..(Len(l) - 1) |-> IF k < q THEN l[k] ELSE l[k + 1]]
  <2> SUFFICES ASSUME NEW k \in 1..(Len(l) - 1)
               PROVE  (\E j \in 1..k : l[j] = l[q]) <=> ~(k < q)
    BY DEF Deleted
  <2>1. Len(l) \in Nat
    OBVIOUS
  <2>2. ASSUME NEW j \in 1..k, l[j] = l[q] PROVE j = q
    BY <2>1, <2>2 DEF NoTwice
  <2> QED
    BY <2>1, <2>2
<1>2. Len(l) \in Nat /\ Len(l) - 1 \in Nat
  OBVIOUS
<1>3. \A k \in 1..(Len(l) - 1) : (IF k < q THEN l[k] ELSE l[k + 1]) \in Slot
  BY <1>2
<1>4. d \in [1..(Len(l) - 1) -> Slot]
  BY <1>1, <1>3
<1>5. d \in Seq(Slot) /\ Len(d) = Len(l) - 1
  BY <1>2, <1>4
<1> QED
  BY <1>1, <1>5

LEMMA DeletedList ==
    ASSUME NEW l \in Seq(Slot), NoTwice(l), NEW s \in Listed(l)
    PROVE  /\ Deleted(l, s) \in Seq(Slot)
           /\ NoTwice(Deleted(l, s))
           /\ Listed(Deleted(l, s)) = Listed(l) \ {s}
           /\ \A a, b \in Slot \ {s} : Precedes(l, a, b) => Precedes(Deleted(l, s), a, b)
<1> DEFINE d == Deleted(l, s)
<1>1. PICK q \in 1..Len(l) : l[q] = s
  BY DEF Listed
<1>2. /\ Len(d) = Len(l) - 1 /\ d \in Seq(Slot)
      /\ \A k \in 1..(Len(l) - 1) : d[k] = IF k < q THEN l[k] ELSE l[k + 1]
  BY <1>1, DeletedShape
<1>3. Len(l) \in Nat /\ \A i, j \in 1..Len(l) : l[i] = l[j] => i = j
  BY DEF NoTwice
<1> HIDE DEF d
<1>4. NoTwice(d)
  BY <1>2, <1>3 DEF NoTwice
\* where an element of l other than s is in d
<1> DEFINE at(i) == IF i < q THEN i ELSE i - 1
<1>5. \A i \in 1..Len(l) : i # q => at(i) \in 1..Len(d) /\ d[at(i)] = l[i]
  BY <1>2, <1>3
<1>6. Listed(d) = Listed(l) \ {s}
  <2>1. ASSUME NEW k \in 1..Len(d) PROVE d[k] \in Listed(l) \ {s}
    <3>1. d[k] = IF k < q THEN l[k] ELSE l[k + 1]
      BY <1>2
    <3>2. k \in 1..Len(l) /\ k + 1 \in 1..Len(l)
      BY <1>2, <1>3
    <3>3. (k < q => l[k] # s) /\ (~(k < q) => l[k + 1] # s)
      BY <1>1, <1>3, <3>2
    <3> QED
      BY <3>1, <3>2, <3>3 DEF Listed
  <2>2. ASSUME NEW i \in 1..Len(l), l[i] # s PROVE l[i] \in Listed(d)
    BY <1>1, <1>5, <2>2 DEF Listed
  <2> QED
    BY <2>1, <2>2 DEF Listed
<1>7. ASSUME NEW a \in Slot \ {s}, NEW b \in Slot \ {s}, Precedes(l, a, b)
      PROVE  Precedes(d, a, b)
  <2>1. PICK i \in 1..Len(l), j \in 1..Len(l) : i < j /\ l[i] = a /\ l[j] = b
    BY <1>7 DEF Precedes
  <2>2. i # q /\ j # q /\ at(i) < at(j)
    BY <1>1, <2>1
  <2> QED
    BY <1>5, <2>1, <2>2 DEF Precedes
<1> QED
  BY <1>2, <1>4, <1>6, <1>7 DEF d

LEMMA PutFirst ==
    ASSUME NEW l \in Seq(Slot), NoTwice(l), NEW s \in Slot \ Listed(l)
    PROVE  /\ <<s>> \o l \in Seq(Slot)
           /\ NoTwice(<<s>> \o l)
           /\ Listed(<<s>> \o l) = Listed(l) \cup {s}
           /\ First(<<s>> \o l) = s
           /\ \A a, b \in Slot : Precedes(l, a, b) => Precedes(<<s>> \o l, a, b)
<1> DEFINE m == <<s>> \o l
<1>1. /\ m \in Seq(Slot) /\ Len(m) = Len(l) + 1
      /\ m[1] = s /\ \A k \in 1..Len(l) : m[k + 1] = l[k]
  OBVIOUS
<1>2. Len(l) \in Nat /\ \A i, j \in 1..Len(l) : l[i] = l[j] => i = j
  BY DEF NoTwice
<1> HIDE DEF m
<1>3. \A k \in 1..Len(m) : k # 1 => k - 1 \in 1..Len(l) /\ m[k] = l[k - 1]
  <2> SUFFICES ASSUME NEW k \in 1..Len(m), k # 1
               PROVE  k - 1 \in 1..Len(l) /\ m[k] = l[k - 1]
    OBVIOUS
  <2>1. k - 1 \in 1..Len(l) /\ (k - 1) + 1 = k
    BY <1>1, <1>2
  <2> QED
    BY <1>1, <2>1
<1>4. NoTwice(m)
  <2> SUFFICES ASSUME NEW i \in 1..Len(m), NEW j \in 1..Len(m), m[i] = m[j] PROVE i = j
    BY DEF NoTwice
  <2>1. CASE i = 1 /\ j # 1
    BY <1>1, <1>3, <2>1 DEF Listed
  <2>2. CASE i # 1 /\ j = 1
    BY <1>1, <1>3, <2>2 DEF Listed
  <2>3. CASE i # 1 /\ j # 1
    <3>1. i - 1 = j - 1
      BY <1>2, <1>3, <2>3
    <3> QED
      BY <1>1, <1>2, <3>1
  <2> QED
    BY <2>1, <2>2, <2>3
<1>5. Listed(m) = Listed(l) \cup {s}
  <2>1. ASSUME NEW k \in 1..Len(m) PROVE m[k] \in Listed(l) \cup {s}
    BY <1>1, <1>3 DEF Listed
  <2>2. ASSUME NEW k \in 1..Len(l) PROVE l[k] \in Listed(m)
    BY <1>1, <1>2 DEF Listed
  <2>3. s \in Listed(m)
    BY <1>1, <1>2 DEF Listed
  <2> QED
    BY <2>1, <2>2, <2>3 DEF Listed
<1>6. ASSUME NEW a \in Slot, NEW b \in Slot, Precedes(l, a, b) PROVE Precedes(m, a, b)
  <2>1. PICK i \in 1..Len(l), j \in 1..Len(l) : i < j /\ l[i] = a /\ l[j] = b
    BY <1>6 DEF Precedes
  <2>2. i + 1 \in 1..Len(m) /\ j + 1 \in 1..Len(m) /\ i + 1 < j + 1
    BY <1>1, <1>2, <2>1
  <2> QED
    BY <1>1, <2>1, <2>2 DEF Precedes
<1>7. First(m) = s
  BY <1>1, <1>2 DEF First
<1> QED
  BY <1>1, <1>4, <1>5, <1>6, <1>7 DEF m

-----------------------------------------------------------------------------
(* The pool *)

PoolRec ==
    [evt : [Slot -> EvtRec], list : Seq(Slot), used_num : Nat,
     handle : [Restarted -> Slot \cup {NULL}]]

UsedIn(t) == {s \in Slot : t.evt[s].used}

ListOK(t) ==
    /\ \A s \in Slot : t.evt[s].used <=> s \in Listed(t.list)
    /\ NoTwice(t.list)
    /\ t.used_num = Cardinality(UsedIn(t))

\* an expired timer has been counted by a pass
RecordOK(r) ==
    \/ r = Free
    \/ r.used /\ r.cb \in Client /\ (r.isRunning \/ r.timeout > 0)

RecordsOK(t) == \A s \in Slot : RecordOK(t.evt[s])

\* a client that does not forget has the handle of every timer of its own
HandlesOK(t) ==
    \A c \in Restarted, s \in Slot :
        /\ t.handle[c] = s => t.evt[s].cb = c
        /\ c \notin Forgetful /\ t.evt[s].cb = c => t.handle[c] = s

Good(t) == t \in PoolRec /\ ListOK(t) /\ RecordsOK(t) /\ HandlesOK(t)

ExpiredIn(t, s) == t.evt[s].used /\ t.evt[s].timeout = 0

OrphansIn(t, c) == {s \in Slot : t.evt[s].cb = c /\ t.handle[c] # s}

\* u has no more timers without a handle than t has
Fewer(t, u) ==
    \A c \in Restarted : Cardinality(OrphansIn(u, c)) <= Cardinality(OrphansIn(t, c))

LEMMA OrphansFinite ==
    ASSUME NEW t, NEW c
    PROVE  IsFiniteSet(OrphansIn(t, c)) /\ Cardinality(OrphansIn(t, c)) \in Nat
<1>1. IsFiniteSet(OrphansIn(t, c))
  BY EvTimerAssumption, FS_Subset DEF OrphansIn
<1> QED
  BY <1>1, FS_CardinalityType

LEMMA FewerInside ==
    ASSUME NEW t, NEW u, \A c \in Restarted : OrphansIn(u, c) \subseteq OrphansIn(t, c)
    PROVE  Fewer(t, u)
  BY OrphansFinite, FS_Subset DEF Fewer

LEMMA FewerStill ==
    ASSUME NEW t, NEW u, NEW v, Fewer(t, u), Fewer(u, v) PROVE Fewer(t, v)
<1> SUFFICES ASSUME NEW c \in Restarted
             PROVE  Cardinality(OrphansIn(v, c)) <= Cardinality(OrphansIn(t, c))
  BY DEF Fewer
<1>1. /\ Cardinality(OrphansIn(u, c)) <= Cardinality(OrphansIn(t, c))
      /\ Cardinality(OrphansIn(v, c)) <= Cardinality(OrphansIn(u, c))
  BY DEF Fewer
<1> QED
  BY <1>1, OrphansFinite

LEMMA FreeOK == Free \in EvtRec /\ ~Free.used /\ Free.cb = Nobody /\ Free.timeout = 0
  BY DEF Free, EvtRec

LEMMA NobodyFree ==
    ASSUME NEW t, RecordsOK(t), NEW s \in Slot
    PROVE  /\ t.evt[s].used <=> t.evt[s].cb # Nobody
           /\ ~t.evt[s].used => t.evt[s] = Free
  BY FreeOK, EvTimerAssumption DEF RecordsOK, RecordOK

(* ev_unon_timer takes one record off, whatever the handles are.           *)
LEMMA UnonPool ==
    ASSUME NEW t \in PoolRec, ListOK(t), RecordsOK(t), NEW s \in Slot, t.evt[s].used
    PROVE  LET u == ev_unon_timer(t, s)
           IN  /\ u \in PoolRec /\ ListOK(u) /\ RecordsOK(u)
               /\ u.evt = [t.evt EXCEPT ![s] = Free] /\ u.handle = t.handle
               /\ u.list = Deleted(t.list, s)
               /\ \A a, b \in Slot \ {s} : Precedes(t.list, a, b) => Precedes(u.list, a, b)
<1> DEFINE u == ev_unon_timer(t, s)
<1>1. s \in Listed(t.list)
  BY DEF ListOK
<1>2. /\ u.evt = [t.evt EXCEPT ![s] = Free] /\ u.list = Deleted(t.list, s)
      /\ u.used_num = t.used_num - 1 /\ u.handle = t.handle
  BY <1>1 DEF ev_unon_timer, PoolRec
<1>3. u = [evt |-> u.evt, list |-> u.list, used_num |-> u.used_num, handle |-> u.handle]
  BY <1>1 DEF ev_unon_timer, PoolRec
<1>4. /\ t.evt \in [Slot -> EvtRec] /\ t.list \in Seq(Slot) /\ t.used_num \in Nat
      /\ t.handle \in [Restarted -> Slot \cup {NULL}]
  BY DEF PoolRec
<1> HIDE DEF u
<1>5. /\ u.list \in Seq(Slot) /\ NoTwice(u.list) /\ Listed(u.list) = Listed(t.list) \ {s}
      /\ \A a, b \in Slot \ {s} : Precedes(t.list, a, b) => Precedes(u.list, a, b)
  BY <1>1, <1>2, <1>4, DeletedList DEF ListOK
<1>6. u.evt \in [Slot -> EvtRec] /\ \A r \in Slot : u.evt[r] = IF r = s THEN Free ELSE t.evt[r]
  BY <1>2, <1>4, FreeOK
<1>7. UsedIn(u) = UsedIn(t) \ {s}
  BY <1>6, FreeOK DEF UsedIn
<1>8. u.used_num = Cardinality(UsedIn(u)) /\ u.used_num \in Nat
  <2>1. IsFiniteSet(UsedIn(t)) /\ s \in UsedIn(t)
    BY EvTimerAssumption, FS_Subset DEF UsedIn
  <2>2. Cardinality(UsedIn(t) \ {s}) = Cardinality(UsedIn(t)) - 1
    BY <2>1, FS_RemoveElement
  <2>3. IsFiniteSet(UsedIn(t) \ {s})
    BY <2>1, FS_RemoveElement
  <2> QED
    BY <1>2, <1>7, <2>2, <2>3, FS_CardinalityType DEF ListOK
<1>9. u \in PoolRec
  BY <1>2, <1>3, <1>4, <1>5, <1>6, <1>8 DEF PoolRec
<1>10. ListOK(u)
  BY <1>5, <1>6, <1>8, FreeOK DEF ListOK
<1>11. RecordsOK(u)
  BY <1>6 DEF RecordsOK, RecordOK
<1> QED
  BY <1>2, <1>5, <1>9, <1>10, <1>11 DEF u

(* Cancelling stops the timer the client holds, which is its own, and no   *)
(* other.                                                                  *)
LEMMA CancelledPool ==
    ASSUME NEW t, Good(t), NEW c \in Restarted, NEW busy \in Slot \cup {NULL},
           busy # NULL => t.evt[busy].cb # c
    PROVE  LET u == Cancelled(t, c, busy)
           IN  /\ Good(u) /\ Fewer(t, u) /\ u.handle[c] = NULL
               /\ u.evt = [s \in Slot |-> IF s = t.handle[c] THEN Free ELSE t.evt[s]]
               /\ \A a, b \in Slot :
                     (a # t.handle[c] /\ b # t.handle[c] /\ Precedes(t.list, a, b))
                     => Precedes(u.list, a, b)
<1> DEFINE s == t.handle[c]
           u == Cancelled(t, c, busy)
<1>1. t \in PoolRec /\ t.evt \in [Slot -> EvtRec] /\ t.handle \in [Restarted -> Slot \cup {NULL}]
  BY DEF Good, PoolRec
<1>2. \A r \in Slot : s = r => t.evt[r].cb = c
  BY DEF Good, HandlesOK
<1>3. s \in Slot \cup {NULL}
  BY <1>1
<1>4. CASE s = NULL
  <2>1. u = t
    BY <1>4 DEF Cancelled
  <2>2. u.evt = [r \in Slot |-> IF r = s THEN Free ELSE t.evt[r]]
    BY <1>1, <1>4, <2>1, EvTimerAssumption
  <2>3. Fewer(t, u)
    BY <2>1, FewerInside
  <2> QED
    BY <1>4, <2>1, <2>2, <2>3
<1>5. CASE s # NULL
  <2>1. s \in Slot /\ t.evt[s].cb = c /\ s # busy
    BY <1>2, <1>3, <1>5
  <2>2. t.evt[s].used
    BY <2>1, NobodyFree, EvTimerAssumption DEF Good, Client
  <2> DEFINE v == ev_unon_timer(t, s)
  <2>3. /\ v \in PoolRec /\ ListOK(v) /\ RecordsOK(v)
        /\ v.evt = [t.evt EXCEPT ![s] = Free] /\ v.handle = t.handle
        /\ \A a, b \in Slot \ {s} : Precedes(t.list, a, b) => Precedes(v.list, a, b)
    BY <2>1, <2>2, UnonPool DEF Good
  <2>4. u = [v EXCEPT !.handle[c] = NULL]
    BY <2>1, <2>2, <1>5 DEF Cancelled
  <2> HIDE DEF v
  <2>5. /\ u.evt = v.evt /\ u.list = v.list /\ u.used_num = v.used_num
        /\ u.handle = [v.handle EXCEPT ![c] = NULL]
        /\ u = [evt |-> u.evt, list |-> u.list, used_num |-> u.used_num, handle |-> u.handle]
    BY <2>3, <2>4 DEF PoolRec
  <2> HIDE DEF u
  <2>6. u.evt = [r \in Slot |-> IF r = s THEN Free ELSE t.evt[r]]
    BY <1>1, <2>1, <2>3, <2>5
  <2>7. u.handle \in [Restarted -> Slot \cup {NULL}] /\ u.handle[c] = NULL
    BY <1>1, <2>3, <2>5
  <2>8. u \in PoolRec
    BY <2>3, <2>5, <2>7 DEF PoolRec
  <2>9. ListOK(u) /\ RecordsOK(u)
    BY <2>3, <2>5 DEF ListOK, RecordsOK, UsedIn
  <2>10. ASSUME NEW d \in Restarted, NEW r \in Slot
         PROVE  /\ u.handle[d] = IF d = c THEN NULL ELSE t.handle[d]
                /\ u.evt[r].cb = d <=> r # s /\ t.evt[r].cb = d
                /\ d # c => t.handle[d] # s
    <3>1. u.handle[d] = IF d = c THEN NULL ELSE t.handle[d]
      BY <1>1, <2>3, <2>5
    <3>2. u.evt[r].cb = d <=> r # s /\ t.evt[r].cb = d
      BY <2>6, FreeOK, EvTimerAssumption DEF Client
    <3>3. d # c => t.handle[d] # s
      BY <2>1 DEF Good, HandlesOK
    <3> QED
      BY <3>1, <3>2, <3>3
  <2>11. HandlesOK(u)
    <3> SUFFICES ASSUME NEW d \in Restarted, NEW r \in Slot
                 PROVE  /\ u.handle[d] = r => u.evt[r].cb = d
                        /\ d \notin Forgetful /\ u.evt[r].cb = d => u.handle[d] = r
      BY DEF HandlesOK
    <3>1. /\ t.handle[d] = r => t.evt[r].cb = d
          /\ d \notin Forgetful /\ t.evt[r].cb = d => t.handle[d] = r
      BY DEF Good, HandlesOK
    <3> QED
      BY <2>10, <3>1, EvTimerAssumption
  <2>12. Fewer(t, u)
    <3>1. ASSUME NEW d \in Restarted, NEW r \in OrphansIn(u, d) PROVE r \in OrphansIn(t, d)
      BY <2>10 DEF OrphansIn
    <3> QED
      BY <3>1, FewerInside
  <2>13. \A a, b \in Slot : (a # s /\ b # s /\ Precedes(t.list, a, b)) => Precedes(u.list, a, b)
    BY <2>3, <2>5
  <2> QED
    BY <2>6, <2>7, <2>8, <2>9, <2>11, <2>12, <2>13 DEF Good, u
<1> QED
  BY <1>4, <1>5

(* Scheduling puts a free record at the head, for a client whose handle,   *)
(* if it has one, is NULL.                                                 *)
LEMMA ScheduledPool ==
    ASSUME NEW t, Good(t), NEW c \in Client, NEW s \in Slot, ~t.evt[s].used,
           NEW p \in Nat \ {0},
           c \in Restarted => t.handle[c] = NULL
    PROVE  LET u == Scheduled(t, c, s, p)
               new == [used |-> TRUE, cb |-> c, timeout |-> p, isRunning |-> FALSE, age |-> 0]
           IN  /\ Good(u) /\ Fewer(t, u)
               /\ u.evt = [t.evt EXCEPT ![s] = new]
               /\ First(u.list) = s
               /\ \A a, b \in Slot : Precedes(t.list, a, b) => Precedes(u.list, a, b)
<1> DEFINE u == Scheduled(t, c, s, p)
           new == [used |-> TRUE, cb |-> c, timeout |-> p, isRunning |-> FALSE, age |-> 0]
<1>1. /\ t \in PoolRec /\ ListOK(t) /\ RecordsOK(t) /\ HandlesOK(t)
      /\ t.evt \in [Slot -> EvtRec] /\ t.list \in Seq(Slot) /\ t.used_num \in Nat
      /\ t.handle \in [Restarted -> Slot \cup {NULL}]
  BY DEF Good, PoolRec
<1>2. /\ u.evt = [t.evt EXCEPT ![s] = new] /\ u.list = <<s>> \o t.list
      /\ u.used_num = t.used_num + 1
      /\ u.handle = IF c \in Restarted THEN [t.handle EXCEPT ![c] = s] ELSE t.handle
      /\ u = [evt |-> u.evt, list |-> u.list, used_num |-> u.used_num, handle |-> u.handle]
  BY DEF Scheduled
<1>3. new \in EvtRec /\ new.used /\ new.cb = c /\ RecordOK(new)
  BY DEF EvtRec, RecordOK
<1> HIDE DEF new
<1>4. s \notin Listed(t.list)
  BY <1>1 DEF ListOK
<1> HIDE DEF u
<1>5. /\ u.list \in Seq(Slot) /\ NoTwice(u.list) /\ Listed(u.list) = Listed(t.list) \cup {s}
      /\ First(u.list) = s
      /\ \A a, b \in Slot : Precedes(t.list, a, b) => Precedes(u.list, a, b)
  <2>1. NoTwice(t.list)
    BY <1>1 DEF ListOK
  <2> QED
    BY <1>1, <1>2, <1>4, <2>1, PutFirst
<1>6. u.evt \in [Slot -> EvtRec] /\ \A r \in Slot : u.evt[r] = IF r = s THEN new ELSE t.evt[r]
  BY <1>1, <1>2, <1>3
<1>7. u.used_num = Cardinality(UsedIn(u)) /\ u.used_num \in Nat
  <2>1. UsedIn(u) = UsedIn(t) \cup {s} /\ s \notin UsedIn(t)
    BY <1>3, <1>6 DEF UsedIn
  <2>2. IsFiniteSet(UsedIn(t))
    BY EvTimerAssumption, FS_Subset DEF UsedIn
  <2>3. Cardinality(UsedIn(t) \cup {s}) = Cardinality(UsedIn(t)) + 1
    BY <2>1, <2>2, FS_AddElement
  <2> QED
    BY <1>1, <1>2, <2>1, <2>3 DEF ListOK
<1>8. u.handle \in [Restarted -> Slot \cup {NULL}]
  BY <1>1, <1>2
<1>9. u \in PoolRec
  BY <1>2, <1>5, <1>6, <1>7, <1>8 DEF PoolRec
<1>10. ListOK(u)
  <2>1. \A r \in Slot : u.evt[r].used <=> r \in Listed(u.list)
    BY <1>1, <1>3, <1>5, <1>6 DEF ListOK
  <2> QED
    BY <1>5, <1>7, <2>1 DEF ListOK
<1>11. RecordsOK(u)
  BY <1>1, <1>3, <1>6 DEF RecordsOK
<1>12. ASSUME NEW d \in Restarted, NEW r \in Slot
       PROVE  /\ u.handle[d] = IF d = c THEN s ELSE t.handle[d]
              /\ u.evt[r].cb = IF r = s THEN c ELSE t.evt[r].cb
              /\ t.evt[s].cb = Nobody /\ d # Nobody /\ (d = c => t.handle[d] = NULL)
              /\ t.handle[d] = r => t.evt[r].cb = d
              /\ d \notin Forgetful /\ t.evt[r].cb = d => t.handle[d] = r
  <2>1. u.handle[d] = IF d = c THEN s ELSE t.handle[d]
    BY <1>1, <1>2
  <2>2. u.evt[r].cb = IF r = s THEN c ELSE t.evt[r].cb
    BY <1>3, <1>6
  <2>3. t.evt[s].cb = Nobody /\ d # Nobody
    BY <1>1, NobodyFree, EvTimerAssumption DEF Client
  <2>4. /\ t.handle[d] = r => t.evt[r].cb = d
        /\ d \notin Forgetful /\ t.evt[r].cb = d => t.handle[d] = r
    BY <1>1 DEF HandlesOK
  <2> QED
    BY <2>1, <2>2, <2>3, <2>4
<1>13. HandlesOK(u)
  <2> SUFFICES ASSUME NEW d \in Restarted, NEW r \in Slot
               PROVE  /\ u.handle[d] = r => u.evt[r].cb = d
                      /\ d \notin Forgetful /\ u.evt[r].cb = d => u.handle[d] = r
    BY DEF HandlesOK
  <2> QED
    BY <1>12, EvTimerAssumption
<1>14. Fewer(t, u)
  <2>1. ASSUME NEW d \in Restarted, NEW r \in OrphansIn(u, d) PROVE r \in OrphansIn(t, d)
    <3>1. r \in Slot /\ u.evt[r].cb = d /\ u.handle[d] # r
      BY DEF OrphansIn
    <3>2. t.evt[r].cb = d /\ t.handle[d] # r
      BY <1>12, <3>1, EvTimerAssumption
    <3> QED
      BY <3>1, <3>2 DEF OrphansIn
  <2> QED
    BY <2>1, FewerInside
<1> QED
  BY <1>2, <1>5, <1>9, <1>10, <1>11, <1>13, <1>14 DEF Good, u, new

(* A timer that ends takes the handle of its client with it: it had it, or *)
(* another one loses it now and takes its place among those without.       *)
LEMMA EndedPool ==
    ASSUME NEW t, Good(t), NEW s \in Slot, t.evt[s].used
    PROVE  LET u == Ended(t, s, t.evt[s].cb)
           IN  /\ Good(u) /\ Fewer(t, u)
               /\ u.evt = [t.evt EXCEPT ![s] = Free]
               /\ u.list = Deleted(t.list, s)
               /\ \A a, b \in Slot \ {s} : Precedes(t.list, a, b) => Precedes(u.list, a, b)
<1> DEFINE c == t.evt[s].cb
           v == ev_unon_timer(t, s)
           u == Ended(t, s, c)
<1>1. /\ t \in PoolRec /\ t.evt \in [Slot -> EvtRec] /\ HandlesOK(t)
      /\ t.handle \in [Restarted -> Slot \cup {NULL}]
  BY DEF Good, PoolRec
<1>2. /\ v \in PoolRec /\ ListOK(v) /\ RecordsOK(v)
      /\ v.evt = [t.evt EXCEPT ![s] = Free] /\ v.handle = t.handle
      /\ v.list = Deleted(t.list, s)
      /\ \A a, b \in Slot \ {s} : Precedes(t.list, a, b) => Precedes(v.list, a, b)
  BY UnonPool DEF Good
<1>3. u = [v EXCEPT !.handle = IF c \in Restarted THEN [@ EXCEPT ![c] = NULL] ELSE @]
  BY DEF Ended
<1> HIDE DEF v
<1>4. /\ u.evt = v.evt /\ u.list = v.list /\ u.used_num = v.used_num
      /\ u.handle = IF c \in Restarted THEN [v.handle EXCEPT ![c] = NULL] ELSE v.handle
      /\ u = [evt |-> u.evt, list |-> u.list, used_num |-> u.used_num, handle |-> u.handle]
  BY <1>2, <1>3 DEF PoolRec
<1> HIDE DEF u
<1>5. u.handle \in [Restarted -> Slot \cup {NULL}]
  BY <1>1, <1>2, <1>4
<1>6. u \in PoolRec
  BY <1>2, <1>4, <1>5 DEF PoolRec
<1>7. ListOK(u) /\ RecordsOK(u)
  BY <1>2, <1>4 DEF ListOK, RecordsOK, UsedIn
<1>8. ASSUME NEW d \in Restarted, NEW r \in Slot
      PROVE  /\ u.handle[d] = IF d = c THEN NULL ELSE t.handle[d]
             /\ u.evt[r].cb = d <=> r # s /\ t.evt[r].cb = d
             /\ t.handle[d] = r => t.evt[r].cb = d
             /\ d \notin Forgetful /\ t.evt[r].cb = d => t.handle[d] = r
  <2>1. u.handle[d] = IF d = c THEN NULL ELSE t.handle[d]
    BY <1>1, <1>2, <1>4
  <2>2. u.evt[r].cb = d <=> r # s /\ t.evt[r].cb = d
    BY <1>1, <1>2, <1>4, FreeOK, EvTimerAssumption DEF Client
  <2> QED
    BY <1>1, <2>1, <2>2 DEF HandlesOK
<1>9. HandlesOK(u)
  <2> SUFFICES ASSUME NEW d \in Restarted, NEW r \in Slot
               PROVE  /\ u.handle[d] = r => u.evt[r].cb = d
                      /\ d \notin Forgetful /\ u.evt[r].cb = d => u.handle[d] = r
    BY DEF HandlesOK
  <2>1. \A q \in Slot : /\ t.handle[d] = q => t.evt[q].cb = d
                        /\ d \notin Forgetful /\ t.evt[q].cb = d => t.handle[d] = q
    BY <1>1 DEF HandlesOK
  <2> QED
    BY <1>8, <2>1, EvTimerAssumption
<1>10. Fewer(t, u)
  <2> SUFFICES ASSUME NEW d \in Restarted
               PROVE  Cardinality(OrphansIn(u, d)) <= Cardinality(OrphansIn(t, d))
    BY DEF Fewer
  <2> DEFINE A == OrphansIn(t, d)
             B == OrphansIn(u, d)
             h == t.handle[d]
  <2>1. /\ IsFiniteSet(A) /\ Cardinality(A) \in Nat
        /\ IsFiniteSet(B) /\ Cardinality(B) \in Nat
    BY OrphansFinite
  <2>2. CASE d # c \/ s = h
    <3>1. ASSUME NEW r \in B PROVE r \in A
      <4>1. r \in Slot /\ u.evt[r].cb = d /\ u.handle[d] # r
        BY DEF OrphansIn
      <4>2. t.evt[r].cb = d /\ t.handle[d] # r
        BY <1>8, <2>2, <4>1
      <4> QED
        BY <4>1, <4>2 DEF OrphansIn
    <3> QED
      BY <2>1, <3>1, FS_Subset
  <2>3. CASE d = c /\ s # h
    <3>1. s \in A
      BY <2>3 DEF OrphansIn
    <3>2. ASSUME NEW r \in B PROVE r \in (A \ {s}) \cup {h}
      <4>1. r \in Slot /\ u.evt[r].cb = d
        BY DEF OrphansIn
      <4> QED
        BY <1>8, <4>1 DEF OrphansIn
    <3> HIDE DEF A, B
    <3>3. IsFiniteSet(A \ {s}) /\ Cardinality(A \ {s}) = Cardinality(A) - 1
      BY <2>1, <3>1, FS_RemoveElement
    <3>4. /\ IsFiniteSet((A \ {s}) \cup {h})
          /\ Cardinality((A \ {s}) \cup {h}) <= Cardinality(A)
      <4>1. /\ IsFiniteSet((A \ {s}) \cup {h})
            /\ \/ Cardinality((A \ {s}) \cup {h}) = Cardinality(A \ {s})
               \/ Cardinality((A \ {s}) \cup {h}) = Cardinality(A \ {s}) + 1
        BY <3>3, FS_AddElement
      <4> QED
        BY <2>1, <3>3, <4>1
    <3>5. Cardinality(B) <= Cardinality((A \ {s}) \cup {h})
      BY <3>2, <3>4, FS_Subset
    <3>6. Cardinality((A \ {s}) \cup {h}) \in Nat
      BY <3>4, FS_CardinalityType
    <3> QED
      BY <2>1, <3>4, <3>5, <3>6 DEF A, B
  <2> QED
    BY <2>2, <2>3
<1> QED
  BY <1>2, <1>4, <1>6, <1>7, <1>9, <1>10 DEF Good, u

(* A timer that goes on.                                                   *)
LEMMA GoesOnPool ==
    ASSUME NEW t, Good(t), NEW s \in Slot, t.evt[s].used, t.evt[s].isRunning,
           NEW p \in Nat
    PROVE  LET u == [t EXCEPT !.evt = [t.evt EXCEPT ![s].timeout = p]]
           IN  /\ Good(u) /\ Fewer(t, u) /\ u.list = t.list
               /\ u.evt = [t.evt EXCEPT ![s].timeout = p]
<1> DEFINE e == [t.evt EXCEPT ![s].timeout = p]
           u == [t EXCEPT !.evt = e]
<1>1. /\ t \in PoolRec /\ t.evt \in [Slot -> EvtRec] /\ ListOK(t) /\ RecordsOK(t) /\ HandlesOK(t)
  BY DEF Good, PoolRec
<1>0. e = [t.evt EXCEPT ![s].timeout = p]
  OBVIOUS
<1> HIDE DEF e
<1>2. /\ u.evt = e /\ u.list = t.list
      /\ u.used_num = t.used_num /\ u.handle = t.handle
      /\ u = [evt |-> u.evt, list |-> u.list, used_num |-> u.used_num, handle |-> u.handle]
  BY <1>1 DEF PoolRec
<1> HIDE DEF u
<1>3. u.evt \in [Slot -> EvtRec]
  BY <1>0, <1>1, <1>2 DEF EvtRec
<1>4. \A r \in Slot : u.evt[r].used = t.evt[r].used /\ u.evt[r].cb = t.evt[r].cb
  BY <1>0, <1>1, <1>2 DEF EvtRec
<1>5. u \in PoolRec
  BY <1>1, <1>2, <1>3 DEF PoolRec
<1>6. ListOK(u) /\ HandlesOK(u)
  <2>1. UsedIn(u) = UsedIn(t)
    BY <1>4 DEF UsedIn
  <2> QED
    BY <1>1, <1>2, <1>4, <2>1 DEF ListOK, HandlesOK
<1>7. RecordsOK(u)
  <2> SUFFICES ASSUME NEW r \in Slot PROVE RecordOK(u.evt[r])
    BY DEF RecordsOK
  <2>1. CASE r # s
    BY <1>0, <1>1, <1>2, <2>1 DEF RecordsOK
  <2>2. CASE r = s
    <3>1. RecordOK(t.evt[s]) /\ t.evt[s] # Free
      BY <1>1, FreeOK DEF RecordsOK
    <3>2. t.evt[s].cb \in Client
      BY <3>1 DEF RecordOK
    <3>3. u.evt[s].isRunning = t.evt[s].isRunning
      BY <1>0, <1>1, <1>2 DEF EvtRec
    <3> QED
      BY <1>4, <2>2, <3>2, <3>3 DEF RecordOK
  <2> QED
    BY <2>1, <2>2
<1>8. Fewer(t, u)
  <2>1. \A c \in Restarted : OrphansIn(u, c) \subseteq OrphansIn(t, c)
    BY <1>2, <1>4 DEF OrphansIn
  <2> QED
    BY <2>1, FewerInside
<1> QED
  BY <1>0, <1>2, <1>5, <1>6, <1>7, <1>8 DEF Good, u, e

-----------------------------------------------------------------------------
(* The walk *)

LEMMA NextBehind ==
    ASSUME NEW l \in Seq(Slot), NoTwice(l), NEW i \in 1..Len(l), NEW x \in Slot,
           Precedes(l, l[i], x)
    PROVE  /\ i # Len(l) /\ i + 1 \in 1..Len(l)
           /\ x # l[i + 1] => Precedes(l, l[i + 1], x)
<1>1. PICK a \in 1..Len(l), b \in 1..Len(l) : a < b /\ l[a] = l[i] /\ l[b] = x
  BY DEF Precedes
<1>2. a = i
  BY <1>1 DEF NoTwice
<1>3. i # Len(l) /\ i + 1 \in 1..Len(l)
  BY <1>1, <1>2
<1>4. ASSUME x # l[i + 1] PROVE i + 1 < b
  BY <1>1, <1>2, <1>3, <1>4
<1> QED
  BY <1>1, <1>3, <1>4 DEF Precedes

LEMMA AllBehindFirst ==
    ASSUME NEW l \in Seq(Slot), NEW x \in Listed(l)
    PROVE  /\ First(l) \in Listed(l)
           /\ x # First(l) => Precedes(l, First(l), x)
<1>1. PICK b \in 1..Len(l) : l[b] = x
  BY DEF Listed
<1>2. l # << >> /\ 1 \in 1..Len(l)
  BY <1>1
<1>3. First(l) = l[1]
  BY <1>2 DEF First
<1>4. First(l) \in Listed(l)
  BY <1>2, <1>3 DEF Listed
<1>5. ASSUME x # First(l) PROVE Precedes(l, First(l), x)
  <2>1. 1 < b
    BY <1>1, <1>3, <1>5
  <2> QED
    BY <1>1, <1>2, <1>3, <2>1 DEF Precedes
<1> QED
  BY <1>4, <1>5

(* The pass has still to call the expired timers behind the record it is   *)
(* at, and only those.                                                     *)
WalkOK ==
    /\ timerEvt \in Slot \cup {NULL}
    /\ timerEvt = NULL => \A s \in Slot : ~Expired(s)
    /\ timerEvt # NULL =>
          /\ evt[timerEvt].used /\ prev_head = First(list)
          /\ \A s \in Slot : Expired(s) /\ s # timerEvt => Precedes(list, timerEvt, s)

(* What runs without a handle has been forgotten.                          *)
LostOK ==
    /\ lost \in [Restarted -> Nat]
    /\ \A c \in Restarted : Cardinality(OrphansIn(Pool, c)) <= lost[c]

IInv == Good(Pool) /\ since \in Nat /\ WalkOK /\ LostOK

(* What a request leaves as it was.                                        *)
Kept(t) ==
    /\ Good(t) /\ Fewer(Pool, t)
    /\ \A s \in Slot : ExpiredIn(t, s) => Expired(s) /\ t.evt[s] = evt[s]
    /\ timerEvt # NULL => t.evt[timerEvt] = evt[timerEvt]
    /\ timerEvt # NULL => \A s \in Slot :
          ExpiredIn(t, s) /\ Precedes(list, timerEvt, s) => Precedes(t.list, timerEvt, s)

LEMMA PoolFields ==
    Pool.evt = evt /\ Pool.list = list /\ Pool.used_num = used_num /\ Pool.handle = handle
  BY DEF Pool

LEMMA PoolKept == ASSUME IInv PROVE Kept(Pool)
<1>1. Fewer(Pool, Pool)
  BY FewerInside
<1> QED
  BY <1>1, PoolFields DEF IInv, Kept, ExpiredIn, Expired

LEMMA StillLost ==
    ASSUME IInv, NEW u, Fewer(Pool, u), Pool' = u, UNCHANGED lost PROVE LostOK'
<1>1. lost \in [Restarted -> Nat] /\ lost' = lost
  BY DEF IInv, LostOK
<1>2. ASSUME NEW c \in Restarted PROVE Cardinality(OrphansIn(u, c)) <= lost[c]
  <2>1. Cardinality(OrphansIn(u, c)) <= Cardinality(OrphansIn(Pool, c))
    BY DEF Fewer
  <2>2. Cardinality(OrphansIn(Pool, c)) <= lost[c]
    BY DEF IInv, LostOK
  <2>3. Cardinality(OrphansIn(u, c)) \in Nat /\ Cardinality(OrphansIn(Pool, c)) \in Nat
    BY OrphansFinite
  <2> QED
    BY <1>1, <2>1, <2>2, <2>3
<1> QED
  BY <1>1, <1>2 DEF LostOK

(* The record the pass is at, whose client asks.                           *)
Other(c) == timerEvt # NULL => evt[timerEvt].cb # c

LEMMA CancelledKept ==
    ASSUME IInv, NEW c \in Restarted, Other(c) PROVE Kept(Cancelled(Pool, c, timerEvt))
<1> DEFINE u == Cancelled(Pool, c, timerEvt)
           h == handle[c]
<1>1. timerEvt \in Slot \cup {NULL} /\ Good(Pool)
  BY DEF IInv, WalkOK
<1>2. /\ Good(u) /\ Fewer(Pool, u)
      /\ u.evt = [s \in Slot |-> IF s = h THEN Free ELSE evt[s]]
      /\ \A a, b \in Slot : (a # h /\ b # h /\ Precedes(list, a, b)) => Precedes(u.list, a, b)
  <2>1. timerEvt # NULL => Pool.evt[timerEvt].cb # c
    BY PoolFields DEF Other
  <2>2. /\ Good(u) /\ Fewer(Pool, u)
        /\ u.evt = [s \in Slot |-> IF s = Pool.handle[c] THEN Free ELSE Pool.evt[s]]
        /\ \A a, b \in Slot :
              (a # Pool.handle[c] /\ b # Pool.handle[c] /\ Precedes(Pool.list, a, b))
              => Precedes(u.list, a, b)
    BY <1>1, <2>1, CancelledPool
  <2> HIDE DEF u
  <2> QED
    BY <2>2, PoolFields
<1> HIDE DEF u
<1>3. ASSUME NEW s \in Slot, ExpiredIn(u, s)
      PROVE  s # h /\ Expired(s) /\ u.evt[s] = evt[s]
  BY <1>2, <1>3, FreeOK DEF ExpiredIn, Expired
<1>4. timerEvt # NULL => timerEvt \in Slot /\ timerEvt # h
  BY <1>1, PoolFields DEF Other, Good, HandlesOK
<1>5. timerEvt # NULL => u.evt[timerEvt] = evt[timerEvt]
  BY <1>2, <1>4
<1> QED
  BY <1>2, <1>3, <1>4, <1>5 DEF Kept, u

LEMMA ScheduledKept ==
    ASSUME IInv, NEW c \in Client, Other(c), MayStart(c),
           NEW s \in FreeGet(Before(c, timerEvt)), NEW p \in Periods[c]
    PROVE  Kept(Started(c, timerEvt, s, p))
<1> DEFINE t == Before(c, timerEvt)
           u == Started(c, timerEvt, s, p)
           new == [used |-> TRUE, cb |-> c, timeout |-> p, isRunning |-> FALSE, age |-> 0]
<1>1. Kept(t)
  BY CancelledKept, PoolKept DEF Before
<1>2. s \in Slot /\ ~t.evt[s].used
  BY DEF FreeGet
<1>3. p \in Nat \ {0}
  BY EvTimerAssumption
<1>4. c \in Restarted => t.handle[c] = NULL
  <2>1. timerEvt \in Slot \cup {NULL} /\ Good(Pool)
    BY DEF IInv, WalkOK
  <2> QED
    BY <2>1, CancelledPool, PoolFields DEF Other, Before
<1>5. /\ Good(u) /\ Fewer(t, u) /\ u.evt = [t.evt EXCEPT ![s] = new]
      /\ \A a, b \in Slot : Precedes(t.list, a, b) => Precedes(u.list, a, b)
  BY <1>1, <1>2, <1>3, <1>4, ScheduledPool DEF Kept, Started
<1>6. t.evt \in [Slot -> EvtRec]
  BY <1>1 DEF Kept, Good, PoolRec
<1> HIDE DEF t, u
<1>7. ASSUME NEW r \in Slot, ExpiredIn(u, r) PROVE r # s /\ u.evt[r] = t.evt[r] /\ ExpiredIn(t, r)
  BY <1>3, <1>5, <1>6, <1>7 DEF ExpiredIn
<1>8. timerEvt # NULL => timerEvt \in Slot /\ evt[timerEvt].used
  BY DEF IInv, WalkOK
<1>9. timerEvt # NULL => timerEvt # s
  BY <1>1, <1>2, <1>8 DEF Kept
<1>10. Fewer(Pool, u)
  BY <1>1, <1>5, FewerStill DEF Kept
<1> QED
  BY <1>1, <1>5, <1>6, <1>7, <1>8, <1>9, <1>10 DEF Kept, u

(* What is due stays due while it waits behind the record the pass is at.  *)
LEMMA WalkGoesOn ==
    ASSUME IInv, timerEvt # NULL, NEW t, Kept(t), GoOn(t.list)
    PROVE  /\ timerEvt' \in Slot \cup {NULL} /\ timerEvt' # timerEvt
           /\ timerEvt' = NULL => \A s \in Slot : ~(s # timerEvt /\ ExpiredIn(t, s))
           /\ timerEvt' # NULL =>
                 /\ t.evt[timerEvt'].used /\ prev_head' = prev_head
                 /\ \A s \in Slot : ExpiredIn(t, s) /\ s # timerEvt /\ s # timerEvt'
                        => Precedes(t.list, timerEvt', s)
<1> DEFINE l == t.list
<1>1. l \in Seq(Slot) /\ NoTwice(l) /\ \A s \in Slot : t.evt[s].used <=> s \in Listed(l)
  BY DEF Kept, Good, PoolRec, ListOK
<1>2. PICK i \in 1..Len(l) : l[i] = timerEvt /\ timerEvt' = IF i = Len(l) THEN NULL ELSE l[i + 1]
  BY DEF GoOn
<1>3. prev_head' = IF timerEvt' = NULL THEN NULL ELSE prev_head
  BY DEF GoOn
<1>4. ASSUME NEW s \in Slot, ExpiredIn(t, s), s # timerEvt PROVE Precedes(l, timerEvt, s)
  BY <1>4 DEF Kept, IInv, WalkOK
<1> HIDE DEF l
<1>5. Len(l) \in Nat /\ (i # Len(l) => i + 1 \in 1..Len(l))
  BY <1>1
<1>6. timerEvt \in Slot /\ NULL \notin Slot
  BY EvTimerAssumption DEF IInv, WalkOK
<1>7. timerEvt' \in Slot \cup {NULL} /\ timerEvt' # timerEvt
  <2>1. i # Len(l) => l[i + 1] \in Slot
    BY <1>1, <1>5
  <2>2. i # Len(l) => l[i + 1] # l[i]
    BY <1>1, <1>5 DEF NoTwice
  <2> QED
    BY <1>2, <1>6, <2>1, <2>2
<1>8. ASSUME timerEvt' = NULL, NEW s \in Slot, s # timerEvt, ExpiredIn(t, s) PROVE FALSE
  <2>1. i # Len(l)
    BY <1>1, <1>2, <1>4, <1>8, NextBehind
  <2>2. l[i + 1] \in Slot
    BY <1>1, <1>5, <2>1
  <2> QED
    BY <1>2, <1>6, <1>8, <2>1, <2>2
<1>9. ASSUME timerEvt' # NULL PROVE i # Len(l) /\ timerEvt' = l[i + 1] /\ t.evt[timerEvt'].used
  <2>1. i # Len(l) /\ timerEvt' = l[i + 1]
    BY <1>2, <1>9
  <2>2. timerEvt' \in Listed(l) /\ timerEvt' \in Slot
    BY <1>1, <1>5, <2>1 DEF Listed
  <2> QED
    BY <1>1, <2>1, <2>2
<1>10. ASSUME timerEvt' # NULL, NEW s \in Slot, ExpiredIn(t, s), s # timerEvt, s # timerEvt'
       PROVE  Precedes(l, timerEvt', s)
  <2>1. Precedes(l, l[i], s)
    BY <1>2, <1>4, <1>10
  <2> QED
    BY <1>1, <1>9, <1>10, <2>1, NextBehind
<1> QED
  BY <1>3, <1>7, <1>8, <1>9, <1>10 DEF l

(* A record that is due and is asked what comes next.                      *)
LEMMA ReturnedPool ==
    ASSUME IInv, timerEvt # NULL, evt[timerEvt].timeout = 0, NEW t, Kept(t),
           NEW next \in Outcomes(evt[timerEvt].cb)
    PROVE  LET u == Returned(t, timerEvt, next)
               s == timerEvt
           IN  /\ Good(u) /\ Fewer(t, u)
               /\ u.evt = IF next = 0 THEN [t.evt EXCEPT ![s] = Free]
                          ELSE [t.evt EXCEPT ![s].timeout = next]
               /\ ~ExpiredIn(u, s)
               /\ \A r \in Slot \ {s} : u.evt[r] = t.evt[r]
               /\ \A a, b \in Slot \ {s} : Precedes(t.list, a, b) => Precedes(u.list, a, b)
<1> DEFINE s == timerEvt
           u == Returned(t, s, next)
<1>1. s \in Slot /\ t.evt[s] = evt[s] /\ evt[s].used /\ Good(t) /\ t.evt \in [Slot -> EvtRec]
  BY DEF IInv, WalkOK, Kept, Good, PoolRec
<1>2. evt[s].isRunning /\ evt[s].cb \in Client
  <2>1. RecordOK(t.evt[s])
    BY <1>1 DEF Good, RecordsOK
  <2> QED
    BY <1>1, <2>1, FreeOK DEF RecordOK
<1>3. next \in Nat
  BY <1>2, EvTimerAssumption DEF Outcomes
<1>4. CASE next = 0
  <2>1. u = Ended(t, s, t.evt[s].cb)
    BY <1>1, <1>4 DEF Returned
  <2>2. /\ Good(u) /\ Fewer(t, u) /\ u.evt = [t.evt EXCEPT ![s] = Free]
        /\ \A a, b \in Slot \ {s} : Precedes(t.list, a, b) => Precedes(u.list, a, b)
    BY <1>1, <2>1, EndedPool
  <2> QED
    BY <1>1, <1>4, <2>2, FreeOK DEF ExpiredIn
<1>5. CASE next # 0
  <2>1. u = [t EXCEPT !.evt = [t.evt EXCEPT ![s].timeout = next]]
    BY <1>5 DEF Returned
  <2> DEFINE w == [t EXCEPT !.evt = [t.evt EXCEPT ![s].timeout = next]]
  <2>2. Good(w) /\ Fewer(t, w) /\ w.list = t.list /\ w.evt = [t.evt EXCEPT ![s].timeout = next]
    BY <1>1, <1>2, <1>3, GoesOnPool
  <2> HIDE DEF w, u
  <2>3. Good(u) /\ Fewer(t, u) /\ u.list = t.list /\ u.evt = [t.evt EXCEPT ![s].timeout = next]
    BY <2>1, <2>2 DEF w
  <2>4. u.evt[s].timeout = next
    BY <1>1, <2>3 DEF EvtRec
  <2> QED
    BY <1>1, <1>5, <2>3, <2>4 DEF ExpiredIn, u
<1> QED
  BY <1>4, <1>5

LEMMA BecomesPool ==
    ASSUME NEW u, u \in PoolRec, Becomes(u) PROVE Pool' = u
  BY DEF PoolRec, Becomes, Pool

LEMMA CalledIInv ==
    ASSUME IInv, timerEvt # NULL, evt[timerEvt].timeout = 0, NEW t, Kept(t),
           NEW next \in Outcomes(evt[timerEvt].cb), Called(t, timerEvt, next),
           UNCHANGED <<since, lost>>
    PROVE  IInv'
<1> DEFINE s == timerEvt
           u == Returned(t, s, next)
<1>1. /\ Good(u) /\ Fewer(t, u) /\ ~ExpiredIn(u, s)
      /\ \A r \in Slot \ {s} : u.evt[r] = t.evt[r]
      /\ \A a, b \in Slot \ {s} : Precedes(t.list, a, b) => Precedes(u.list, a, b)
  BY ReturnedPool
<1>2. Becomes(u) /\ Advance(t.list, u.list)
  BY DEF Called
<1> HIDE DEF u
<1>3. Pool' = u /\ evt' = u.evt /\ list' = u.list
  BY <1>1, <1>2, BecomesPool DEF Good, Becomes
<1>4. Good(Pool)'
  BY <1>1, <1>3
<1>5. u.list \in Seq(Slot) /\ \A r \in Slot : u.evt[r].used <=> r \in Listed(u.list)
  BY <1>1 DEF Good, PoolRec, ListOK
<1>6. s \in Slot
  BY DEF IInv, WalkOK
<1>7. \A r \in Slot : ExpiredIn(u, r) => r # s /\ ExpiredIn(t, r) /\ u.evt[r].used
  BY <1>1 DEF ExpiredIn
<1>8. WalkOK'
  <2> SUFFICES
        /\ timerEvt' \in Slot \cup {NULL}
        /\ timerEvt' = NULL => \A r \in Slot : ~ExpiredIn(u, r)
        /\ timerEvt' # NULL =>
              /\ u.evt[timerEvt'].used /\ prev_head' = First(u.list)
              /\ \A r \in Slot : ExpiredIn(u, r) /\ r # timerEvt'
                                 => Precedes(u.list, timerEvt', r)
    BY <1>3 DEF WalkOK, ExpiredIn, Expired
  <2>1. CASE First(u.list) # prev_head
    <3>1. timerEvt' = First(u.list) /\ prev_head' = First(u.list)
      BY <1>2, <2>1 DEF Advance
    <3>2. ASSUME NEW r \in Slot, u.evt[r].used
          PROVE  /\ First(u.list) \in Listed(u.list)
                 /\ r # First(u.list) => Precedes(u.list, First(u.list), r)
      BY <1>5, <3>2, AllBehindFirst
    <3>3. First(u.list) = NULL \/ First(u.list) \in Listed(u.list)
      <4>1. CASE u.list = << >>
        BY <4>1 DEF First
      <4>2. CASE u.list # << >>
        BY <1>5, <4>2 DEF First, Listed
      <4> QED
        BY <4>1, <4>2
    <3>4. Listed(u.list) \subseteq Slot /\ NULL \notin Slot
      BY <1>5, EvTimerAssumption DEF Listed
    <3>5. timerEvt' \in Slot \cup {NULL}
      BY <3>1, <3>3, <3>4
    <3>6. ASSUME timerEvt' = NULL, NEW r \in Slot, ExpiredIn(u, r) PROVE FALSE
      BY <1>7, <3>1, <3>2, <3>4, <3>6
    <3>7. ASSUME timerEvt' # NULL PROVE u.evt[timerEvt'].used
      BY <1>5, <3>1, <3>3, <3>4, <3>7
    <3>8. ASSUME NEW r \in Slot, ExpiredIn(u, r), r # timerEvt'
          PROVE  Precedes(u.list, timerEvt', r)
      BY <1>7, <3>1, <3>2, <3>8
    <3> QED
      BY <3>1, <3>5, <3>6, <3>7, <3>8
  <2>2. CASE First(u.list) = prev_head
    <3>1. GoOn(t.list)
      BY <1>2, <2>2 DEF Advance
    <3>2. /\ timerEvt' \in Slot \cup {NULL} /\ timerEvt' # s
          /\ timerEvt' = NULL => \A r \in Slot : ~(r # s /\ ExpiredIn(t, r))
          /\ timerEvt' # NULL =>
                /\ t.evt[timerEvt'].used /\ prev_head' = prev_head
                /\ \A r \in Slot : ExpiredIn(t, r) /\ r # s /\ r # timerEvt'
                       => Precedes(t.list, timerEvt', r)
      BY <3>1, WalkGoesOn
    <3>3. timerEvt' # NULL => u.evt[timerEvt'].used
      BY <1>1, <3>2
    <3>4. ASSUME timerEvt' # NULL, NEW r \in Slot, ExpiredIn(u, r), r # timerEvt'
          PROVE  Precedes(u.list, timerEvt', r)
      BY <1>1, <1>7, <3>2, <3>4
    <3> QED
      BY <1>7, <2>2, <3>2, <3>3, <3>4
  <2> QED
    BY <2>1, <2>2
<1>9. LostOK'
  <2>1. Fewer(Pool, u)
    BY <1>1, FewerStill DEF Kept
  <2> QED
    BY <1>3, <2>1, StillLost
<1> QED
  BY <1>4, <1>8, <1>9 DEF IInv

-----------------------------------------------------------------------------
(* The invariant *)

LEMMA EmptyPool ==
    ASSUME NEW t, t.evt = [s \in Slot |-> Free], t.list = << >>, t.used_num = 0,
           t.handle = [c \in Restarted |-> NULL],
           t = [evt |-> t.evt, list |-> t.list, used_num |-> t.used_num, handle |-> t.handle]
    PROVE  Good(t)
<1>1. t.evt \in [Slot -> EvtRec] /\ \A s \in Slot : t.evt[s] = Free
  BY FreeOK
<1>2. t \in PoolRec
  <2>1. t.list \in Seq(Slot) /\ t.used_num \in Nat /\ t.handle \in [Restarted -> Slot \cup {NULL}]
    OBVIOUS
  <2> QED
    BY <1>1, <2>1 DEF PoolRec
<1>3. ListOK(t)
  <2>1. UsedIn(t) = {}
    BY <1>1, FreeOK DEF UsedIn
  <2>2. Listed(t.list) = {} /\ NoTwice(t.list)
    BY DEF Listed, NoTwice
  <2> QED
    BY <1>1, <2>1, <2>2, FreeOK, FS_EmptySet DEF ListOK
<1>4. RecordsOK(t)
  BY <1>1 DEF RecordsOK, RecordOK
<1>5. HandlesOK(t)
  BY <1>1, FreeOK, EvTimerAssumption DEF HandlesOK, Client
<1> QED
  BY <1>2, <1>3, <1>4, <1>5 DEF Good

LEMMA BootIInv ==
    AtBoot(evt, list, used_num, handle, since, timerEvt, prev_head, lost) => IInv
<1> SUFFICES ASSUME AtBoot(evt, list, used_num, handle, since, timerEvt, prev_head, lost)
             PROVE  IInv
  OBVIOUS
<1>1. Good(Pool)
  BY EmptyPool DEF AtBoot, Pool
<1>2. WalkOK
  BY FreeOK DEF WalkOK, AtBoot, Expired
<1>3. LostOK
  <2>1. lost \in [Restarted -> Nat] /\ \A c \in Restarted : lost[c] = 0
    BY DEF AtBoot
  <2>2. ASSUME NEW c \in Restarted PROVE Cardinality(OrphansIn(Pool, c)) = 0
    <3>1. OrphansIn(Pool, c) = {}
      BY FreeOK, PoolFields, EvTimerAssumption DEF OrphansIn, AtBoot, Client
    <3> QED
      BY <3>1, FS_EmptySet
  <2> QED
    BY <2>1, <2>2 DEF LostOK
<1> QED
  BY <1>1, <1>2, <1>3 DEF IInv, AtBoot

LEMMA RequestIInv == ASSUME IInv, Request PROVE IInv'
<1>1. timerEvt = NULL /\ UNCHANGED <<since, timerEvt, prev_head, lost>>
  BY DEF Request
<1>2. ASSUME NEW t, Kept(t), Becomes(t) PROVE IInv'
  <2>1. Pool' = t /\ evt' = t.evt
    BY <1>2, BecomesPool DEF Kept, Good, Becomes
  <2>2. Good(Pool)'
    BY <1>2, <2>1 DEF Kept
  <2>3. WalkOK'
    BY <1>1, <1>2, <2>1 DEF IInv, WalkOK, Kept, ExpiredIn, Expired
  <2>4. LostOK'
    BY <1>1, <1>2, <2>1, StillLost DEF Kept
  <2> QED
    BY <1>1, <2>2, <2>3, <2>4 DEF IInv
<1>3. ASSUME NEW c \in Restarted, Becomes(Cancelled(Pool, c, NULL)) PROVE IInv'
  BY <1>1, <1>2, <1>3, CancelledKept DEF Other
<1>4. ASSUME NEW c \in Client, MayStart(c), NEW s \in FreeGet(Before(c, NULL)),
             NEW p \in Periods[c], Becomes(Started(c, NULL, s, p))
      PROVE  IInv'
  BY <1>1, <1>2, <1>4, ScheduledKept DEF Other
<1> QED
  BY <1>3, <1>4 DEF Request

(* A step that changes the records one by one, and neither whose they are  *)
(* nor what is due.                                                        *)
LEMMA AgedPool ==
    ASSUME IInv, NEW e \in [Slot -> EvtRec], evt' = e,
           UNCHANGED <<list, used_num, handle, lost>>,
           \A s \in Slot : e[s].used = evt[s].used /\ e[s].cb = evt[s].cb /\ RecordOK(e[s])
    PROVE  Good(Pool)' /\ LostOK'
<1> DEFINE u == [evt |-> e, list |-> list, used_num |-> used_num, handle |-> handle]
<1>1. /\ Pool' = u
      /\ u.evt = e /\ u.list = list /\ u.used_num = used_num /\ u.handle = handle
  BY DEF Pool
<1>2. /\ list \in Seq(Slot) /\ used_num \in Nat /\ handle \in [Restarted -> Slot \cup {NULL}]
      /\ ListOK(Pool) /\ HandlesOK(Pool)
  BY PoolFields DEF IInv, Good, PoolRec
<1>3. u \in PoolRec
  BY <1>2 DEF PoolRec
<1> HIDE DEF u
<1>4. UsedIn(u) = UsedIn(Pool)
  BY <1>1, PoolFields DEF UsedIn
<1>5. ListOK(u) /\ HandlesOK(u)
  BY <1>1, <1>2, <1>4, PoolFields DEF ListOK, HandlesOK
<1>6. RecordsOK(u)
  BY <1>1 DEF RecordsOK
<1>7. Good(u)
  BY <1>3, <1>5, <1>6 DEF Good
<1>8. LostOK'
  <2>1. \A c \in Restarted : OrphansIn(u, c) \subseteq OrphansIn(Pool, c)
    BY <1>1, PoolFields DEF OrphansIn
  <2> QED
    BY <1>1, <2>1, FewerInside, StillLost
<1> QED
  BY <1>1, <1>7, <1>8

LEMMA Records ==
    ASSUME IInv, NEW s \in Slot
    PROVE  evt[s] \in EvtRec /\ RecordOK(evt[s]) /\ since \in Nat /\ evt \in [Slot -> EvtRec]
  BY PoolFields DEF IInv, Good, PoolRec, RecordsOK

LEMMA ElapseIInv == ASSUME IInv, Elapse PROVE IInv'
<1> DEFINE older(s) == IF evt[s].used /\ ~evt[s].isRunning
                       THEN [evt[s] EXCEPT !.age = @ + 1] ELSE evt[s]
           e == [s \in Slot |-> older(s)]
<1>1. /\ evt' = e /\ since' = since + 1
      /\ UNCHANGED <<list, used_num, handle, timerEvt, prev_head, lost>>
  BY DEF Elapse
<1>2. ASSUME NEW s \in Slot
      PROVE  /\ older(s) \in EvtRec /\ older(s).used = evt[s].used /\ older(s).cb = evt[s].cb
             /\ older(s).timeout = evt[s].timeout /\ older(s).isRunning = evt[s].isRunning
  BY Records DEF EvtRec
<1>3. ASSUME NEW s \in Slot PROVE RecordOK(older(s))
  <2>1. RecordOK(evt[s])
    BY Records
  <2>2. CASE evt[s] = Free
    BY <2>2, FreeOK DEF RecordOK
  <2>3. CASE evt[s] # Free
    BY <1>2, <2>1, <2>3 DEF RecordOK
  <2> QED
    BY <2>2, <2>3
<1> HIDE DEF older
<1>4. e \in [Slot -> EvtRec] /\ \A s \in Slot : e[s] = older(s)
  BY <1>2
<1> HIDE DEF e
<1>5. Good(Pool)' /\ LostOK'
  BY <1>1, <1>2, <1>3, <1>4, AgedPool
<1>6. \A s \in Slot : evt'[s].used = evt[s].used /\ Expired(s)' = Expired(s)
  BY <1>1, <1>2, <1>4 DEF Expired
<1>7. WalkOK'
  BY <1>1, <1>6 DEF IInv, WalkOK
<1> QED
  BY <1>1, <1>5, <1>7 DEF IInv

LEMMA UpdatedRecord ==
    ASSUME NEW r \in EvtRec, RecordOK(r), since \in Nat
    PROVE  LET w == Updated(r)
           IN  /\ w \in EvtRec /\ RecordOK(w) /\ w.used = r.used /\ w.cb = r.cb
               /\ r.used => w.timeout = Minus(r.timeout, IF r.isRunning THEN since ELSE r.age)
                            /\ w.isRunning
<1>1. CASE ~r.used
  BY <1>1 DEF Updated
<1>2. CASE r.used
  <2> DEFINE left == Minus(r.timeout, IF r.isRunning THEN since ELSE r.age)
  <2>1. left \in Nat
    BY DEF Minus, EvtRec
  <2> HIDE DEF left
  <2>2. Updated(r) = [r EXCEPT !.timeout = left, !.isRunning = TRUE, !.age = 0]
    BY <1>2 DEF Updated, left
  <2>3. Updated(r) = [used |-> r.used, cb |-> r.cb, timeout |-> left, isRunning |-> TRUE, age |-> 0]
    BY <2>2 DEF EvtRec
  <2>4. r.used \in BOOLEAN /\ r.cb \in Client \cup {Nobody}
    BY DEF EvtRec
  <2>5. Updated(r) \in EvtRec
    BY <2>1, <2>3, <2>4 DEF EvtRec
  <2>6. r.cb \in Client
    BY <1>2, FreeOK DEF RecordOK
  <2> QED
    BY <1>2, <2>3, <2>5, <2>6 DEF RecordOK, left
<1> QED
  BY <1>1, <1>2

LEMMA ProcessIInv == ASSUME IInv, Process PROVE IInv'
<1> DEFINE e == [s \in Slot |-> Updated(evt[s])]
<1>1. /\ evt' = e /\ since' = 0 /\ UNCHANGED <<list, used_num, handle, lost>>
      /\ timerEvt' = First(list) /\ prev_head' = First(list)
  BY DEF Process
<1>2. ASSUME NEW s \in Slot
      PROVE  /\ Updated(evt[s]) \in EvtRec /\ RecordOK(Updated(evt[s]))
             /\ Updated(evt[s]).used = evt[s].used /\ Updated(evt[s]).cb = evt[s].cb
  BY Records, UpdatedRecord
<1>3. Good(Pool)' /\ LostOK'
  <2>1. e \in [Slot -> EvtRec] /\ \A s \in Slot : e[s] = Updated(evt[s])
    BY <1>2
  <2> HIDE DEF e
  <2> QED
    BY <1>1, <1>2, <2>1, AgedPool
<1>4. list \in Seq(Slot) /\ \A s \in Slot : evt'[s].used <=> s \in Listed(list)
  <2>1. list \in Seq(Slot) /\ \A s \in Slot : evt[s].used <=> s \in Listed(list)
    BY PoolFields DEF IInv, Good, PoolRec, ListOK
  <2> QED
    BY <1>1, <1>2, <2>1
<1>5. WalkOK'
  <2>1. ASSUME NEW r \in Slot, Expired(r)'
        PROVE  /\ First(list) \in Listed(list)
               /\ r # First(list) => Precedes(list, First(list), r)
    BY <1>4, <2>1, AllBehindFirst DEF Expired
  <2>2. First(list) = NULL \/ First(list) \in Listed(list)
    <3>1. CASE list = << >>
      BY <3>1 DEF First
    <3>2. CASE list # << >>
      BY <1>4, <3>2 DEF First, Listed
    <3> QED
      BY <3>1, <3>2
  <2>3. Listed(list) \subseteq Slot /\ NULL \notin Slot
    BY <1>4, EvTimerAssumption DEF Listed
  <2> QED
    BY <1>1, <1>4, <2>1, <2>2, <2>3 DEF WalkOK
<1> QED
  BY <1>1, <1>3, <1>5 DEF IInv

LEMMA VisitIInv == ASSUME IInv, Visit PROVE IInv'
<1> DEFINE s == timerEvt
           own == evt[timerEvt].cb
<1>1. s # NULL /\ UNCHANGED <<since, lost>>
  BY DEF Visit
<1>2. CASE evt[s].timeout # 0 /\ GoOn(list) /\ UNCHANGED <<evt, list, used_num, handle>>
  <2>1. GoOn(Pool.list) /\ Pool' = Pool /\ Kept(Pool)
    BY <1>2, PoolFields, PoolKept DEF Pool
  <2>2. /\ timerEvt' \in Slot \cup {NULL} /\ timerEvt' # timerEvt
        /\ timerEvt' = NULL => \A r \in Slot : ~(r # timerEvt /\ ExpiredIn(Pool, r))
        /\ timerEvt' # NULL =>
              /\ Pool.evt[timerEvt'].used /\ prev_head' = prev_head
              /\ \A r \in Slot : ExpiredIn(Pool, r) /\ r # timerEvt /\ r # timerEvt'
                     => Precedes(Pool.list, timerEvt', r)
    BY <1>1, <2>1, WalkGoesOn
  <2>3. \A r \in Slot : (ExpiredIn(Pool, r) <=> Expired(r)) /\ (Expired(r)' <=> Expired(r))
    BY <1>2, PoolFields DEF ExpiredIn, Expired
  <2>4. ~Expired(s)
    BY <1>2 DEF Expired
  <2>5. WalkOK'
    BY <1>1, <1>2, <2>2, <2>3, <2>4, PoolFields DEF IInv, WalkOK
  <2>6. Good(Pool)' /\ LostOK'
    BY <1>1, <2>1, StillLost DEF IInv, Kept
  <2> QED
    BY <1>1, <2>5, <2>6 DEF IInv
<1>3. ASSUME evt[s].timeout = 0, NEW next \in Outcomes(own), Called(Pool, s, next) PROVE IInv'
  BY <1>1, <1>3, PoolKept, CalledIInv
<1>4. ASSUME evt[s].timeout = 0, NEW next \in Outcomes(own), NEW c \in Restarted \ {own},
             Called(Cancelled(Pool, c, s), s, next)
      PROVE  IInv'
  BY <1>1, <1>4, CancelledKept, CalledIInv DEF Other
<1>5. ASSUME evt[s].timeout = 0, NEW next \in Outcomes(own), NEW c \in Client \ {own}, MayStart(c),
             NEW n \in FreeGet(Before(c, s)), NEW p \in Periods[c],
             Called(Started(c, s, n, p), s, next)
      PROVE  IInv'
  BY <1>1, <1>5, ScheduledKept, CalledIInv DEF Other
<1> QED
  BY <1>1, <1>2, <1>3, <1>4, <1>5 DEF Visit

(* A handle goes and its timer stays: one timer more without one.          *)
LEMMA ForgetIInv == ASSUME IInv, Forget PROVE IInv'
<1>1. PICK c \in Forgetful :
        /\ handle[c] # NULL /\ handle' = [handle EXCEPT ![c] = NULL]
        /\ lost' = [lost EXCEPT ![c] = @ + 1]
  BY DEF Forget
<1>2. UNCHANGED <<evt, list, used_num, since, timerEvt, prev_head>>
  BY DEF Forget
<1>3. /\ list \in Seq(Slot) /\ used_num \in Nat /\ handle \in [Restarted -> Slot \cup {NULL}]
      /\ evt \in [Slot -> EvtRec]
      /\ ListOK(Pool) /\ RecordsOK(Pool) /\ HandlesOK(Pool)
      /\ lost \in [Restarted -> Nat] /\ c \in Restarted /\ NULL \notin Slot
  BY PoolFields, EvTimerAssumption DEF IInv, Good, PoolRec, LostOK
<1> DEFINE u == [evt |-> evt, list |-> list, used_num |-> used_num,
                 handle |-> [handle EXCEPT ![c] = NULL]]
<1>4. /\ Pool' = u
      /\ u.evt = evt /\ u.list = list /\ u.used_num = used_num
      /\ u.handle = [handle EXCEPT ![c] = NULL]
  BY <1>1, <1>2 DEF Pool
<1>5. u \in PoolRec
  BY <1>3 DEF PoolRec
<1> HIDE DEF u
<1>6. \A d \in Restarted : u.handle[d] = IF d = c THEN NULL ELSE handle[d]
  BY <1>3, <1>4
<1>7. ListOK(u) /\ RecordsOK(u)
  BY <1>3, <1>4, PoolFields DEF ListOK, RecordsOK, UsedIn
<1>8. HandlesOK(u)
  BY <1>1, <1>3, <1>4, <1>6, PoolFields DEF HandlesOK
<1>9. Good(Pool)'
  BY <1>4, <1>5, <1>7, <1>8 DEF Good
<1>10. WalkOK'
  BY <1>2 DEF IInv, WalkOK, Expired
<1>11. ASSUME NEW d \in Restarted PROVE Cardinality(OrphansIn(u, d)) <= lost'[d]
  <2> DEFINE A == OrphansIn(Pool, d)
             B == OrphansIn(u, d)
  <2>1. /\ IsFiniteSet(A) /\ Cardinality(A) \in Nat /\ Cardinality(A) <= lost[d]
        /\ IsFiniteSet(B) /\ Cardinality(B) \in Nat /\ lost[d] \in Nat
    BY <1>3, OrphansFinite DEF IInv, LostOK
  <2>2. lost'[d] = IF d = c THEN lost[d] + 1 ELSE lost[d]
    BY <1>1, <1>3
  <2>3. ASSUME NEW r \in B PROVE r \in A \/ (d = c /\ r = handle[d])
    BY <1>4, <1>6, PoolFields DEF OrphansIn
  <2> HIDE DEF A, B
  <2>4. CASE d # c
    <3>1. Cardinality(B) <= Cardinality(A)
      BY <2>1, <2>3, <2>4, FS_Subset
    <3> QED
      BY <2>1, <2>2, <2>4, <3>1 DEF B
  <2>5. CASE d = c
    <3>1. /\ IsFiniteSet(A \cup {handle[d]})
          /\ \/ Cardinality(A \cup {handle[d]}) = Cardinality(A)
             \/ Cardinality(A \cup {handle[d]}) = Cardinality(A) + 1
      BY <2>1, FS_AddElement
    <3>2. Cardinality(B) <= Cardinality(A \cup {handle[d]})
      BY <2>3, <3>1, FS_Subset
    <3> QED
      BY <2>1, <2>2, <2>5, <3>1, <3>2 DEF B
  <2> QED
    BY <2>4, <2>5
<1>12. LostOK'
  <2>1. lost' \in [Restarted -> Nat]
    BY <1>1, <1>3
  <2> QED
    BY <1>4, <1>11, <2>1 DEF LostOK
<1> QED
  BY <1>2, <1>9, <1>10, <1>12 DEF IInv

LEMMA NextIInv == ASSUME IInv, [Next]_vars PROVE IInv'
<1>1. CASE Reset
  <2>1. AtBoot(evt', list', used_num', handle', since', timerEvt', prev_head', lost')
    BY <1>1 DEF Reset
  <2>2. Good(Pool)'
    BY <2>1, EmptyPool DEF AtBoot, Pool
  <2>3. WalkOK'
    BY <2>1, FreeOK DEF WalkOK, AtBoot, Expired
  <2>4. LostOK'
    <3>1. lost' \in [Restarted -> Nat] /\ \A c \in Restarted : lost'[c] = 0
      BY <2>1 DEF AtBoot
    <3>2. ASSUME NEW c \in Restarted PROVE Cardinality(OrphansIn(Pool, c)') = 0
      <4>1. OrphansIn(Pool, c)' = {}
        BY <2>1, FreeOK, EvTimerAssumption DEF OrphansIn, AtBoot, Client, Pool
      <4> QED
        BY <4>1, FS_EmptySet
    <3> QED
      BY <3>1, <3>2 DEF LostOK
  <2> QED
    BY <2>1, <2>2, <2>3, <2>4 DEF IInv, AtBoot
<1>2. CASE UNCHANGED vars
  BY <1>2 DEF vars, IInv, WalkOK, LostOK, Expired, Pool
<1> QED
  BY <1>1, <1>2, RequestIInv, ForgetIInv, ElapseIInv, ProcessIInv, VisitIInv DEF Next

LEMMA AlwaysIInv == Spec => []IInv
<1>1. Init => IInv
  BY BootIInv DEF Init
<1>2. IInv /\ [Next]_vars => IInv'
  BY NextIInv
<1> QED
  BY <1>1, <1>2, PTL DEF Spec

-----------------------------------------------------------------------------
(* Theorems *)

(* The pool, the list and the count agree, whatever callbacks do to them.  *)
THEOREM PoolAlwaysConsistent == Spec => []PoolConsistent
<1>1. IInv => PoolConsistent
  BY PoolFields DEF IInv, Good, ListOK, NoTwice, UsedIn, PoolConsistent, Used
<1> QED
  BY <1>1, AlwaysIInv, PTL

(* No client can cancel another's timer: a handle never outlives its own,  *)
(* and what a client cannot stop is no more than what it has forgotten.    *)
THEOREM HandlesAlwaysOwned == Spec => []HandlesOwned
<1>1. IInv => HandlesOwned
  <2> SUFFICES ASSUME IInv, NEW c \in Restarted
               PROVE  /\ handle[c] # NULL => handle[c] \in Used /\ evt[handle[c]].cb = c
                      /\ Cardinality(Orphans(c)) <= lost[c]
    BY DEF HandlesOwned
  <2>1. c # Nobody
    BY EvTimerAssumption DEF Client
  <2>2. \A s \in Slot : evt[s].used <=> evt[s].cb # Nobody
    BY NobodyFree, PoolFields DEF IInv, Good
  <2>3. ASSUME handle[c] # NULL PROVE handle[c] \in Used /\ evt[handle[c]].cb = c
    <3>1. handle[c] \in Slot
      BY <2>3, PoolFields DEF IInv, Good, PoolRec
    <3>2. evt[handle[c]].cb = c
      BY <3>1, PoolFields DEF IInv, Good, HandlesOK
    <3> QED
      BY <2>1, <2>2, <3>1, <3>2 DEF Used
  <2>4. Orphans(c) = OrphansIn(Pool, c)
    BY <2>1, <2>2, PoolFields DEF Orphans, OrphansIn, Used
  <2> QED
    BY <2>3, <2>4 DEF IInv, LostOK
<1> QED
  BY <1>1, AlwaysIInv, PTL

-----------------------------------------------------------------------------
(* The service.  Seen(t) is what a client of TimerService sees of t.       *)

Seen(t) ==
    [whose   |-> [s \in Slot |-> t.evt[s].cb],
     left    |-> [s \in Slot |-> Left(t.evt[s])],
     overdue |-> {s \in Slot : ExpiredIn(t, s)}]

LEMMA SeenNow == Service!Table = Seen(Pool)
  BY PoolFields DEF Service!Table, Seen, Expired, ExpiredIn

LEMMA SeenNext ==
    ASSUME NEW t, Becomes(t), UNCHANGED since
    PROVE  /\ [s \in Slot |-> evt[s].cb]' = Seen(t).whose
           /\ [s \in Slot |-> Left(evt[s])]' = Seen(t).left
           /\ {s \in Slot : Expired(s)}' = Seen(t).overdue
  BY DEF Becomes, Seen, Expired, ExpiredIn, Left

LEMMA LeftOfFree == Left(Free) = 0
  BY DEF Left, Free, Minus

(* The timer that client c stops.                                          *)
Held(c) == IF c \in Restarted THEN {s \in Slot : s = handle[c]} ELSE {}

LEMMA HeldStops ==
    ASSUME IInv, NEW c \in Client
    PROVE  Held(c) \in Service!Stops(c)
<1> DEFINE own == {s \in Slot : evt[s].cb = c}
<1>1. Service!Own(c) = own
  BY DEF Service!Own
<1>2. ASSUME c \in Restarted, NEW s \in Slot
      PROVE  /\ handle[c] = s => evt[s].cb = c
             /\ c \notin Forgetful /\ evt[s].cb = c => handle[c] = s
  BY <1>2, PoolFields DEF IInv, Good, HandlesOK
<1>3. CASE c \in Forgetful
  <2>1. c \in Restarted
    BY <1>3, EvTimerAssumption
  <2>2. Held(c) \in {{}} \cup {{s} : s \in own}
    <3>1. CASE handle[c] \in Slot
      <4>1. handle[c] \in own
        BY <1>2, <2>1, <3>1
      <4>2. Held(c) = {handle[c]}
        BY <2>1, <3>1 DEF Held
      <4> QED
        BY <4>1, <4>2
    <3>2. CASE handle[c] \notin Slot
      <4>1. Held(c) = {}
        BY <3>2 DEF Held
      <4> QED
        BY <4>1
    <3> QED
      BY <3>1, <3>2
  <2>3. Service!Stops(c) = {{}} \cup {{s} : s \in own}
    BY <1>1, <1>3 DEF Service!Stops
  <2> QED
    BY <2>2, <2>3
<1>4. CASE c \in Restarted \ Forgetful
  <2>1. Held(c) = own
    <3>1. \A s \in Slot : s = handle[c] <=> evt[s].cb = c
      BY <1>2, <1>4
    <3>2. Held(c) = {s \in Slot : s = handle[c]}
      BY <1>4 DEF Held
    <3> QED
      BY <3>1, <3>2
  <2>2. Service!Stops(c) = {own}
    BY <1>1, <1>4 DEF Service!Stops
  <2> QED
    BY <2>1, <2>2
<1>5. CASE c \notin Restarted
  <2>1. Held(c) = {}
    BY <1>5 DEF Held
  <2>2. Service!Stops(c) = {{}}
    BY <1>5, EvTimerAssumption DEF Service!Stops
  <2> QED
    BY <2>1, <2>2
<1> QED
  BY <1>3, <1>4, <1>5

LEMMA SeenCancelled ==
    ASSUME IInv, NEW c \in Restarted, NEW busy \in Slot \cup {NULL},
           busy # NULL => evt[busy].cb # c
    PROVE  Service!Off(Seen(Pool), Held(c)) = Seen(Cancelled(Pool, c, busy))
<1> DEFINE u == Cancelled(Pool, c, busy)
           h == handle[c]
<1>1. u.evt = [s \in Slot |-> IF s = h THEN Free ELSE evt[s]]
  BY CancelledPool, PoolFields DEF IInv
<1> HIDE DEF u
<1>2. ASSUME NEW s \in Slot
      PROVE  /\ s \in Held(c) <=> s = h
             /\ u.evt[s].cb = IF s = h THEN Nobody ELSE evt[s].cb
             /\ Left(u.evt[s]) = IF s = h THEN 0 ELSE Left(evt[s])
             /\ ExpiredIn(u, s) <=> ExpiredIn(Pool, s) /\ s # h
  BY <1>1, FreeOK, LeftOfFree, PoolFields DEF ExpiredIn, Held
<1>3. Seen(Pool) = [whose   |-> [s \in Slot |-> evt[s].cb],
                    left    |-> [s \in Slot |-> Left(evt[s])],
                    overdue |-> {s \in Slot : ExpiredIn(Pool, s)}]
  BY PoolFields DEF Seen
<1>4. Seen(u) = [whose   |-> [s \in Slot |-> IF s = h THEN Nobody ELSE evt[s].cb],
                 left    |-> [s \in Slot |-> IF s = h THEN 0 ELSE Left(evt[s])],
                 overdue |-> {s \in Slot : ExpiredIn(Pool, s) /\ s # h}]
  BY <1>2 DEF Seen
<1>5. Service!Off(Seen(Pool), Held(c))
        = [whose   |-> [s \in Slot |-> IF s \in Held(c) THEN Nobody ELSE evt[s].cb],
           left    |-> [s \in Slot |-> IF s \in Held(c) THEN 0 ELSE Left(evt[s])],
           overdue |-> {s \in Slot : ExpiredIn(Pool, s)} \ Held(c)]
  <2> DEFINE w == Seen(Pool)
  <2>1. Service!Off(w, Held(c))
          = [whose   |-> [s \in Slot |-> IF s \in Held(c) THEN Nobody ELSE w.whose[s]],
             left    |-> [s \in Slot |-> IF s \in Held(c) THEN 0 ELSE w.left[s]],
             overdue |-> w.overdue \ Held(c)]
    BY DEF Service!Off
  <2>2. /\ w.whose = [s \in Slot |-> evt[s].cb] /\ w.left = [s \in Slot |-> Left(evt[s])]
        /\ w.overdue = {s \in Slot : ExpiredIn(Pool, s)}
    BY <1>3
  <2> HIDE DEF w
  <2>3. \A s \in Slot : w.whose[s] = evt[s].cb /\ w.left[s] = Left(evt[s])
    BY <2>2
  <2> QED
    BY <2>1, <2>2, <2>3 DEF w
<1>6. {s \in Slot : ExpiredIn(Pool, s)} \ Held(c) = {s \in Slot : ExpiredIn(Pool, s) /\ s # h}
  BY <1>2
<1> QED
  BY <1>2, <1>4, <1>5, <1>6 DEF u

(* The service before client c starts a timer.                             *)
LEMMA SeenBefore ==
    ASSUME IInv, NEW c \in Client, Other(c)
    PROVE  Service!Off(Seen(Pool), Held(c)) = Seen(Before(c, timerEvt))
<1>1. CASE c \in Restarted
  BY <1>1, SeenCancelled DEF IInv, WalkOK, Other, Before
<1>2. CASE c \notin Restarted
  <2>1. Held(c) = {} /\ Before(c, timerEvt) = Pool
    BY <1>2 DEF Held, Before
  <2> QED
    BY <2>1 DEF Service!Off, Seen
<1> QED
  BY <1>1, <1>2

LEMMA SeenStarted ==
    ASSUME IInv, NEW c \in Client, Other(c), MayStart(c),
           NEW s \in FreeGet(Before(c, timerEvt)), NEW p \in Periods[c]
    PROVE  /\ Service!Started(Service!Off(Seen(Pool), Held(c)), c, s, p)
                 = Seen(Started(c, timerEvt, s, p))
           /\ s \in Slot /\ Service!MayStart(c, Held(c), s)
<1> DEFINE t == Before(c, timerEvt)
           u == Started(c, timerEvt, s, p)
           new == [used |-> TRUE, cb |-> c, timeout |-> p, isRunning |-> FALSE, age |-> 0]
           v == Service!Off(Seen(Pool), Held(c))
<1>1. timerEvt \in Slot \cup {NULL} /\ Good(Pool)
  BY DEF IInv, WalkOK
<1>2. timerEvt # NULL => Pool.evt[timerEvt].cb # c
  BY PoolFields DEF Other
<1>3. v = Seen(t)
  BY SeenBefore
<1>4. Good(t)
  BY <1>1, <1>2, CancelledPool DEF Before
<1>5. s \in Slot /\ ~t.evt[s].used
  BY DEF FreeGet
<1>6. u.evt = [t.evt EXCEPT ![s] = new] /\ t.evt \in [Slot -> EvtRec]
  BY <1>4 DEF Started, Scheduled, Good, PoolRec
<1>7. p \in Nat \ {0}
  BY EvTimerAssumption
<1>8. new.cb = c /\ Left(new) = p /\ new.timeout # 0
  BY <1>7 DEF Left, Minus
<1>9. t.evt[s] = Free
  BY <1>4, <1>5, NobodyFree DEF Good
<1> HIDE DEF t, u, new, v
<1>10. /\ [q \in Slot |-> u.evt[q].cb] = [[q \in Slot |-> t.evt[q].cb] EXCEPT ![s] = c]
       /\ [q \in Slot |-> Left(u.evt[q])] = [[q \in Slot |-> Left(t.evt[q])] EXCEPT ![s] = p]
       /\ {q \in Slot : ExpiredIn(u, q)} = {q \in Slot : ExpiredIn(t, q)}
  <2>1. \A q \in Slot : u.evt[q] = IF q = s THEN new ELSE t.evt[q]
    BY <1>6
  <2>2. \A q \in Slot : ExpiredIn(u, q) <=> ExpiredIn(t, q)
    BY <1>5, <1>8, <2>1 DEF ExpiredIn
  <2>3. ASSUME NEW q \in Slot
        PROVE  /\ u.evt[q].cb = IF q = s THEN c ELSE t.evt[q].cb
               /\ Left(u.evt[q]) = IF q = s THEN p ELSE Left(t.evt[q])
    BY <1>8, <2>1
  <2> QED
    BY <2>2, <2>3
<1>11. Service!Started(v, c, s, p) = Seen(u)
  <2>1. Service!Started(v, c, s, p)
          = [whose |-> [v.whose EXCEPT ![s] = c], left |-> [v.left EXCEPT ![s] = p],
             overdue |-> v.overdue]
    BY DEF Service!Started
  <2> QED
    BY <1>3, <1>10, <2>1 DEF Seen
<1>12. Service!MayStart(c, Held(c), s)
  <2>1. c \in Periodic => Service!Own(c) = {}
    BY DEF MayStart, Service!Own
  <2>2. evt[s].cb = Nobody \/ s \in Held(c)
    <3>1. CASE c \in Restarted
      <4>1. t.evt = [q \in Slot |-> IF q = handle[c] THEN Free ELSE evt[q]]
        BY <1>1, <1>2, <3>1, CancelledPool, PoolFields DEF Before, t
      <4> QED
        BY <1>5, <1>9, <3>1, <4>1, FreeOK DEF Held
    <3>2. CASE c \notin Restarted
      BY <1>9, <3>2, PoolFields, FreeOK DEF Before, t
    <3> QED
      BY <3>1, <3>2
  <2> QED
    BY <1>5, <2>1, <2>2 DEF Service!MayStart
<1> QED
  BY <1>5, <1>11, <1>12 DEF u, v

LEMMA SeenReturned ==
    ASSUME IInv, timerEvt # NULL, evt[timerEvt].timeout = 0, NEW t, Kept(t),
           NEW next \in Outcomes(evt[timerEvt].cb)
    PROVE  Service!Called(Seen(t), timerEvt, next) = Seen(Returned(t, timerEvt, next))
<1> DEFINE s == timerEvt
           u == Returned(t, s, next)
<1>1. /\ u.evt = IF next = 0 THEN [t.evt EXCEPT ![s] = Free] ELSE [t.evt EXCEPT ![s].timeout = next]
      /\ ~ExpiredIn(u, s)
  BY ReturnedPool
<1>2. s \in Slot /\ t.evt[s] = evt[s] /\ evt[s].used /\ Good(t) /\ t.evt \in [Slot -> EvtRec]
  BY DEF IInv, WalkOK, Kept, Good, PoolRec
<1>3. evt[s].isRunning
  <2>1. RecordOK(t.evt[s])
    BY <1>2 DEF Good, RecordsOK
  <2> QED
    BY <1>2, <2>1, FreeOK DEF RecordOK
<1> HIDE DEF u
<1>4. \A q \in Slot \ {s} : u.evt[q] = t.evt[q]
  BY <1>1, <1>2
<1>5. {q \in Slot : ExpiredIn(u, q)} = {q \in Slot : ExpiredIn(t, q)} \ {s}
  BY <1>1, <1>4 DEF ExpiredIn
<1>6. CASE next = 0
  <2>1. u.evt[s] = Free
    BY <1>1, <1>2, <1>6
  <2>2. ASSUME NEW q \in Slot
        PROVE  /\ u.evt[q].cb = IF q \in {s} THEN Nobody ELSE t.evt[q].cb
               /\ Left(u.evt[q]) = IF q \in {s} THEN 0 ELSE Left(t.evt[q])
    BY <1>4, <2>1, FreeOK, LeftOfFree
  <2> QED
    BY <1>5, <1>6, <2>2 DEF Service!Called, Service!Off, Seen, u
<1>7. CASE next # 0
  <2>1. u.evt[s] = [t.evt[s] EXCEPT !.timeout = next]
    BY <1>1, <1>2, <1>7
  <2>2. u.evt[s].cb = t.evt[s].cb /\ u.evt[s].timeout = next /\ u.evt[s].isRunning
    BY <1>2, <1>3, <2>1 DEF EvtRec
  <2>3. ASSUME NEW q \in Slot
        PROVE  /\ u.evt[q].cb = t.evt[q].cb
               /\ Left(u.evt[q]) = IF q = s THEN Minus(next, since) ELSE Left(t.evt[q])
    BY <1>4, <2>2 DEF Left
  <2>4. Minus(next, since) = Service!Minus(next, since)
    BY DEF Minus, Service!Minus
  <2>5. Service!Called(Seen(t), s, next)
          = [whose |-> [q \in Slot |-> t.evt[q].cb],
             left |-> [[q \in Slot |-> Left(t.evt[q])] EXCEPT ![s] = Minus(next, since)],
             overdue |-> {q \in Slot : ExpiredIn(t, q)} \ {s}]
    BY <1>7, <2>4 DEF Service!Called, Seen
  <2>6. [q \in Slot |-> Left(u.evt[q])]
          = [[q \in Slot |-> Left(t.evt[q])] EXCEPT ![s] = Minus(next, since)]
    BY <1>2, <2>3
  <2> QED
    BY <1>5, <2>3, <2>5, <2>6 DEF Seen, u
<1> QED
  BY <1>6, <1>7

LEMMA ServedClients ==
    Service!Client = Client /\ \A c : Service!Outcomes(c) = Outcomes(c)
  BY DEF Client, Service!Client, Outcomes, Service!Outcomes

LEMMA ServedElapse == ASSUME IInv, Elapse PROVE Service!Elapse
<1>1. /\ since < MaxBlock /\ since' = since + 1
      /\ evt' = [s \in Slot |-> IF evt[s].used /\ ~evt[s].isRunning
                                THEN [evt[s] EXCEPT !.age = @ + 1] ELSE evt[s]]
  BY DEF Elapse
<1>2. ASSUME NEW s \in Slot
      PROVE  /\ evt'[s].cb = evt[s].cb /\ (Expired(s)' <=> Expired(s))
             /\ Left(evt[s])' = Service!Minus(Left(evt[s]), 1)
  <2>1. evt[s] \in EvtRec /\ RecordOK(evt[s]) /\ since \in Nat
    BY Records
  <2> DEFINE r == evt[s]
  <2>2. CASE r.used /\ ~r.isRunning
    <3>1. evt'[s] = [r EXCEPT !.age = @ + 1]
      BY <1>1, <2>2
    <3>2. /\ evt'[s].cb = r.cb /\ evt'[s].timeout = r.timeout /\ evt'[s].used = r.used
          /\ evt'[s].isRunning = FALSE /\ evt'[s].age = r.age + 1
      BY <2>1, <2>2, <3>1 DEF EvtRec
    <3>3. Left(evt[s])' = Minus(r.timeout, r.age + 1) /\ Left(evt[s]) = Minus(r.timeout, r.age)
      BY <2>2, <3>2 DEF Left
    <3>4. r.timeout \in Nat /\ r.age \in Nat
      BY <2>1 DEF EvtRec
    <3> QED
      BY <3>2, <3>3, <3>4 DEF Expired, Minus, Service!Minus
  <2>3. CASE r.used /\ r.isRunning
    <3>1. evt'[s] = evt[s]
      BY <1>1, <2>3
    <3>2. Left(evt[s])' = Minus(r.timeout, since + 1) /\ Left(evt[s]) = Minus(r.timeout, since)
      BY <1>1, <2>3, <3>1 DEF Left
    <3>3. r.timeout \in Nat
      BY <2>1 DEF EvtRec
    <3> QED
      BY <2>1, <3>1, <3>2, <3>3 DEF Expired, Minus, Service!Minus
  <2>4. CASE ~r.used
    <3>1. evt'[s] = evt[s] /\ evt[s] = Free
      BY <1>1, <2>1, <2>4 DEF RecordOK
    <3>2. Left(evt[s])' = 0 /\ Left(evt[s]) = 0
      BY <3>1, LeftOfFree DEF Left, Free, Minus
    <3> QED
      BY <3>1, <3>2 DEF Expired, Service!Minus
  <2> QED
    BY <2>2, <2>3, <2>4
<1> QED
  BY <1>1, <1>2 DEF Service!Elapse

LEMMA ServedPass == ASSUME IInv, Process PROVE Service!Pass
<1>1. /\ timerEvt = NULL /\ since > 0 /\ since' = 0
      /\ evt' = [s \in Slot |-> Updated(evt[s])]
  BY DEF Process
<1>2. {s \in Slot : Expired(s)} = {}
  BY <1>1 DEF IInv, WalkOK
<1>3. ASSUME NEW s \in Slot
      PROVE  /\ evt'[s].cb = evt[s].cb /\ Left(evt[s])' = Left(evt[s])
             /\ Expired(s)' <=> evt[s].cb # Nobody /\ Left(evt[s]) = 0
  <2>1. evt[s] \in EvtRec /\ RecordOK(evt[s]) /\ since \in Nat
    BY Records
  <2>2. /\ evt'[s] \in EvtRec /\ evt'[s].used = evt[s].used /\ evt'[s].cb = evt[s].cb
        /\ evt[s].used => evt'[s].timeout = Left(evt[s]) /\ evt'[s].isRunning
    BY <1>1, <2>1, UpdatedRecord DEF Left
  <2>3. evt[s].used <=> evt[s].cb # Nobody
    BY <2>1, FreeOK, EvTimerAssumption DEF RecordOK
  <2>4. CASE evt[s].used
    <3>1. evt'[s].timeout \in Nat
      BY <2>2 DEF EvtRec
    <3>2. Left(evt[s])' = Minus(evt'[s].timeout, 0)
      BY <1>1, <2>2, <2>4 DEF Left
    <3> QED
      BY <2>2, <2>3, <2>4, <3>1, <3>2 DEF Expired, Minus
  <2>5. CASE ~evt[s].used
    <3>1. evt'[s] = evt[s] /\ evt[s] = Free
      BY <1>1, <2>1, <2>5 DEF RecordOK, Updated
    <3>2. Left(evt[s])' = 0 /\ Left(evt[s]) = 0
      BY <3>1, LeftOfFree DEF Left, Free, Minus
    <3> QED
      BY <2>3, <2>5, <3>1, <3>2 DEF Expired
  <2> QED
    BY <2>4, <2>5
<1>4. {s \in Slot : Expired(s)}' = {s \in Service!Running : [q \in Slot |-> Left(evt[q])][s] = 0}
  BY <1>3 DEF Service!Running
<1>5. UNCHANGED <<[s \in Slot |-> evt[s].cb], [s \in Slot |-> Left(evt[s])]>>
  BY <1>3
<1> QED
  BY <1>1, <1>2, <1>4, <1>5 DEF Service!Pass

LEMMA ServedRequest == ASSUME IInv, Request PROVE Service!Request
<1>1. timerEvt = NULL /\ UNCHANGED since
  BY DEF Request
<1>2. {s \in Slot : Expired(s)} = {}
  BY <1>1 DEF IInv, WalkOK
<1>3. \A c : Other(c)
  BY <1>1 DEF Other
<1>4. ASSUME NEW c \in Restarted, Becomes(Cancelled(Pool, c, NULL))
      PROVE  /\ c \in Client /\ Held(c) \in Service!Stops(c)
             /\ Service!Becomes(Service!Off(Service!Table, Held(c)))
  <2>1. Service!Off(Seen(Pool), Held(c)) = Seen(Cancelled(Pool, c, NULL))
    BY SeenCancelled
  <2>2. c \in Client
    BY DEF Client
  <2> QED
    BY <1>1, <1>4, <2>1, <2>2, HeldStops, SeenNow, SeenNext DEF Service!Becomes
<1>5. ASSUME NEW c \in Client, MayStart(c), NEW s \in FreeGet(Before(c, NULL)),
             NEW p \in Periods[c], Becomes(Started(c, NULL, s, p))
      PROVE  /\ Held(c) \in Service!Stops(c) /\ s \in Slot /\ Service!MayStart(c, Held(c), s)
             /\ Service!Becomes(Service!Started(Service!Off(Service!Table, Held(c)), c, s, p))
  <2>1. s \in FreeGet(Before(c, timerEvt)) /\ Started(c, timerEvt, s, p) = Started(c, NULL, s, p)
    BY <1>1
  <2>2. /\ Service!Started(Service!Off(Seen(Pool), Held(c)), c, s, p) = Seen(Started(c, NULL, s, p))
        /\ s \in Slot /\ Service!MayStart(c, Held(c), s)
    BY <1>3, <1>5, <2>1, SeenStarted
  <2> QED
    BY <1>1, <1>5, <2>2, HeldStops, SeenNow, SeenNext DEF Service!Becomes
<1> DEFINE asked ==
             \E c \in Service!Client : \E S \in Service!Stops(c) :
                \/ Service!Becomes(Service!Off(Service!Table, S))
                \/ \E s \in Slot, p \in Periods[c] :
                      Service!MayStart(c, S, s)
                      /\ Service!Becomes(Service!Started(Service!Off(Service!Table, S), c, s, p))
<1>6. ASSUME NEW c \in Restarted, Becomes(Cancelled(Pool, c, NULL)) PROVE Service!Request
  <2>1. /\ c \in Service!Client /\ Held(c) \in Service!Stops(c)
        /\ Service!Becomes(Service!Off(Service!Table, Held(c)))
    BY <1>4, <1>6, ServedClients
  <2>2. asked
    BY <2>1, Zenon DEF Service!Becomes
  <2> QED
    BY <1>1, <1>2, <2>2 DEF Service!Request
<1>7. ASSUME NEW c \in Client, MayStart(c), NEW s \in FreeGet(Before(c, NULL)),
             NEW p \in Periods[c], Becomes(Started(c, NULL, s, p))
      PROVE  Service!Request
  <2>1. /\ c \in Service!Client /\ Held(c) \in Service!Stops(c)
        /\ s \in Slot /\ Service!MayStart(c, Held(c), s)
        /\ Service!Becomes(Service!Started(Service!Off(Service!Table, Held(c)), c, s, p))
    BY <1>5, <1>7, ServedClients
  <2>2. asked
    BY <2>1, Zenon DEF Service!Becomes
  <2> QED
    BY <1>1, <1>2, <2>2 DEF Service!Request
<1> QED
  BY <1>6, <1>7 DEF Request

LEMMA ServedVisit ==
    ASSUME IInv, Visit
    PROVE  (\E s \in Slot : Service!Call(s)) \/ UNCHANGED Service!vars
<1> DEFINE s == timerEvt
           own == evt[timerEvt].cb
<1>1. s # NULL /\ UNCHANGED since /\ s \in Slot /\ evt[s].used
  BY DEF Visit, IInv, WalkOK
<1>2. CASE evt[s].timeout # 0 /\ GoOn(list) /\ UNCHANGED <<evt, list, used_num, handle>>
  BY <1>1, <1>2 DEF Service!vars, Left, Expired
<1>3. ASSUME evt[s].timeout = 0, NEW next \in Outcomes(own), NEW t, Kept(t), Called(t, s, next)
      PROVE  Service!Becomes(Service!Called(Seen(t), s, next))
  <2>1. Service!Called(Seen(t), s, next) = Seen(Returned(t, s, next))
    BY <1>1, <1>3, SeenReturned
  <2>2. Becomes(Returned(t, s, next))
    BY <1>3 DEF Called
  <2> QED
    BY <1>1, <2>1, <2>2, SeenNext DEF Service!Becomes
<1>4. CASE evt[s].timeout = 0
  <2>1. Expired(s) /\ s \in {q \in Slot : Expired(q)}
    BY <1>1, <1>4 DEF Expired
  <2>2. [q \in Slot |-> evt[q].cb][s] = own
    BY <1>1
  <2>3. ASSUME NEW next \in Outcomes(own), Called(Pool, s, next)
        PROVE  Service!Becomes(Service!Called(Service!Table, s, next))
    BY <1>3, <1>4, <2>3, PoolKept, SeenNow DEF Service!Becomes
  <2>4. ASSUME NEW next \in Outcomes(own), NEW c \in Restarted \ {own},
               Called(Cancelled(Pool, c, s), s, next)
        PROVE  /\ c \in Client /\ Held(c) \in Service!Stops(c)
               /\ Service!Becomes(Service!Called(Service!Off(Service!Table, Held(c)), s, next))
    <3>1. Kept(Cancelled(Pool, c, s))
      BY CancelledKept DEF Other
    <3>2. Service!Off(Seen(Pool), Held(c)) = Seen(Cancelled(Pool, c, s))
      BY <1>1, SeenCancelled
    <3>3. c \in Client
      BY DEF Client
    <3>4. Held(c) \in Service!Stops(c)
      BY <3>3, HeldStops
    <3> QED
      BY <1>3, <1>4, <2>4, <3>1, <3>2, <3>3, <3>4, SeenNow DEF Service!Becomes
  <2>5. ASSUME NEW next \in Outcomes(own), NEW c \in Client \ {own}, MayStart(c),
               NEW n \in FreeGet(Before(c, s)), NEW p \in Periods[c],
               Called(Started(c, s, n, p), s, next)
        PROVE  /\ Held(c) \in Service!Stops(c) /\ n \in Slot /\ Service!MayStart(c, Held(c), n)
               /\ Service!Becomes(Service!Called(
                      Service!Started(Service!Off(Service!Table, Held(c)), c, n, p), s, next))
    <3>1. Kept(Started(c, s, n, p))
      BY <2>5, ScheduledKept DEF Other
    <3>2. /\ Service!Started(Service!Off(Seen(Pool), Held(c)), c, n, p) = Seen(Started(c, s, n, p))
          /\ n \in Slot /\ Service!MayStart(c, Held(c), n)
      BY <2>5, SeenStarted DEF Other
    <3>3. Held(c) \in Service!Stops(c)
      BY HeldStops
    <3> QED
      BY <1>3, <1>4, <2>5, <3>1, <3>2, <3>3, SeenNow DEF Service!Becomes
  <2>6. PICK next \in Outcomes(own) :
          \/ Called(Pool, s, next)
          \/ \E c \in Restarted \ {own} : Called(Cancelled(Pool, c, s), s, next)
          \/ \E c \in Client \ {own} : MayStart(c) /\
                 \E n \in FreeGet(Before(c, s)), p \in Periods[c] :
                     Called(Started(c, s, n, p), s, next)
    BY <1>4 DEF Visit
  <2>7. next \in Service!Outcomes([q \in Slot |-> evt[q].cb][s])
    BY <2>2, ServedClients
  <2> DEFINE is == [q \in Slot |-> evt[q].cb][s]
             called ==
               \E n \in Service!Outcomes(is) :
                  \/ Service!Becomes(Service!Called(Service!Table, s, n))
                  \/ \E c \in Service!Client \ {is} : \E S \in Service!Stops(c) :
                        \/ Service!Becomes(Service!Called(Service!Off(Service!Table, S), s, n))
                        \/ \E q \in Slot, p \in Periods[c] :
                              /\ Service!MayStart(c, S, q)
                              /\ Service!Becomes(Service!Called(
                                    Service!Started(Service!Off(Service!Table, S), c, q, p), s, n))
  <2>8. ASSUME called PROVE Service!Call(s)
    BY <1>1, <2>1, <2>8 DEF Service!Call, Service!Becomes
  <2>9. CASE Called(Pool, s, next)
    <3>1. Service!Becomes(Service!Called(Service!Table, s, next))
      BY <2>3, <2>9
    <3>2. called
      BY <2>7, <3>1, Zenon DEF Service!Becomes
    <3> QED
      BY <1>1, <2>8, <3>2
  <2>10. CASE \E c \in Restarted \ {own} : Called(Cancelled(Pool, c, s), s, next)
    <3>1. PICK c \in Restarted \ {own} : Called(Cancelled(Pool, c, s), s, next)
      BY <2>10
    <3>2. /\ c \in Service!Client \ {[q \in Slot |-> evt[q].cb][s]}
          /\ Held(c) \in Service!Stops(c)
          /\ Service!Becomes(Service!Called(Service!Off(Service!Table, Held(c)), s, next))
      BY <2>2, <2>4, <3>1, ServedClients
    <3>3. called
      BY <2>7, <3>2, Zenon DEF Service!Becomes
    <3> QED
      BY <1>1, <2>8, <3>3
  <2>11. CASE \E c \in Client \ {own} : MayStart(c) /\
                \E n \in FreeGet(Before(c, s)), p \in Periods[c] :
                    Called(Started(c, s, n, p), s, next)
    <3>1. PICK c \in Client \ {own} : MayStart(c) /\
             \E n \in FreeGet(Before(c, s)), p \in Periods[c] :
                 Called(Started(c, s, n, p), s, next)
      BY <2>11
    <3>2. PICK n \in FreeGet(Before(c, s)), p \in Periods[c] : Called(Started(c, s, n, p), s, next)
      BY <3>1
    <3>3. /\ c \in Service!Client \ {[q \in Slot |-> evt[q].cb][s]}
          /\ Held(c) \in Service!Stops(c) /\ n \in Slot /\ p \in Periods[c]
          /\ Service!MayStart(c, Held(c), n)
          /\ Service!Becomes(Service!Called(
                Service!Started(Service!Off(Service!Table, Held(c)), c, n, p), s, next))
      BY <2>2, <2>5, <3>1, <3>2, ServedClients
    <3>4. \E d \in Service!Client \ {is} : \E S \in Service!Stops(d) : \E q \in Slot, r \in Periods[d] :
             /\ Service!MayStart(d, S, q)
             /\ Service!Becomes(Service!Called(
                   Service!Started(Service!Off(Service!Table, S), d, q, r), s, next))
      <4> HIDE DEF is
      <4>1. c \in Service!Client \ {is}
        BY <3>3 DEF is
      <4>2. \E q \in Slot, r \in Periods[c] :
               /\ Service!MayStart(c, Held(c), q)
               /\ Service!Becomes(Service!Called(
                     Service!Started(Service!Off(Service!Table, Held(c)), c, q, r), s, next))
        BY <3>3, Zenon DEF Service!Becomes
      <4> QED
        BY <3>3, <4>1, <4>2, Zenon DEF Service!Becomes
    <3>5. called
      BY <2>7, <3>4, Zenon DEF Service!Becomes
    <3> QED
      BY <1>1, <2>8, <3>5
  <2> QED
    BY <2>6, <2>10, <2>11, <2>9
<1> QED
  BY <1>1, <1>2, <1>4 DEF Visit

(* What a client has forgotten runs on.                                    *)
LEMMA ServedForget == ASSUME Forget PROVE UNCHANGED Service!vars
  BY DEF Forget, Service!vars, Left, Expired

LEMMA ServedReset == ASSUME IInv, Reset PROVE Service!Reset
<1>1. \A s \in Slot : evt[s].used
  <2>1. PICK c \in Client : /\ timerEvt # NULL => c # evt[timerEvt].cb
                            /\ Exhausted(c, timerEvt)
    BY DEF Reset
  <2>2. Other(c)
    BY <2>1 DEF Other
  <2> DEFINE t == Before(c, timerEvt)
  <2>3. timerEvt \in Slot \cup {NULL} /\ Good(Pool)
    BY DEF IInv, WalkOK
  <2>4. Good(t) /\ \A s \in Slot : t.evt[s].used => evt[s].used
    <3>1. CASE c \in Restarted
      <4>1. Good(t) /\ t.evt = [s \in Slot |-> IF s = handle[c] THEN Free ELSE evt[s]]
        <5>1. timerEvt # NULL => Pool.evt[timerEvt].cb # c
          BY <2>2, PoolFields DEF Other
        <5>2. t = Cancelled(Pool, c, timerEvt)
          BY <3>1 DEF Before
        <5> DEFINE u == Cancelled(Pool, c, timerEvt)
        <5>3. Good(u) /\ u.evt = [s \in Slot |-> IF s = Pool.handle[c] THEN Free ELSE Pool.evt[s]]
          BY <2>3, <3>1, <5>1, CancelledPool
        <5> HIDE DEF t, u
        <5>4. t = u
          BY <5>2 DEF u
        <5> QED
          BY <5>3, <5>4, PoolFields
      <4> QED
        BY <4>1, FreeOK
    <3>2. CASE c \notin Restarted
      BY <2>3, <3>2, PoolFields DEF Before
    <3> QED
      BY <3>1, <3>2
  <2>5. t.used_num >= Cardinality(Slot) \/ \A s \in Slot : t.evt[s].used
    BY <2>1 DEF Exhausted
  <2> HIDE DEF t
  <2>6. ASSUME t.used_num >= Cardinality(Slot) PROVE UsedIn(t) = Slot
    <3>1. UsedIn(t) \subseteq Slot /\ t.used_num = Cardinality(UsedIn(t)) /\ t.used_num \in Nat
      BY <2>4 DEF UsedIn, Good, ListOK, PoolRec
    <3>2. IsFiniteSet(Slot) /\ Cardinality(Slot) \in Nat
      BY EvTimerAssumption, FS_CardinalityType
    <3> QED
      BY <2>6, <3>1, <3>2, FS_Subset
  <2> QED
    BY <2>4, <2>5, <2>6 DEF UsedIn
<1>2. Service!Running = Slot
  <2>1. \A s \in Slot : evt[s].cb # Nobody
    BY <1>1, NobodyFree, PoolFields DEF IInv, Good
  <2> QED
    BY <2>1 DEF Service!Running
<1>3. evt' = [s \in Slot |-> Free] /\ since' = 0
  BY DEF Reset, AtBoot
<1>4. ASSUME NEW s \in Slot PROVE evt'[s].cb = Nobody /\ Left(evt[s])' = 0 /\ ~Expired(s)'
  BY <1>3, FreeOK DEF Left, Free, Minus, Expired
<1> QED
  BY <1>2, <1>3, <1>4 DEF Service!Reset

(* The pool, the list and the walk are an implementation of the service:   *)
(* whatever the callbacks start, stop and ask for, a pass calls just the   *)
(* timers that were due when it began, once, and none early.               *)
THEOREM ServiceIsImplemented == Spec => ServiceImplemented
<1>1. Init => Service!Init
  BY FreeOK, LeftOfFree DEF Init, AtBoot, Service!Init, Expired
<1>2. IInv /\ [Next]_vars => [Service!Next]_(Service!vars)
  <2> SUFFICES ASSUME IInv, [Next]_vars PROVE [Service!Next]_(Service!vars)
    OBVIOUS
  <2>1. CASE UNCHANGED vars
    BY <2>1 DEF vars, Service!vars, Left, Expired
  <2> QED
    BY <2>1, ServedElapse, ServedPass, ServedRequest, ServedForget, ServedVisit, ServedReset
    DEF Next, Service!Next
<1> QED
  BY <1>1, <1>2, AlwaysIInv, PTL DEF Spec, ServiceImplemented, Service!Spec
=============================================================================
