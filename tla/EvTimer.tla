------------------------------- MODULE EvTimer -------------------------------
(***************************************************************************)
(* The timers of the SDK (proj/os/ev_timer.c): a pool of records, those in *)
(* use on a list with the newest first, and a pass of the main loop that   *)
(* walks the list while the callbacks it calls change it.                  *)
(*                                                                         *)
(* The clients are the application's kinds: a handle that is stopped and   *)
(* started over (the LED, the sound, steering); such a handle that may be  *)
(* cleared while its timer runs (the outdoor sensor, whose memset takes it *)
(* with the table, and the screen, whose nested update overwrites it); a   *)
(* timer that runs for good (button, clock, measurements, LQI); and one    *)
(* that is scheduled without a handle and ends by itself (the LQI pages).  *)
(* Time is counted in ticks.                                               *)
(***************************************************************************)
EXTENDS Integers, Sequences, FiniteSets

CONSTANTS
    Slot,         \* timerEventPool.evt: TIMER_EVENT_NUM records
    Restarted, Forgetful, Periodic, OneShot, Nobody, Periods, MaxBlock,
                  \* as in TimerService
    NULL,
    MaxLost       \* bound: how often a client forgets its timer

Client == Restarted \cup Periodic \cup OneShot

ASSUME EvTimerAssumption ==
    /\ Slot \subseteq Nat /\ IsFiniteSet(Slot) /\ NULL \notin Slot /\ Nobody \notin Client
    /\ Forgetful \subseteq Restarted
    /\ Restarted \cap (Periodic \cup OneShot) = {} /\ Periodic \cap OneShot = {}
    /\ Periods \in [Client -> SUBSET (Nat \ {0})]
    /\ MaxBlock \in Nat /\ MaxLost \in Nat

VARIABLES
    evt,        \* the records of the pool
    list,       \* timer_head and what follows it
    used_num,   \* timerEventPool.used_num
    handle,     \* what the restarted clients hold
    since,      \* the time since prevSysTick
    timerEvt,   \* the record the pass is at, NULL when there is no pass
    prev_head,
    lost        \* observer: how often each of those has forgotten a running timer

vars == <<evt, list, used_num, handle, since, timerEvt, prev_head, lost>>

EvtRec ==
    [used : BOOLEAN, cb : Client \cup {Nobody}, timeout : Nat, isRunning : BOOLEAN,
     age : Nat]    \* age: the time since curSysTick

Listed(l) == {l[i] : i \in 1..Len(l)}
First(l) == IF l = << >> THEN NULL ELSE l[1]

-----------------------------------------------------------------------------
(* The functions of the pool, on t = [evt, list, used_num, handle].        *)

Pool == [evt |-> evt, list |-> list, used_num |-> used_num, handle |-> handle]

Becomes(t) ==
    evt' = t.evt /\ list' = t.list /\ used_num' = t.used_num /\ handle' = t.handle

Free == [used |-> FALSE, cb |-> Nobody, timeout |-> 0, isRunning |-> FALSE, age |-> 0]

Deleted(l, s) ==
    [k \in 1..(Len(l) - 1) |-> IF \E j \in 1..k : l[j] = s THEN l[k + 1] ELSE l[k]]

\* the record goes back to the pool and stays on the list
FaultyUnlisted(t, s) ==
    IF s \notin Listed(t.list) THEN t
    ELSE [t EXCEPT !.evt[s] = Free, !.used_num = @ - 1]

ev_unon_timer(t, s) ==
    IF s \notin Listed(t.list) THEN t
    ELSE [t EXCEPT !.evt[s] = Free, !.list = Deleted(@, s), !.used_num = @ - 1]

\* the handle is kept
FaultyCancelled(t, c, busy) ==
    LET s == t.handle[c]
    IN  IF s = NULL \/ s = busy \/ ~t.evt[s].used THEN t ELSE ev_unon_timer(t, s)

(* ev_timer_taskCancel.  The busy record is the one whose callback asks.   *)
Cancelled(t, c, busy) ==
    LET s == t.handle[c]
    IN  IF s = NULL \/ s = busy \/ ~t.evt[s].used THEN t
        ELSE [ev_unon_timer(t, s) EXCEPT !.handle[c] = NULL]

(* ev_timer_freeGet: the first record that is free.                        *)
FreeGet(t) ==
    IF t.used_num >= Cardinality(Slot) THEN {}
    ELSE {s \in Slot : ~t.evt[s].used /\ \A r \in Slot : r < s => t.evt[r].used}

\* the elapsed time is taken as that of any other timer
FaultyScheduled(t, c, s, p) ==
    [evt |-> [t.evt EXCEPT ![s] = [used |-> TRUE, cb |-> c, timeout |-> p,
                                   isRunning |-> TRUE, age |-> 0]],
     list |-> <<s>> \o t.list, used_num |-> t.used_num + 1,
     handle |-> IF c \in Restarted THEN [t.handle EXCEPT ![c] = s] ELSE t.handle]

(* ev_on_timer puts it at the head of the list.                            *)
Scheduled(t, c, s, p) ==
    [evt |-> [t.evt EXCEPT ![s] = [used |-> TRUE, cb |-> c, timeout |-> p,
                                   isRunning |-> FALSE, age |-> 0]],
     list |-> <<s>> \o t.list, used_num |-> t.used_num + 1,
     handle |-> IF c \in Restarted THEN [t.handle EXCEPT ![c] = s] ELSE t.handle]

-----------------------------------------------------------------------------
(* The clients.  Those with a handle cancel the timer they have before     *)
(* they schedule it anew; those that run for good are scheduled once.      *)

MayStart(c) == c \in Periodic => \A s \in Slot : evt[s].cb # c

Before(c, busy) == IF c \in Restarted THEN Cancelled(Pool, c, busy) ELSE Pool

Started(c, busy, s, p) == Scheduled(Before(c, busy), c, s, p)

(* One more timer is asked for than there are: ZB_EXCEPTION_POST, and      *)
(* appSysException resets the monitor.                                     *)
Exhausted(c, busy) ==
    /\ MayStart(c)
    /\ \/ Before(c, busy).used_num >= Cardinality(Slot)
       \/ \A s \in Slot : Before(c, busy).evt[s].used

AtBoot(e, l, n, h, w, at, head, gone) ==
    /\ e = [s \in Slot |-> Free] /\ l = << >> /\ n = 0 /\ h = [c \in Restarted |-> NULL]
    /\ w = 0 /\ at = NULL /\ head = NULL /\ gone = [c \in Restarted |-> 0]

Init == AtBoot(evt, list, used_num, handle, since, timerEvt, prev_head, lost)

(* A task or a message handler.                                            *)
Request ==
    /\ timerEvt = NULL
    /\ \/ \E c \in Restarted : Becomes(Cancelled(Pool, c, NULL))
       \/ \E c \in Client : MayStart(c) /\
              \E s \in FreeGet(Before(c, NULL)), p \in Periods[c] :
                  Becomes(Started(c, NULL, s, p))
    /\ UNCHANGED <<since, timerEvt, prev_head, lost>>

(* bind_outside_init, when a message clears the bindings: the handle goes  *)
(* and the timer stays.  A nested update of the screen comes to a Forget   *)
(* and a Request.                                                          *)
Forget ==
    /\ timerEvt = NULL
    /\ \E c \in Forgetful :
          /\ handle[c] # NULL /\ handle' = [handle EXCEPT ![c] = NULL]
          /\ lost[c] < MaxLost /\ lost' = [lost EXCEPT ![c] = @ + 1]
    /\ UNCHANGED <<evt, list, used_num, since, timerEvt, prev_head>>

(* Time passes: between passes, while tasks hold the loop, and in the      *)
(* callbacks of a pass.                                                    *)
Elapse ==
    /\ since < MaxBlock /\ since' = since + 1
    /\ evt' = [s \in Slot |-> IF evt[s].used /\ ~evt[s].isRunning
                              THEN [evt[s] EXCEPT !.age = @ + 1] ELSE evt[s]]
    /\ UNCHANGED <<list, used_num, handle, timerEvt, prev_head, lost>>

Minus(a, b) == IF a > b THEN a - b ELSE 0

\* a timer that would expire is left as it is
FaultyUpdated(r) ==
    LET passed == IF r.isRunning THEN since ELSE r.age
    IN  IF ~r.used THEN r
        ELSE [r EXCEPT !.timeout = IF @ > passed THEN @ - passed ELSE @,
                       !.isRunning = TRUE, !.age = 0]

(* ev_timer_update: a timer that has been scheduled since the last pass    *)
(* counts from then, not from the last pass.                               *)
Updated(r) ==
    IF ~r.used THEN r
    ELSE [r EXCEPT !.timeout = Minus(@, IF r.isRunning THEN since ELSE r.age),
                   !.isRunning = TRUE, !.age = 0]

(* ev_timer_process, up to the loop of ev_timer_executeCB.                 *)
Process ==
    /\ timerEvt = NULL /\ since > 0
    /\ evt' = [s \in Slot |-> Updated(evt[s])] /\ since' = 0
    /\ timerEvt' = First(list) /\ prev_head' = First(list)
    /\ UNCHANGED <<list, used_num, handle, lost>>

(* To the next record: its pointer outlives its deletion from l.           *)
GoOn(l) ==
    /\ \E i \in 1..Len(l) :
          l[i] = timerEvt /\ timerEvt' = (IF i = Len(l) THEN NULL ELSE l[i + 1])
    /\ prev_head' = IF timerEvt' = NULL THEN NULL ELSE prev_head

(* After a callback the pass starts over if the head is another one.       *)
Advance(l, after) ==
    IF First(after) # prev_head THEN timerEvt' = First(after) /\ prev_head' = First(after)
    ELSE GoOn(l)

(* The callback has cleared the handle before it returns -1, be it that of *)
(* this timer or of one that has been started since this was forgotten.    *)
Ended(t, s, c) ==
    [ev_unon_timer(t, s) EXCEPT !.handle = IF c \in Restarted THEN [@ EXCEPT ![c] = NULL] ELSE @]

(* What a callback may return, -1 written as 0; one that returns 0 asks    *)
(* for the period it had.                                                  *)
Outcomes(c) ==
    (IF c \in Periodic THEN {} ELSE {0}) \cup (IF c \in OneShot THEN {} ELSE Periods[c])

Returned(t, s, next) ==
    IF next = 0 THEN Ended(t, s, evt[s].cb)
    ELSE [t EXCEPT !.evt = [t.evt EXCEPT ![s].timeout = next]]

Called(t, s, next) ==
    Becomes(Returned(t, s, next)) /\ Advance(t.list, Returned(t, s, next).list)

(* The body of the loop of ev_timer_executeCB, for one record.  A callback *)
(* makes at most one request, and none for its own timer.                  *)
Visit ==
    LET s == timerEvt  own == evt[timerEvt].cb
    IN  /\ timerEvt # NULL
        /\ UNCHANGED <<since, lost>>
        /\ \/ evt[s].timeout # 0 /\ GoOn(list)
              /\ UNCHANGED <<evt, list, used_num, handle>>
           \/ evt[s].timeout = 0 /\ \E next \in Outcomes(own) :
                \/ Called(Pool, s, next)
                \/ \E c \in Restarted \ {own} : Called(Cancelled(Pool, c, s), s, next)
                \/ \E c \in Client \ {own} : MayStart(c) /\
                       \E n \in FreeGet(Before(c, s)), p \in Periods[c] :
                           Called(Started(c, s, n, p), s, next)

Reset ==
    /\ \E c \in Client :
          \/ timerEvt = NULL /\ Exhausted(c, NULL)
          \/ timerEvt # NULL /\ evt[timerEvt].timeout = 0 /\ c # evt[timerEvt].cb
             /\ Exhausted(c, timerEvt)
    /\ AtBoot(evt', list', used_num', handle', since', timerEvt', prev_head', lost')

Next == Request \/ Forget \/ Elapse \/ Process \/ Visit \/ Reset

Spec == Init /\ [][Next]_vars

(* Time passes, and the main loop goes on.                                 *)
FairSpec == Spec /\ WF_vars(Elapse) /\ WF_vars(Process) /\ WF_vars(Visit)

-----------------------------------------------------------------------------
(* Properties *)

Used == {s \in Slot : evt[s].used}

(* The pool, the list and the count agree whatever callbacks do: no record *)
(* is on the list twice or free, none in use is off it and never called,   *)
(* and the count neither hides free records nor finds too many.            *)
PoolConsistent ==
    /\ \A s \in Slot : evt[s].used <=> s \in Listed(list)
    /\ \A i, j \in 1..Len(list) : list[i] = list[j] => i = j
    /\ used_num = Cardinality(Used)

\* the timers of a client that it cannot stop
Orphans(c) == {s \in Used : evt[s].cb = c /\ handle[c] # s}

(* A record is given to the next client as soon as it is free, so a handle *)
(* that outlives its timer would cancel someone else's.  None does: a      *)
(* handle is NULL or that of a running timer of the client.  What runs     *)
(* beside it are timers whose handle was cleared: never more than there    *)
(* were such losses, although the callback of each clears, when it ends,   *)
(* the handle of the next; none for a client that never forgets.           *)
HandlesOwned ==
    \A c \in Restarted :
        /\ handle[c] # NULL => handle[c] \in Used /\ evt[handle[c]].cb = c
        /\ Cardinality(Orphans(c)) <= lost[c]

Expired(s) == evt[s].used /\ evt[s].timeout = 0

(* The time until it is due, of which a pass has not been told yet.        *)
Left(r) == Minus(r.timeout, IF r.isRunning THEN since ELSE r.age)

(* The pool, the list and the walk along it keep the promise of            *)
(* TimerService: each pass calls every timer that was due when it began    *)
(* and no other, although callbacks change the list under it; none early,  *)
(* although the loop may have been held up before it was scheduled.        *)
Service == INSTANCE TimerService WITH
    whose <- [s \in Slot |-> evt[s].cb],
    left <- [s \in Slot |-> Left(evt[s])],
    overdue <- {s \in Slot : Expired(s)},
    elapsed <- since

ServiceImplemented == Service!Spec

Runs(s) ==
    evt[s].cb \in Periodic \cup OneShot \/ \E c \in Restarted : s \in Orphans(c)

(* Every timer that nobody can stop expires in the end, and every one that *)
(* has expired is called: no pass goes on for ever, however often          *)
(* callbacks make it start over, and none forgets a timer that it set to   *)
(* 0.                                                                      *)
EveryTimerCalled ==
    \A s \in Slot : /\ Runs(s) ~> Expired(s) \/ ~Runs(s)
                    /\ Expired(s) ~> ~Expired(s)
=============================================================================
