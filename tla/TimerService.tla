---------------------------- MODULE TimerService ----------------------------
(***************************************************************************)
(* What the timers of the SDK promise to the application (ev_timer.h), and *)
(* what the other modules rely on: a timer is called when its time has     *)
(* passed and never before; every pass of the main loop calls each timer   *)
(* that was due when it began, once, whatever the callbacks start and      *)
(* stop; and a client that stops its timer stops that one, unless it has   *)
(* forgotten which it is.                                                  *)
(***************************************************************************)
EXTENDS Integers

CONSTANTS
    Slot,         \* identities of timers
    Restarted,    \* clients that stop the timer they have before they start one
    Forgetful,    \* those of them that may forget which timer they have
    Periodic,     \* clients with one timer, which is never stopped
    OneShot,      \* clients with any number of timers, each called once
    Nobody,       \* of a timer that is not running
    Periods,      \* Periods[c]: the times, in ticks, that client c asks for
    MaxBlock      \* bound: a pass begins at most so long after the last one

Client == Restarted \cup Periodic \cup OneShot

VARIABLES
    whose,    \* whose[s]: the client whose timer s is, or Nobody
    left,     \* left[s]: the time until it is due
    overdue,  \* the timers the pass has to call
    elapsed   \* the time since the pass began

vars == <<whose, left, overdue, elapsed>>

Minus(a, b) == IF a > b THEN a - b ELSE 0

Running == {s \in Slot : whose[s] # Nobody}

Init ==
    /\ whose = [s \in Slot |-> Nobody] /\ left = [s \in Slot |-> 0]
    /\ overdue = {} /\ elapsed = 0

Elapse ==
    /\ elapsed < MaxBlock /\ elapsed' = elapsed + 1
    /\ left' = [s \in Slot |-> Minus(left[s], 1)]
    /\ UNCHANGED <<whose, overdue>>

Pass ==
    /\ overdue = {} /\ elapsed > 0
    /\ overdue' = {s \in Running : left[s] = 0} /\ elapsed' = 0
    /\ UNCHANGED <<whose, left>>

-----------------------------------------------------------------------------
(* What clients ask for, as changes of [whose, left, overdue].             *)

Table == [whose |-> whose, left |-> left, overdue |-> overdue]

Becomes(t) == whose' = t.whose /\ left' = t.left /\ overdue' = t.overdue

Off(t, S) ==
    [whose   |-> [s \in Slot |-> IF s \in S THEN Nobody ELSE t.whose[s]],
     left    |-> [s \in Slot |-> IF s \in S THEN 0 ELSE t.left[s]],
     overdue |-> t.overdue \ S]

Own(c) == {s \in Slot : whose[s] = c}

(* What client c stops before it starts a timer, or instead: all it has;   *)
(* one that forgets stops the one it remembers, if any.                    *)
Stops(c) ==
    CASE c \in Forgetful             -> {{}} \cup {{s} : s \in Own(c)}
      [] c \in Restarted \ Forgetful -> {Own(c)}
      [] OTHER                       -> {{}}

Started(t, c, s, p) ==
    [whose |-> [t.whose EXCEPT ![s] = c], left |-> [t.left EXCEPT ![s] = p],
     overdue |-> t.overdue]

(* Client c may start timer s once it has stopped those in S.              *)
MayStart(c, S, s) ==
    /\ c \in Periodic => Own(c) = {}
    /\ whose[s] = Nobody \/ s \in S

Request ==
    /\ overdue = {}
    /\ \E c \in Client : \E S \in Stops(c) :
          \/ Becomes(Off(Table, S))
          \/ \E s \in Slot, p \in Periods[c] :
                MayStart(c, S, s) /\ Becomes(Started(Off(Table, S), c, s, p))
    /\ UNCHANGED elapsed

(* A timer that has been called ends, which is written as a next period of *)
(* 0, or goes on: its next period counts from the beginning of the pass.   *)
Outcomes(c) ==
    (IF c \in Periodic THEN {} ELSE {0}) \cup (IF c \in OneShot THEN {} ELSE Periods[c])

Called(t, s, next) ==
    IF next = 0 THEN Off(t, {s})
    ELSE [t EXCEPT !.left = [t.left EXCEPT ![s] = Minus(next, elapsed)], !.overdue = @ \ {s}]

(* While it is called, it may make a request for another client.           *)
Call(s) ==
    /\ s \in overdue
    /\ \E next \in Outcomes(whose[s]) :
          \/ Becomes(Called(Table, s, next))
          \/ \E c \in Client \ {whose[s]} : \E S \in Stops(c) :
                \/ Becomes(Called(Off(Table, S), s, next))
                \/ \E n \in Slot, p \in Periods[c] :
                      /\ MayStart(c, S, n)
                      /\ Becomes(Called(Started(Off(Table, S), c, n, p), s, next))
    /\ UNCHANGED elapsed

(* A client asks for one timer too many: the system exception resets.      *)
Reset ==
    /\ Running = Slot
    /\ whose' = [s \in Slot |-> Nobody] /\ left' = [s \in Slot |-> 0]
    /\ overdue' = {} /\ elapsed' = 0

Next == Elapse \/ Pass \/ Request \/ (\E s \in Slot : Call(s)) \/ Reset

Spec == Init /\ [][Next]_vars
=============================================================================
