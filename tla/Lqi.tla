-------------------------------- MODULE Lqi --------------------------------
(***************************************************************************)
(* The link quality on the screen (app_lqi.c).  Every minute, or every     *)
(* five seconds while there is none, the monitor looks for itself in the   *)
(* neighbour table of its parent and, when 900 ms after a request it has   *)
(* not been found, in that of a sibling.  A table is read row by row: an   *)
(* answer that does not list the monitor asks for the next row.            *)
(*                                                                         *)
(* Both searches share one start index, and answers may come late, in      *)
(* another search, or not at all.                                          *)
(***************************************************************************)
EXTENDS Integers, Sequences, Bags

CONSTANTS
    Near,          \* which of "parent" and "sibling" g_zb_neighborTbl has
    Rows,          \* the length of a neighbour table
    MaxPending     \* bound on tasks, requests and timers under way

Router == Near \cup {"coordinator"}

NONE == 0
SIBLING == 2

VARIABLES
    joined,        \* zb_isDeviceJoinedNwk
    row,           \* row[d]: where the table of d lists the monitor, or Rows
    parent,        \* whom the search asks; beyond SIBLING it is one value
    lqi_true,      \* lqi has been found
    t_index,       \* the row it was found at
    start_index,
    tasks,         \* start_lqi_scan posted, each with idx
    asked,         \* the bag of Mgmt_Lqi requests that may yet be answered
    pages,         \* the pending timers of parentTimerCb
    calm           \* nothing changes any more, and answers come in time

vars == <<joined, row, parent, lqi_true, t_index, start_index,
          tasks, asked, pages, calm>>

Init ==
    /\ joined \in BOOLEAN
    /\ row \in [Router -> 0..Rows]
    /\ parent = NONE /\ lqi_true = FALSE
    /\ t_index = 0 /\ start_index = 0
    /\ tasks = << >> /\ asked = EmptyBag /\ pages = 0 /\ calm = FALSE

MayGrow == Len(tasks) + BagCardinality(asked) + pages < MaxPending

-----------------------------------------------------------------------------

(* app_lqiCb, by its timer, or by the screen when it shows that the        *)
(* network has been joined.                                                *)
app_lqiCb ==
    /\ MayGrow /\ tasks = << >> /\ (calm => pages = 0)
    /\ parent' = NONE /\ tasks' = <<0>>
    /\ UNCHANGED <<joined, row, lqi_true, t_index, start_index, asked, pages, calm>>

(* The router of the search, or the coordinator.                           *)
Asked ==
    IF parent = NONE /\ "parent" \in Near THEN "parent"
    ELSE IF parent = SIBLING /\ "sibling" \in Near THEN "sibling" ELSE "coordinator"

\* what was shown is left when the network is
FaultyGone == UNCHANGED <<lqi_true, t_index>>

Gone == lqi_true' = FALSE /\ t_index' = 0

start_lqi_scan ==
    /\ tasks # << >> /\ tasks' = Tail(tasks)
    /\ \/ ~joined /\ Gone /\ UNCHANGED <<start_index, asked, pages>>
       \/ joined
          /\ lqi_true' = FALSE
          /\ start_index' = Head(tasks) + (IF Head(tasks) = 0 THEN t_index ELSE start_index)
          /\ asked' = asked (+) SetToBag({[to |-> Asked, from |-> start_index']})
          /\ pages' = pages + 1
          /\ UNCHANGED t_index
    /\ UNCHANGED <<joined, row, parent, calm>>

(* parentTimerCb.  In a calm network the answers have come by then.        *)
parentTimerCb ==
    /\ pages > 0 /\ pages' = pages - 1
    /\ calm => asked = EmptyBag /\ tasks = << >>
    /\ IF parent = NONE THEN parent' = SIBLING /\ tasks' = Append(tasks, 0)
                        ELSE UNCHANGED <<parent, tasks>>
    /\ UNCHANGED <<joined, row, lqi_true, t_index, start_index, asked, calm>>

\* the row it was found at is kept
FaultyMissed(r) ==
    /\ tasks' = IF r.from < Rows THEN Append(tasks, 1) ELSE tasks
    /\ UNCHANGED <<lqi_true, t_index, parent>>

Missed(r) ==
    /\ tasks' = IF r.from < Rows THEN Append(tasks, 1) ELSE tasks
    /\ t_index' = IF lqi_true THEN t_index ELSE 0
    /\ UNCHANGED <<lqi_true, parent>>

Found(r) ==
    /\ lqi_true' = TRUE /\ t_index' = r.from
    /\ parent' = IF parent > SIBLING THEN parent ELSE parent + 1
    /\ UNCHANGED tasks

(* An answer, of whichever request, has a row of the table or none.        *)
parse_mqmt_lqi ==
    /\ \E r \in BagToSet(asked) :
          /\ asked' = asked (-) SetToBag({r})
          /\ IF r.from = row[r.to] /\ r.from < Rows THEN Found(r) ELSE Missed(r)
    /\ UNCHANGED <<joined, row, start_index, pages, calm>>

-----------------------------------------------------------------------------
(* The network *)

Lose ==
    /\ ~calm
    /\ \E r \in BagToSet(asked) : asked' = asked (-) SetToBag({r})
    /\ UNCHANGED <<joined, row, parent, lqi_true, t_index, start_index, tasks, pages, calm>>

(* A leave, a join, another parent, another order of a table.              *)
Change ==
    /\ ~calm
    /\ \/ joined' = ~joined /\ UNCHANGED row
       \/ \E d \in Router, k \in 0..Rows : row' = [row EXCEPT ![d] = k] /\ UNCHANGED joined
    /\ UNCHANGED <<parent, lqi_true, t_index, start_index, tasks, asked, pages, calm>>

Calm ==
    /\ ~calm /\ calm' = TRUE
    /\ UNCHANGED <<joined, row, parent, lqi_true, t_index, start_index, tasks, asked, pages>>

Next ==
    \/ app_lqiCb \/ start_lqi_scan \/ parentTimerCb \/ parse_mqmt_lqi
    \/ Lose \/ Change \/ Calm

Spec == Init /\ [][Next]_vars

(* Timers fire, tasks run, and a request that is not lost is answered.     *)
FairSpec ==
    Spec /\ WF_vars(app_lqiCb) /\ WF_vars(start_lqi_scan)
         /\ WF_vars(parentTimerCb) /\ WF_vars(parse_mqmt_lqi)

-----------------------------------------------------------------------------
(* Properties *)

Findable ==
    \/ row[IF "parent" \in Near THEN "parent" ELSE "coordinator"] < Rows
    \/ row[IF "sibling" \in Near THEN "sibling" ELSE "coordinator"] < Rows

(* The screen follows the network, whatever late answers and changes have  *)
(* left in the indices: where a router that is asked lists the monitor, a  *)
(* link quality is shown again and again, and out of the network none is.  *)
LinkFollows ==
    /\ <>[](calm /\ joined /\ Findable) => []<>lqi_true
    /\ <>[](calm /\ ~joined) => <>[]~lqi_true
=============================================================================
