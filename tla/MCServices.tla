------------------------------ MODULE MCServices ------------------------------
(***************************************************************************)
(* Small instances, in one run, of four services of the main loop that     *)
(* share no state: the readings of the outdoor sensor, the link quality,   *)
(* the clock and the lifetime.  Their interleavings show nothing that each *)
(* one alone does not, so service says which of them a behaviour is about, *)
(* and the others stay as they are.  Two hours are four ticks, so that a   *)
(* report can come at any fraction of them.                                *)
(***************************************************************************)
EXTENDS OutsideSensor, Clock, Lifetime, Sequences, Bags

CONSTANTS Near, Rows, MaxPending

VARIABLES
    service,
    row, parent, lqi_true, t_index, start_index, tasks, asked, pages, calm    \* as in Lqi

Link == INSTANCE Lqi

linkVars == <<row, parent, lqi_true, t_index, start_index, tasks, asked, pages, calm>>
timeVars == <<local, offset, time_sent, clocks, due, ask_in, period, answers,
              missed, transit, steady>>
allVars == <<service, joined, vars, linkVars, timeVars, lifetimeVars>>

ServicesInit ==
    /\ service \in {"outside", "link", "time", "life"}
    /\ Init /\ Link!Init /\ ClockInit /\ LifetimeInit
    /\ service # "link" => row = [d \in Link!Router |-> 0]
    /\ service \notin {"link", "time"} => ~joined

OutsideStep ==
    service = "outside" /\ Next /\ UNCHANGED <<service, joined, linkVars, timeVars, lifetimeVars>>

LinkStep == service = "link" /\ Link!Next /\ UNCHANGED <<service, vars, timeVars, lifetimeVars>>

TimeStep == service = "time" /\ ClockNext /\ UNCHANGED <<service, vars, linkVars, lifetimeVars>>

LifeStep ==
    service = "life" /\ LifetimeNext /\ UNCHANGED <<service, joined, vars, linkVars, timeVars>>

(* The fairness of Lqi and Clock, each where it is the service.            *)
Fairness ==
    /\ WF_linkVars(service = "link" /\ Link!app_lqiCb)
    /\ WF_linkVars(service = "link" /\ Link!start_lqi_scan)
    /\ WF_linkVars(service = "link" /\ Link!parentTimerCb)
    /\ WF_linkVars(service = "link" /\ Link!parse_mqmt_lqi)
    /\ WF_timeVars(service = "time" /\ Second)
    /\ WF_timeVars(service = "time" /\ app_clockCb)
    /\ WF_timeVars(service = "time" /\ app_time_cmdCb)
    /\ WF_timeVars(service = "time" /\ app_zclReadRspCmd)

ServicesSpec ==
    /\ ServicesInit
    /\ [][OutsideStep \/ LinkStep \/ TimeStep \/ LifeStep]_allVars
    /\ Fairness

-----------------------------------------------------------------------------
(* The property of the instance, stated in Lqi: a link quality is shown    *)
(* while there is one, and none is without a network.                      *)
LinkFollows == Link!LinkFollows
=============================================================================
