------------------------------ MODULE Reporting ------------------------------
(***************************************************************************)
(* Attribute reporting of the monitor (src/zcl/zcl_reporting.c).           *)
(*                                                                         *)
(* The reporting table holds one entry per reportable attribute.  One      *)
(* shared one-shot timer (reportAttrTimerEvt) counts the minIntCnt and     *)
(* maxIntCnt counters of ALL entries down: it is armed for the smallest    *)
(* running counter and its callback subtracts that many seconds from every *)
(* counter, whatever happened to the counter in between.  report_handler   *)
(* runs from the idle loop, reports what is due and re-arms the timer.     *)
(*                                                                         *)
(* Entries and the functions on them are in ReportTable; which of the due  *)
(* attributes share a frame is the subject of module ReportFrames.         *)
(***************************************************************************)
EXTENDS ReportTable

CONSTANTS
    Default,      \* Default[e]: what bdb_defaultReportingCfg asks for, or NotUsed
    Configs,      \* the records a Configure Reporting command may carry
    Values,       \* the values an attribute takes; InitValue at power up
    InitValue,
    Erased,       \* prevData after zcl_reportingTab_restore (all bytes 0xFF)
    NoTable,      \* no reporting table in the NV memory yet
    NotUsed,      \* the slot is free at boot
    Environment,  \* which external events occur: see EnvironmentEvents
    Cap           \* bound at which the observer's clocks saturate

EnvironmentEvents == {"gate", "bind", "restart"}

(***************************************************************************)
(* What zcl_configureReporting lets through (its INVALID_VALUE check); the *)
(* pair (NoReport, 0) asks for the defaults and carries no intervals.      *)
(***************************************************************************)
Acceptable(c) == c.max \in {0, NoReport} \/ c.min <= c.max

(* Observed intervals fit under the bound of the observer's clocks. *)
Observable(c) == c.max # NoReport => c.max <= Cap

ASSUME ReportingAssumption ==
    /\ NoReport \in Nat \ {0}
    /\ Values \subseteq Int /\ InitValue \in Values
    /\ Erased \in Int
    /\ Environment \subseteq EnvironmentEvents
    /\ Configs \subseteq ConfigRec
    /\ \A c \in Configs : c.min <= NoReport /\ c.max <= NoReport /\ Observable(c)
    /\ NotUsed \notin ConfigRec
    /\ Default \in [Entry -> ConfigRec \cup {NotUsed}]
    /\ \A e \in Entry : Default[e] # NotUsed =>
           /\ Acceptable(Default[e]) /\ Observable(Default[e])
           /\ Default[e].min < NoReport /\ Default[e].max < NoReport
    /\ Cap \in Nat

VARIABLES
    tab,      \* reportingTab
    data,     \* the attribute values the application writes
    bound,    \* clusters with an entry in the binding table
    seconds,  \* argument of the pending reportAttrTimerEvt, 0 when it is NULL
    left,     \* seconds until that timer fires
    open,     \* joined, BDB idle and button idle: app_task reaches report_handler
    ran,      \* report_handler ran since the last event that gives it work
    nv,       \* the reporting table in NV memory
    since,    \* observer: seconds since the entry reported or was (re)started
    lost,     \* observer: of these, seconds that no timer was counting
    stale,    \* observer: open seconds a reportable change has been waiting
    fresh     \* observer: no report of the entry since boot

code == <<tab, data, bound, seconds, left, open, ran, nv>>
observer == <<since, lost, stale, fresh>>
vars == <<tab, data, bound, seconds, left, open, ran, nv, since, lost, stale, fresh>>

FlagsOK == open \in BOOLEAN /\ ran \in BOOLEAN

TypeOK ==
    /\ FlagsOK
    /\ tab \in [Entry -> EntryRec]
    /\ data \in [Entry -> Values]
    /\ bound \subseteq ReportedClusters
    /\ seconds \in Nat /\ left \in 0..seconds
    /\ nv \in [Entry -> EntryRec] \cup {NoTable}
    /\ since \in [Entry -> 0..Cap] /\ lost \in [Entry -> 0..Cap]
    /\ stale \in [Entry -> 0..Cap] /\ fresh \in [Entry -> BOOLEAN]

-----------------------------------------------------------------------------
DefaultTable ==
    [e \in Entry |-> IF Default[e] = NotUsed THEN Free ELSE Updated(Free, Default[e])]

\* armed for the first running counter found, not for the smallest
FaultyTimerStart(t) ==
    IF seconds # 0 \/ Deadlines(t, bound) \subseteq {0}
    THEN UNCHANGED <<seconds, left>>
    ELSE seconds' \in Deadlines(t, bound) \ {0} /\ left' = seconds'

(* reportAttrTimerStart *)
TimerStart(t) ==
    IF seconds # 0 \/ Deadlines(t, bound) \subseteq {0}
    THEN UNCHANGED <<seconds, left>>
    ELSE /\ seconds' \in Deadlines(t, bound) \ {0}
         /\ \A d \in Deadlines(t, bound) \ {0} : seconds' <= d
         /\ left' = seconds'

Plus(a, b) == IF a + b < Cap THEN a + b ELSE Cap

-----------------------------------------------------------------------------
(* Observer: how long each active entry has been waiting, and how much of  *)
(* that time the shared timer did not count.                               *)

Elapsed == seconds - left

Restarted(f, e) == [f EXCEPT ![e] = 0]

-----------------------------------------------------------------------------
Init ==
    /\ tab = DefaultTable
    /\ data = [e \in Entry |-> InitValue]
    /\ bound \in SUBSET ReportedClusters
    /\ seconds = 0 /\ left = 0
    /\ open = ("gate" \notin Environment) /\ ran = FALSE
    /\ nv = NoTable
    /\ since = [e \in Entry |-> 0] /\ lost = [e \in Entry |-> 0]
    /\ stale = [e \in Entry |-> 0] /\ fresh = [e \in Entry |-> TRUE]

(* A sensor task or the ZCL layer writes an attribute. *)
SetAttr(e, v) ==
    /\ v # data[e]
    /\ data' = [data EXCEPT ![e] = v]
    /\ ran' = FALSE
    /\ stale' = IF Changed(tab[e], v) THEN stale ELSE Restarted(stale, e)
    /\ UNCHANGED <<tab, bound, seconds, left, open, nv, since, lost, fresh>>

(* report_handler, called from app_task: reportAttrs, then the timer *)
ReportHandler ==
    /\ open
    /\ tab' = [e \in Entry |-> Reported(tab, bound, data, e)]
    /\ TimerStart(tab')
    /\ ran' = TRUE
    /\ since' = [e \in Entry |-> IF Due(tab, bound, data, e) THEN 0 ELSE since[e]]
    /\ lost' = [e \in Entry |-> IF Due(tab, bound, data, e) THEN 0 ELSE lost[e]]
    /\ stale' = [e \in Entry |-> IF Due(tab, bound, data, e) THEN 0 ELSE stale[e]]
    /\ fresh' = [e \in Entry |-> fresh[e] /\ ~Due(tab, bound, data, e)]
    /\ UNCHANGED <<data, bound, open, nv>>

\* the callback that ends a minimum interval does not count the maximum one
FaultyTimerCb ==
    /\ seconds # 0 /\ left = 0
    /\ tab' = [e \in Entry |->
                 IF Active(tab, bound, e)
                 THEN [tab[e] EXCEPT !.minIntCnt = Minus(@, seconds),
                                     !.maxIntCnt = IF tab[e].minIntCnt <= seconds
                                                   THEN @ ELSE Minus(@, seconds)]
                 ELSE tab[e]]
    /\ seconds' = 0 /\ left' = 0
    /\ ran' = FALSE
    /\ UNCHANGED <<data, bound, open, nv, since, lost, stale, fresh>>

(* reportAttrTimerCb *)
TimerCb ==
    /\ seconds # 0 /\ left = 0
    /\ tab' = [e \in Entry |->
                 IF Active(tab, bound, e)
                 THEN [tab[e] EXCEPT !.minIntCnt = Minus(@, seconds),
                                     !.maxIntCnt = Minus(@, seconds)]
                 ELSE tab[e]]
    /\ seconds' = 0 /\ left' = 0
    /\ ran' = FALSE
    /\ UNCHANGED <<data, bound, open, nv, since, lost, stale, fresh>>

(* One second passes.  The timers are polled and the idle task is run many *)
(* times a second, so a second never ends on an expired timer or before an *)
(* open report_handler saw the last event.                                 *)
Tick ==
    /\ seconds # 0 => left > 0
    /\ open => ran
    /\ left' = Minus(left, 1)
    /\ ran' = FALSE
    /\ since' = [e \in Entry |-> IF Active(tab, bound, e) THEN Plus(since[e], 1) ELSE since[e]]
    /\ lost' = [e \in Entry |-> IF Active(tab, bound, e) /\ seconds = 0
                                THEN Plus(lost[e], 1) ELSE lost[e]]
    /\ stale' = [e \in Entry |-> IF open /\ Active(tab, bound, e) /\ Changed(tab[e], data[e])
                                 THEN Plus(stale[e], 1) ELSE stale[e]]
    /\ UNCHANGED <<tab, data, bound, seconds, open, nv, fresh>>

(* A Configure Reporting command for the attribute of slot e:              *)
(* zcl_configureReporting, then app_zclCfgReportCmd, which cancels the     *)
(* timer whether or not the record was accepted.  A slot not used yet is   *)
(* taken by zcl_reportCfgInfoEntryFreeGet.                                 *)
Configured(r, c) ==
    IF c.max = 0 /\ c.min = NoReport
    THEN IF r.used THEN ResetToDefault(r) ELSE r
    ELSE IF ~Acceptable(c) \/ (c.max = NoReport /\ ~r.used) THEN r
    ELSE Updated(r, c)

Accepted(r, c) ==
    \/ c.max = 0 /\ c.min = NoReport /\ r.used
    \/ ~(c.max = 0 /\ c.min = NoReport) /\ Acceptable(c) /\ (c.max = NoReport => r.used)

\* the pending timer survives the command
FaultyCfgReportCmd(e, c) ==
    /\ tab' = [tab EXCEPT ![e] = Configured(@, c)]
    /\ since' = IF Accepted(tab[e], c) THEN Restarted(since, e) ELSE since
    /\ stale' = IF Accepted(tab[e], c) THEN Restarted(stale, e) ELSE stale
    /\ ran' = FALSE
    /\ UNCHANGED <<nv, seconds, left, lost, data, bound, open, fresh>>

CfgReportCmd(e, c) ==
    /\ tab' = [tab EXCEPT ![e] = Configured(@, c)]
    /\ nv' = IF Accepted(tab[e], c) THEN tab' ELSE nv
    /\ seconds' = 0 /\ left' = 0
    /\ ran' = FALSE
    /\ lost' = [a \in Entry |-> IF a = e /\ Accepted(tab[e], c) THEN 0
                                ELSE IF Active(tab, bound, a) THEN Plus(lost[a], Elapsed)
                                ELSE lost[a]]
    /\ since' = IF Accepted(tab[e], c) THEN Restarted(since, e) ELSE since
    /\ stale' = IF Accepted(tab[e], c) THEN Restarted(stale, e) ELSE stale
    /\ UNCHANGED <<data, bound, open, fresh>>

(* app_task's condition for report_handler changes: the button is pressed  *)
(* or released, BDB commissioning starts or ends, the network is lost.     *)
GateChange ==
    /\ "gate" \in Environment
    /\ open' = ~open
    /\ ran' = FALSE
    /\ UNCHANGED <<tab, data, bound, seconds, left, nv, since, lost, stale, fresh>>

(* A ZDO bind or unbind request: the application is not told. *)
BindChange(k) ==
    /\ "bind" \in Environment
    /\ bound' = IF k \in bound THEN bound \ {k} ELSE bound \cup {k}
    /\ ran' = FALSE
    /\ since' = [e \in Entry |-> IF Cluster[e] = k THEN 0 ELSE since[e]]
    /\ lost' = [e \in Entry |-> IF Cluster[e] = k THEN 0 ELSE lost[e]]
    /\ stale' = [e \in Entry |-> IF Cluster[e] = k THEN 0 ELSE stale[e]]
    /\ UNCHANGED <<tab, data, seconds, left, open, nv, fresh>>

(* Reset or power cycle: zcl_reportingTab_restore, else the defaults.      *)
Restart ==
    /\ "restart" \in Environment
    /\ tab' = IF nv = NoTable THEN DefaultTable
              ELSE [e \in Entry |-> IF nv[e].used THEN [nv[e] EXCEPT !.prevData = Erased]
                                    ELSE nv[e]]
    /\ data' = [e \in Entry |-> InitValue]
    /\ seconds' = 0 /\ left' = 0 /\ ran' = FALSE
    /\ since' = [e \in Entry |-> 0] /\ lost' = [e \in Entry |-> 0]
    /\ stale' = [e \in Entry |-> 0] /\ fresh' = [e \in Entry |-> TRUE]
    /\ UNCHANGED <<bound, open, nv>>

Next ==
    \/ \E e \in Entry, v \in Values : SetAttr(e, v)
    \/ ReportHandler
    \/ TimerCb
    \/ Tick
    \/ \E e \in Entry, c \in Configs : CfgReportCmd(e, c)
    \/ GateChange
    \/ \E k \in ReportedClusters : BindChange(k)
    \/ Restart

Spec == Init /\ [][Next]_vars

(* Time goes on, whatever else happens, and the main loop polls the timers *)
(* and the idle task over and over (ev_main).                              *)
FairSpec == Spec /\ SF_vars(Tick) /\ WF_vars(TimerCb) /\ WF_vars(ReportHandler)

-----------------------------------------------------------------------------
(* Properties *)

IsActive(e) == Active(tab, bound, e)

(* An attribute with a maximum interval is reported at least that often,   *)
(* not counting the seconds during which the shared timer was not running: *)
(* re-arming it for the smallest counter of all, over-subtracting and      *)
(* cancelling it never loses more of an entry's time than that.            *)
MaxIntervalKept ==
    \A e \in Entry :
        IsActive(e) /\ tab[e].maxInterval # 0 => since[e] <= tab[e].maxInterval + lost[e]

(* While report_handler is reachable, a reportable change is on its way    *)
(* after at most the minimum interval, again not counting the seconds when *)
(* no timer runs: restarting minIntCnt at every unchanged deadline does    *)
(* not starve a later change.                                              *)
ChangeLatencyBounded ==
    \A e \in Entry :
        IsActive(e) => stale[e] <= tab[e].minInterval + lost[e]

(* The callback never subtracts more from a running counter than it holds, *)
(* although counters are rewritten while the timer is pending: no attribute *)
(* sleeps past its own deadline, and the clamps to 0 are never taken.       *)
TimerCoversCounters ==
    seconds # 0 =>
        \A e \in Entry : IsActive(e) /\ tab[e].maxInterval # 0 =>
            /\ tab[e].maxIntCnt # 0 => seconds <= tab[e].maxIntCnt
            /\ tab[e].minIntCnt # 0 => seconds <= tab[e].minIntCnt

(* Two reports of an attribute are never closer than its minimum interval, *)
(* and the first one after a configuration waits that long too: an entry   *)
(* becomes due no earlier (the first report after a boot is exempt).       *)
MinIntervalKept ==
    \A e \in Entry :
        Due(tab, bound, data, e) => fresh[e] \/ tab[e].minInterval <= since[e]

(* An attribute that stays bound, with a maximum interval and the handler  *)
(* reachable, is reported again and again, even when it was bound while a  *)
(* timer of unrelated length was pending, while other clusters are bound   *)
(* and unbound, and after restarts.  Configuration commands must end: each *)
(* cancels the timer of all attributes, so that a hub that repeats them    *)
(* quickly enough holds every report back.                                 *)
ReportedForever ==
    <>[][\A e \in Entry, c \in Configs : ~CfgReportCmd(e, c)]_vars =>
    \A e \in Entry :
        <>[](open /\ IsActive(e) /\ tab[e].maxInterval # 0) => []<>(since[e] = 0)

=============================================================================
