---------------------------- MODULE ReportFrames ----------------------------
(***************************************************************************)
(* The do-while loop of reportAttrs (src/zcl/zcl_reporting.c).  A pass     *)
(* scans the table in slot order and puts the first due attribute and at   *)
(* most one more of the same cluster into a report frame; the entries are  *)
(* rewritten as they are taken.  A due attribute of another cluster, or a  *)
(* full frame, asks for another pass over the table as it is by then.      *)
(*                                                                         *)
(* Reporting takes the whole loop as one step, Reported: the properties    *)
(* here are what entitles it to.                                           *)
(***************************************************************************)
EXTENDS ReportTable, Sequences

CONSTANTS
    NumEntries,   \* ZCL_REPORTING_TABLE_NUM
    Tables,       \* the tables reportAttrs may find
    Data,         \* the attribute values
    FrameSize,    \* the length of report.attr, 2
    NoCluster     \* 0xFFFF: the frame has no cluster yet

ASSUME FramesAssumption ==
    /\ NumEntries \in Nat /\ Entry = 1..NumEntries
    /\ FrameSize \in Nat \ {0}
    /\ NoCluster \notin ReportedClusters
    /\ Tables \subseteq [Entry -> EntryRec] /\ Data \in [Entry -> Int]

VARIABLES
    tab,          \* reportingTab
    bound,        \* clusters with an entry in the binding table
    start,        \* the table when reportAttrs was called
    i,            \* loop index; NumEntries + 1 at the end of a pass
    cluster,      \* clusterID: the cluster of this pass's frame, or NoCluster
    report,       \* the frame under construction: a sequence of slots
    again,        \* another pass is needed
    frames,       \* frames handed to zcl_sendReportAttrsCmd
    done          \* reportAttrs has returned

vars == <<tab, bound, start, i, cluster, report, again, frames, done>>

TypeOK ==
    /\ tab \in [Entry -> EntryRec] /\ start \in Tables
    /\ bound \subseteq ReportedClusters
    /\ i \in 1..NumEntries + 1
    /\ cluster \in ReportedClusters \cup {NoCluster}
    /\ report \in Seq(Entry) /\ Len(report) <= FrameSize
    /\ again \in BOOLEAN /\ done \in BOOLEAN
    /\ frames \in Seq(Seq(Entry))

Init ==
    /\ tab \in Tables /\ start = tab
    /\ bound \in SUBSET ReportedClusters
    /\ i = 1 /\ cluster = NoCluster /\ report = << >>
    /\ again = FALSE /\ frames = << >> /\ done = FALSE

Scanning == ~done /\ i <= NumEntries

\* the entry is not due; an expired minimum interval starts again
Skip ==
    /\ Scanning /\ ~Due(tab, bound, Data, i)
    /\ tab' = [tab EXCEPT ![i] = Reported(tab, bound, Data, i)]
    /\ i' = i + 1
    /\ UNCHANGED <<bound, start, cluster, report, again, frames, done>>

\* another pass forgets that it was asked for: only a full frame asks
FaultyPostpone ==
    /\ Scanning /\ Due(tab, bound, Data, i)
    /\ cluster \notin {NoCluster, Cluster[i]}
    /\ i' = i + 1
    /\ UNCHANGED <<tab, bound, start, cluster, report, again, frames, done>>

\* due, but of another cluster than the frame
Postpone ==
    /\ Scanning /\ Due(tab, bound, Data, i)
    /\ cluster \notin {NoCluster, Cluster[i]}
    /\ again' = TRUE
    /\ i' = i + 1
    /\ UNCHANGED <<tab, bound, start, cluster, report, frames, done>>

\* the entry is put into the frame but not rewritten
FaultyTake ==
    /\ Scanning /\ Due(tab, bound, Data, i)
    /\ cluster \in {NoCluster, Cluster[i]}
    /\ cluster' = Cluster[i]
    /\ report' = Append(report, i)
    /\ IF Len(report') >= FrameSize
       THEN again' = TRUE /\ i' = NumEntries + 1
       ELSE again' = again /\ i' = i + 1
    /\ UNCHANGED <<tab, bound, start, frames, done>>

\* due: into the frame; a full frame ends the pass (break)
Take ==
    /\ Scanning /\ Due(tab, bound, Data, i)
    /\ cluster \in {NoCluster, Cluster[i]}
    /\ cluster' = Cluster[i]
    /\ tab' = [tab EXCEPT ![i] = Reported(tab, bound, Data, i)]
    /\ report' = Append(report, i)
    /\ IF Len(report') >= FrameSize
       THEN again' = TRUE /\ i' = NumEntries + 1
       ELSE again' = again /\ i' = i + 1
    /\ UNCHANGED <<bound, start, frames, done>>

\* a pass inherits the wish for another one
FaultyEndPass ==
    /\ ~done /\ i = NumEntries + 1
    /\ frames' = IF cluster = NoCluster THEN frames ELSE Append(frames, report)
    /\ IF again
       THEN i' = 1 /\ done' = FALSE
       ELSE i' = i /\ done' = TRUE
    /\ cluster' = NoCluster /\ report' = << >>
    /\ UNCHANGED <<tab, bound, start, again>>

(* The end of a pass: zcl_sendReportAttrsCmd, then while (again). *)
EndPass ==
    /\ ~done /\ i = NumEntries + 1
    /\ frames' = IF cluster = NoCluster THEN frames ELSE Append(frames, report)
    /\ IF again
       THEN i' = 1 /\ done' = FALSE
       ELSE i' = i /\ done' = TRUE
    /\ cluster' = NoCluster /\ report' = << >> /\ again' = FALSE
    /\ UNCHANGED <<tab, bound, start>>

Returned == done /\ UNCHANGED vars

Next == Skip \/ Postpone \/ Take \/ EndPass \/ Returned

Spec == Init /\ [][Next]_vars

(* reportAttrs runs to completion in the idle task. *)
FairSpec == Spec /\ WF_vars(Next)

-----------------------------------------------------------------------------
(* Properties *)

InFrames(e) == {p \in {<<f, n>> : f \in 1..Len(frames), n \in 1..FrameSize} :
                    p[2] <= Len(frames[p[1]]) /\ frames[p[1]][p[2]] = e}

(* When reportAttrs returns, however many passes it took and in whatever   *)
(* order the clusters came up, every entry is what one look at the table   *)
(* it was called with makes of it: no pass undoes or repeats another's.    *)
OnePassEffect ==
    done => \A e \in Entry : tab[e] = Reported(start, bound, Data, e)

(* Every attribute that was due is in exactly one frame, and no other is   *)
(* in any: none is skipped by the break or the continue, none goes twice.  *)
EachDueSentOnce ==
    done => \A e \in Entry : \/ Due(start, bound, Data, e) /\ \E p \in InFrames(e) : InFrames(e) = {p}
                             \/ ~Due(start, bound, Data, e) /\ InFrames(e) = {}

(* The loop ends: an entry that was taken is not due in a later pass, even *)
(* with a maximum or minimum interval of 0.                                *)
Returns == <>done

=============================================================================
