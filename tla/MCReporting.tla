----------------------------- MODULE MCReporting -----------------------------
(* Small instances of Reporting for TLC. *)
EXTENDS Reporting

MCEntry == 1..2
TwoClusters == [e \in MCEntry |-> e]

Rec(mn, mx, ch) == [min |-> mn, max |-> mx, change |-> ch]

BothUsed == [e \in MCEntry |-> IF e = 1 THEN Rec(1, 2, 0) ELSE Rec(0, 3, 0)]
OneFree == [e \in MCEntry |-> IF e = 1 THEN Rec(2, 3, 0) ELSE NotUsed]

\* a throttled record whose reportable change is never reached, an unthrottled,
\* a change-only and a disabling one, the request for the defaults, and a
\* record that is refused
HubConfigs == {Rec(1, 2, 2), Rec(0, 0, 0), Rec(0, NoReport, 0), Rec(NoReport, 0, 0), Rec(2, 1, 0)}
OneConfig == {Rec(1, 2, 0)}

\* without "restart" in Environment the NV copy is written but never read
WithoutNv == <<tab, data, bound, seconds, left, open, ran, observer>>
=============================================================================
