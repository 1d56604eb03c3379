--------------------------- MODULE MCReportFrames ---------------------------
(* Small instances of ReportFrames for TLC: every table whose slots are in *)
(* one of the situations that reportAttrs tells apart.                     *)
EXTENDS ReportFrames

MCEntry == 1..NumEntries
MCCluster == [e \in MCEntry |-> IF e = 2 THEN 2 ELSE 1]
MCData == [e \in MCEntry |-> 1]

Slot(mn, mx, mnc, mxc, prev) ==
    [used |-> TRUE, minIntDft |-> mn, maxIntDft |-> mx, minInterval |-> mn, maxInterval |-> mx,
     minIntCnt |-> mnc, maxIntCnt |-> mxc, reportableChange |-> 1, prevData |-> prev]

Situations ==
    { Free,
      Slot(0, 2, 0, 0, 1),           \* the maximum interval is over
      Slot(1, 2, 0, 1, 0),           \* changed, the minimum interval is over
      Slot(1, 2, 0, 1, 1),           \* unchanged, the minimum interval is over
      Slot(1, 2, 1, 2, 0),           \* changed, both intervals running
      Slot(0, 0, 0, 0, 0),           \* change-only, changed
      Slot(0, NoReport, 0, 0, 0) }   \* disabled

MCTables == [MCEntry -> Situations]
=============================================================================
