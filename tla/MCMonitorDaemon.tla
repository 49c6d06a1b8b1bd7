--------------------------- MODULE MCMonitorDaemon ---------------------------
(* Two dumpfile names and at most one job. *)
EXTENDS MonitorDaemon

CONSTANTS a, d1, d2

OneJob == {a}
TwoDays == {d1, d2}
=============================================================================
