--------------------------- MODULE MCMonitorNotice ---------------------------
(* Instances of MonitorNotice for TLC.  The processes of one kind are         *)
(* interchangeable; symmetry is used by the safety runs only.                 *)
EXTENDS MonitorNotice, TLC

Symmetry == Permutations(Workers) \cup Permutations(Checkers)
=============================================================================
