--------------------------- MODULE MCWorkloadRun ---------------------------
EXTENDS WorkloadRun

(* A deadline well inside the window, and one at the end of it. *)
MCSpecs == {[window |-> 3, within |-> 1], [window |-> 2, within |-> 2]}
MCUnhealthyStates == {"Degraded", "NoPhase"}
============================================================================
