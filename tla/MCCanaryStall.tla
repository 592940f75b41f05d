---------------------------- MODULE MCCanaryStall ----------------------------
(* Instance of TerminationCanary for TLC: one canary of a machine that does  *)
(* not change while the canary is taken.                                     *)
EXTENDS TerminationCanary
==============================================================================
