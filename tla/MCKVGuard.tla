----------------------------- MODULE MCKVGuard -----------------------------
(* Instance of KVGuard for TLC.                                             *)
EXTENDS KVGuard

\* Under both release thresholds, over one of them by its queue length, and
\* over an engage threshold.
MCSamples == {[usage |-> 1, waiting |-> 0], [usage |-> 1, waiting |-> 1],
              [usage |-> 3, waiting |-> 0]}
=============================================================================
