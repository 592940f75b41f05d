-------------------------- MODULE MCGPUQuotaPolicy --------------------------
(* Instance of GPUQuotaPolicy for TLC: up to two policies of one tenant     *)
(* over one namespace.  Each scenario pairs disturbances that interfere.    *)
EXTENDS GPUQuotaPolicy

CONSTANTS p1, p2, ns1

OneNamespace == [p \in {p1, p2} |-> ns1]

Calm == [d \in Disturbances |-> 0]

MCScenarios ==
    {[policies |-> {p1}, budget |-> b] : b \in
        {[Calm EXCEPT !["foreign"] = 1, !["drifts"] = 1, !["reports"] = 1],
         [Calm EXCEPT !["edits"] = 1, !["failures"] = 1, !["crashes"] = 1],
         [Calm EXCEPT !["deletes"] = 1, !["failures"] = 1, !["crashes"] = 1],
         [Calm EXCEPT !["edits"] = 1, !["deletes"] = 1],
         [Calm EXCEPT !["edits"] = 1, !["reports"] = 1],
         [Calm EXCEPT !["deletes"] = 1, !["recreations"] = 1],
         [Calm EXCEPT !["drifts"] = 1, !["cycles"] = 1]}}
    \cup {[policies |-> {p1, p2}, budget |-> [Calm EXCEPT !["deletes"] = 1]]}

\* A tenant is edited and the other kind of ceiling asked for.
TenantScenarios ==
    {[policies |-> {p1},
      budget |-> [Calm EXCEPT !["edits"] = 1, !["tenants"] = 1]]}
=============================================================================
