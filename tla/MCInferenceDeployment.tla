----------------------- MODULE MCInferenceDeployment -----------------------
(* Instance of InferenceDeployment for TLC: one policy over the namespace.   *)
(* Each scenario pairs disturbances that interfere; the policy's two edits   *)
(* add the queue label and take it away again.                               *)
EXTENDS InferenceDeployment, TLC

Calm == [d \in Disturbances |-> 0]

\* Images are interchangeable.
Symmetry == Permutations(Versions)

MCBudgets ==
    {[Calm EXCEPT !["edits"] = 1],
     [Calm EXCEPT !["policies"] = 2],
     [Calm EXCEPT !["foreign"] = 1, !["removals"] = 1],
     [Calm EXCEPT !["deletes"] = 1, !["recreations"] = 1],
     [Calm EXCEPT !["failures"] = 1, !["crashes"] = 1],
     [Calm EXCEPT !["scalings"] = 1],
     [Calm EXCEPT !["lapses"] = 1, !["stalls"] = 1]}
=============================================================================
