---------------------------- MODULE MCNodeHealth ----------------------------
(* Instance of NodeHealth for TLC: two NodeHealths of one node.  Each       *)
(* scenario pairs the disturbances that interfere with one another.         *)
EXTENDS NodeHealth

Quiet == [d \in Disturbances |-> 0]

MCBudgets ==
    {[Quiet EXCEPT !["flips"] = 2, !["taintings"] = 1],
     [Quiet EXCEPT !["flips"] = 1, !["deletes"] = 1, !["crashes"] = 1],
     [Quiet EXCEPT !["flips"] = 1, !["deletes"] = 2],
     [Quiet EXCEPT !["flips"] = 1, !["vanish"] = 1, !["deletes"] = 1]}
=============================================================================
