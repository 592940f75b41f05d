--------------------------- MODULE MCNodeOwnership ---------------------------
(* Two runs that were given the same run id and one operator.              *)
EXTENDS NodeOwnership, TLC

CONSTANTS t1, t2, o1

MCTx == {t1, t2}
MCOperators == {o1}
MCRunID == [t \in MCTx |-> "r1"]

(* The runs are alike, their run ids included. *)
MCSymmetry == Permutations(MCTx)
==============================================================================
