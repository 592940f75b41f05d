-------------------------- MODULE MCMLTrainingJob --------------------------
EXTENDS MLTrainingJob

None == [admissions |-> 1, restarts |-> 0, edits |-> 0, foreign |-> 0,
         incarnations |-> 0, crashes |-> 0, skewed |-> FALSE,
         missing |-> FALSE]

(* The wait: an eviction and a second admission, a pod failure and a       *)
(* restart of the operator, with clocks and stamps that cannot be trusted. *)
Waiting == [None EXCEPT !.admissions = 2, !.restarts = 1, !.crashes = 1,
                        !.skewed = TRUE, !.missing = TRUE]

(* The name: a Job of somebody else, an edit of the spec, and an object    *)
(* deleted and created again.                                              *)
Contested == [None EXCEPT !.edits = 1, !.foreign = 1, !.incarnations = 1]

MCBudgets == {Waiting, Contested}
=============================================================================
