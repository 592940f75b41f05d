------------------------------ MODULE MCLabRun ------------------------------
EXTENDS LabRun

MCSchedule == <<VictimRow, OwnerRow>>
MCArms     == {"A-ignore", "N-ref"}
MCMaxLag   == [a \in MCArms |-> IF a = "N-ref" THEN 2 ELSE 1]
MCQuotas   == <<1, 1>>

Good == [ready |-> TRUE, schedulable |-> TRUE, allocatable |-> 3]
Occupier == [phase |-> "Running", gpus |-> 1, occupier |-> TRUE]
Consumer == [phase |-> "Running", gpus |-> 1, occupier |-> FALSE]
Finished == [phase |-> "Succeeded", gpus |-> 1, occupier |-> FALSE]

(* One machine that fits, with its surplus device occupied, and one for    *)
(* each reason to refuse.                                                  *)
MCMachines ==
    {[node |-> Good, pods |-> {Occupier, Finished}],
     [node |-> Good, pods |-> {Finished}],
     [node |-> Good, pods |-> {Occupier, Consumer}],
     [node |-> [Good EXCEPT !.allocatable = 2], pods |-> {Occupier}],
     [node |-> [Good EXCEPT !.ready = FALSE], pods |-> {Occupier}],
     [node |-> [Good EXCEPT !.schedulable = FALSE], pods |-> {Occupier}]}
==============================================================================
