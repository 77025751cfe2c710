--------------------------- MODULE MCJobScheduler ---------------------------
(***************************************************************************)
(* Job graphs for the model checker, as the planner of job_graph makes     *)
(* them: a tree of stages with one final stage and pipelined edges only,   *)
(* so that no region depends on another.  A task is <<stage, partition>>.  *)
(***************************************************************************)
EXTENDS JobLifecycle

NoDependencies == [r \in Region |-> {}]

TaskStage == [t \in Task |-> t[1]]

\* Stage n is consumed by stage n + 1 and the last one is final.
ChainConsumers == [s \in Stage |-> {s + 1} \cap Stage]

OneRegion == {1}
AllInOneRegion == [t \in Task |-> 1]

\* A scan that is shuffled to two partitions of the final stage: one region.
ShuffleTask == {<<1, 0>>, <<2, 0>>, <<2, 1>>}
ShuffleStage == 1 .. 2
=============================================================================
