---------------------------- MODULE MCTaskQueue ----------------------------
(* Constants for model checking TaskQueue.                                     *)
EXTENDS TaskQueue

CONSTANTS t1, t2, t3

MCTasks == {t1, t2, t3}

(* Two tasks of one priority and a more urgent one, so that both the scan and  *)
(* the tie rule are exercised.                                                 *)
MCPriority == [t \in MCTasks |-> IF t = t3 THEN 0 ELSE 1]
=============================================================================
