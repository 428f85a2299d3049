---------------------------- MODULE MCBackground ----------------------------
(* What runs beside the requests, in parts that share nothing: the scans   *)
(* of discovery, and the scheduler with the reports.                       *)
EXTENDS MCDiscovery, Scheduler

VARIABLE part

backgroundVars == <<vars, schedulerVars, part>>

BackgroundInit ==
  /\ Init /\ SchedulerInit /\ part \in {"discovery", "scheduler"}

BackgroundNext ==
  /\ UNCHANGED part
  /\ \/ part = "discovery" /\ Next /\ UNCHANGED schedulerVars
     \/ part = "scheduler" /\ SchedulerNext /\ UNCHANGED vars

(* Scans go on, the loop goes on and time passes. *)
BackgroundSpec ==
  /\ BackgroundInit /\ [][BackgroundNext]_backgroundVars
  /\ \A r \in Scans : WF_vars(part = "discovery" /\ GoesOn(r))
  /\ WF_schedulerVars(part = "scheduler" /\ LoopStep)
  /\ WF_schedulerVars(part = "scheduler" /\ HalfMinute)

(* Every task of the scheduler runs again and again (TasksRecur). *)
SchedulerRecurs == part = "scheduler" => TasksRecur

MCTasks == <<"repair", "renewal", "reports">>
MCTaskInterval == [repair |-> 3, renewal |-> 4, reports |-> 2]
MCReports == <<"inventory", "audit">>
====
