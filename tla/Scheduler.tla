----------------------------- MODULE Scheduler -----------------------------
(***************************************************************************)
(* The background scheduler (services/scheduler_service.py) and the        *)
(* reports it mails (services/report_service.py).  One loop collects the   *)
(* tasks that are due, runs them one after another and sleeps for a        *)
(* minute.  A task that talks to the network takes time while requests are *)
(* served; the others are over at once.  Time is counted in half minutes   *)
(* and wraps around at the end of the cycle of the report schedules.       *)
(***************************************************************************)
EXTENDS Naturals, Sequences, SequencesExt

CONSTANTS Tasks,        \* the tasks in the order of their registration
          TaskInterval, \* of every task, in half minutes
          Networked,    \* the tasks that take time
          ByHand,       \* the tasks a request may run at once
          ReportsTask,  \* the task that mails the reports
          Reports,      \* the reports, in the order they are looked at
          Cycle,        \* the minutes of a cycle
          MaxRestarts   \* how often the process is restarted (a bound)

Task == Range(Tasks)
Report == Range(Reports)
WakeInterval == 2
FirstRunAge == 1

ASSUME SchedulerAssumption ==
  /\ TaskInterval \in [Task -> Nat \ {0}] /\ ReportsTask \in Networked
  /\ Networked \subseteq Task /\ ByHand \subseteq Task \ Networked
  /\ Cycle \in Nat \ {0} /\ MaxRestarts \in Nat
  /\ Tasks \in Seq(Task) /\ IsInjective(Tasks)         \* the keys of a dictionary
  /\ Reports \in Seq(Report) /\ IsInjective(Reports)

VARIABLES halves,    \* the time, in half minutes of the cycle
          age,       \* since a task ran last, or since it was registered
          fresh,     \* the tasks that never ran
          loop,      \* what the loop does: pc, the places of the tasks to run, the sleep left
          mailing,   \* the reports still to look at, the minute they are judged by
          schedule,  \* the minutes at which a report is due; none when disabled
          mailed,    \* how often each report was mailed for the present minute
          restarts

schedulerVars == <<halves, age, fresh, loop, mailing, schedule, mailed, restarts>>

Minute == halves \div 2
NoMail == [keys |-> << >>, now |-> 0]

(* The scheduler of a new process: every task registered now. *)
init_scheduler ==
  /\ age' = [t \in Task |-> 0] /\ fresh' = Task
  /\ loop' = [pc |-> "scan", todo |-> {}, left |-> 0] /\ mailing' = NoMail

SchedulerInit ==
  /\ halves = 0 /\ restarts = 0
  /\ age = [t \in Task |-> 0] /\ fresh = Task
  /\ loop = [pc |-> "scan", todo |-> {}, left |-> 0] /\ mailing = NoMail
  /\ schedule = [k \in Report |-> {}] /\ mailed = [k \in Report |-> 0]

----------------------------------------------------------------------------
(* Mutated: a task that never ran is due at once. *)
should_runAtOnce(t) == t \in fresh \/ age[t] >= TaskInterval[t]

should_run(t) == IF t \in fresh THEN age[t] >= FirstRunAge ELSE age[t] >= TaskInterval[t]

(* One pass of the loop: what is due now is run without being asked again. *)
_scheduler_loop ==
  /\ loop.pc = "scan"
  /\ loop' = [loop EXCEPT !.pc = "run", !.todo = {i \in DOMAIN Tasks : should_run(Tasks[i])}]
  /\ UNCHANGED <<halves, age, fresh, mailing, schedule, mailed, restarts>>

(* The tasks of a pass are run in the order of their registration. *)
IsNext(i) == i \in loop.todo /\ \A j \in loop.todo : i <= j

Ran(t) == age' = [age EXCEPT ![t] = 0] /\ fresh' = fresh \ {t}

(* A task of the loop starts; one that waits for nothing is over as well,  *)
(* successful or not.  The reports are judged by the time they start at.   *)
Start(i) ==
  /\ loop.pc = "run" /\ IsNext(i)
  /\ IF Tasks[i] \in Networked
       THEN /\ loop' = [loop EXCEPT !.pc = "busy"]
            /\ mailing' = IF Tasks[i] = ReportsTask
                            THEN [keys |-> Reports, now |-> Minute] ELSE mailing
            /\ UNCHANGED <<age, fresh>>
       ELSE /\ loop' = [loop EXCEPT !.todo = @ \ {i}]
            /\ Ran(Tasks[i]) /\ UNCHANGED mailing
  /\ UNCHANGED <<halves, schedule, mailed, restarts>>

(* Mutated: a task that raised is run again before the others. *)
_run_taskRetries(i, raised) ==
  /\ loop.pc = "busy" /\ mailing.keys = << >> /\ IsNext(i)
  /\ IF raised THEN UNCHANGED <<age, fresh>> ELSE Ran(Tasks[i])
  /\ loop' = [loop EXCEPT !.pc = "run", !.todo = IF raised THEN @ ELSE @ \ {i}]
  /\ UNCHANGED <<halves, mailing, schedule, mailed, restarts>>

(* The task returns or raises; both count as a run. *)
_run_task(i, raised) ==
  /\ loop.pc = "busy" /\ mailing.keys = << >> /\ IsNext(i)
  /\ Ran(Tasks[i])
  /\ loop' = [loop EXCEPT !.pc = "run", !.todo = @ \ {i}]
  /\ UNCHANGED <<halves, mailing, schedule, mailed, restarts>>

(* Nothing left: the sleep begins. *)
Sleep ==
  /\ loop.pc = "run" /\ loop.todo = {}
  /\ loop' = [loop EXCEPT !.pc = "sleep", !.left = WakeInterval]
  /\ UNCHANGED <<halves, age, fresh, mailing, schedule, mailed, restarts>>

Wake ==
  /\ loop.pc = "sleep" /\ loop.left = 0
  /\ loop' = [loop EXCEPT !.pc = "scan"]
  /\ UNCHANGED <<halves, age, fresh, mailing, schedule, mailed, restarts>>

(* A request runs a task beside the loop. *)
run_task_now(t) ==
  /\ t \in ByHand /\ Ran(t)
  /\ UNCHANGED <<halves, loop, mailing, schedule, mailed, restarts>>

----------------------------------------------------------------------------
(* The next report: its schedule is read now, the time was read before the *)
(* first.  A mail that fails is not tried again.                           *)
run_scheduled_reports ==
  /\ loop.pc = "busy" /\ mailing.keys # << >>
  /\ LET k == Head(mailing.keys)
     IN mailed' = IF mailing.now \in schedule[k] THEN [mailed EXCEPT ![k] = @ + 1] ELSE mailed
  /\ mailing' = [mailing EXCEPT !.keys = Tail(@)]
  /\ UNCHANGED <<halves, age, fresh, loop, schedule, restarts>>

update_schedule_settings(k, due) ==
  /\ schedule' = [schedule EXCEPT ![k] = due]
  /\ UNCHANGED <<halves, age, fresh, loop, mailing, mailed, restarts>>

----------------------------------------------------------------------------
Capped(t, n) == IF n > TaskInterval[t] THEN TaskInterval[t] ELSE n

(* Half a minute passes while the loop sleeps or a task waits: the steps   *)
(* of the loop itself take no time.  The count of mails is for the minute  *)
(* by which the reports are judged, so it is kept while they are mailed.   *)
HalfMinute ==
  /\ loop.pc = "busy" \/ (loop.pc = "sleep" /\ loop.left > 0)
  /\ halves' = (halves + 1) % (2 * Cycle)
  /\ age' = [t \in Task |-> Capped(t, age[t] + 1)]
  /\ loop' = IF loop.pc = "sleep" THEN [loop EXCEPT !.left = @ - 1] ELSE loop
  /\ mailed' = IF halves' % 2 = 0 /\ mailing.keys = << >> THEN [k \in Report |-> 0] ELSE mailed
  /\ UNCHANGED <<fresh, mailing, schedule, restarts>>

(* The process is restarted at any point; the schedules are in the database. *)
RestartScheduler ==
  /\ restarts < MaxRestarts /\ restarts' = restarts + 1
  /\ init_scheduler
  /\ UNCHANGED <<halves, schedule, mailed>>

LoopStep ==
  \/ _scheduler_loop \/ Sleep \/ Wake \/ run_scheduled_reports
  \/ \E i \in DOMAIN Tasks : Start(i) \/ \E raised \in BOOLEAN : _run_task(i, raised)

SchedulerNext ==
  \/ LoopStep \/ HalfMinute \/ RestartScheduler
  \/ \E t \in ByHand : run_task_now(t)
  \/ \E k \in Report, m \in 0 .. Cycle - 1 : update_schedule_settings(k, {m})
  \/ \E k \in Report : update_schedule_settings(k, {})

SchedulerSpec == SchedulerInit /\ [][SchedulerNext]_schedulerVars

----------------------------------------------------------------------------
(* A report is mailed at most once for the minute it is due at, though the *)
(* task compares clock times and remembers nothing: not when the process   *)
(* is restarted within the minute, nor when mails take long or the         *)
(* schedule is changed under way (run_scheduled_reports, should_run).      *)
ReportOnce == \A k \in Report : mailed[k] <= 1

(* Every task runs again and again, whatever the others do: they may raise *)
(* and take their time (_scheduler_loop, _run_task).                       *)
TasksRecur == \A t \in Task : []<>(t \notin fresh /\ age[t] = 0)
====
