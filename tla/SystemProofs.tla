---------------------------- MODULE SystemProofs ----------------------------
(***************************************************************************)
(* What TLAPS proves about the parts of the system run: the nonces of the  *)
(* ACME server, the reports of the scheduler, the mails about expiry, and  *)
(* the ACME client.                                                        *)
(***************************************************************************)
EXTENDS MCSystem, ScepServerProofs, AuditLogProofs, Scheduler, SequenceTheorems, NaturalsInduction, WellFoundedInduction, TLAPS

----------------------------------------------------------------------------
(* Nonces.  What makes NonceOnce inductive: the table holds the nonces     *)
(* given out and no other, and one that a message passed with is used.     *)

NonceRow == [expires : Nat, used : BOOLEAN]

JwsTable ==
  /\ given \in 0 .. MaxNonces /\ ticks \in Nat
  /\ DOMAIN nonces = 1 .. given
  /\ \A n \in 1 .. given : nonces[n] \in NonceRow
  /\ passed \in [1 .. MaxNonces -> Nat]

PassedUsed ==
  \A n \in 1 .. MaxNonces :
    /\ n > given => passed[n] = 0
    /\ n <= given => passed[n] <= 1 /\ (passed[n] = 1 => nonces[n].used)

JwsInv == JwsTable /\ PassedUsed

\* Before the first request no nonce is out and none was accepted.
LEMMA JwsInitInv == JwsInit => JwsInv
  BY JwsAssumption DEF JwsInit, JwsInv, JwsTable, PassedUsed

\* The table that a nonce is added to is the one that was there, but for one
\* nonce that is now used.
LEMMA GenerateKeeps ==
  ASSUME JwsInv, NEW kept, generate_nonce(kept), UNCHANGED ticks,
         DOMAIN kept = 1 .. given,
         \A n \in 1 .. given : /\ kept[n] \in NonceRow
                               /\ nonces[n].used => kept[n].used
  PROVE  /\ given' \in 0 .. MaxNonces /\ given' = given + 1
         /\ DOMAIN nonces' = 1 .. given'
         /\ \A n \in 1 .. given' : nonces'[n] \in NonceRow
         /\ \A n \in 1 .. given : nonces'[n] = kept[n]
  BY JwsAssumption DEF JwsInv, JwsTable, generate_nonce, NonceRow

\* A verification, whatever it answers, uses up the nonce it finds and keeps the
\* invariant.
LEMMA VerifyInv ==
  ASSUME JwsInv, NEW url \in BOOLEAN, NEW intact \in BOOLEAN, NEW n \in 0 .. MaxNonces,
         NEW form \in Forms, verify_jws(url, n, form, intact)
  PROVE  JwsInv'
<1> DEFINE kept == IF url THEN Spent(n) ELSE nonces
           passes == url /\ validate_nonce(n) /\ (form = "kid" \/ (form = "jwk" /\ intact))
<1>1. generate_nonce(kept) /\ UNCHANGED ticks
      /\ passed' = IF passes THEN [passed EXCEPT ![n] = @ + 1] ELSE passed
  BY DEF verify_jws
<1>2. /\ DOMAIN kept = 1 .. given
      /\ \A m \in 1 .. given : /\ kept[m] \in NonceRow
                               /\ nonces[m].used => kept[m].used
  BY DEF JwsInv, JwsTable, Spent, validate_nonce, NonceRow
<1>3. passes => n \in 1 .. given /\ kept[n].used /\ ~nonces[n].used
  BY DEF JwsInv, JwsTable, Spent, validate_nonce, NonceRow
<1> HIDE DEF kept, passes
<1>4. /\ given' \in 0 .. MaxNonces /\ given' = given + 1
      /\ DOMAIN nonces' = 1 .. given'
      /\ \A m \in 1 .. given' : nonces'[m] \in NonceRow
      /\ \A m \in 1 .. given : nonces'[m] = kept[m]
  BY <1>1, <1>2, GenerateKeeps
<1>5. passes => passed[n] = 0
  BY <1>3, JwsAssumption DEF JwsInv, JwsTable, PassedUsed
<1>6. JwsTable'
  <2>1. passed' \in [1 .. MaxNonces -> Nat]
    <3>1. CASE passes
      BY <1>1, <1>3, <3>1, JwsAssumption DEF JwsInv, JwsTable
    <3>2. CASE ~passes
      BY <1>1, <3>2 DEF JwsInv, JwsTable
    <3> QED
      BY <3>1, <3>2
  <2> QED
    BY <1>1, <1>4, <2>1 DEF JwsInv, JwsTable
<1>7. PassedUsed'
  BY <1>1, <1>2, <1>3, <1>4, <1>5, JwsAssumption DEF JwsInv, JwsTable, PassedUsed
<1> QED
  BY <1>6, <1>7 DEF JwsInv

\* Every step on the nonces keeps the invariant.
LEMMA JwsStepInv == JwsInv /\ [JwsNext]_jwsVars => JwsInv'
<1> SUFFICES ASSUME JwsInv, [JwsNext]_jwsVars PROVE JwsInv'
  OBVIOUS
<1>1. CASE new_nonce
  <2>1. /\ given' \in 0 .. MaxNonces /\ given' = given + 1
        /\ DOMAIN nonces' = 1 .. given'
        /\ \A n \in 1 .. given' : nonces'[n] \in NonceRow
        /\ \A n \in 1 .. given : nonces'[n] = nonces[n]
    BY <1>1, GenerateKeeps DEF new_nonce, JwsInv, JwsTable
  <2>2. JwsTable'
    BY <1>1, <2>1 DEF new_nonce, JwsInv, JwsTable
  <2>3. PassedUsed'
    BY <1>1, <2>1, JwsAssumption DEF new_nonce, JwsInv, JwsTable, PassedUsed
  <2> QED
    BY <2>2, <2>3 DEF JwsInv
<1>2. CASE Expire
  BY <1>2 DEF Expire, JwsInv, JwsTable, PassedUsed
<1>3. CASE \E url, intact \in BOOLEAN, n \in 0 .. MaxNonces, form \in Forms :
             verify_jws(url, n, form, intact)
  BY <1>3, VerifyInv
<1>4. CASE UNCHANGED jwsVars
  BY <1>4 DEF jwsVars, JwsInv, JwsTable, PassedUsed
<1> QED
  BY <1>1, <1>2, <1>3, <1>4 DEF JwsNext

\* However often messages are repeated, at most one passes verify_jws with a
\* nonce, and none with a nonce that was not given out.
THEOREM NoncePassesOnce == JwsSpec => []NonceOnce
<1>1. JwsInv => NonceOnce
  BY JwsAssumption DEF JwsInv, JwsTable, PassedUsed, NonceOnce
<1> QED
  BY <1>1, JwsInitInv, JwsStepInv, PTL DEF JwsSpec

----------------------------------------------------------------------------
(* Reports.  ReportOnce is not inductive: what keeps a report from being   *)
(* mailed twice is that between two passes of the loop a whole minute is   *)
(* slept, in which the minute changes, and that a new process runs no task *)
(* in its first pass.                                                      *)

NoneMailed == \A k \in Report : mailed[k] = 0

LoopState == [pc : {"scan", "run", "busy", "sleep"}, todo : SUBSET DOMAIN Tasks, left : Nat]
MailState == [keys : Seq(Report), now : Nat]

SchedulerTypes ==
  /\ halves \in 0 .. 2 * Cycle - 1
  /\ loop \in LoopState
  /\ mailing \in MailState
  /\ mailed \in [Report -> Nat]
  /\ age \in [Task -> Nat]

\* The reports still to look at are different ones, and none was mailed.
MailingFirst ==
  /\ mailing.keys # << >> => /\ loop.pc = "busy"
                             /\ \E i \in loop.todo : IsNext(i) /\ Tasks[i] = ReportsTask
  /\ IsInjective(mailing.keys)
  /\ \A i \in DOMAIN mailing.keys : mailed[mailing.keys[i]] = 0

\* Before the reports are due again, the count starts again.
PassFirst ==
  /\ loop.pc = "scan" => NoneMailed \/ (ReportsTask \in fresh /\ age[ReportsTask] = 0)
  /\ loop.pc = "run" => \A i \in loop.todo : Tasks[i] = ReportsTask => NoneMailed
  /\ loop.pc = "busy" => \A i \in loop.todo : Tasks[i] = ReportsTask => NoneMailed \/ IsNext(i)
  /\ loop.pc = "sleep" => \/ NoneMailed
                          \/ loop.left = 2
                          \/ loop.left = 1 /\ halves % 2 = 1

SchedulerInv == SchedulerTypes /\ MailingFirst /\ PassFirst /\ ReportOnce

\* The invariant of the scheduler holds when it starts.
LEMMA SchedulerInitInv == SchedulerInit => SchedulerInv
<1> SUFFICES ASSUME SchedulerInit PROVE SchedulerInv
  OBVIOUS
<1>1. SchedulerTypes
  BY SchedulerAssumption DEF SchedulerInit, SchedulerTypes, LoopState, MailState, NoMail
<1>2. MailingFirst
  BY DEF SchedulerInit, MailingFirst, NoMail, IsInjective
<1>3. PassFirst /\ ReportOnce
  BY DEF SchedulerInit, PassFirst, ReportOnce, NoneMailed
<1> QED
  BY <1>1, <1>2, <1>3 DEF SchedulerInv

\* A pass of _scheduler_loop over the tasks keeps the invariant.
LEMMA ScanInv == ASSUME SchedulerInv, _scheduler_loop PROVE SchedulerInv'
<1>1. SchedulerTypes' /\ MailingFirst'
  BY DEF _scheduler_loop, SchedulerInv, SchedulerTypes, LoopState, MailState, MailingFirst
<1>2. ASSUME NEW i \in DOMAIN Tasks, Tasks[i] = ReportsTask, should_run(Tasks[i])
      PROVE  NoneMailed
  BY <1>2 DEF _scheduler_loop, SchedulerInv, PassFirst, should_run, FirstRunAge
<1>3. PassFirst' /\ ReportOnce'
  BY <1>2 DEF _scheduler_loop, SchedulerInv, SchedulerTypes, LoopState, MailState, PassFirst, ReportOnce, NoneMailed
<1> QED
  BY <1>1, <1>3 DEF SchedulerInv

\* A task that starts because it is due keeps the invariant.
LEMMA StartInv == ASSUME SchedulerInv, NEW i \in DOMAIN Tasks, Start(i) PROVE SchedulerInv'
<1>1. i \in loop.todo /\ loop.pc = "run" /\ mailing.keys = << >> /\ IsNext(i)
  BY DEF Start, IsNext, SchedulerInv, MailingFirst
<1>2. SchedulerTypes'
  <2>1. Minute \in Nat
    BY SchedulerAssumption DEF SchedulerInv, SchedulerTypes, LoopState, MailState, Minute
  <2>2. loop' \in LoopState
    <3>1. CASE Tasks[i] \in Networked
      BY <3>1 DEF Start, SchedulerInv, SchedulerTypes, LoopState, MailState
    <3>2. CASE Tasks[i] \notin Networked
      BY <3>2 DEF Start, SchedulerInv, SchedulerTypes, LoopState, MailState
    <3> QED
      BY <3>1, <3>2
  <2>3. mailing' \in MailState
    <3>1. mailing' = mailing \/ mailing' = [keys |-> Reports, now |-> Minute]
      BY DEF Start
    <3> QED
      BY <2>1, <3>1, SchedulerAssumption DEF SchedulerInv, SchedulerTypes, LoopState, MailState
  <2>4. age' \in [Task -> Nat]
    BY DEF Start, Ran, SchedulerInv, SchedulerTypes, LoopState, MailState
  <2> QED
    BY <2>2, <2>3, <2>4 DEF Start, SchedulerInv, SchedulerTypes, LoopState, MailState
<1>3. MailingFirst'
  <2>1. CASE Tasks[i] = ReportsTask
    <3>1. NoneMailed
      BY <1>1, <2>1 DEF SchedulerInv, PassFirst
    <3>2. /\ mailing' = [keys |-> Reports, now |-> Minute] /\ mailed' = mailed
          /\ loop'.pc = "busy" /\ loop'.todo = loop.todo
      BY <2>1, SchedulerAssumption DEF Start, SchedulerInv, SchedulerTypes, LoopState, MailState
    <3> QED
      BY <1>1, <2>1, <3>1, <3>2, SchedulerAssumption DEF MailingFirst, NoneMailed, IsNext
  <2>2. CASE Tasks[i] # ReportsTask
    BY <1>1, <2>2 DEF Start, SchedulerInv, SchedulerTypes, LoopState, MailState, MailingFirst
  <2> QED
    BY <2>1, <2>2
<1>4. PassFirst' /\ ReportOnce'
  BY <1>1 DEF Start, SchedulerInv, SchedulerTypes, LoopState, MailState, PassFirst, ReportOnce, NoneMailed, IsNext
<1> QED
  BY <1>2, <1>3, <1>4 DEF SchedulerInv

\* A task that ends, with an exception or without, keeps the invariant.
LEMMA RunInv ==
  ASSUME SchedulerInv, NEW i \in DOMAIN Tasks, NEW raised, _run_task(i, raised)
  PROVE  SchedulerInv'
<1>1. SchedulerTypes' /\ MailingFirst'
  BY SchedulerAssumption DEF _run_task, Ran, SchedulerInv, SchedulerTypes, LoopState, MailState, MailingFirst
<1>2. ASSUME NEW j \in loop.todo, j # i, Tasks[j] = ReportsTask PROVE NoneMailed
  <2>1. i \in Int /\ j \in Int
    BY SchedulerAssumption DEF SchedulerInv, SchedulerTypes, LoopState, MailState
  <2> QED
    BY <1>2, <2>1 DEF _run_task, SchedulerInv, PassFirst, IsNext
<1>3. PassFirst' /\ ReportOnce'
  BY <1>2 DEF _run_task, SchedulerInv, SchedulerTypes, LoopState, MailState, PassFirst, ReportOnce, NoneMailed
<1> QED
  BY <1>1, <1>3 DEF SchedulerInv

\* The task of the scheduled reports keeps the invariant.
LEMMA MailInv == ASSUME SchedulerInv, run_scheduled_reports PROVE SchedulerInv'
<1> DEFINE keys == mailing.keys
           k == Head(keys)
<1>1. keys \in Seq(Report) /\ keys # << >> /\ k \in Report /\ mailed[k] = 0 /\ loop.pc = "busy"
  BY DEF run_scheduled_reports, SchedulerInv, SchedulerTypes, LoopState, MailState, MailingFirst
<1>2. mailing' = [mailing EXCEPT !.keys = Tail(keys)] /\ mailing'.keys = Tail(keys)
  BY DEF run_scheduled_reports, SchedulerInv, SchedulerTypes, LoopState, MailState
<1>3. mailed' = mailed \/ mailed' = [mailed EXCEPT ![k] = 1]
  <2>1. mailed' = mailed \/ mailed' = [mailed EXCEPT ![k] = @ + 1]
    BY DEF run_scheduled_reports
  <2> QED
    BY <1>1, <2>1
<1>4. loop' = loop /\ UNCHANGED <<halves, age, fresh>>
  BY DEF run_scheduled_reports
<1>5. PICK i \in loop.todo : IsNext(i) /\ Tasks[i] = ReportsTask
  BY <1>1 DEF SchedulerInv, MailingFirst
<1> HIDE DEF k
<1>6. SchedulerTypes'
  <2>1. mailed' \in [Report -> Nat]
    <3>1. mailed \in [Report -> Nat] /\ 1 \in Nat
      BY DEF SchedulerInv, SchedulerTypes, LoopState, MailState
    <3> QED
      BY <1>1, <1>3, <3>1
  <2>2. mailing' \in MailState
    <3>1. Tail(keys) \in Seq(Report) /\ mailing \in MailState
      BY <1>1 DEF SchedulerInv, SchedulerTypes, LoopState, MailState
    <3> QED
      BY <1>2, <3>1 DEF MailState
  <2> QED
    BY <1>4, <2>1, <2>2 DEF SchedulerInv, SchedulerTypes, LoopState, MailState
<1>7. MailingFirst'
  <2>1. \A j \in DOMAIN Tail(keys) : j + 1 \in DOMAIN keys /\ Tail(keys)[j] = keys[j + 1]
    BY <1>1
  <2>2. \A j \in DOMAIN Tail(keys) : Tail(keys)[j] # k /\ Tail(keys)[j] \in Report
    BY <1>1, <2>1 DEF SchedulerInv, MailingFirst, IsInjective, k
  <2>3. IsInjective(Tail(keys))
    BY <1>1, <2>1 DEF SchedulerInv, MailingFirst, IsInjective
  <2>4. \A j \in DOMAIN Tail(keys) : mailed[Tail(keys)[j]] = 0
    BY <2>1 DEF SchedulerInv, MailingFirst
  <2>5. \A j \in DOMAIN Tail(keys) : mailed'[Tail(keys)[j]] = 0
    BY <1>3, <2>2, <2>4 DEF SchedulerInv, SchedulerTypes, LoopState, MailState
  <2> QED
    BY <1>1, <1>2, <1>4, <1>5, <2>3, <2>5 DEF MailingFirst, IsNext
<1>8. ReportOnce'
  BY <1>1, <1>3 DEF SchedulerInv, SchedulerTypes, LoopState, MailState, ReportOnce
<1>9. PassFirst'
  <2>1. \A j \in loop.todo : Tasks[j] = ReportsTask => j = i
    BY <1>5, SchedulerAssumption DEF SchedulerInv, SchedulerTypes, LoopState, MailState, IsInjective
  <2> QED
    BY <1>1, <1>4, <1>5, <2>1 DEF PassFirst, IsNext
<1> QED
  BY <1>6, <1>7, <1>8, <1>9 DEF SchedulerInv

\* A time in half minutes is even or odd.
LEMMA HalfOrWhole == \A n \in Nat : n % 2 = 0 \/ n % 2 = 1
  OBVIOUS

\* Half a minute changes the parity of the time.
LEMMA Parity ==
  ASSUME NEW h \in 0 .. 2 * Cycle - 1
  PROVE  LET n == (h + 1) % (2 * Cycle)
         IN n \in 0 .. 2 * Cycle - 1 /\ (h % 2 = 1 <=> n % 2 = 0)
<1>1. Cycle \in Nat \ {0}
  BY SchedulerAssumption
<1>2. CASE h + 1 = 2 * Cycle
  <2>1. (h + 1) % (2 * Cycle) = 0
    BY <1>1, <1>2
  <2> QED
    BY <1>1, <1>2, <2>1
<1>3. CASE h + 1 < 2 * Cycle
  <2>1. (h + 1) % (2 * Cycle) = h + 1
    BY <1>1, <1>3
  <2> QED
    BY <1>1, <1>3, <2>1
<1> QED
  BY <1>1, <1>2, <1>3

\* Half a minute that passes keeps the invariant.
LEMMA HalfMinuteInv == ASSUME SchedulerInv, HalfMinute PROVE SchedulerInv'
<1>1. halves' \in 0 .. 2 * Cycle - 1 /\ (halves % 2 = 1 <=> halves' % 2 = 0)
  BY Parity DEF HalfMinute, SchedulerInv, SchedulerTypes, LoopState, MailState
<1>2. age' \in [Task -> Nat]
  <2>1. \A t \in Task : Capped(t, age[t] + 1) \in Nat
    BY SchedulerAssumption DEF Capped, SchedulerInv, SchedulerTypes, LoopState, MailState
  <2> QED
    BY <2>1 DEF HalfMinute
<1>3. mailed' \in [Report -> Nat] /\ (mailed' = mailed \/ NoneMailed')
  BY DEF HalfMinute, SchedulerInv, SchedulerTypes, LoopState, MailState, NoneMailed
<1>4. CASE loop.pc = "busy"
  <2>1. loop' = loop /\ mailing' = mailing /\ loop'.pc = "busy"
    BY <1>4 DEF HalfMinute
  <2>2. SchedulerTypes'
    BY <1>1, <1>2, <1>3, <2>1 DEF SchedulerInv, SchedulerTypes, LoopState, MailState
  <2>3. MailingFirst'
    BY <1>3, <2>1 DEF SchedulerInv, SchedulerTypes, LoopState, MailState, MailingFirst, NoneMailed, IsNext
  <2>4. PassFirst'
    BY <1>3, <2>1 DEF SchedulerInv, PassFirst, NoneMailed, IsNext
  <2>5. ReportOnce'
    BY <1>3 DEF SchedulerInv, ReportOnce, NoneMailed
  <2> QED
    BY <2>2, <2>3, <2>4, <2>5 DEF SchedulerInv
<1>5. CASE loop.pc = "sleep"
  <2>1. /\ loop.left \in Nat /\ loop.left > 0 /\ mailing.keys = << >> /\ mailing' = mailing
        /\ loop' = [loop EXCEPT !.left = loop.left - 1]
    BY <1>5 DEF HalfMinute, SchedulerInv, SchedulerTypes, LoopState, MailState, MailingFirst
  <2>2. loop'.left = loop.left - 1 /\ loop'.pc = "sleep" /\ loop'.todo = loop.todo
    BY <1>5, <2>1 DEF SchedulerInv, SchedulerTypes, LoopState, MailState
  <2>3. halves' % 2 = 0 => NoneMailed'
    BY <2>1 DEF HalfMinute, NoneMailed
  <2>4. SchedulerTypes'
    <3>1. loop \in LoopState /\ loop.left - 1 \in Nat
      BY <2>1 DEF SchedulerInv, SchedulerTypes
    <3>2. loop' \in LoopState
      BY <2>1, <3>1 DEF LoopState
    <3> QED
      BY <3>2, <1>1, <1>2, <1>3, <2>1 DEF SchedulerInv, SchedulerTypes
  <2>5. MailingFirst'
    BY <2>1 DEF SchedulerInv, MailingFirst
  <2>6. halves \in Nat /\ halves' \in Nat
    BY <1>1, SchedulerAssumption DEF SchedulerInv, SchedulerTypes
  <2>7. PassFirst'
    BY <1>1, <1>3, <1>5, <2>1, <2>2, <2>3, <2>6, HalfOrWhole DEF SchedulerInv, PassFirst, NoneMailed
  <2>8. ReportOnce'
    BY <1>3 DEF SchedulerInv, ReportOnce, NoneMailed
  <2> QED
    BY <2>4, <2>5, <2>7, <2>8 DEF SchedulerInv
<1> QED
  BY <1>4, <1>5 DEF HalfMinute

\* The loop's sleep and its end keep the invariant.
LEMMA SleepInv == ASSUME SchedulerInv, Sleep \/ Wake PROVE SchedulerInv'
<1>1. CASE Sleep
  <2>1. loop' \in LoopState /\ loop'.pc = "sleep" /\ loop'.left = 2 /\ loop.pc = "run"
    BY <1>1 DEF Sleep, WakeInterval, SchedulerInv, SchedulerTypes, LoopState, MailState
  <2>2. SchedulerTypes' /\ MailingFirst' /\ ReportOnce'
    BY <1>1, <2>1 DEF Sleep, SchedulerInv, SchedulerTypes, LoopState, MailState, MailingFirst, ReportOnce
  <2> QED
    BY <2>1, <2>2 DEF SchedulerInv, PassFirst
<1>2. CASE Wake
  <2>1. loop' \in LoopState /\ loop'.pc = "scan" /\ loop.pc = "sleep" /\ loop.left = 0
    BY <1>2 DEF Wake, SchedulerInv, SchedulerTypes, LoopState, MailState
  <2>2. SchedulerTypes' /\ MailingFirst' /\ ReportOnce'
    BY <1>2, <2>1 DEF Wake, SchedulerInv, SchedulerTypes, LoopState, MailState, MailingFirst, ReportOnce
  <2>3. NoneMailed'
    BY <1>2, <2>1 DEF Wake, SchedulerInv, PassFirst, NoneMailed
  <2> QED
    BY <2>1, <2>2, <2>3 DEF SchedulerInv, PassFirst
<1> QED
  BY <1>1, <1>2

\* A restart, which forgets the last runs, keeps the invariant.
LEMMA RestartInv == ASSUME SchedulerInv, RestartScheduler PROVE SchedulerInv'
<1>1. SchedulerTypes' /\ ReportOnce'
  BY DEF RestartScheduler, init_scheduler, NoMail, SchedulerInv, SchedulerTypes, LoopState, MailState, ReportOnce
<1>2. MailingFirst'
  BY DEF RestartScheduler, init_scheduler, NoMail, MailingFirst, IsInjective
<1>3. PassFirst'
  BY SchedulerAssumption DEF RestartScheduler, init_scheduler, PassFirst
<1> QED
  BY <1>1, <1>2, <1>3 DEF SchedulerInv

\* A task run by hand beside the loop keeps the invariant.
LEMMA ByHandInv == ASSUME SchedulerInv, NEW t \in ByHand, run_task_now(t) PROVE SchedulerInv'
<1>1. t # ReportsTask /\ t \in Task
  BY SchedulerAssumption
<1>2. SchedulerTypes' /\ MailingFirst' /\ ReportOnce'
  BY <1>1 DEF run_task_now, Ran, SchedulerInv, SchedulerTypes, LoopState, MailState, MailingFirst, ReportOnce, IsNext
<1>3. PassFirst'
  BY <1>1 DEF run_task_now, Ran, SchedulerInv, SchedulerTypes, LoopState, MailState, PassFirst, NoneMailed, IsNext
<1> QED
  BY <1>2, <1>3 DEF SchedulerInv

\* A step that leaves the loop and the mails alone keeps the invariant.
LEMMA SettingsInv ==
  ASSUME SchedulerInv, UNCHANGED <<halves, age, fresh, loop, mailing, mailed>>
  PROVE  SchedulerInv'
  BY DEF SchedulerInv, SchedulerTypes, LoopState, MailState, MailingFirst, PassFirst, ReportOnce, NoneMailed, IsNext

\* Every step of the scheduler keeps the invariant.
LEMMA SchedulerStepInv == SchedulerInv /\ [SchedulerNext]_schedulerVars => SchedulerInv'
<1> SUFFICES ASSUME SchedulerInv, [SchedulerNext]_schedulerVars PROVE SchedulerInv'
  OBVIOUS
<1>1. CASE LoopStep
  BY <1>1, ScanInv, SleepInv, MailInv, StartInv, RunInv DEF LoopStep
<1>2. CASE HalfMinute \/ RestartScheduler
  BY <1>2, HalfMinuteInv, RestartInv
<1>3. CASE \E t \in ByHand : run_task_now(t)
  BY <1>3, ByHandInv
<1>4. CASE \E k \in Report, due \in SUBSET (0 .. Cycle - 1) : update_schedule_settings(k, due)
  BY <1>4, SettingsInv DEF update_schedule_settings
<1>5. CASE UNCHANGED schedulerVars
  BY <1>5, SettingsInv DEF schedulerVars
<1> QED
  BY <1>1, <1>2, <1>3, <1>4, <1>5 DEF SchedulerNext

\* Whenever the process is restarted, however long the mails take and whoever
\* changes a schedule meanwhile, no report is mailed twice for one minute.
THEOREM ReportMailedOnce == SchedulerSpec => []ReportOnce
<1>1. SchedulerInv => ReportOnce
  BY DEF SchedulerInv
<1> QED
  BY <1>1, SchedulerInitInv, SchedulerStepInv, PTL DEF SchedulerSpec

----------------------------------------------------------------------------
(* Mails about expiry.  The last window opens with 31 quarters left.  What *)
(* has passed of it is accounted for by the runs whose mail failed, each   *)
(* after a day and its delay, and by the time since the last run.          *)

Round == 4 + Late

AlertTypes ==
  /\ left \in Nat /\ since \in 0 .. Round /\ faults \in 0 .. MaxMailFaults
  /\ checks \in Nat /\ mails \in Nat
  /\ warned \in BOOLEAN /\ changed \in BOOLEAN /\ revoked \in BOOLEAN

Shipped == ~changed => alertDays = DefaultDays /\ alerting

WindowUsed == ~changed /\ ~revoked /\ Mailable /\ ~warned => 31 - left <= Round * faults + since

AlertInv == AlertTypes /\ Shipped /\ WindowUsed /\ OneMailPerRun

\* The failures that may happen do not use up the window.
LEMMA WindowWide ==
  ASSUME NEW f \in 0 .. MaxMailFaults
  PROVE  /\ Round \in Nat /\ Round >= 4 /\ Round * f \in Nat
         /\ Round * (f + 1) = Round * f + Round
         /\ Round * f + Round <= 27
<1>1. Late \in Nat /\ MaxMailFaults \in Nat /\ f \in Nat
  BY AlertAssumption
<1>2. Round \in Nat /\ Round >= 4
  BY <1>1 DEF Round
<1>3. \A a \in Nat, b \in Nat, c \in Nat : a <= b => c * a <= c * b
  OBVIOUS
<1>4. \A a \in Nat, c \in Nat : c * a \in Nat /\ c * (a + 1) = c * a + c /\ (a + 1) * c = c * a + c
  OBVIOUS
<1>5. Round * f <= Round * MaxMailFaults
  BY <1>1, <1>2, <1>3
<1>6. Round * MaxMailFaults + Round <= 27
  BY <1>1, <1>2, <1>4, AlertAssumption DEF Round
<1> QED
  BY <1>1, <1>2, <1>4, <1>5, <1>6

\* While the window lasts, the settings as shipped ask for a mail.
LEMMA WantedInWindow ==
  ASSUME AlertInv, ~changed, ~revoked, left \in 4 .. 31
  PROVE  alerting /\ MailsOf(TRUE) > 0
<1>1. DaysLeft \in 1 .. 7
  BY DEF DaysLeft
<1>2. 7 \in alertDays /\ get_expiring_certificates(7) /\ InWindow(7)
  BY <1>1 DEF AlertInv, AlertTypes, Shipped, DefaultDays, get_expiring_certificates, InWindow
<1> QED
  BY <1>2 DEF AlertInv, Shipped, MailsOf

\* A pass over the expiring certificates, mailed or not, keeps the invariant.
LEMMA CheckInv ==
  ASSUME AlertInv, NEW ok \in BOOLEAN, check_and_send_alerts(ok),
         UNCHANGED <<left, alertDays, alerting, revoked, include, recipients, sender, changed>>,
         since' = since \/ (since' = 0 /\ since >= 4)
  PROVE  AlertInv'
<1>1. faults' = (IF ok THEN faults ELSE faults + 1) /\ faults' \in 0 .. MaxMailFaults
  <2>1. faults' = (IF ok THEN faults ELSE faults + 1) /\ (~ok => faults < MaxMailFaults)
    BY DEF check_and_send_alerts
  <2>2. faults \in 0 .. MaxMailFaults /\ MaxMailFaults \in Nat
    BY AlertAssumption DEF AlertInv, AlertTypes
  <2> QED
    BY <2>1, <2>2
<1>2. MailsOf(ok) \in {0, 1}
  BY DEF MailsOf
<1>3. mails' \in Nat /\ checks' \in Nat /\ mails' <= checks'
  BY <1>2 DEF check_and_send_alerts, AlertInv, AlertTypes, OneMailPerRun
<1>4. since' \in 0 .. Round
  BY AlertAssumption DEF AlertInv, AlertTypes, Round
<1>5. warned' \in BOOLEAN
  BY DEF check_and_send_alerts, AlertInv, AlertTypes
<1>6. AlertTypes' /\ Shipped' /\ OneMailPerRun'
  BY <1>1, <1>3, <1>4, <1>5 DEF AlertInv, AlertTypes, Shipped, OneMailPerRun
<1>7. WindowUsed'
  <2> SUFFICES ASSUME ~changed, ~revoked, Mailable, ~warned' PROVE 31 - left <= Round * faults' + since'
    BY DEF WindowUsed, Mailable
  <2>1. 31 - left <= Round * faults + since /\ ~warned
    BY DEF check_and_send_alerts, AlertInv, WindowUsed
  <2>2. /\ Round \in Nat /\ Round * faults \in Nat /\ Round * (faults + 1) = Round * faults + Round
        /\ Round * faults + Round <= 27
    BY WindowWide DEF AlertInv, AlertTypes
  <2>3. left \in Nat /\ since \in 0 .. Round
    BY DEF AlertInv, AlertTypes
  <2>4. left >= 4
    BY <2>1, <2>2, <2>3
  <2>5. CASE left > 31
    <3>1. Round * faults' \in Nat
      BY <1>1, WindowWide
    <3>2. since' \in Nat
      BY <1>4, <2>2
    <3> QED
      BY <2>3, <2>5, <3>1, <3>2
  <2>6. CASE left <= 31
    <3>1. left \in 4 .. 31
      BY <2>3, <2>4, <2>6
    <3>2. alerting /\ MailsOf(TRUE) > 0
      BY <3>1, WantedInWindow
    <3>3. ~ok
      BY <3>1, <3>2 DEF check_and_send_alerts
    <3>4. faults' = faults + 1
      BY <1>1, <3>3
    <3>5. Round * faults' = Round * faults + Round
      BY <2>2, <3>4
    <3> QED
      BY <1>4, <2>1, <2>2, <2>3, <3>5
  <2> QED
    BY <2>3, <2>5, <2>6
<1> QED
  BY <1>6, <1>7 DEF AlertInv

\* Every step of the expiry alerts keeps the invariant.
LEMMA AlertStepInv == AlertInv /\ [AlertNext]_alertVars => AlertInv'
<1> SUFFICES ASSUME AlertInv, [AlertNext]_alertVars PROVE AlertInv'
  OBVIOUS
<1>1. CASE scheduled_expiry_check \/ trigger_expiry_check
  BY <1>1, CheckInv DEF scheduled_expiry_check, trigger_expiry_check
<1>2. CASE RestartAlerts
  <2>1. since' \in 0 .. Round
    BY <1>2, AlertAssumption DEF RestartAlerts, Round
  <2> QED
    BY <1>2, <2>1 DEF RestartAlerts, AlertInv, AlertTypes, Shipped, WindowUsed, Mailable, OneMailPerRun
<1>3. CASE Revoke
  BY <1>3 DEF Revoke, AlertInv, AlertTypes, Shipped, WindowUsed, Mailable, OneMailPerRun
<1>4. CASE Quarter
  <2>1. left' \in Nat /\ left' = left - 1 /\ since' = since + 1 /\ since' \in 0 .. Round
    BY <1>4, AlertAssumption DEF Quarter, AlertInv, AlertTypes, Round
  <2>2. AlertTypes' /\ Shipped' /\ OneMailPerRun'
    BY <1>4, <2>1 DEF Quarter, AlertInv, AlertTypes, Shipped, OneMailPerRun
  <2>3. WindowUsed'
    <3>1. Round * faults \in Nat /\ left \in Nat /\ since \in Nat
      BY WindowWide, AlertAssumption DEF AlertInv, AlertTypes, Round
    <3> QED
      BY <1>4, <2>1, <3>1 DEF Quarter, AlertInv, WindowUsed, Mailable
  <2> QED
    BY <2>2, <2>3 DEF AlertInv
<1>5. CASE \/ \E days \in AlertDays, on, withRevoked, named \in BOOLEAN : update_settings(days, on, withRevoked, named)
           \/ \E from \in {"empty", "set"} : update_email_settings(from)
  BY <1>5 DEF update_settings, update_email_settings, AlertInv, AlertTypes, Shipped, WindowUsed, Mailable, OneMailPerRun
<1>6. CASE UNCHANGED alertVars
  BY <1>6 DEF alertVars, AlertInv, AlertTypes, Shipped, WindowUsed, Mailable, OneMailPerRun
<1> QED
  BY <1>1, <1>2, <1>3, <1>4, <1>5, <1>6 DEF AlertNext

\* Where mails can go out at all (an empty sender and named recipients; with a sender
\* check_and_send_alerts ends in an error), whatever runs are late and whichever
\* mails fail, as long as together they do not use up the week, a certificate is
\* mailed about before it expires, and no run mails about it twice.
THEOREM WarnedBeforeItExpires == AlertSpec => []WarnedInTime
<1>1. AlertInit => AlertInv
  <2> SUFFICES ASSUME AlertInit PROVE AlertInv
    OBVIOUS
  <2>1. AlertTypes
    <3>1. left \in Nat /\ since \in 0 .. 4 /\ Round \in Nat /\ Round >= 4
      BY AlertAssumption DEF AlertInit, Round
    <3>2. since \in 0 .. Round /\ 0 \in 0 .. MaxMailFaults
      BY <3>1, AlertAssumption
    <3> QED
      BY <3>1, <3>2 DEF AlertInit, AlertTypes
  <2>2. WindowUsed
    <3>1. left \in Nat /\ left >= 32 /\ since \in Nat /\ faults = 0 /\ Round * 0 \in Nat
      BY WindowWide, AlertAssumption DEF AlertInit
    <3> QED
      BY <3>1 DEF WindowUsed
  <2> QED
    BY <2>1, <2>2 DEF AlertInit, AlertInv, Shipped, OneMailPerRun
<1>2. AlertInv => WarnedInTime
  <2> SUFFICES ASSUME AlertInv PROVE WarnedInTime
    OBVIOUS
  <2>1. Round * faults \in Nat /\ Round * faults + Round <= 27 /\ Round \in Nat
    BY WindowWide DEF AlertInv, AlertTypes
  <2> QED
    BY <2>1 DEF AlertInv, AlertTypes, WindowUsed, WarnedInTime, WarnedBeforeExpiry
<1> QED
  BY <1>1, <1>2, AlertStepInv, PTL DEF AlertSpec

Modes(p) ==
  /\ p.create \in {"add", "replace", "append", "appendIfSame", "rewrite", "edit", "none"}
  /\ p.delete \in {"set", "each", "named", "first", "rewrite", "label", "none"}
  /\ p.create = "rewrite" <=> p.delete = "rewrite"
  /\ p.create = "rewrite" => p.zone = "given"
  /\ p.create = "edit" => "create" \in p.blind

\* Every kind of provider has one of the known ways to create and to delete a
\* record.
LEMMA ProviderModes == \A p \in ProviderKinds : Modes(p)
<1>1. /\ Modes(ManualDnsProvider) /\ Modes(OvhDnsProvider)
      /\ Modes(HetznerDnsProvider) /\ Modes(GandiDnsProvider)
      /\ Modes(InfomaniakDnsProvider) /\ Modes(ScalewayDnsProvider)
      /\ Modes(IonosDnsProvider) /\ Modes(NetcupDnsProvider)
      /\ Modes(InwxDnsProvider) /\ Modes(BookMyNameDnsProvider)
      /\ Modes(CloudflareDnsProvider) /\ Modes(DigitalOceanDnsProvider)
  BY DEF Modes, Provider,
         ManualDnsProvider, OvhDnsProvider, HetznerDnsProvider,
         GandiDnsProvider, InfomaniakDnsProvider, ScalewayDnsProvider,
         IonosDnsProvider, NetcupDnsProvider, InwxDnsProvider,
         BookMyNameDnsProvider, CloudflareDnsProvider, DigitalOceanDnsProvider
<1>2. /\ Modes(Route53DnsProvider) /\ Modes(GoogleCloudDnsProvider)
      /\ Modes(AzureDnsProvider) /\ Modes(LinodeDnsProvider)
      /\ Modes(VultrDnsProvider) /\ Modes(GoDaddyDnsProvider)
      /\ Modes(NamecheapDnsProvider) /\ Modes(DesecDnsProvider)
      /\ Modes(DuckDnsDnsProvider) /\ Modes(FreeDnsDnsProvider)
      /\ Modes(DynuDnsProvider) /\ Modes(DnsimpleDnsProvider)
  BY DEF Modes, Provider,
         Route53DnsProvider, GoogleCloudDnsProvider, AzureDnsProvider,
         LinodeDnsProvider, VultrDnsProvider, GoDaddyDnsProvider,
         NamecheapDnsProvider, DesecDnsProvider, DuckDnsDnsProvider,
         FreeDnsDnsProvider, DynuDnsProvider, DnsimpleDnsProvider
<1>3. /\ Modes(DnsMadeEasyDnsProvider) /\ Modes(EasyDnsDnsProvider)
      /\ Modes(DreamhostDnsProvider) /\ Modes(ClouDnsDnsProvider)
      /\ Modes(DomeneshopDnsProvider) /\ Modes(PorkbunDnsProvider)
      /\ Modes(VercelDnsProvider) /\ Modes(BunnyDnsProvider)
      /\ Modes(AlwaysdataDnsProvider) /\ Modes(CoreNetworksDnsProvider)
      /\ Modes(CheckdomainDnsProvider) /\ Modes(NetlifyDnsProvider)
  BY DEF Modes, Provider,
         DnsMadeEasyDnsProvider, EasyDnsDnsProvider, DreamhostDnsProvider,
         ClouDnsDnsProvider, DomeneshopDnsProvider, PorkbunDnsProvider,
         VercelDnsProvider, BunnyDnsProvider, AlwaysdataDnsProvider,
         CoreNetworksDnsProvider, CheckdomainDnsProvider, NetlifyDnsProvider
<1>4. /\ Modes(Ns1DnsProvider) /\ Modes(ConstellixDnsProvider)
      /\ Modes(RackspaceDnsProvider) /\ Modes(PowerDnsDnsProvider)
      /\ Modes(HostingerDnsProvider) /\ Modes(HoverDnsProvider)
      /\ Modes(NamecomDnsProvider) /\ Modes(EpikDnsProvider)
      /\ Modes(HurricaneDnsProvider) /\ Modes(MythicBeastsDnsProvider)
      /\ Modes(RcodeZeroDnsProvider) /\ Modes(Rfc2136DnsProvider)
  BY DEF Modes, Provider,
         Ns1DnsProvider, ConstellixDnsProvider, RackspaceDnsProvider,
         PowerDnsDnsProvider, HostingerDnsProvider, HoverDnsProvider,
         NamecomDnsProvider, EpikDnsProvider, HurricaneDnsProvider,
         MythicBeastsDnsProvider, RcodeZeroDnsProvider, Rfc2136DnsProvider
<1>5. \A t \in DOMAIN PROVIDER_REGISTRY : Modes(PROVIDER_REGISTRY[t])
  BY <1>1, <1>2, <1>3, <1>4 DEF PROVIDER_REGISTRY
<1> QED
  BY <1>5 DEF ProviderKinds

----------------------------------------------------------------------------
Record == {SiteRecord} \cup (Order \X Idents)
Zone == [Names -> SUBSET Record]
Chals(o) ==
  {c \in UNION {[D -> Requests[o]] : D \in SUBSET DomainNames} : \A d \in DOMAIN c : c[d][1] = d}

\* A write and a removal leave records of the right kind.
LEMMA WrittenZone ==
  ASSUME NEW p \in ProviderKinds, NEW recs \in Zone, NEW seen \in Zone,
         NEW d \in Names, NEW v \in Record, NEW r \in Written(p, recs, seen, d, v)
  PROVE  r \in Zone
<1>1. Modes(p)
  BY ProviderModes
<1>2. CASE p.create \in {"add", "replace", "append", "appendIfSame", "none"}
  BY <1>2 DEF Written, Zone
<1>3. CASE p.create = "rewrite"
  BY <1>3 DEF Written, Zone
<1>4. CASE p.create = "edit"
  <2>1. CASE r = [recs EXCEPT ![d] = @ \cup {v}]
    BY <2>1 DEF Zone
  <2>2. CASE \E n \in Names, w \in Record : r = [[recs EXCEPT ![n] = @ \ {w}] EXCEPT ![d] = @ \cup {v}]
    BY <2>2 DEF Zone
  <2> QED
    BY <1>4, <2>1, <2>2 DEF Written, Challenges, Zone
<1> QED
  BY <1>1, <1>2, <1>3, <1>4 DEF Modes

\* A deletion, whole or in part, leaves a zone of records.
LEMMA RemovedZone ==
  ASSUME NEW p \in ProviderKinds, NEW recs \in Zone, NEW seen \in Zone, NEW d \in Names,
         NEW r \in Removed(p, recs, seen, d) \cup PartlyRemoved(p, recs, seen, d)
  PROVE  r \in Zone
<1>1. Modes(p)
  BY ProviderModes
<1>2. CASE r \in PartlyRemoved(p, recs, seen, d)
  BY <1>2 DEF PartlyRemoved, Zone
<1>3. CASE r \in Removed(p, recs, seen, d)
  <2>1. CASE p.delete \in {"set", "each", "named", "none"}
    BY <1>3, <2>1 DEF Removed, Zone
  <2>2. CASE p.delete = "first"
    BY <1>3, <2>2 DEF Removed, Zone
  <2>3. CASE p.delete = "rewrite"
    BY <1>3, <2>3 DEF Removed, Zone
  <2>4. CASE p.delete = "label"
    BY <1>3, <2>4 DEF Removed, Challenges, Zone
  <2> QED
    BY <1>1, <2>1, <2>2, <2>3, <2>4 DEF Modes
<1> QED
  BY <1>2, <1>3

----------------------------------------------------------------------------
OrderRow(o) == [status : Status, chal : Chals(o), cert : Worker \cup {"none"},
                failures : 0 .. MAX_RENEWAL_FAILURES, told : {"nothing", "ok", "warning"}]
RemoteRow(o) == [status : RemoteStatus, proved : SUBSET Requests[o], key : Worker \cup {"none"}]

DnsFields == {"kind", "order", "step", "chal", "zone", "seen", "ok"}
VerifyFields == {"kind", "order", "step", "chal", "was", "failed"}

IsDnsJob(j) ==
  /\ DOMAIN j = DnsFields /\ j.kind \in {"setup", "cleanup", "cancel"} /\ j.step \in {"look", "write"}
  /\ j.order \in Order /\ j.chal \in Chals(j.order)
  /\ j.step = "write" => j.seen \in Zone /\ DOMAIN j.chal # {}
IsVerifyJob(j) ==
  /\ DOMAIN j = VerifyFields /\ j.kind = "verify" /\ j.step = "post"
  /\ j.order \in Order /\ j.chal \in Chals(j.order) /\ j.was \in Status
FinalizeJob == [kind : {"finalize"}, order : Order, step : {"check", "csr", "poll", "download"}]
RequestJob == [kind : {"request"}, order : Order, step : {"place"}]

IsJob(j) == j = Idle \/ j \in RequestJob \/ IsDnsJob(j) \/ IsVerifyJob(j) \/ j \in FinalizeJob

ClientTypes ==
  /\ provider \in ProviderKinds
  /\ provRow \in {"none", "enabled", "disabled", "deleted"}
  /\ DOMAIN order = Order /\ \A o \in Order : order[o] = NoOrder \/ order[o] \in OrderRow(o)
  /\ DOMAIN remote = Order /\ \A o \in Order : remote[o] = NoOrder \/ remote[o] \in RemoteRow(o)
  /\ dns \in Zone
  /\ DOMAIN job = Worker /\ \A w \in Worker : IsJob(job[w])
  /\ spent \in 0 .. MaxDisturbances /\ failed \in BOOLEAN

\* An order is known to the CA before its row is written, and a worker that
\* places it is the only one at it.
Placed ==
  /\ \A o \in Order : remote[o] = NoOrder => order[o] = NoOrder
  /\ \A w \in Worker : job[w] # Idle /\ job[w].kind # "request" => remote[job[w].order] # NoOrder
  /\ \A w \in Worker : job[w] # Idle /\ job[w].kind = "request" => 
       /\ remote[job[w].order] = NoOrder
       /\ \A v \in Worker : job[v] # Idle /\ job[v].order = job[w].order => v = w

\* The CA takes one key for an order; who goes on to the download has sent it.
KeyOfOrder ==
  /\ \A o \in Order : remote[o] # NoOrder /\ remote[o].status \in {"pending", "ready"} => remote[o].key = "none"
  /\ \A w \in Worker : job[w] # Idle /\ job[w].kind = "finalize" /\ job[w].step \in {"poll", "download"}
                       => remote[job[w].order].key = w
  /\ \A o \in Order : order[o] # NoOrder /\ order[o].cert # "none" => order[o].cert = remote[o].key

\* The challenges of an order are of its own request, and so is every part of
\* them.
LEMMA ChalsOf ==
  ASSUME NEW o \in Order
  PROVE  /\ \A c \in Chals(o) : /\ DOMAIN c \subseteq DomainNames /\ c \in [DOMAIN c -> Requests[o]]
                                /\ \A d \in DOMAIN c : c[d][1] = d
         /\ \A c \in Chals(o) : \A D : D \subseteq DOMAIN c => [d \in D |-> c[d]] \in Chals(o)
         /\ \A ids \in SUBSET Requests[o] : \A c \in Stored(ids) : c \in Chals(o)
         /\ Requests[o] \subseteq Idents
<1>1. \A c \in Chals(o) : /\ DOMAIN c \subseteq DomainNames /\ c \in [DOMAIN c -> Requests[o]]
                           /\ \A d \in DOMAIN c : c[d][1] = d
  BY DEF Chals
<1>2. ASSUME NEW c \in Chals(o), NEW D, D \subseteq DOMAIN c PROVE [d \in D |-> c[d]] \in Chals(o)
  <2> DEFINE e == [d \in D |-> c[d]]
  <2>1. e \in [D -> Requests[o]] /\ D \in SUBSET DomainNames
    BY <1>1, <1>2
  <2>2. \A d \in DOMAIN e : e[d][1] = d
    BY <1>1, <1>2
  <2> HIDE DEF e
  <2>3. e \in Chals(o)
    BY <2>1, <2>2 DEF Chals
  <2> QED
    BY <2>3 DEF e
<1>3. Requests[o] \subseteq Idents
  BY DEF Idents
<1>4. ASSUME NEW ids \in SUBSET Requests[o], NEW c \in Stored(ids) PROVE c \in Chals(o)
  <2>1. {i[1] : i \in ids} \in SUBSET DomainNames
    BY <1>3 DEF DomainNames
  <2>2. c \in [{i[1] : i \in ids} -> Requests[o]] /\ \A d \in DOMAIN c : c[d][1] = d
    BY DEF Stored
  <2> QED
    BY <2>1, <2>2 DEF Chals
<1> QED
  BY <1>1, <1>2, <1>3, <1>4

\* Before the first order the parts of the client's invariant hold.
LEMMA ClientInitInv == ClientInit => ClientTypes /\ Placed /\ KeyOfOrder
<1> SUFFICES ASSUME ClientInit PROVE ClientTypes /\ Placed /\ KeyOfOrder
  OBVIOUS
<1>1. dns \in Zone
  BY DEF ClientInit, Zone, Record
<1>2. ClientTypes
  <2>1. spent \in 0 .. MaxDisturbances
    BY ClientAssumption DEF ClientInit
  <2>2. /\ DOMAIN order = Order /\ \A o \in Order : order[o] = NoOrder
        /\ DOMAIN remote = Order /\ \A o \in Order : remote[o] = NoOrder
        /\ DOMAIN job = Worker /\ \A w \in Worker : IsJob(job[w])
    BY DEF ClientInit, IsJob
  <2> QED
    BY <1>1, <2>1, <2>2 DEF ClientInit, ClientTypes
<1>3. Placed /\ KeyOfOrder
  BY DEF ClientInit, Placed, KeyOfOrder
<1> QED
  BY <1>2, <1>3

ClientInv == ClientTypes /\ Placed /\ KeyOfOrder

\* The rows are there as before, with the same certificate and challenges.
SameOrders ==
  /\ DOMAIN order' = Order
  /\ \A o \in Order : \/ order[o] = NoOrder /\ order'[o] = NoOrder
                      \/ /\ order[o] \in OrderRow(o) /\ order'[o] \in OrderRow(o)
                         /\ order'[o].cert = order[o].cert /\ order'[o].chal = order[o].chal

OrdersTyped == DOMAIN order = Order /\ \A o \in Order : order[o] = NoOrder \/ order[o] \in OrderRow(o)
RemotesTyped == DOMAIN remote = Order /\ \A o \in Order : remote[o] = NoOrder \/ remote[o] \in RemoteRow(o)
JobsTyped == DOMAIN job = Worker /\ \A w \in Worker : IsJob(job[w])

\* No row of an order, here or at the CA, is the mark of an absent one.
LEMMA NotNoOrder ==
  /\ \A o \in Order : \A r \in OrderRow(o) : r # NoOrder
  /\ \A o \in Order : \A r \in RemoteRow(o) : r # NoOrder
<1>1. "none" \notin Status /\ NoOrder.status = "none"
  BY DEF Status, RemoteStatus, NoOrder
<1> QED
  BY <1>1 DEF OrderRow, RemoteRow, Status

\* A job other than the idle one has a kind and an order.
LEMMA NotIdle == \A j : IsJob(j) /\ j # Idle => j.kind # "idle" /\ j.order \in Order
  BY DEF IsJob, IsDnsJob, IsVerifyJob, RequestJob, FinalizeJob

\* What a job is, by its kind.
LEMMA KindOfJob ==
  ASSUME NEW j, IsJob(j)
  PROVE  /\ j.kind \in {"setup", "cleanup", "cancel"} => IsDnsJob(j) /\ j # Idle
         /\ j.kind = "verify" => IsVerifyJob(j) /\ j # Idle
         /\ j.kind = "finalize" => j \in FinalizeJob /\ j # Idle
         /\ j.kind = "request" => j \in RequestJob /\ j # Idle
  BY DEF IsJob, IsDnsJob, IsVerifyJob, RequestJob, FinalizeJob, Idle

\* A job on the zone has the order, the kind and the challenges it was made
\* with.
LEMMA DnsJobIs ==
  ASSUME NEW o \in Order, NEW chal \in Chals(o), NEW kind \in {"setup", "cleanup", "cancel"}
  PROVE  LET j == DnsJob(kind, o, chal)
         IN IsDnsJob(j) /\ j.kind = kind /\ j.order = o /\ j.chal = chal
<1> DEFINE j == DnsJob(kind, o, chal)
<1>1. DOMAIN j = DnsFields
  BY DEF DnsJob, DnsFields
<1>2. j.kind = kind /\ j.order = o /\ j.chal = chal /\ j.step = "look"
  BY DEF DnsJob
<1> HIDE DEF j
<1>3. IsDnsJob(j)
  BY <1>1, <1>2 DEF IsDnsJob
<1> QED
  BY <1>2, <1>3 DEF j

\* The disturbances counted by a step stay within their bound.
LEMMA CountTyped ==
  ASSUME ClientTypes, Fault \/ NoFault \/ Intervene
  PROVE  spent' \in 0 .. MaxDisturbances /\ failed' \in BOOLEAN
<1>1. spent' = spent \/ (spent < MaxDisturbances /\ spent' = spent + 1)
  BY DEF Fault, NoFault, Intervene, Disturb
<1>2. failed' = failed \/ failed' = TRUE
  BY DEF Fault, NoFault, Intervene
<1>3. spent' \in 0 .. MaxDisturbances
  BY <1>1, ClientAssumption DEF ClientTypes
<1> QED
  BY <1>2, <1>3 DEF ClientTypes

\* A step that leaves the orders alone keeps their certificates and challenges.
LEMMA OrderUnchanged == ASSUME ClientTypes, UNCHANGED order PROVE SameOrders
  BY DEF ClientTypes, SameOrders

\* A step that sets the status, the notice or the failures of an order keeps its
\* certificate and challenges.
LEMMA FieldSet ==
  ASSUME ClientTypes, NEW o \in Order, order[o] \in OrderRow(o), NEW field, NEW x, SetOrder(o, field, x),
         \/ field = "status" /\ x \in Status
         \/ field = "told" /\ x \in {"ok", "warning"}
         \/ field = "failures" /\ x \in 0 .. MAX_RENEWAL_FAILURES
  PROVE  SameOrders
<1>1. order' = [order EXCEPT ![o] = [order[o] EXCEPT ![field] = x]]
  BY DEF SetOrder
<1>2. /\ [order[o] EXCEPT ![field] = x] \in OrderRow(o)
      /\ [order[o] EXCEPT ![field] = x].cert = order[o].cert
      /\ [order[o] EXCEPT ![field] = x].chal = order[o].chal
  <2>1. CASE field = "status" /\ x \in Status
    BY <2>1 DEF OrderRow
  <2>2. CASE field = "told" /\ x \in {"ok", "warning"}
    BY <2>2 DEF OrderRow
  <2>3. CASE field = "failures" /\ x \in 0 .. MAX_RENEWAL_FAILURES
    BY <2>3 DEF OrderRow
  <2> QED
    BY <2>1, <2>2, <2>3
<1> QED
  BY <1>1, <1>2 DEF SameOrders, ClientTypes

\* A step that sets the status of an order keeps its certificate and challenges.
LEMMA StatusSet ==
  ASSUME ClientTypes, NEW o \in Order, NEW s \in Status, SetStatus(o, s)
  PROVE  SameOrders
<1>1. CASE order[o] = NoOrder
  BY <1>1, OrderUnchanged DEF SetStatus, Exists
<1>2. CASE order[o] \in OrderRow(o)
  BY <1>2, NotNoOrder, FieldSet DEF SetStatus, Exists
<1> QED
  BY <1>1, <1>2 DEF ClientTypes

\* The worker's next job, if it has one, is at an order the CA knows.
Proceeds(w, j) ==
  j = Idle \/ /\ j.kind # "request" /\ remote[j.order] # NoOrder
              /\ j.kind = "finalize" /\ j.step \in {"poll", "download"} => remote[j.order].key = w

\* A worker that is given a job changes no other worker's.
LEMMA JobSet ==
  ASSUME ClientTypes, NEW w \in Worker, NEW j, IsJob(j), SetJob(w, j)
  PROVE  JobsTyped' /\ job'[w] = j /\ \A v \in Worker \ {w} : job'[v] = job[v]
  BY DEF ClientTypes, SetJob, JobsTyped

\* The CA keeps the key of an order, and its status never goes back.
SameRemotes ==
  /\ DOMAIN remote' = Order
  /\ \A o \in Order :
       \/ remote[o] = NoOrder /\ remote'[o] = NoOrder
       \/ /\ remote[o] \in RemoteRow(o) /\ remote'[o] \in RemoteRow(o)
          /\ remote'[o].key = remote[o].key
          /\ remote'[o].status \in {"pending", "ready"} => remote[o].status \in {"pending", "ready"}

\* A step that leaves the CA's orders alone keeps their keys.
LEMMA RemoteUnchanged == ASSUME ClientTypes, UNCHANGED remote PROVE SameRemotes
  BY DEF ClientTypes, SameRemotes

\* A worker that goes on with its order keeps every key beside the order it was
\* made for.
LEMMA JobSetInv ==
  ASSUME ClientInv, NEW w \in Worker, NEW j, IsJob(j), SetJob(w, j), Proceeds(w, j),
         SameOrders, SameRemotes
  PROVE  Placed' /\ KeyOfOrder'
<1>1. JobsTyped' /\ job'[w] = j /\ \A v \in Worker \ {w} : job'[v] = job[v]
  BY JobSet DEF ClientInv
<1>2. \A v \in Worker : job[v] # Idle => job[v].order \in Order
  BY NotIdle DEF ClientInv, ClientTypes
<1>3. j # Idle => j.order \in Order
  BY NotIdle
<1>4. Placed'
  BY <1>1, <1>2, <1>3, NotNoOrder DEF ClientInv, Placed, SameOrders, SameRemotes, Proceeds
<1>5. KeyOfOrder'
  <2>1. \A o \in Order : remote'[o] # NoOrder /\ remote'[o].status \in {"pending", "ready"} => remote'[o].key = "none"
    BY NotNoOrder DEF ClientInv, KeyOfOrder, SameRemotes
  <2>2. \A v \in Worker : job'[v] # Idle /\ job'[v].kind = "finalize" /\ job'[v].step \in {"poll", "download"}
                          => remote'[job'[v].order].key = v
    BY <1>1, <1>2, <1>3, NotNoOrder DEF ClientInv, KeyOfOrder, Placed, SameRemotes, Proceeds
  <2>3. \A o \in Order : order'[o] # NoOrder /\ order'[o].cert # "none" => order'[o].cert = remote'[o].key
    BY NotNoOrder DEF ClientInv, KeyOfOrder, Placed, SameOrders, SameRemotes
  <2> QED
    BY <2>1, <2>2, <2>3 DEF KeyOfOrder
<1> QED
  BY <1>4, <1>5

\* A step of a worker at a known order.
LEMMA WorkerInv ==
  ASSUME ClientInv, NEW w \in Worker, NEW j, IsJob(j), SetJob(w, j), Proceeds(w, j),
         SameOrders, SameRemotes, UNCHANGED <<provider, provRow>>, dns' \in Zone,
         Fault \/ NoFault \/ Intervene
  PROVE  ClientInv'
<1>1. Placed' /\ KeyOfOrder' /\ JobsTyped'
  BY JobSet, JobSetInv DEF ClientInv
<1>2. spent' \in 0 .. MaxDisturbances /\ failed' \in BOOLEAN
  BY CountTyped DEF ClientInv
<1>3. OrdersTyped' /\ RemotesTyped'
  BY DEF SameOrders, SameRemotes, OrdersTyped, RemotesTyped
<1> QED
  BY <1>1, <1>2, <1>3 DEF ClientInv, ClientTypes, JobsTyped, OrdersTyped, RemotesTyped

\* A step beside the workers.
LEMMA BesideInv ==
  ASSUME ClientInv, UNCHANGED <<provider, dns, job>>, SameOrders, SameRemotes,
         provRow' \in {"none", "enabled", "disabled", "deleted"},
         NoFault \/ Intervene
  PROVE  ClientInv'
<1>1. spent' \in 0 .. MaxDisturbances /\ failed' \in BOOLEAN
  BY CountTyped DEF ClientInv
<1>2. OrdersTyped' /\ RemotesTyped'
  BY DEF SameOrders, SameRemotes, OrdersTyped, RemotesTyped
<1>3. \A v \in Worker : job[v] # Idle => job[v].order \in Order
  BY NotIdle DEF ClientInv, ClientTypes
<1>4. ClientTypes'
  BY <1>1, <1>2 DEF ClientInv, ClientTypes, OrdersTyped, RemotesTyped
<1>5. Placed'
  BY <1>3, NotNoOrder DEF ClientInv, Placed, SameOrders, SameRemotes
<1>6. KeyOfOrder'
  BY <1>3, NotNoOrder DEF ClientInv, KeyOfOrder, Placed, SameOrders, SameRemotes
<1> QED
  BY <1>4, <1>5, <1>6 DEF ClientInv

\* A request for an order keeps the client's invariant.
LEMMA RequestInv ==
  ASSUME ClientInv, NEW w \in Worker, NEW o \in Order, Request(w, o)
  PROVE  ClientInv'
<1> DEFINE j == [kind |-> "request", step |-> "place", order |-> o]
<1>1. j \in RequestJob /\ j # Idle /\ j.kind = "request" /\ j.order = o
  BY DEF RequestJob, Idle
<1>2. SetJob(w, j) /\ IsJob(j)
  BY <1>1 DEF Request, IsJob
<1> HIDE DEF j
<1>3. JobsTyped' /\ job'[w] = j /\ \A v \in Worker \ {w} : job'[v] = job[v]
  BY <1>2, JobSet DEF ClientInv
<1>4. ClientTypes'
  BY <1>3 DEF Request, ClientInv, ClientTypes, JobsTyped
<1>5. Placed'
  BY <1>1, <1>3 DEF Request, ClientInv, Placed
<1>6. KeyOfOrder'
  BY <1>1, <1>3 DEF Request, ClientInv, KeyOfOrder
<1> QED
  BY <1>4, <1>5, <1>6 DEF ClientInv

\* The order created at the CA and stored keeps the client's invariant.
LEMMA CreateOrderInv ==
  ASSUME ClientInv, NEW w \in Worker, create_order(w)
  PROVE  ClientInv'
<1> DEFINE o == job[w].order
           r == [status |-> "pending", proved |-> {}, key |-> "none"]
<1>1. job[w] \in RequestJob /\ job[w] # Idle /\ job[w].kind = "request" /\ o \in Order
  <2>1. job[w].kind = "request"
    BY DEF create_order, At
  <2> QED
    BY <2>1, KindOfJob DEF ClientInv, ClientTypes, RequestJob
<1>2. /\ remote[o] = NoOrder /\ order[o] = NoOrder
      /\ \A v \in Worker : job[v] # Idle /\ job[v].order = o => v = w
  BY <1>1 DEF ClientInv, Placed
<1>3. spent' \in 0 .. MaxDisturbances /\ failed' \in BOOLEAN
  BY CountTyped DEF create_order, ClientInv
<1>4. r \in RemoteRow(o) /\ r # NoOrder /\ r.key = "none"
  <2>1. r \in RemoteRow(o)
    BY DEF RemoteRow, RemoteStatus
  <2> QED
    BY <1>1, <2>1, NotNoOrder
<1> HIDE DEF o, r
<1>5. CASE UNCHANGED <<order, remote>> /\ SetJob(w, Idle)
  <2>1. Placed' /\ KeyOfOrder' /\ JobsTyped'
    BY <1>5, OrderUnchanged, RemoteUnchanged, JobSetInv, JobSet DEF ClientInv, IsJob, Proceeds
  <2> QED
    BY <1>3, <1>5, <2>1 DEF create_order, ClientInv, ClientTypes, JobsTyped
<1>6. CASE \E ids \in SUBSET Requests[o] : \E chal \in Stored(ids) :
             /\ remote' = [remote EXCEPT ![o] = r]
             /\ order' = [order EXCEPT ![o] = Row(chal)] /\ SetJob(w, SetupOrIdle(o, chal))
  <2>1. PICK ids \in SUBSET Requests[o], chal \in Chals(o) :
          /\ remote' = [remote EXCEPT ![o] = r]
          /\ order' = [order EXCEPT ![o] = Row(chal)] /\ SetJob(w, SetupOrIdle(o, chal))
    BY <1>1, <1>6, ChalsOf
  <2>2. Row(chal) \in OrderRow(o) /\ Row(chal).cert = "none" /\ Row(chal) # NoOrder
    <3>1. Row(chal) \in OrderRow(o)
      BY DEF Row, OrderRow, Status, RemoteStatus, MAX_RENEWAL_FAILURES
    <3> QED
      BY <1>1, <3>1, NotNoOrder DEF Row
  <2>3. /\ IsJob(SetupOrIdle(o, chal))
        /\ \/ SetupOrIdle(o, chal) = Idle
           \/ SetupOrIdle(o, chal).kind = "setup" /\ SetupOrIdle(o, chal).order = o
    <3>1. SetupOrIdle(o, chal) = Idle \/ SetupOrIdle(o, chal) = DnsJob("setup", o, chal)
      BY DEF SetupOrIdle
    <3> QED
      BY <1>1, <3>1, DnsJobIs DEF IsJob
  <2>4. JobsTyped' /\ job'[w] = SetupOrIdle(o, chal) /\ \A v \in Worker \ {w} : job'[v] = job[v]
    BY <2>1, <2>3, JobSet DEF ClientInv
  <2>5. ClientTypes'
    BY <1>1, <1>3, <1>4, <2>1, <2>2, <2>4 DEF create_order, ClientInv, ClientTypes, JobsTyped
  <2>6. Placed'
    BY <1>1, <1>2, <1>4, <2>1, <2>2, <2>3, <2>4, NotIdle DEF ClientInv, ClientTypes, Placed
  <2>7. KeyOfOrder'
    BY <1>1, <1>2, <1>4, <2>1, <2>2, <2>3, <2>4 DEF ClientInv, ClientTypes, KeyOfOrder
  <2> QED
    BY <2>5, <2>6, <2>7 DEF ClientInv
<1> QED
  <2>1. \A i \in Requests[o] : Requests[o] \ {i} \in SUBSET Requests[o]
    OBVIOUS
  <2>2. Requests[o] \in SUBSET Requests[o]
    OBVIOUS
  <2> QED
    BY <1>5, <1>6, <2>1, <2>2 DEF create_order, o, r

\* A job's first look at the zone keeps the client's invariant.
LEMMA LookInv ==
  ASSUME ClientInv, NEW w \in Worker, Look(w)
  PROVE  ClientInv'
<1>1. PICK z : \E seen \in Zone : SetJob(w, [job[w] EXCEPT !.step = "write", !.zone = z, !.seen = seen])
  <2>1. dns \in Zone /\ Nothing \in Zone
    BY DEF ClientInv, ClientTypes, Zone, Nothing
  <2> QED
    BY <2>1 DEF Look
<1> PICK seen \in Zone : SetJob(w, [job[w] EXCEPT !.step = "write", !.zone = z, !.seen = seen])
  BY <1>1
<1> DEFINE j == [job[w] EXCEPT !.step = "write", !.zone = z, !.seen = seen]
<1>2. IsDnsJob(job[w]) /\ job[w] # Idle /\ job[w].kind # "request" /\ DOMAIN job[w].chal # {}
  BY KindOfJob DEF Look, ClientInv, ClientTypes
<1>3. IsDnsJob(j) /\ j.order = job[w].order /\ j.kind = job[w].kind
  BY <1>2 DEF IsDnsJob, DnsFields
<1>4. Proceeds(w, j) /\ IsJob(j)
  BY <1>2, <1>3 DEF Proceeds, IsDnsJob, IsJob, ClientInv, Placed
<1> HIDE DEF j
<1>5. SetJob(w, j)
  BY DEF j
<1>6. UNCHANGED <<provider, provRow, order, remote, dns>> /\ (Fault \/ NoFault) /\ dns \in Zone
  BY DEF Look, ClientInv, ClientTypes
<1> QED
  BY <1>4, <1>5, <1>6, WorkerInv, OrderUnchanged, RemoteUnchanged DEF ClientInv

\* What is left of a job on the records.
LEMMA RestOfJob ==
  ASSUME NEW w \in Worker, IsDnsJob(job[w]), DOMAIN job[w].chal # {}
  PROVE  /\ Todo(w) \in DOMAIN job[w].chal
         /\ Rest(w) = Idle \/ (IsDnsJob(Rest(w)) /\ Rest(w).order = job[w].order /\ Rest(w).kind = job[w].kind)
<1> DEFINE D == (DOMAIN job[w].chal) \ {Todo(w)}
           c == [d \in D |-> job[w].chal[d]]
           j == [job[w] EXCEPT !.chal = c, !.step = "look", !.zone = NoZone, !.seen = <<>>]
<1>1. Todo(w) \in DOMAIN job[w].chal
  BY DEF Todo
<1>2. c \in Chals(job[w].order)
  BY ChalsOf DEF IsDnsJob
<1>3. Rest(w) = Idle \/ Rest(w) = j
  BY DEF Rest
<1> HIDE DEF c
<1>4. IsDnsJob(j) /\ j.order = job[w].order /\ j.kind = job[w].kind
  BY <1>2 DEF IsDnsJob, DnsFields
<1> HIDE DEF j
<1> QED
  BY <1>1, <1>3, <1>4

\* A step on one name of a job on the zone keeps the client's invariant.
LEMMA DnsJobInv ==
  ASSUME ClientInv, NEW w \in Worker, IsDnsJob(job[w]), job[w] # Idle, DOMAIN job[w].chal # {},
         NEW j, j = Idle \/ (IsDnsJob(j) /\ j.order = job[w].order /\ j.kind = job[w].kind),
         SetJob(w, j), SameOrders, UNCHANGED <<provider, provRow, remote>>, dns' \in Zone,
         Fault \/ NoFault
  PROVE  ClientInv'
<1>1. IsJob(j) /\ Proceeds(w, j)
  BY DEF IsJob, IsDnsJob, Proceeds, ClientInv, Placed
<1> QED
  BY <1>1, WorkerInv, RemoteUnchanged DEF ClientInv

\* The name a job works on next is one of the zone, with a record as its value.
LEMMA TodoName ==
  ASSUME ClientInv, NEW w \in Worker, IsDnsJob(job[w]), DOMAIN job[w].chal # {}
  PROVE  Todo(w) \in Names /\ Value(job[w].order, job[w].chal[Todo(w)]) \in Record
  BY RestOfJob, ChalsOf DEF IsDnsJob, Names, Value, Record

\* A record created, or refused by the provider, keeps the client's invariant.
LEMMA CreateTxtInv ==
  ASSUME ClientInv, NEW w \in Worker, create_txt_record(w)
  PROVE  ClientInv'
<1>1. IsDnsJob(job[w]) /\ job[w] # Idle /\ DOMAIN job[w].chal # {} /\ job[w].seen \in Zone /\ job[w].order \in Order
  <2>1. job[w].kind = "setup" /\ job[w].step = "write"
    BY DEF create_txt_record, At
  <2> QED
    BY <2>1, KindOfJob DEF ClientInv, ClientTypes, IsDnsJob
<1>2. \A r \in Published(w) : r \in Zone
  <2>1. dns \in Zone /\ provider \in ProviderKinds
    BY DEF ClientInv, ClientTypes
  <2> QED
    BY <1>1, <2>1, TodoName, WrittenZone DEF Published, Effect
<1>3. dns' \in Zone
  BY <1>2 DEF create_txt_record, ClientInv, ClientTypes
<1>4. PICK ok \in BOOLEAN :
        \/ Rest(w) # Idle /\ SetJob(w, [Rest(w) EXCEPT !.ok = ok]) /\ UNCHANGED order
        \/ /\ SetJob(w, Idle)
           /\ IF Exists(job[w].order) THEN SetOrder(job[w].order, "told", IF ok THEN "ok" ELSE "warning")
              ELSE UNCHANGED order
  BY DEF create_txt_record
<1>5. CASE Rest(w) # Idle /\ SetJob(w, [Rest(w) EXCEPT !.ok = ok]) /\ UNCHANGED order
  <2>1. IsDnsJob(Rest(w)) /\ Rest(w).order = job[w].order /\ Rest(w).kind = job[w].kind
    BY <1>1, <1>5, RestOfJob
  <2> DEFINE j == [Rest(w) EXCEPT !.ok = ok]
  <2>2. IsDnsJob(j) /\ j.order = job[w].order /\ j.kind = job[w].kind
    BY <2>1 DEF IsDnsJob, DnsFields
  <2>3. SetJob(w, j)
    BY <1>5
  <2> HIDE DEF j
  <2> QED
    BY <1>1, <1>3, <1>5, <2>2, <2>3, DnsJobInv, OrderUnchanged DEF create_txt_record, ClientInv
<1>6. CASE /\ SetJob(w, Idle)
           /\ IF Exists(job[w].order) THEN SetOrder(job[w].order, "told", IF ok THEN "ok" ELSE "warning")
              ELSE UNCHANGED order
  <2>1. SameOrders
    <3>1. CASE Exists(job[w].order)
      <4>1. order[job[w].order] \in OrderRow(job[w].order)
        BY <1>1, <3>1 DEF Exists, ClientInv, ClientTypes
      <4>2. PICK x \in {"ok", "warning"} : SetOrder(job[w].order, "told", x)
        BY <1>6, <3>1
      <4> QED
        BY <1>1, <4>1, <4>2, FieldSet DEF ClientInv
    <3>2. CASE ~Exists(job[w].order)
      BY <1>6, <3>2, OrderUnchanged DEF ClientInv
    <3> QED
      BY <3>1, <3>2
  <2> QED
    BY <1>1, <1>3, <1>6, <2>1, DnsJobInv DEF create_txt_record
<1> QED
  BY <1>4, <1>5, <1>6

\* A record deleted, or refused by the provider, keeps the client's invariant.
LEMMA DeleteTxtInv ==
  ASSUME ClientInv, NEW w \in Worker, delete_txt_record(w)
  PROVE  ClientInv'
<1>1. IsDnsJob(job[w]) /\ job[w] # Idle /\ DOMAIN job[w].chal # {} /\ job[w].seen \in Zone
  BY KindOfJob DEF delete_txt_record, ClientInv, ClientTypes, IsDnsJob
<1>2. dns' \in Zone
  <2>1. dns \in Zone /\ provider \in ProviderKinds
    BY DEF ClientInv, ClientTypes
  <2>2. \A r : r \in Effect(job[w].zone, Todo(w), Removed(provider, dns, job[w].seen, Todo(w))) => r \in Zone
    BY <1>1, <2>1, TodoName, RemovedZone DEF Effect
  <2>3. \A r : r \in Effect(job[w].zone, Todo(w), PartlyRemoved(provider, dns, job[w].seen, Todo(w))) => r \in Zone
    BY <1>1, <2>1, TodoName, RemovedZone DEF Effect
  <2> QED
    BY <2>1, <2>2, <2>3 DEF delete_txt_record
<1>3. SetJob(w, Rest(w)) /\ UNCHANGED <<provider, provRow, order, remote>> /\ (Fault \/ NoFault)
  BY DEF delete_txt_record
<1> QED
  BY <1>1, <1>2, <1>3, RestOfJob, DnsJobInv, OrderUnchanged DEF ClientInv

\* A row of the CA that takes the place of another.
LEMMA RemoteSet ==
  ASSUME ClientTypes, NEW o \in Order, remote[o] \in RemoteRow(o), NEW r \in RemoteRow(o),
         remote' = [remote EXCEPT ![o] = r], r.key = remote[o].key,
         r.status \in {"pending", "ready"} => remote[o].status \in {"pending", "ready"}
  PROVE  SameRemotes
  BY DEF ClientTypes, SameRemotes

\* The order of a job under way is known at the CA.
LEMMA RowOfJob ==
  ASSUME ClientInv, NEW w \in Worker, job[w] # Idle, job[w].kind # "request"
  PROVE  /\ job[w].order \in Order /\ remote[job[w].order] \in RemoteRow(job[w].order)
         /\ remote[job[w].order].status \in RemoteStatus
<1>1. job[w].order \in Order
  BY NotIdle DEF ClientInv, ClientTypes
<1>2. remote[job[w].order] \in RemoteRow(job[w].order)
  BY <1>1 DEF ClientInv, ClientTypes, Placed
<1> QED
  BY <1>1, <1>2 DEF RemoteRow

\* A worker may always become idle.
LEMMA IdleFine == IsJob(Idle) /\ \A w : Proceeds(w, Idle)
  BY DEF IsJob, Proceeds

\* The start of a verification keeps the client's invariant.
LEMMA VerifyStartInv ==
  ASSUME ClientInv, NEW w \in Worker, NEW o \in Order, VerifyStart(w, o)
  PROVE  ClientInv'
<1> DEFINE j == [kind |-> "verify", order |-> o, step |-> "post", chal |-> order[o].chal,
                 was |-> order[o].status, failed |-> FALSE]
<1>1. order[o] \in OrderRow(o) /\ order[o].chal \in Chals(o) /\ order[o].status \in Status /\ remote[o] # NoOrder
  BY DEF VerifyStart, Exists, ClientInv, ClientTypes, Placed, OrderRow
<1>2. DOMAIN j = VerifyFields
  BY DEF VerifyFields
<1>3. /\ j.kind = "verify" /\ j.order = o /\ j.step = "post" /\ j.chal \in Chals(o) /\ j.was \in Status
  BY <1>1
<1>4. SetJob(w, j)
  BY DEF VerifyStart
<1> HIDE DEF j
<1>5. IsJob(j) /\ Proceeds(w, j)
  BY <1>1, <1>2, <1>3 DEF IsJob, IsVerifyJob, Proceeds
<1>6. UNCHANGED <<provider, provRow, order, remote, dns>> /\ dns \in Zone /\ (NoFault \/ Intervene)
  BY DEF VerifyStart, ClientInv, ClientTypes
<1> QED
  BY <1>4, <1>5, <1>6, WorkerInv, OrderUnchanged, RemoteUnchanged DEF ClientInv


\* A challenge answered at the CA keeps the client's invariant.
LEMMA VerifyChallengeInv ==
  ASSUME ClientInv, NEW w \in Worker, verify_challenge(w)
  PROVE  ClientInv'
<1> DEFINE o == job[w].order
           d == Todo(w)
           rest == [e \in (DOMAIN job[w].chal) \ {d} |-> job[w].chal[e]]
           p == remote[o].proved \cup {i \in {job[w].chal[d]} : Value(o, i) \in dns[d]}
           r == [remote[o] EXCEPT !.proved = p]
<1>1. IsVerifyJob(job[w]) /\ job[w] # Idle /\ job[w].kind = "verify"
  BY KindOfJob DEF verify_challenge, At, ClientInv, ClientTypes
<1>2. o \in Order /\ remote[o] \in RemoteRow(o) /\ remote[o] # NoOrder
  BY <1>1, RowOfJob, NotNoOrder
<1>3. d \in DOMAIN job[w].chal /\ job[w].chal[d] \in Requests[o] /\ rest \in Chals(o)
  <2>1. d \in DOMAIN job[w].chal
    BY DEF verify_challenge, Todo
  <2> QED
    BY <1>1, <1>2, <2>1, ChalsOf DEF IsVerifyJob
<1>4. p \in SUBSET Requests[o]
  BY <1>2, <1>3 DEF RemoteRow
<1> HIDE DEF p
<1>5. r \in RemoteRow(o) /\ r.key = remote[o].key /\ r.status = remote[o].status
  BY <1>2, <1>4 DEF RemoteRow
<1>6. UNCHANGED remote \/ remote' = [remote EXCEPT ![o] = r]
  BY DEF verify_challenge, p
<1> HIDE DEF r
<1>7. SameRemotes
  BY <1>2, <1>5, <1>6, RemoteSet, RemoteUnchanged DEF ClientInv
<1> HIDE DEF rest
<1>8. PICK j : /\ SetJob(w, j)
               /\ \/ Exists(o) /\ j = [job[w] EXCEPT !.chal = rest, !.was = order[o].status]
                  \/ j = [job[w] EXCEPT !.chal = rest, !.failed = TRUE]
  BY DEF verify_challenge, rest
<1>9. IsVerifyJob(j) /\ j.order = o /\ j.kind = "verify"
  <2>1. CASE Exists(o) /\ j = [job[w] EXCEPT !.chal = rest, !.was = order[o].status]
    <3>1. order[o].status \in Status
      BY <1>2, <2>1 DEF Exists, ClientInv, ClientTypes, OrderRow
    <3> QED
      BY <1>1, <1>3, <2>1, <3>1 DEF IsVerifyJob, VerifyFields
  <2>2. CASE j = [job[w] EXCEPT !.chal = rest, !.failed = TRUE]
    BY <1>1, <1>3, <2>2 DEF IsVerifyJob, VerifyFields
  <2> QED
    BY <1>8, <2>1, <2>2
<1>10. IsJob(j) /\ Proceeds(w, j)
  BY <1>2, <1>9 DEF IsJob, Proceeds
<1>11. UNCHANGED <<provider, provRow, order, dns>> /\ dns \in Zone /\ (NoFault \/ Fault)
  BY DEF verify_challenge, ClientInv, ClientTypes
<1>12. SetJob(w, j) /\ SameOrders
  BY <1>8, <1>11, OrderUnchanged DEF ClientInv
<1> QED
  BY <1>7, <1>10, <1>11, <1>12, WorkerInv

\* The end of a verification keeps the client's invariant.
LEMMA VerifyEndInv ==
  ASSUME ClientInv, NEW w \in Worker, VerifyEnd(w)
  PROVE  ClientInv'
<1>1. job[w] # Idle /\ job[w].kind = "verify"
  BY KindOfJob DEF VerifyEnd, At, ClientInv, ClientTypes
<1>2. job[w].order \in Order
  BY <1>1, RowOfJob
<1>3. UNCHANGED order \/ \E s \in {"pending", "ready", "valid", "validating"} : SetStatus(job[w].order, s)
  BY DEF VerifyEnd
<1>4. SameOrders
  BY <1>2, <1>3, OrderUnchanged, StatusSet DEF ClientInv, Status, RemoteStatus
<1>5. /\ SetJob(w, Idle) /\ UNCHANGED <<provider, provRow, remote, dns>> /\ dns \in Zone
      /\ NoFault \/ Fault
  BY DEF VerifyEnd, ClientInv, ClientTypes
<1> QED
  BY <1>4, <1>5, IdleFine, WorkerInv, RemoteUnchanged DEF ClientInv

\* The start of a finalization keeps the client's invariant.
LEMMA FinalizeStartInv ==
  ASSUME ClientInv, NEW w \in Worker, NEW o \in Order, FinalizeStart(w, o)
  PROVE  ClientInv'
<1> DEFINE j == [kind |-> "finalize", order |-> o, step |-> "check"]
<1>1. j \in FinalizeJob /\ j.kind = "finalize" /\ j.order = o /\ j.step = "check"
  BY DEF FinalizeJob
<1>2. remote[o] # NoOrder
  BY DEF FinalizeStart, Exists, ClientInv, Placed
<1>3. SetJob(w, j) /\ UNCHANGED <<provider, provRow, order, remote, dns>> /\ dns \in Zone /\ (NoFault \/ Intervene)
  BY DEF FinalizeStart, ClientInv, ClientTypes
<1> HIDE DEF j
<1>4. IsJob(j) /\ Proceeds(w, j)
  BY <1>1, <1>2 DEF IsJob, Proceeds
<1> QED
  BY <1>3, <1>4, WorkerInv, OrderUnchanged, RemoteUnchanged DEF ClientInv

\* A worker that finalizes goes on with the same order.
LEMMA NextStep ==
  ASSUME ClientInv, NEW w \in Worker, job[w] # Idle, job[w].kind = "finalize",
         NEW s \in {"check", "csr", "poll", "download"},
         s \in {"poll", "download"} => remote[job[w].order].key = w
  PROVE  LET j == [job[w] EXCEPT !.step = s]
         IN IsJob(j) /\ Proceeds(w, j) /\ j \in FinalizeJob /\ j.order = job[w].order /\ j.step = s
<1> DEFINE j == [job[w] EXCEPT !.step = s]
<1>1. job[w] \in FinalizeJob /\ remote[job[w].order] # NoOrder
  BY KindOfJob DEF ClientInv, ClientTypes, Placed
<1>2. j \in FinalizeJob /\ j.order = job[w].order /\ j.kind = "finalize" /\ j.step = s
  BY <1>1 DEF FinalizeJob
<1> HIDE DEF j
<1>3. IsJob(j) /\ Proceeds(w, j)
  BY <1>1, <1>2 DEF IsJob, Proceeds
<1> QED
  BY <1>2, <1>3 DEF j

\* A finalization's look at the CA's order keeps the client's invariant.
LEMMA FinalizeCheckInv ==
  ASSUME ClientInv, NEW w \in Worker, FinalizeCheck(w)
  PROVE  ClientInv'
<1>1. job[w] # Idle /\ job[w].kind = "finalize"
  BY KindOfJob DEF FinalizeCheck, At, ClientInv, ClientTypes
<1>2. job[w].order \in Order /\ remote[job[w].order].status \in Status
  BY <1>1, RowOfJob DEF Status
<1>3. SameOrders
  BY <1>2, OrderUnchanged, StatusSet DEF FinalizeCheck, ClientInv
<1>4. PICK j : SetJob(w, j) /\ (j = Idle \/ j = [job[w] EXCEPT !.step = "csr"])
  BY DEF FinalizeCheck, IfReady, Step
<1>5. IsJob(j) /\ Proceeds(w, j)
  BY <1>1, <1>4, IdleFine, NextStep
<1>6. UNCHANGED <<provider, provRow, remote, dns>> /\ dns \in Zone /\ (NoFault \/ Fault)
  BY DEF FinalizeCheck, ClientInv, ClientTypes
<1> QED
  BY <1>3, <1>4, <1>5, <1>6, WorkerInv, RemoteUnchanged DEF ClientInv

\* The CA takes the CSR: nobody was at the download of this order before.
LEMMA FinalizeCsrInv ==
  ASSUME ClientInv, NEW w \in Worker, FinalizeCsr(w)
  PROVE  ClientInv'
<1> DEFINE o == job[w].order
           r == [remote[o] EXCEPT !.status = "processing", !.key = w]
<1>1. job[w] # Idle /\ job[w].kind = "finalize"
  BY KindOfJob DEF FinalizeCsr, At, ClientInv, ClientTypes
<1>2. o \in Order /\ remote[o] \in RemoteRow(o) /\ remote[o] # NoOrder
  BY <1>1, RowOfJob, NotNoOrder
<1>3. SameOrders
  <2>1. UNCHANGED order \/ SetStatus(o, "processing") \/ SetStatus(o, "error")
    BY DEF FinalizeCsr, Raised
  <2> QED
    BY <1>2, <2>1, OrderUnchanged, StatusSet DEF ClientInv, Status, RemoteStatus
<1>4. UNCHANGED <<provider, provRow, dns>> /\ dns \in Zone /\ (NoFault \/ Fault)
  BY DEF FinalizeCsr, ClientInv, ClientTypes
<1>5. CASE UNCHANGED remote /\ SetJob(w, Idle)
  BY <1>3, <1>4, <1>5, IdleFine, WorkerInv, RemoteUnchanged DEF ClientInv
<1>6. CASE /\ remote[o].status = "ready" /\ remote' = [remote EXCEPT ![o] = r]
           /\ SetJob(w, Idle) \/ SetJob(w, [job[w] EXCEPT !.step = "poll"])
  <2>1. r \in RemoteRow(o) /\ r.key = w /\ r.status = "processing"
    BY <1>2 DEF RemoteRow, RemoteStatus
  <2> HIDE DEF r
  <2>2. r # NoOrder
    BY <1>2, <2>1, NotNoOrder
  <2>3. PICK j : SetJob(w, j) /\ (j = Idle \/ j = [job[w] EXCEPT !.step = "poll"])
    BY <1>6
  <2>4. IsJob(j) /\ (j = Idle \/ (j.order = o /\ j.kind = "finalize" /\ j # Idle))
    <3>1. job[w] \in FinalizeJob
      BY <1>1, KindOfJob DEF ClientInv, ClientTypes
    <3>2. CASE j = [job[w] EXCEPT !.step = "poll"]
      BY <3>1, <3>2, KindOfJob DEF FinalizeJob, IsJob
    <3> QED
      BY <2>3, <3>2, IdleFine
  <2>5. JobsTyped' /\ job'[w] = j /\ \A v \in Worker \ {w} : job'[v] = job[v]
    BY <2>3, <2>4, JobSet DEF ClientInv
  <2>6. DOMAIN remote' = Order /\ remote'[o] = r /\ \A p \in Order \ {o} : remote'[p] = remote[p]
    BY <1>2, <1>6 DEF ClientInv, ClientTypes
  <2>7. remote[o].key = "none"
    BY <1>2, <1>6 DEF ClientInv, KeyOfOrder
  <2>8. \A v \in Worker : job[v] # Idle => job[v].order \in Order
    BY NotIdle DEF ClientInv, ClientTypes
  <2>9. ClientTypes'
    <3>1. OrdersTyped' /\ RemotesTyped'
      BY <1>3, <2>1, <2>6 DEF SameOrders, OrdersTyped, RemotesTyped, ClientInv, ClientTypes
    <3>2. spent' \in 0 .. MaxDisturbances /\ failed' \in BOOLEAN
      BY <1>4, CountTyped DEF ClientInv
    <3> QED
      BY <1>4, <2>5, <3>1, <3>2 DEF ClientInv, ClientTypes, JobsTyped, OrdersTyped, RemotesTyped
  <2>10. Placed'
    BY <1>2, <1>3, <2>2, <2>4, <2>5, <2>6, <2>8, NotNoOrder DEF ClientInv, Placed, SameOrders
  <2>11. KeyOfOrder'
    <3>1. \A p \in Order : remote'[p] # NoOrder /\ remote'[p].status \in {"pending", "ready"} => remote'[p].key = "none"
      BY <2>1, <2>6 DEF ClientInv, KeyOfOrder
    <3>2. \A v \in Worker : job'[v] # Idle /\ job'[v].kind = "finalize" /\ job'[v].step \in {"poll", "download"}
                            => remote'[job'[v].order].key = v
      BY <2>1, <2>4, <2>5, <2>6, <2>7, <2>8, ClientAssumption DEF ClientInv, KeyOfOrder
    <3>3. \A p \in Order : order'[p] # NoOrder /\ order'[p].cert # "none" => order'[p].cert = remote'[p].key
      BY <1>3, <2>6, <2>7, NotNoOrder DEF ClientInv, KeyOfOrder, SameOrders
    <3> QED
      BY <3>1, <3>2, <3>3 DEF KeyOfOrder
  <2> QED
    BY <2>9, <2>10, <2>11 DEF ClientInv
<1> QED
  BY <1>5, <1>6 DEF FinalizeCsr, Raised, Step

\* A finalization's wait for the certificate keeps the client's invariant.
LEMMA FinalizePollInv ==
  ASSUME ClientInv, NEW w \in Worker, FinalizePoll(w)
  PROVE  ClientInv'
<1>1. job[w] # Idle /\ job[w].kind = "finalize" /\ job[w].step = "poll"
  BY KindOfJob DEF FinalizePoll, At, ClientInv, ClientTypes
<1>2. job[w].order \in Order /\ remote[job[w].order].status \in Status /\ remote[job[w].order].key = w
  BY <1>1, RowOfJob DEF Status, ClientInv, KeyOfOrder
<1>3. SameOrders
  BY <1>2, OrderUnchanged, StatusSet DEF FinalizePoll, ClientInv
<1>4. PICK j : SetJob(w, j) /\ (j = Idle \/ j = [job[w] EXCEPT !.step = "download"])
  BY DEF FinalizePoll, Step
<1>5. IsJob(j) /\ Proceeds(w, j)
  BY <1>1, <1>2, <1>4, IdleFine, NextStep
<1>6. UNCHANGED <<provider, provRow, remote, dns>> /\ dns \in Zone /\ NoFault
  BY DEF FinalizePoll, NoFault, ClientInv, ClientTypes
<1> QED
  BY <1>3, <1>4, <1>5, <1>6, WorkerInv, RemoteUnchanged DEF ClientInv

\* The cleanup of an order is a job on the zone for that order, or nothing.
LEMMA CleanupJobIs ==
  ASSUME ClientInv, NEW o \in Order, Exists(o)
  PROVE  \/ CleanupJob(o) = Idle
         \/ IsDnsJob(CleanupJob(o)) /\ CleanupJob(o).order = o /\ CleanupJob(o).kind = "cleanup"
<1>1. order[o].chal \in Chals(o)
  BY DEF Exists, ClientInv, ClientTypes, OrderRow
<1>2. CleanupJob(o) = Idle \/ CleanupJob(o) = DnsJob("cleanup", o, order[o].chal)
  BY DEF CleanupJob
<1> QED
  BY <1>1, <1>2, DnsJobIs

\* The certificate stored with its order's key keeps the client's invariant.
LEMMA FinalizeImportInv ==
  ASSUME ClientInv, NEW w \in Worker, FinalizeImport(w)
  PROVE  ClientInv'
<1> DEFINE o == job[w].order
<1>1. job[w] # Idle /\ job[w].kind = "finalize" /\ job[w].step = "download"
  BY KindOfJob DEF FinalizeImport, At, ClientInv, ClientTypes
<1>2. o \in Order /\ remote[o] # NoOrder /\ remote[o].key = w
  BY <1>1, RowOfJob, NotNoOrder DEF ClientInv, KeyOfOrder
<1>3. UNCHANGED <<provider, provRow, remote, dns>> /\ dns \in Zone /\ (NoFault \/ Fault)
  BY DEF FinalizeImport, ClientInv, ClientTypes
<1>4. CASE SetJob(w, Idle) /\ (UNCHANGED order \/ SetStatus(o, "error"))
  <2>1. SameOrders
    BY <1>2, <1>4, OrderUnchanged, StatusSet DEF ClientInv, Status
  <2> QED
    BY <1>3, <1>4, <2>1, IdleFine, WorkerInv, RemoteUnchanged DEF ClientInv
<1>5. CASE /\ Exists(o) /\ SetJob(w, CleanupJob(o))
           /\ order' = [order EXCEPT ![o] = [@ EXCEPT !.status = "issued", !.cert = w]]
  <2> DEFINE c == [order[o] EXCEPT !.status = "issued", !.cert = w]
  <2>1. order[o] \in OrderRow(o)
    BY <1>2, <1>5 DEF Exists, ClientInv, ClientTypes
  <2>2. c \in OrderRow(o) /\ c.cert = w
    BY <2>1 DEF OrderRow, Status
  <2>3. DOMAIN order' = Order /\ order'[o] = c /\ \A p \in Order \ {o} : order'[p] = order[p]
    BY <1>2, <1>5 DEF ClientInv, ClientTypes
  <2> HIDE DEF c
  <2>4. /\ IsJob(CleanupJob(o))
        /\ \/ CleanupJob(o) = Idle
           \/ CleanupJob(o).order = o /\ CleanupJob(o).kind = "cleanup"
    BY <1>2, <1>5, CleanupJobIs DEF IsJob
  <2>5. JobsTyped' /\ job'[w] = CleanupJob(o) /\ \A v \in Worker \ {w} : job'[v] = job[v]
    BY <1>5, <2>4, JobSet DEF ClientInv
  <2>6. ClientTypes'
    <3>1. OrdersTyped'
      BY <2>2, <2>3 DEF OrdersTyped, ClientInv, ClientTypes
    <3>2. spent' \in 0 .. MaxDisturbances /\ failed' \in BOOLEAN
      BY <1>3, CountTyped DEF ClientInv
    <3> QED
      BY <1>3, <2>5, <3>1, <3>2 DEF ClientInv, ClientTypes, JobsTyped, OrdersTyped
  <2>7. Placed'
    BY <1>2, <1>3, <2>3, <2>4, <2>5 DEF ClientInv, Placed
  <2>8. KeyOfOrder'
    BY <1>2, <1>3, <2>2, <2>3, <2>4, <2>5 DEF ClientInv, KeyOfOrder
  <2> QED
    BY <2>6, <2>7, <2>8 DEF ClientInv
<1> QED
  BY <1>4, <1>5 DEF FinalizeImport, Raised

\* The row of an order goes.
LEMMA RowGoneInv ==
  ASSUME ClientInv, NEW o \in Order, order' = [order EXCEPT ![o] = NoOrder],
         UNCHANGED <<provider, provRow, remote, dns>>, NoFault \/ Intervene,
         UNCHANGED job \/ \E w \in Worker : SetJob(w, Idle)
  PROVE  ClientInv'
<1>1. /\ DOMAIN order' = Order /\ order'[o] = NoOrder /\ \A p \in Order \ {o} : order'[p] = order[p]
  BY DEF ClientInv, ClientTypes
<1>2. JobsTyped' /\ \A v \in Worker : job'[v] = job[v] \/ job'[v] = Idle
  BY IdleFine, JobSet DEF ClientInv, ClientTypes, JobsTyped
<1>3. OrdersTyped'
  BY <1>1 DEF OrdersTyped, ClientInv, ClientTypes
<1>4. spent' \in 0 .. MaxDisturbances /\ failed' \in BOOLEAN
  BY CountTyped DEF ClientInv
<1>5. ClientTypes'
  BY <1>2, <1>3, <1>4 DEF ClientInv, ClientTypes, JobsTyped, OrdersTyped
<1>6. Placed'
  BY <1>1, <1>2 DEF ClientInv, Placed
<1>7. KeyOfOrder'
  BY <1>1, <1>2 DEF ClientInv, KeyOfOrder
<1> QED
  BY <1>5, <1>6, <1>7 DEF ClientInv

\* The start of a cancellation keeps the client's invariant.
LEMMA CancelStartInv ==
  ASSUME ClientInv, NEW w \in Worker, NEW o \in Order, CancelStart(w, o)
  PROVE  ClientInv'
<1>1. Exists(o) /\ remote[o] # NoOrder
  BY DEF CancelStart, Exists, ClientInv, Placed
<1>2. CASE CleanupJob(o) # Idle
  <2> DEFINE j == [CleanupJob(o) EXCEPT !.kind = "cancel"]
  <2>1. IsDnsJob(CleanupJob(o)) /\ CleanupJob(o).order = o
    BY <1>1, <1>2, CleanupJobIs
  <2>2. IsDnsJob(j) /\ j.order = o /\ j.kind = "cancel"
    BY <2>1 DEF IsDnsJob, DnsFields
  <2>3. SetJob(w, j) /\ UNCHANGED <<provider, provRow, order, remote, dns>> /\ Intervene /\ dns \in Zone
    BY <1>2 DEF CancelStart, ClientInv, ClientTypes
  <2> HIDE DEF j
  <2>4. IsJob(j) /\ Proceeds(w, j)
    BY <1>1, <2>2 DEF IsJob, Proceeds
  <2> QED
    BY <2>3, <2>4, WorkerInv, OrderUnchanged, RemoteUnchanged DEF ClientInv
<1>3. CASE CleanupJob(o) = Idle
  BY <1>3, RowGoneInv DEF CancelStart
<1> QED
  BY <1>2, <1>3

\* The end of a cancellation, which deletes the order, keeps the client's
\* invariant.
LEMMA CancelEndInv ==
  ASSUME ClientInv, NEW w \in Worker, CancelEnd(w)
  PROVE  ClientInv'
<1>1. job[w].order \in Order
  BY KindOfJob DEF CancelEnd, At, ClientInv, ClientTypes, IsDnsJob
<1> QED
  BY <1>1, RowGoneInv DEF CancelEnd, NoFault

\* A status read, a renewal or a decision of the CA keeps the client's
\* invariant.
LEMMA BesideOrderInv ==
  ASSUME ClientInv, NEW o \in Order, check_order_status(o) \/ Renewal(o) \/ CaDecides(o) \/ CaRefuses(o)
  PROVE  ClientInv'
<1>1. provRow' = provRow /\ provRow \in {"none", "enabled", "disabled", "deleted"}
      /\ UNCHANGED <<provider, dns, job>> /\ (NoFault \/ Intervene)
  BY DEF check_order_status, Renewal, CaDecides, CaRefuses, NoFault, ClientInv, ClientTypes
<1>2. SameOrders
  <2>1. CASE check_order_status(o)
    <3>1. remote[o].status \in Status
      BY <2>1 DEF check_order_status, Exists, ClientInv, Placed, ClientTypes, RemoteRow, Status
    <3> QED
      BY <2>1, <3>1, StatusSet DEF check_order_status, ClientInv
  <2>2. CASE Renewal(o)
    <3>1. order[o] \in OrderRow(o) /\ order[o].failures \in 0 .. MAX_RENEWAL_FAILURES
      BY <2>2 DEF Renewal, Exists, ClientInv, ClientTypes, OrderRow
    <3>2. order[o].failures + 1 \in 0 .. MAX_RENEWAL_FAILURES
      BY <2>2, <3>1 DEF Renewal, MAX_RENEWAL_FAILURES
    <3> QED
      BY <2>2, <3>1, <3>2, FieldSet DEF Renewal, ClientInv
  <2>3. CASE CaDecides(o) \/ CaRefuses(o)
    BY <2>3, OrderUnchanged DEF CaDecides, CaRefuses, ClientInv
  <2> QED
    BY <2>1, <2>2, <2>3
<1>3. SameRemotes
  <2>1. CASE check_order_status(o) \/ Renewal(o)
    BY <2>1, RemoteUnchanged DEF check_order_status, Renewal, ClientInv
  <2>2. CASE CaDecides(o) \/ CaRefuses(o)
    <3>1. remote[o] \in RemoteRow(o)
      BY <2>2 DEF CaDecides, CaRefuses, ClientInv, ClientTypes
    <3>2. PICK s \in RemoteStatus : /\ remote' = [remote EXCEPT ![o] = [remote[o] EXCEPT !.status = s]]
                                    /\ s \in {"pending", "ready"} => remote[o].status \in {"pending", "ready"}
      BY <2>2 DEF CaDecides, CaRefuses, RemoteStatus
    <3> DEFINE r == [remote[o] EXCEPT !.status = s]
    <3>3. r \in RemoteRow(o) /\ r.key = remote[o].key /\ r.status = s
      BY <3>1 DEF RemoteRow
    <3> QED
      BY <3>1, <3>2, <3>3, RemoteSet DEF ClientInv
  <2> QED
    BY <2>1, <2>2
<1> QED
  BY <1>1, <1>2, <1>3, BesideInv

\* Every step of the ACME client keeps its invariant.
LEMMA ClientStepInv == ClientInv /\ [ClientNext]_clientVars => ClientInv'
<1> SUFFICES ASSUME ClientInv, [ClientNext]_clientVars PROVE ClientInv'
  OBVIOUS
<1>1. CASE \E w \in Worker : WorkerStep(w)
  BY <1>1, CreateOrderInv, LookInv, CreateTxtInv, DeleteTxtInv, VerifyChallengeInv, VerifyEndInv,
     FinalizeCheckInv, FinalizeCsrInv, FinalizePollInv, FinalizeImportInv, CancelEndInv DEF WorkerStep
<1>2. CASE \E w \in Worker, o \in Order :
             Request(w, o) \/ VerifyStart(w, o) \/ FinalizeStart(w, o) \/ CancelStart(w, o)
  BY <1>2, RequestInv, VerifyStartInv, FinalizeStartInv, CancelStartInv
<1>3. CASE \E o \in Order : check_order_status(o) \/ Renewal(o) \/ CaDecides(o) \/ CaRefuses(o)
  BY <1>3, BesideOrderInv
<1>4. CASE create_provider \/ update_provider \/ delete_provider
  <2>1. /\ UNCHANGED <<provider, order, remote, dns, job>> /\ (NoFault \/ Intervene)
        /\ provRow' \in {"none", "enabled", "disabled", "deleted"}
    BY <1>4 DEF create_provider, update_provider, delete_provider, NoFault
  <2> QED
    BY <2>1, BesideInv, OrderUnchanged, RemoteUnchanged DEF ClientInv
<1>5. CASE UNCHANGED clientVars
  <2>1. UNCHANGED <<provider, order, remote, dns, job, provRow>> /\ NoFault
    BY <1>5 DEF clientVars, NoFault
  <2>2. provRow' \in {"none", "enabled", "disabled", "deleted"}
    BY <2>1 DEF ClientInv, ClientTypes
  <2> QED
    BY <2>1, <2>2, BesideInv, OrderUnchanged, RemoteUnchanged DEF ClientInv
<1> QED
  BY <1>1, <1>2, <1>3, <1>4, <1>5 DEF ClientNext

\* The orders, the records and the counters of the client keep their types,
\* whatever the workers, the administrator, the CA and the network do.
THEOREM ClientTyped == ClientSpec => []ClientTypeOK
<1>1. ClientInv => ClientTypeOK
  <2> SUFFICES ASSUME ClientInv PROVE ClientTypeOK
    OBVIOUS
  <2>1. ASSUME NEW o \in Order, order[o] \in OrderRow(o)
        PROVE  /\ order[o].chal \in [DOMAIN order[o].chal -> Idents]
               /\ DOMAIN order[o].chal \subseteq DomainNames
    <3>1. order[o].chal \in Chals(o)
      BY <2>1 DEF OrderRow
    <3> QED
      BY <3>1, ChalsOf
  <2>2. \A n \in Names : dns[n] \subseteq {SiteRecord} \cup (Order \X Idents)
    BY DEF ClientInv, ClientTypes, Zone, Record
  <2>3. \A o \in Order : \/ remote[o] = NoOrder
                         \/ /\ remote[o].status \in RemoteStatus
                            /\ remote[o].proved \subseteq Requests[o]
                            /\ remote[o].key \in Worker \cup {"none"}
    BY DEF ClientInv, ClientTypes, RemoteRow
  <2> QED
    BY <2>1, <2>2, <2>3 DEF ClientInv, ClientTypes, ClientTypeOK, OrderRow
<1> QED
  BY <1>1, ClientInitInv, ClientStepInv, PTL DEF ClientSpec, ClientInv

\* A certificate is stored with the key it was issued for, though two workers
\* finalize one order and answers of the CA are lost.
THEOREM KeyOfIssued == ClientSpec => []IssuedWithItsKey
<1>1. ClientInv => IssuedWithItsKey
  BY DEF ClientInv, KeyOfOrder, IssuedWithItsKey, Exists
<1> QED
  BY <1>1, ClientInitInv, ClientStepInv, PTL DEF ClientSpec, ClientInv

----------------------------------------------------------------------------
\* Records of an order in a zone.
Has(zone, o) == \E n \in Names, i \in Idents : <<o, i>> \in zone[n]

OnRecords(j) == j # Idle /\ j.kind \in {"setup", "cleanup", "cancel"}
Writing(w) == OnRecords(job[w]) /\ job[w].step = "write"
SetsUp(w) == job[w] # Idle /\ job[w].kind = "setup"
CleansUp(w) == job[w] # Idle /\ job[w].kind = "cleanup"

\* An order that was not placed, or whose provider went meanwhile, has no
\* record, and none will be written.
Free(o) ==
  /\ ~Has(dns, o)
  /\ \A w \in Worker : /\ Writing(w) => ~Has(job[w].seen, o)
                       /\ SetsUp(w) => job[w].order # o

Unpublished ==
  \A o \in Order : remote[o] = NoOrder \/ (order[o] # NoOrder /\ ~ProviderFound) => Free(o)

\* The record of the site is in the zone, and in what will be written back.
SiteKept ==
  /\ provider.create # "rewrite" \/ ~failed => dns[OtherName] = {SiteRecord}
  /\ provider.create = "rewrite" /\ ~failed =>
       \A w \in Worker : Writing(w) => job[w].seen[OtherName] = {SiteRecord}

\* The CA goes on with an order when every identifier is proved.
ProvedFirst ==
  \A o \in Order : remote[o] # NoOrder /\ (remote[o].status = "ready" \/ remote[o].key # "none")
                   => remote[o].proved = Requests[o]

\* One worker at most sets up an order, and has something left to set up.
OneSetup ==
  \A w \in Worker : SetsUp(w) =>
    /\ DOMAIN job[w].chal # {}
    /\ \A v \in Worker : SetsUp(v) /\ job[v].order = job[w].order => v = w

InPlace ==
  \A o \in Order, i \in Idents, n \in Names : <<o, i>> \in dns[n] =>
     i[1] = n /\ ZoneOf(provider, n) = Authoritative(n) /\ ZoneOf(provider, n) # NoZone

LeftToDo ==
  \A w \in Worker : SetsUp(w) => \A d \in DOMAIN job[w].chal :
     /\ <<job[w].order, job[w].chal[d]>> \notin dns[d]
     /\ job[w].chal[d] \notin remote[job[w].order].proved

ZoneFound == \A w \in Worker : Writing(w) => job[w].zone = ZoneOf(provider, Todo(w))

SeenAll ==
  \A w \in Worker : CleansUp(w) =>
     /\ remote[job[w].order].key # "none"
     /\ job[w].step = "write" /\ provider.delete \in {"each", "named"} =>
          \A n \in Names, i \in Idents : <<job[w].order, i>> \in dns[n] => <<job[w].order, i>> \in job[w].seen[n]

ToBeCleaned ==
  \A o \in Order : order[o] # NoOrder /\ order[o].cert # "none" =>
     \A d \in DOMAIN order[o].chal :
        \/ <<o, order[o].chal[d]>> \notin dns[d]
        \/ \E w \in Worker : CleansUp(w) /\ job[w].order = o /\ d \in DOMAIN job[w].chal

Tidy == Keeps /\ Removes /\ ~failed => InPlace /\ LeftToDo /\ ZoneFound /\ SeenAll /\ ToBeCleaned

ZoneInv == Unpublished /\ SiteKept /\ ProvedFirst /\ OneSetup /\ Tidy

\* An order whose key the CA has is set up.
LEMMA SetUpBeforeKey ==
  ASSUME ClientInv, ProvedFirst, OneSetup, LeftToDo, NEW w \in Worker, SetsUp(w)
  PROVE  remote[job[w].order].key = "none" /\ remote[job[w].order].status # "ready"
<1>1. job[w].order \in Order /\ remote[job[w].order] # NoOrder /\ IsDnsJob(job[w])
  BY KindOfJob, RowOfJob, NotNoOrder DEF SetsUp, ClientInv, ClientTypes, IsDnsJob
<1>2. PICK d \in DOMAIN job[w].chal : TRUE
  BY DEF OneSetup
<1>3. job[w].chal[d] \in Requests[job[w].order] /\ job[w].chal[d] \notin remote[job[w].order].proved
  BY <1>1, <1>2, ChalsOf DEF IsDnsJob, LeftToDo
<1> QED
  BY <1>1, <1>3 DEF ProvedFirst

\* The invariant of the zone holds before the first order.
LEMMA ZoneInitInv == ClientInit => ZoneInv
<1> SUFFICES ASSUME ClientInit PROVE ZoneInv
  OBVIOUS
<1>1. ASSUME NEW n \in Names, NEW o, NEW i PROVE <<o, i>> \notin dns[n]
  BY DEF ClientInit, SiteRecord
<1>2. \A w \in Worker : ~Writing(w) /\ ~SetsUp(w) /\ ~CleansUp(w)
  BY DEF ClientInit, Writing, OnRecords, SetsUp, CleansUp
<1>3. Unpublished
  BY <1>1, <1>2 DEF Unpublished, Free, Has
<1>4. SiteKept
  BY <1>2 DEF SiteKept, ClientInit, Names
<1>5. ProvedFirst /\ OneSetup
  BY <1>2 DEF ProvedFirst, OneSetup, ClientInit
<1>6. Tidy
  BY <1>1, <1>2 DEF Tidy, InPlace, LeftToDo, ZoneFound, SeenAll, ToBeCleaned, ClientInit
<1> QED
  BY <1>3, <1>4, <1>5, <1>6 DEF ZoneInv

----------------------------------------------------------------------------
\* Steps that leave the records alone.
QuietJobs ==
  \A w \in Worker : 
    /\ OnRecords(job'[w]) => job'[w] = job[w] \/ (job'[w].kind = "cancel" /\ job'[w].step = "look")
    /\ CleansUp(w) => job'[w] = job[w]

QuietOrders ==
  \A o \in Order : order'[o] # NoOrder => /\ order[o] # NoOrder /\ order'[o].chal = order[o].chal
                                          /\ order'[o].cert = order[o].cert

QuietRemotes ==
  \A o \in Order :
    /\ remote'[o] = NoOrder <=> remote[o] = NoOrder
    /\ remote[o] # NoOrder =>
         /\ \A i \in remote'[o].proved : i \in remote[o].proved \/ (i \in Idents /\ <<o, i>> \in dns[i[1]])
         /\ remote[o].key # "none" => remote'[o].key # "none"

QuietProvider ==
  /\ provider' = provider /\ dns' = dns /\ (failed' = failed \/ failed')
  /\ (\E o \in Order : order[o] # NoOrder) /\ provRow \in {"enabled", "disabled"} => provRow' \in {"enabled", "disabled"}

\* A step that leaves the zone and what is due on it alone keeps the zone's
\* invariant.
LEMMA QuietInv ==
  ASSUME ClientInv, ZoneInv, QuietJobs, QuietOrders, QuietRemotes, QuietProvider, ProvedFirst'
  PROVE  ZoneInv'
<1>1. \A w \in Worker : /\ Writing(w)' => Writing(w) /\ job'[w] = job[w]
                        /\ SetsUp(w)' => SetsUp(w) /\ job'[w] = job[w]
                        /\ CleansUp(w)' <=> CleansUp(w)
                        /\ CleansUp(w) => job'[w] = job[w]
  BY DEF QuietJobs, OnRecords, Writing, SetsUp, CleansUp
<1>2. Unpublished'
  <2> SUFFICES ASSUME NEW o \in Order, remote'[o] = NoOrder \/ (order'[o] # NoOrder /\ ~ProviderFound')
               PROVE  Free(o)'
    BY DEF Unpublished
  <2>1. Free(o)
    BY DEF ZoneInv, Unpublished, QuietRemotes, QuietOrders, QuietProvider, ProviderFound
  <2> QED
    BY <1>1, <2>1 DEF Free, Has, QuietProvider
<1>3. SiteKept'
  BY <1>1 DEF ZoneInv, SiteKept, QuietProvider
<1>4. OneSetup'
  BY <1>1 DEF ZoneInv, OneSetup
<1>5. Tidy'
  <2> SUFFICES ASSUME Keeps', Removes', ~failed'
               PROVE  (InPlace /\ LeftToDo /\ ZoneFound /\ SeenAll /\ ToBeCleaned)'
    BY DEF Tidy
  <2>1. InPlace /\ LeftToDo /\ ZoneFound /\ SeenAll /\ ToBeCleaned
    BY DEF ZoneInv, Tidy, QuietProvider, Keeps, Removes
  <2>2. InPlace'
    BY <2>1 DEF InPlace, QuietProvider
  <2>3. LeftToDo'
    <3> SUFFICES ASSUME NEW w \in Worker, SetsUp(w), job'[w] = job[w], NEW d \in DOMAIN job[w].chal
                 PROVE  job[w].chal[d] \notin remote'[job[w].order].proved
      BY <1>1, <2>1 DEF LeftToDo, QuietProvider
    <3>1. job[w].order \in Order /\ remote[job[w].order] # NoOrder /\ job[w].chal[d][1] = d
      BY KindOfJob, RowOfJob, NotNoOrder, ChalsOf DEF SetsUp, ClientInv, ClientTypes, IsDnsJob
    <3> QED
      BY <2>1, <3>1 DEF LeftToDo, QuietRemotes
  <2>4. ZoneFound'
    BY <1>1, <2>1 DEF ZoneFound, QuietProvider, Todo
  <2>5. SeenAll'
    <3>1. \A w \in Worker : CleansUp(w) => job[w].order \in Order /\ remote[job[w].order] # NoOrder
      BY KindOfJob, RowOfJob, NotNoOrder DEF CleansUp, ClientInv, ClientTypes, IsDnsJob
    <3> QED
      BY <1>1, <2>1, <3>1 DEF SeenAll, QuietProvider, QuietRemotes
  <2>6. ToBeCleaned'
    BY <1>1, <2>1 DEF ToBeCleaned, QuietOrders, QuietProvider
  <2> QED
    BY <2>2, <2>3, <2>4, <2>5, <2>6
<1> QED
  BY <1>2, <1>3, <1>4, <1>5 DEF ZoneInv

QuietStep == QuietJobs /\ QuietOrders /\ QuietRemotes /\ QuietProvider /\ ProvedFirst'

\* The worker's job is no job on the records, before and after.
LEMMA QuietJobSet ==
  ASSUME ClientInv, NEW w \in Worker, ~CleansUp(w), NEW j, SetJob(w, j),
         ~OnRecords(j) \/ (j.kind = "cancel" /\ j.step = "look")
  PROVE  QuietJobs
  BY DEF QuietJobs, SetJob, ClientInv, ClientTypes, OnRecords

\* A step that changes no job is quiet on the jobs.
LEMMA QuietJobSame == ASSUME UNCHANGED job PROVE QuietJobs
  BY DEF QuietJobs

\* A step that keeps every order's certificate and challenges is quiet on the orders.
LEMMA QuietOrderSet == ASSUME SameOrders PROVE QuietOrders
  BY NotNoOrder DEF QuietOrders, SameOrders

\* A step that leaves the CA's orders alone is quiet on them.
LEMMA QuietRemoteSame == ASSUME ZoneInv, UNCHANGED remote PROVE QuietRemotes /\ ProvedFirst'
  BY DEF QuietRemotes, ZoneInv, ProvedFirst

\* A step that leaves the provider and its zone alone is quiet on them.
LEMMA QuietProviderSame ==
  ASSUME ClientInv, UNCHANGED <<provider, provRow, dns>>, Fault \/ NoFault \/ Intervene
  PROVE  QuietProvider
  BY DEF QuietProvider, Fault, NoFault, Intervene

\* A request for an order does not touch the zone.
LEMMA RequestQuiet ==
  ASSUME ClientInv, ZoneInv, NEW w \in Worker, NEW o \in Order, Request(w, o)
  PROVE  QuietStep
<1>1. UNCHANGED <<provider, provRow, order, remote, dns>> /\ NoFault
  BY DEF Request, NoFault
<1> DEFINE j == [kind |-> "request", step |-> "place", order |-> o]
<1>2. SetJob(w, j) /\ ~OnRecords(j) /\ ~CleansUp(w)
  BY DEF Request, OnRecords, CleansUp
<1> HIDE DEF j
<1> QED
  BY <1>1, <1>2, QuietJobSet, OrderUnchanged, QuietOrderSet, QuietRemoteSame, QuietProviderSame
  DEF QuietStep, ClientInv

\* The start and the end of a verification do not touch the zone.
LEMMA VerifyQuiet ==
  ASSUME ClientInv, ZoneInv, NEW w \in Worker,
         (\E o \in Order : VerifyStart(w, o)) \/ VerifyEnd(w)
  PROVE  QuietStep
<1>1. UNCHANGED <<provider, provRow, remote, dns>> /\ (NoFault \/ Fault \/ Intervene)
  BY DEF VerifyStart, VerifyEnd
<1>2. CASE \E o \in Order : VerifyStart(w, o)
  <2>1. PICK o \in Order : VerifyStart(w, o)
    BY <1>2
  <2> DEFINE j == [kind |-> "verify", order |-> o, step |-> "post", chal |-> order[o].chal,
                   was |-> order[o].status, failed |-> FALSE]
  <2>2. SetJob(w, j) /\ ~OnRecords(j) /\ ~CleansUp(w) /\ UNCHANGED order
    BY <2>1 DEF VerifyStart, OnRecords, CleansUp
  <2> HIDE DEF j
  <2> QED
    BY <1>1, <2>2, QuietJobSet, OrderUnchanged, QuietOrderSet, QuietRemoteSame, QuietProviderSame
    DEF QuietStep, ClientInv
<1>3. CASE VerifyEnd(w)
  <2>1. job[w] # Idle /\ job[w].kind = "verify" /\ job[w].order \in Order
    BY <1>3, KindOfJob DEF VerifyEnd, At, ClientInv, ClientTypes, IsVerifyJob
  <2>2. SetJob(w, Idle) /\ ~OnRecords(Idle) /\ ~CleansUp(w)
    BY <1>3, <2>1 DEF VerifyEnd, OnRecords, CleansUp
  <2>3. UNCHANGED order \/ \E s \in {"pending", "ready", "valid", "validating"} : SetStatus(job[w].order, s)
    BY <1>3 DEF VerifyEnd
  <2>4. SameOrders
    BY <2>1, <2>3, OrderUnchanged, StatusSet DEF ClientInv, Status, RemoteStatus
  <2> QED
    BY <1>1, <2>2, <2>4, QuietJobSet, QuietOrderSet, QuietRemoteSame, QuietProviderSame DEF QuietStep
<1> QED
  BY <1>2, <1>3

\* A challenge is proved by a record that is there.
LEMMA VerifyChallengeQuiet ==
  ASSUME ClientInv, ZoneInv, NEW w \in Worker, verify_challenge(w)
  PROVE  QuietStep
<1> DEFINE o == job[w].order
           i == job[w].chal[Todo(w)]
<1>1. IsVerifyJob(job[w]) /\ job[w] # Idle /\ job[w].kind = "verify"
  BY KindOfJob DEF verify_challenge, At, ClientInv, ClientTypes
<1>2. o \in Order /\ remote[o] \in RemoteRow(o) /\ remote[o] # NoOrder
  BY <1>1, RowOfJob, NotNoOrder
<1>3. i \in Requests[o] /\ i \in Idents /\ i[1] = Todo(w)
  <2>1. Todo(w) \in DOMAIN job[w].chal
    BY DEF verify_challenge, Todo
  <2> QED
    BY <1>1, <1>2, <2>1, ChalsOf DEF IsVerifyJob
<1>4. \/ UNCHANGED remote
      \/ /\ remote[o].status = "pending"
         /\ remote' = [remote EXCEPT ![o].proved = @ \cup {x \in {i} : Value(o, x) \in dns[Todo(w)]}]
  BY DEF verify_challenge
<1>5. QuietRemotes /\ ProvedFirst'
  <2>1. CASE UNCHANGED remote
    BY <2>1, QuietRemoteSame
  <2>2. CASE /\ remote[o].status = "pending"
             /\ remote' = [remote EXCEPT ![o].proved = @ \cup {x \in {i} : Value(o, x) \in dns[Todo(w)]}]
    <3> DEFINE p == remote[o].proved \cup {x \in {i} : Value(o, x) \in dns[Todo(w)]}
               r == [remote[o] EXCEPT !.proved = p]
    <3>1. p \in SUBSET Requests[o] /\ \A x \in p : x \in remote[o].proved \/ (x \in Idents /\ <<o, x>> \in dns[x[1]])
      BY <1>2, <1>3 DEF RemoteRow, Value
    <3>2. remote'[o] = r /\ \A q \in Order \ {o} : remote'[q] = remote[q]
      BY <1>2, <2>2 DEF ClientInv, ClientTypes
    <3> HIDE DEF p
    <3>3. r \in RemoteRow(o) /\ r.proved = p /\ r.key = remote[o].key /\ r.status = "pending"
      BY <1>2, <2>2, <3>1 DEF RemoteRow
    <3> HIDE DEF r
    <3>4. remote[o].key = "none"
      BY <1>2, <2>2 DEF ClientInv, KeyOfOrder
    <3>5. QuietRemotes
      BY <1>2, <3>1, <3>2, <3>3, NotNoOrder DEF QuietRemotes
    <3>6. ProvedFirst'
      BY <1>2, <3>2, <3>3, <3>4 DEF ZoneInv, ProvedFirst
    <3> QED
      BY <3>5, <3>6
  <2> QED
    BY <1>4, <2>1, <2>2
<1>6. UNCHANGED <<provider, provRow, order, dns>> /\ (NoFault \/ Fault)
  BY DEF verify_challenge
<1>7. PICK j : SetJob(w, j) /\ j.kind = "verify"
  <2>1. PICK j, c : /\ SetJob(w, j)
                    /\ \/ j = [job[w] EXCEPT !.chal = c, !.was = order[o].status]
                       \/ j = [job[w] EXCEPT !.chal = c, !.failed = TRUE]
    BY DEF verify_challenge
  <2>2. j.kind = "verify"
    BY <1>1, <2>1 DEF IsVerifyJob, VerifyFields
  <2> QED
    BY <2>1, <2>2
<1>8. ~OnRecords(j) /\ ~CleansUp(w)
  BY <1>1, <1>7 DEF OnRecords, CleansUp
<1> QED
  BY <1>5, <1>6, <1>7, <1>8, QuietJobSet, OrderUnchanged, QuietOrderSet, QuietProviderSame
  DEF QuietStep, ClientInv

\* The steps of a finalization before the certificate do not touch the zone.
LEMMA FinalizeQuiet ==
  ASSUME ClientInv, ZoneInv, NEW w \in Worker,
         (\E o \in Order : FinalizeStart(w, o)) \/ FinalizeCheck(w) \/ FinalizePoll(w)
  PROVE  QuietStep
<1>1. UNCHANGED <<provider, provRow, remote, dns>> /\ (NoFault \/ Fault \/ Intervene)
  BY DEF FinalizeStart, FinalizeCheck, FinalizePoll, NoFault
<1>2. CASE \E o \in Order : FinalizeStart(w, o)
  <2>1. PICK o \in Order : FinalizeStart(w, o)
    BY <1>2
  <2> DEFINE j == [kind |-> "finalize", order |-> o, step |-> "check"]
  <2>2. SetJob(w, j) /\ ~OnRecords(j) /\ ~CleansUp(w) /\ UNCHANGED order
    BY <2>1 DEF FinalizeStart, OnRecords, CleansUp
  <2> HIDE DEF j
  <2> QED
    BY <1>1, <2>2, QuietJobSet, OrderUnchanged, QuietOrderSet, QuietRemoteSame, QuietProviderSame
    DEF QuietStep, ClientInv
<1>3. CASE FinalizeCheck(w) \/ FinalizePoll(w)
  <2>1. job[w] # Idle /\ job[w].kind = "finalize" /\ job[w] \in FinalizeJob
    BY <1>3, KindOfJob DEF FinalizeCheck, FinalizePoll, At, ClientInv, ClientTypes
  <2>2. job[w].order \in Order /\ remote[job[w].order].status \in Status
    BY <2>1, RowOfJob DEF Status
  <2>3. SameOrders
    BY <1>3, <2>2, OrderUnchanged, StatusSet DEF FinalizeCheck, FinalizePoll, ClientInv
  <2>4. PICK j : SetJob(w, j) /\ (j = Idle \/ \E s : j = [job[w] EXCEPT !.step = s])
    BY <1>3 DEF FinalizeCheck, FinalizePoll, IfReady, Step
  <2>5. ~OnRecords(j) /\ ~CleansUp(w)
    BY <2>1, <2>4 DEF OnRecords, CleansUp, FinalizeJob
  <2> QED
    BY <1>1, <2>3, <2>4, <2>5, QuietJobSet, QuietOrderSet, QuietRemoteSame, QuietProviderSame DEF QuietStep
<1> QED
  BY <1>2, <1>3

\* The CSR sent to the CA does not touch the zone.
LEMMA FinalizeCsrQuiet ==
  ASSUME ClientInv, ZoneInv, NEW w \in Worker, FinalizeCsr(w)
  PROVE  QuietStep
<1> DEFINE o == job[w].order
<1>1. job[w] # Idle /\ job[w].kind = "finalize" /\ job[w] \in FinalizeJob
  BY KindOfJob DEF FinalizeCsr, At, ClientInv, ClientTypes
<1>2. o \in Order /\ remote[o] \in RemoteRow(o) /\ remote[o] # NoOrder
  BY <1>1, RowOfJob, NotNoOrder
<1>3. SameOrders
  <2>1. UNCHANGED order \/ SetStatus(o, "processing") \/ SetStatus(o, "error")
    BY DEF FinalizeCsr, Raised
  <2> QED
    BY <1>2, <2>1, OrderUnchanged, StatusSet DEF ClientInv, Status, RemoteStatus
<1>4. UNCHANGED <<provider, provRow, dns>> /\ (NoFault \/ Fault)
  BY DEF FinalizeCsr
<1>5. QuietRemotes /\ ProvedFirst'
  <2>1. CASE UNCHANGED remote
    BY <2>1, QuietRemoteSame
  <2>2. CASE /\ remote[o].status = "ready"
             /\ remote' = [remote EXCEPT ![o] = [@ EXCEPT !.status = "processing", !.key = w]]
    <3> DEFINE r == [remote[o] EXCEPT !.status = "processing", !.key = w]
    <3>1. r \in RemoteRow(o) /\ r.proved = remote[o].proved /\ r.key = w
      BY <1>2 DEF RemoteRow, RemoteStatus
    <3>2. remote'[o] = r /\ \A q \in Order \ {o} : remote'[q] = remote[q]
      BY <1>2, <2>2 DEF ClientInv, ClientTypes
    <3> HIDE DEF r
    <3>3. QuietRemotes
      BY <1>2, <3>1, <3>2, NotNoOrder, ClientAssumption DEF QuietRemotes
    <3>4. ProvedFirst'
      BY <1>2, <2>2, <3>1, <3>2 DEF ZoneInv, ProvedFirst
    <3> QED
      BY <3>3, <3>4
  <2> QED
    BY <2>1, <2>2 DEF FinalizeCsr
<1>6. PICK j : SetJob(w, j) /\ (j = Idle \/ j = [job[w] EXCEPT !.step = "poll"])
  BY DEF FinalizeCsr, Raised, Step
<1>7. ~OnRecords(j) /\ ~CleansUp(w)
  BY <1>1, <1>6 DEF OnRecords, CleansUp, FinalizeJob
<1> QED
  BY <1>3, <1>4, <1>5, <1>6, <1>7, QuietJobSet, QuietOrderSet, QuietProviderSame DEF QuietStep

\* Cancelling removes a row, or starts a job that has not looked yet.
LEMMA CancelQuiet ==
  ASSUME ClientInv, ZoneInv, NEW w \in Worker,
         (\E o \in Order : CancelStart(w, o)) \/ CancelEnd(w)
  PROVE  QuietStep
<1>1. UNCHANGED <<provider, provRow, remote, dns>> /\ (NoFault \/ Intervene)
  BY DEF CancelStart, CancelEnd, NoFault
<1>2. CASE \E o \in Order : CancelStart(w, o)
  <2>1. PICK o \in Order : CancelStart(w, o)
    BY <1>2
  <2>2. Exists(o) /\ ~CleansUp(w)
    BY <2>1 DEF CancelStart, CleansUp
  <2>3. CASE CleanupJob(o) # Idle
    <3> DEFINE j == [CleanupJob(o) EXCEPT !.kind = "cancel"]
    <3>1. SetJob(w, j) /\ UNCHANGED order
      BY <2>1, <2>3 DEF CancelStart
    <3>2. j.kind = "cancel" /\ j.step = "look"
      BY <2>3 DEF CleanupJob, DnsJob
    <3> HIDE DEF j
    <3> QED
      BY <1>1, <2>2, <3>1, <3>2, QuietJobSet, OrderUnchanged, QuietOrderSet, QuietRemoteSame, QuietProviderSame
      DEF QuietStep, ClientInv
  <2>4. CASE CleanupJob(o) = Idle
    <3>1. UNCHANGED job /\ order' = [order EXCEPT ![o] = NoOrder]
      BY <2>1, <2>4 DEF CancelStart
    <3>2. QuietOrders
      BY <3>1 DEF QuietOrders, ClientInv, ClientTypes
    <3> QED
      BY <1>1, <3>1, <3>2, QuietJobSame, QuietRemoteSame, QuietProviderSame DEF QuietStep
  <2> QED
    BY <2>3, <2>4
<1>3. CASE CancelEnd(w)
  <2>1. job[w] # Idle /\ job[w].kind = "cancel" /\ job[w].order \in Order
    BY <1>3, KindOfJob DEF CancelEnd, At, ClientInv, ClientTypes, IsDnsJob
  <2>2. SetJob(w, Idle) /\ ~OnRecords(Idle) /\ ~CleansUp(w)
    BY <1>3, <2>1 DEF CancelEnd, OnRecords, CleansUp
  <2>3. QuietOrders
    BY <1>3, <2>1 DEF CancelEnd, QuietOrders, ClientInv, ClientTypes
  <2> QED
    BY <1>1, <2>2, <2>3, QuietJobSet, QuietRemoteSame, QuietProviderSame DEF QuietStep
<1> QED
  BY <1>2, <1>3

\* A status read, a renewal and a decision of the CA do not touch the zone.
LEMMA BesideQuiet ==
  ASSUME ClientInv, ZoneInv, NEW o \in Order,
         check_order_status(o) \/ Renewal(o) \/ CaDecides(o) \/ CaRefuses(o)
  PROVE  QuietStep
<1>1. UNCHANGED <<provider, provRow, dns, job>> /\ (NoFault \/ Intervene)
  BY DEF check_order_status, Renewal, CaDecides, CaRefuses, NoFault
<1>2. CASE check_order_status(o) \/ Renewal(o)
  <2>1. order' = [order EXCEPT ![o] = [@ EXCEPT !["status"] = remote[o].status]]
        \/ order' = [order EXCEPT ![o] = [@ EXCEPT !["failures"] = order[o].failures + 1]]
    BY <1>2 DEF check_order_status, Renewal, SetStatus, SetOrder
  <2>2. order[o] # NoOrder /\ order[o] \in OrderRow(o) /\ UNCHANGED remote
    BY <1>2 DEF check_order_status, Renewal, Exists, ClientInv, ClientTypes
  <2>3. QuietOrders
    BY <2>1, <2>2 DEF QuietOrders, OrderRow, ClientInv, ClientTypes
  <2> QED
    BY <1>1, <2>2, <2>3, QuietJobSame, QuietRemoteSame, QuietProviderSame DEF QuietStep
<1>3. CASE CaDecides(o) \/ CaRefuses(o)
  <2>1. remote[o] \in RemoteRow(o) /\ remote[o] # NoOrder /\ UNCHANGED order
    BY <1>3 DEF CaDecides, CaRefuses, ClientInv, ClientTypes
  <2>2. PICK s \in RemoteStatus : /\ remote' = [remote EXCEPT ![o] = [remote[o] EXCEPT !.status = s]]
                                  /\ s = "ready" => remote[o].proved = Requests[o]
    BY <1>3 DEF CaDecides, CaRefuses, RemoteStatus
  <2> DEFINE r == [remote[o] EXCEPT !.status = s]
  <2>3. r \in RemoteRow(o) /\ r.key = remote[o].key /\ r.status = s /\ r.proved = remote[o].proved
    BY <2>1 DEF RemoteRow
  <2>4. remote'[o] = r /\ \A q \in Order \ {o} : remote'[q] = remote[q]
    BY <2>2 DEF ClientInv, ClientTypes
  <2> HIDE DEF r
  <2>5. QuietRemotes
    BY <2>1, <2>3, <2>4, NotNoOrder DEF QuietRemotes
  <2>6. ProvedFirst'
    BY <2>1, <2>2, <2>3, <2>4 DEF ZoneInv, ProvedFirst
  <2> QED
    BY <1>1, <2>1, <2>5, <2>6, QuietJobSame, OrderUnchanged, QuietOrderSet, QuietProviderSame
    DEF QuietStep, ClientInv
<1> QED
  BY <1>2, <1>3

\* A provider added, changed or deleted leaves the zone as it is.
LEMMA ProviderQuiet ==
  ASSUME ClientInv, ZoneInv, create_provider \/ update_provider \/ delete_provider
  PROVE  QuietStep
<1>1. UNCHANGED <<provider, dns, job, order, remote>> /\ failed' = failed
  BY DEF create_provider, update_provider, delete_provider, Intervene
<1>2. QuietProvider
  BY <1>1 DEF create_provider, update_provider, delete_provider, InUse, Exists, QuietProvider
<1> QED
  BY <1>1, <1>2, QuietJobSame, OrderUnchanged, QuietOrderSet, QuietRemoteSame DEF QuietStep, ClientInv

----------------------------------------------------------------------------
\* Steps of workers that begin, read or write records.

\* An order created at the CA keeps the zone's invariant.
LEMMA CreateOrderZone ==
  ASSUME ClientInv, ZoneInv, NEW w \in Worker, create_order(w)
  PROVE  ZoneInv'
<1> DEFINE o == job[w].order
           r == [status |-> "pending", proved |-> {}, key |-> "none"]
<1>1. job[w] # Idle /\ job[w].kind = "request" /\ o \in Order /\ ~CleansUp(w)
  BY KindOfJob DEF create_order, At, ClientInv, ClientTypes, RequestJob, CleansUp
<1>2. remote[o] = NoOrder /\ Free(o)
  BY <1>1 DEF ClientInv, Placed, ZoneInv, Unpublished
<1>3. UNCHANGED <<provider, provRow, dns>> /\ (NoFault \/ Fault)
  BY DEF create_order
<1>4. CASE UNCHANGED <<order, remote>> /\ SetJob(w, Idle)
  <2>1. QuietStep
    BY <1>1, <1>3, <1>4, QuietJobSet, OrderUnchanged, QuietOrderSet, QuietRemoteSame, QuietProviderSame
    DEF QuietStep, ClientInv, OnRecords
  <2> QED
    BY <2>1, QuietInv DEF QuietStep
<1>5. CASE \E ids \in SUBSET Requests[o] : \E chal \in Stored(ids) :
             /\ remote' = [remote EXCEPT ![o] = r]
             /\ order' = [order EXCEPT ![o] = Row(chal)] /\ SetJob(w, SetupOrIdle(o, chal))
  <2>1. PICK ids \in SUBSET Requests[o], chal \in Chals(o) :
          /\ remote' = [remote EXCEPT ![o] = r]
          /\ order' = [order EXCEPT ![o] = Row(chal)] /\ SetJob(w, SetupOrIdle(o, chal))
    BY <1>1, <1>5, ChalsOf
  <2> DEFINE j == SetupOrIdle(o, chal)
  <2>2. /\ DOMAIN order = Order /\ DOMAIN remote = Order /\ DOMAIN job = Worker
        /\ r.key = "none" /\ r.proved = {} /\ r.status = "pending" /\ Row(chal).cert = "none"
    BY DEF ClientInv, ClientTypes, Row
  <2>3. /\ remote'[o] = r /\ \A q \in Order \ {o} : remote'[q] = remote[q]
        /\ order'[o] = Row(chal) /\ \A q \in Order \ {o} : order'[q] = order[q]
        /\ job'[w] = j /\ \A v \in Worker \ {w} : job'[v] = job[v]
    BY <1>1, <2>1, <2>2 DEF SetJob
  <2>4. \/ j = Idle
        \/ ProviderFound /\ j.kind = "setup" /\ j.order = o /\ j.step = "look" /\ j.chal = chal /\ DOMAIN chal # {}
    BY DEF SetupOrIdle, DnsJob
  <2>5. r # NoOrder /\ Row(chal) # NoOrder
    BY <2>2 DEF NoOrder, Row
  <2> HIDE DEF r, j
  <2>6. /\ ~Writing(w)' /\ ~CleansUp(w)' /\ (SetsUp(w)' => j # Idle)
        /\ \A v \in Worker \ {w} : /\ Writing(v)' <=> Writing(v)
                                   /\ SetsUp(v)' <=> SetsUp(v)
                                   /\ CleansUp(v)' <=> CleansUp(v)
    BY <2>3, <2>4 DEF Writing, OnRecords, SetsUp, CleansUp
  <2>7. \A v \in Worker : CleansUp(v) => v # w /\ job[v].order # o
    BY <1>1, <1>2 DEF CleansUp, ClientInv, Placed
  <2>8. Unpublished'
    <3> SUFFICES ASSUME NEW q \in Order, remote'[q] = NoOrder \/ (order'[q] # NoOrder /\ ~ProviderFound')
                 PROVE  Free(q)'
      BY DEF Unpublished
    <3>1. ProviderFound' <=> ProviderFound
      BY <1>3 DEF ProviderFound
    <3>2. Free(q) /\ (q = o => j = Idle)
      BY <1>2, <2>3, <2>4, <2>5, <3>1 DEF ZoneInv, Unpublished
    <3> QED
      BY <1>3, <2>3, <2>4, <2>6, <3>2 DEF Free, Has, SetsUp
  <2>9. SiteKept'
    BY <1>3, <2>3, <2>6 DEF ZoneInv, SiteKept, NoFault, Fault
  <2>10. ProvedFirst'
    BY <2>2, <2>3 DEF ZoneInv, ProvedFirst
  <2>11. OneSetup'
    BY <1>2, <2>3, <2>4, <2>6 DEF ZoneInv, OneSetup, Free
  <2>12. Tidy'
    <3> SUFFICES ASSUME Keeps', Removes', ~failed'
                 PROVE  (InPlace /\ LeftToDo /\ ZoneFound /\ SeenAll /\ ToBeCleaned)'
      BY DEF Tidy
    <3>1. InPlace /\ LeftToDo /\ ZoneFound /\ SeenAll /\ ToBeCleaned
      BY <1>3 DEF ZoneInv, Tidy, Keeps, Removes, NoFault, Fault
    <3>2. InPlace'
      BY <1>3, <3>1 DEF InPlace
    <3>3. LeftToDo'
      <4>1. \A d \in DOMAIN chal : <<o, chal[d]>> \notin dns[d]
        <5>1. \A d \in DOMAIN chal : d \in Names /\ chal[d] \in Idents
          BY <1>1, ChalsOf DEF Names
        <5> QED
          BY <1>2, <5>1 DEF Free, Has
      <4>2. \A v \in Worker \ {w} : SetsUp(v) => job[v].order # o /\ job[v].order \in Order
        BY <1>2, NotIdle DEF Free, SetsUp, ClientInv, ClientTypes
      <4> QED
        BY <1>3, <2>2, <2>3, <2>4, <2>6, <3>1, <4>1, <4>2 DEF LeftToDo
    <3>4. ZoneFound'
      BY <1>3, <2>3, <2>6, <3>1 DEF ZoneFound, Todo
    <3>5. SeenAll'
      <4>1. \A v \in Worker : CleansUp(v) => job[v].order \in Order
        BY NotIdle DEF CleansUp, ClientInv, ClientTypes
      <4> QED
        BY <1>3, <2>3, <2>6, <2>7, <3>1, <4>1 DEF SeenAll
    <3>6. ToBeCleaned'
      BY <1>3, <2>2, <2>3, <2>6, <2>7, <3>1 DEF ToBeCleaned
    <3> QED
      BY <3>2, <3>3, <3>4, <3>5, <3>6
  <2> QED
    BY <2>8, <2>9, <2>10, <2>11, <2>12 DEF ZoneInv
<1> QED
  <2>1. \A i \in Requests[o] : Requests[o] \ {i} \in SUBSET Requests[o]
    OBVIOUS
  <2>2. Requests[o] \in SUBSET Requests[o]
    OBVIOUS
  <2> HIDE DEF o, r
  <2> QED
    BY <1>4, <1>5, <2>1, <2>2 DEF create_order, o, r

\* A certificate is stored, and what it leaves in the zone is to be removed.
LEMMA ImportZone ==
  ASSUME ClientInv, ZoneInv, NEW w \in Worker, FinalizeImport(w)
  PROVE  ZoneInv'
<1> DEFINE o == job[w].order
<1>1. job[w] # Idle /\ job[w].kind = "finalize" /\ job[w].step = "download" /\ ~CleansUp(w)
  BY KindOfJob DEF FinalizeImport, At, ClientInv, ClientTypes, CleansUp
<1>2. o \in Order /\ remote[o] # NoOrder /\ remote[o].key = w /\ w # "none"
  BY <1>1, RowOfJob, NotNoOrder, ClientAssumption DEF ClientInv, KeyOfOrder
<1>3. UNCHANGED <<provider, provRow, remote, dns>> /\ (NoFault \/ Fault)
  BY DEF FinalizeImport
<1>4. CASE SetJob(w, Idle) /\ (UNCHANGED order \/ SetStatus(o, "error"))
  <2>1. SameOrders
    BY <1>2, <1>4, OrderUnchanged, StatusSet DEF ClientInv, Status
  <2>2. QuietStep
    BY <1>1, <1>3, <1>4, <2>1, QuietJobSet, QuietOrderSet, QuietRemoteSame, QuietProviderSame
    DEF QuietStep, OnRecords
  <2> QED
    BY <2>2, QuietInv DEF QuietStep
<1>5. CASE /\ Exists(o) /\ SetJob(w, CleanupJob(o))
           /\ order' = [order EXCEPT ![o] = [@ EXCEPT !.status = "issued", !.cert = w]]
  <2> DEFINE c == [order[o] EXCEPT !.status = "issued", !.cert = w]
             j == CleanupJob(o)
  <2>1. order[o] \in OrderRow(o) /\ order[o] # NoOrder
    BY <1>2, <1>5 DEF Exists, ClientInv, ClientTypes
  <2>2. c \in OrderRow(o) /\ c.cert = w /\ c.chal = order[o].chal
    BY <2>1 DEF OrderRow, Status
  <2>3. /\ order'[o] = c /\ \A p \in Order \ {o} : order'[p] = order[p]
        /\ job'[w] = j /\ \A v \in Worker \ {w} : job'[v] = job[v]
    BY <1>2, <1>5 DEF SetJob, ClientInv, ClientTypes
  <2>4. \/ j = Idle /\ (~ProviderFound \/ provider = ManualDnsProvider \/ DOMAIN order[o].chal = {})
        \/ j.kind = "cleanup" /\ j.order = o /\ j.step = "look" /\ j.chal = order[o].chal /\ j # Idle
    BY DEF CleanupJob, DnsJob, Idle
  <2> HIDE DEF c, j
  <2>5. c # NoOrder
    BY <1>2, <2>2, NotNoOrder
  <2>6. /\ ~Writing(w)' /\ ~SetsUp(w)' /\ (CleansUp(w)' <=> j # Idle)
        /\ \A v \in Worker \ {w} : /\ Writing(v)' <=> Writing(v)
                                   /\ SetsUp(v)' <=> SetsUp(v)
                                   /\ CleansUp(v)' <=> CleansUp(v)
    BY <2>3, <2>4 DEF Writing, OnRecords, SetsUp, CleansUp
  <2>7. Unpublished'
    <3> SUFFICES ASSUME NEW q \in Order, remote'[q] = NoOrder \/ (order'[q] # NoOrder /\ ~ProviderFound')
                 PROVE  Free(q)'
      BY DEF Unpublished
    <3>1. ProviderFound' <=> ProviderFound
      BY <1>3 DEF ProviderFound
    <3>2. Free(q)
      BY <1>3, <2>1, <2>3, <3>1 DEF ZoneInv, Unpublished
    <3> QED
      BY <1>3, <2>3, <2>6, <3>2 DEF Free, Has
  <2>8. SiteKept'
    BY <1>3, <2>3, <2>6 DEF ZoneInv, SiteKept, NoFault, Fault
  <2>9. ProvedFirst' /\ OneSetup'
    BY <1>3, <2>3, <2>6 DEF ZoneInv, ProvedFirst, OneSetup
  <2>10. Tidy'
    <3> SUFFICES ASSUME Keeps', Removes', ~failed'
                 PROVE  (InPlace /\ LeftToDo /\ ZoneFound /\ SeenAll /\ ToBeCleaned)'
      BY DEF Tidy
    <3>1. InPlace /\ LeftToDo /\ ZoneFound /\ SeenAll /\ ToBeCleaned
      BY <1>3 DEF ZoneInv, Tidy, Keeps, Removes, NoFault, Fault
    <3>2. InPlace' /\ LeftToDo' /\ ZoneFound'
      BY <1>3, <2>3, <2>6, <3>1 DEF InPlace, LeftToDo, ZoneFound, Todo
    <3>3. SeenAll'
      BY <1>2, <1>3, <2>3, <2>4, <2>6, <3>1 DEF SeenAll
    <3>4. ToBeCleaned'
      <4> SUFFICES ASSUME NEW d \in DOMAIN order[o].chal
                   PROVE  \/ <<o, order[o].chal[d]>> \notin dns[d]
                          \/ CleansUp(w)' /\ job'[w].order = o /\ d \in DOMAIN job'[w].chal
        BY <1>1, <1>3, <2>2, <2>3, <2>6, <3>1 DEF ToBeCleaned
      <4>1. provider # ManualDnsProvider
        BY <1>3 DEF Removes, ManualDnsProvider, Provider
      <4>2. CASE ~ProviderFound
        <5>1. d \in Names /\ order[o].chal[d] \in Idents
          BY <1>2, <2>1, ChalsOf DEF OrderRow, Names
        <5>2. ~Has(dns, o)
          BY <1>2, <2>1, <4>2 DEF ZoneInv, Unpublished, Free
        <5> QED
          BY <5>1, <5>2 DEF Has
      <4>3. CASE ProviderFound
        BY <2>3, <2>4, <2>6, <4>1, <4>3
      <4> QED
        BY <4>2, <4>3
    <3> QED
      BY <3>2, <3>3, <3>4
  <2> QED
    BY <2>7, <2>8, <2>9, <2>10 DEF ZoneInv
<1> QED
  BY <1>4, <1>5 DEF FinalizeImport, Raised

\* A job's first look at the zone keeps the zone's invariant.
LEMMA LookZone ==
  ASSUME ClientInv, ZoneInv, NEW w \in Worker, Look(w)
  PROVE  ZoneInv'
<1>1. PICK z : \E s \in {dns, Nothing} :
        /\ SetJob(w, [job[w] EXCEPT !.step = "write", !.zone = z, !.seen = s])
        /\ \/ failed'
           \/ failed' = failed /\ z = ZoneOf(provider, Todo(w)) /\ (ReadFirst(w) => s = dns)
  BY DEF Look, Fault, NoFault
<1>2. PICK s \in {dns, Nothing} :
        /\ SetJob(w, [job[w] EXCEPT !.step = "write", !.zone = z, !.seen = s])
        /\ \/ failed'
           \/ failed' = failed /\ z = ZoneOf(provider, Todo(w)) /\ (ReadFirst(w) => s = dns)
  BY <1>1
<1> DEFINE j == [job[w] EXCEPT !.step = "write", !.zone = z, !.seen = s]
<1>3. IsDnsJob(job[w]) /\ job[w] # Idle /\ job[w].step = "look"
  BY KindOfJob DEF Look, ClientInv, ClientTypes
<1>4. /\ j.step = "write" /\ j.zone = z /\ j.seen = s /\ j.kind = job[w].kind /\ j.order = job[w].order
      /\ j.chal = job[w].chal
  BY <1>3 DEF IsDnsJob, DnsFields
<1>5. job'[w] = j /\ \A v \in Worker \ {w} : job'[v] = job[v]
  BY <1>2 DEF SetJob, ClientInv, ClientTypes
<1> HIDE DEF j
<1>6. UNCHANGED <<provider, provRow, order, remote, dns>>
  BY DEF Look
<1>7. j # Idle
  BY <1>3, <1>4 DEF IsDnsJob, Idle
<1>8. /\ SetsUp(w)' <=> SetsUp(w)
      /\ CleansUp(w)' <=> CleansUp(w)
      /\ ~Writing(w)
      /\ \A v \in Worker \ {w} : /\ Writing(v)' <=> Writing(v)
                                 /\ SetsUp(v)' <=> SetsUp(v)
                                 /\ CleansUp(v)' <=> CleansUp(v)
  BY <1>3, <1>4, <1>5, <1>7 DEF Writing, OnRecords, SetsUp, CleansUp
<1>9. \A o : Has(s, o) => Has(dns, o)
  BY DEF Has, Nothing
<1>10. Unpublished'
  <2> SUFFICES ASSUME NEW q \in Order, remote'[q] = NoOrder \/ (order'[q] # NoOrder /\ ~ProviderFound')
               PROVE  Free(q)'
    BY DEF Unpublished
  <2>1. Free(q)
    BY <1>6 DEF ZoneInv, Unpublished, ProviderFound
  <2> QED
    BY <1>4, <1>5, <1>6, <1>8, <1>9, <2>1 DEF Free, Has
<1>11. SiteKept'
  <2>1. provider.create = "rewrite" => ReadFirst(w)
    BY ProviderModes DEF Modes, ReadFirst, ClientInv, ClientTypes
  <2> QED
    BY <1>2, <1>4, <1>5, <1>6, <1>8, <2>1 DEF ZoneInv, SiteKept
<1>12. ProvedFirst' /\ OneSetup'
  BY <1>4, <1>5, <1>6, <1>8 DEF ZoneInv, ProvedFirst, OneSetup
<1>13. Tidy'
  <2> SUFFICES ASSUME Keeps', Removes', ~failed'
               PROVE  (InPlace /\ LeftToDo /\ ZoneFound /\ SeenAll /\ ToBeCleaned)'
    BY DEF Tidy
  <2>1. InPlace /\ LeftToDo /\ ZoneFound /\ SeenAll /\ ToBeCleaned
    BY <1>2, <1>6 DEF ZoneInv, Tidy, Keeps, Removes
  <2>2. InPlace'
    BY <1>6, <2>1 DEF InPlace
  <2>3. LeftToDo'
    BY <1>4, <1>5, <1>6, <1>8, <2>1 DEF LeftToDo
  <2>4. ZoneFound'
    BY <1>2, <1>4, <1>5, <1>6, <1>8, <2>1 DEF ZoneFound, Todo
  <2>5. SeenAll'
    <3>1. CleansUp(w) /\ provider.delete \in {"each", "named"} => ReadFirst(w)
      BY DEF CleansUp, ReadFirst
    <3> QED
      BY <1>2, <1>4, <1>5, <1>6, <1>8, <2>1, <3>1 DEF SeenAll
  <2>6. ToBeCleaned'
    BY <1>4, <1>5, <1>6, <1>8, <2>1 DEF ToBeCleaned
  <2> QED
    BY <2>2, <2>3, <2>4, <2>5, <2>6
<1> QED
  BY <1>10, <1>11, <1>12, <1>13 DEF ZoneInv

\* What a write may put in the zone, and what it leaves alone.
LEMMA WrittenHas ==
  ASSUME NEW p \in ProviderKinds, NEW recs \in Zone, NEW seen \in Zone,
         NEW d \in DomainNames, NEW o \in Order, NEW i \in Idents,
         NEW r \in Written(p, recs, seen, d, <<o, i>>)
  PROVE  /\ \A q : Has(r, q) => Has(recs, q) \/ Has(seen, q) \/ q = o
         /\ p.create # "rewrite" => r[OtherName] = recs[OtherName]
         /\ p.create = "rewrite" => r[OtherName] \in {recs[OtherName], seen[OtherName]}
         /\ p.create \in {"add", "replace", "appendIfSame"} =>
              r[d] \subseteq recs[d] \cup {<<o, i>>} /\ \A n \in Names \ {d} : r[n] = recs[n]
<1>1. Modes(p) /\ d \in Names /\ OtherName \in Names /\ d # OtherName
  BY ProviderModes, NamesAssumption DEF Names
<1>2. CASE p.create \in {"add", "replace", "append", "appendIfSame", "none"}
  <2>1. \/ r = recs
        \/ \E S \in SUBSET Record : r = [recs EXCEPT ![d] = S] /\ S \subseteq recs[d] \cup seen[d] \cup {<<o, i>>}
    BY <1>1, <1>2 DEF Written, Zone, Record
  <2>2. DOMAIN recs = Names
    BY DEF Zone
  <2>3. \A n \in Names \ {d} : r[n] = recs[n]
    BY <2>1, <2>2
  <2>4. r[d] \subseteq recs[d] \cup seen[d] \cup {<<o, i>>}
    BY <1>1, <2>1, <2>2
  <2>5. \A q : Has(r, q) => Has(recs, q) \/ Has(seen, q) \/ q = o
    BY <1>1, <2>3, <2>4 DEF Has
  <2>6. p.create \in {"add", "replace", "appendIfSame"} => r[d] \subseteq recs[d] \cup {<<o, i>>}
    BY <1>1 DEF Written, Zone
  <2> QED
    BY <1>1, <1>2, <2>3, <2>5, <2>6
<1>3. CASE p.create = "rewrite"
  <2>1. \A n \in Names : r[n] = recs[n] \/ r[n] = seen[n] \/ r[n] = seen[n] \cup {<<o, i>>}
    BY <1>3 DEF Written, Zone
  <2>2. r[OtherName] = recs[OtherName] \/ r[OtherName] = seen[OtherName]
    BY <1>1, <1>3 DEF Written, Zone
  <2> QED
    BY <1>3, <2>1, <2>2 DEF Has
<1>4. CASE p.create = "edit"
  <2>1. \/ r = [recs EXCEPT ![d] = @ \cup {<<o, i>>}]
        \/ \E n \in Names \ {OtherName} : \E x : r = [[recs EXCEPT ![n] = @ \ {x}] EXCEPT ![d] = @ \cup {<<o, i>>}]
    BY <1>4 DEF Written, Challenges, Zone
  <2>2. /\ \A n \in Names : r[n] \subseteq recs[n] \cup {<<o, i>>}
        /\ r[OtherName] = recs[OtherName]
    BY <1>1, <2>1 DEF Zone
  <2> QED
    BY <1>4, <2>2 DEF Has
<1> QED
  BY <1>1, <1>2, <1>3, <1>4 DEF Modes

\* A deletion adds no record, and one that does not rewrite the zone leaves the
\* other name alone.
LEMMA RemovedHas ==
  ASSUME NEW p \in ProviderKinds, NEW recs \in Zone, NEW seen \in Zone, NEW d \in DomainNames,
         NEW r \in Removed(p, recs, seen, d) \cup PartlyRemoved(p, recs, seen, d)
  PROVE  /\ \A q : Has(r, q) => Has(recs, q) \/ Has(seen, q)
         /\ p.create # "rewrite" => r[OtherName] = recs[OtherName]
         /\ p.create = "rewrite" => r[OtherName] \in {recs[OtherName], seen[OtherName]}
         /\ p.delete \in {"set", "each", "named"} => \A n \in Names : r[n] \subseteq recs[n]
<1>1. Modes(p) /\ d \in Names /\ OtherName \in Names /\ d # OtherName
  BY ProviderModes, NamesAssumption DEF Names
<1>2. CASE \E n \in Names \ {OtherName} : \E S : r = [recs EXCEPT ![n] = @ \ S]
  <2>1. \A n \in Names : r[n] \subseteq recs[n]
    BY <1>2 DEF Zone
  <2>2. r[OtherName] = recs[OtherName]
    BY <1>1, <1>2 DEF Zone
  <2> QED
    BY <2>1, <2>2 DEF Has
<1>3. CASE r = recs
  BY <1>3
<1>4. CASE p.delete = "rewrite" /\ r \in Removed(p, recs, seen, d)
  <2>1. \A n \in Names : r[n] = recs[n] \/ r[n] = seen[n] \/ r[n] = {}
    BY <1>4 DEF Removed, Zone
  <2>2. r[OtherName] = recs[OtherName] \/ r[OtherName] = seen[OtherName]
    BY <1>1, <1>4 DEF Removed, Zone
  <2> QED
    BY <1>1, <1>4, <2>1, <2>2 DEF Has, Modes
<1>5. CASE p.delete = "set" /\ r \in Removed(p, recs, seen, d)
  <2>1. r = [recs EXCEPT ![d] = {}]
    BY <1>5 DEF Removed
  <2>2. \A n \in Names : r[n] \subseteq recs[n]
    BY <2>1 DEF Zone
  <2>3. r[OtherName] = recs[OtherName]
    BY <1>1, <2>1 DEF Zone
  <2> QED
    BY <2>2, <2>3 DEF Has
<1>6. CASE p.delete \in {"each", "named", "first", "label", "none"} /\ r \in Removed(p, recs, seen, d)
  <2>1. r = recs \/ \E n \in Names \ {OtherName} : \E S : r = [recs EXCEPT ![n] = @ \ S]
    <3>1. CASE p.delete \in {"each", "named", "none"}
      BY <1>1, <1>6, <3>1 DEF Removed
    <3>2. CASE p.delete = "first"
      BY <1>1, <1>6, <3>2 DEF Removed
    <3>3. CASE p.delete = "label"
      <4>1. Challenges(recs) = Names \ {OtherName}
        BY DEF Zone, Challenges
      <4>2. r = recs \/ \E n \in Names \ {OtherName} : r \in {[recs EXCEPT ![n] = @ \ {v}] : v \in seen[n]}
        BY <1>6, <3>3, <4>1 DEF Removed
      <4>3. ASSUME NEW n \in Names \ {OtherName}, r \in {[recs EXCEPT ![n] = @ \ {v}] : v \in seen[n]}
            PROVE  \E S : r = [recs EXCEPT ![n] = @ \ S]
        <5>1. PICK v \in seen[n] : r = [recs EXCEPT ![n] = @ \ {v}]
          BY <4>3
        <5> QED
          BY <5>1
      <4> QED
        BY <4>2, <4>3
    <3> QED
      BY <1>6, <3>1, <3>2, <3>3
  <2> QED
    BY <1>2, <1>3, <2>1
<1>7. CASE r \in PartlyRemoved(p, recs, seen, d)
  <2>1. r = recs \/ \E n \in Names \ {OtherName} : \E S : r = [recs EXCEPT ![n] = @ \ S]
    BY <1>1, <1>7 DEF PartlyRemoved
  <2> QED
    BY <1>2, <1>3, <2>1
<1> QED
  BY <1>1, <1>4, <1>5, <1>6, <1>7 DEF Modes

----------------------------------------------------------------------------
\* The job of w goes on without the domain it had at hand.
Shorter(w, j) ==
  \/ j = Idle /\ (DOMAIN job[w].chal) \ {Todo(w)} = {}
  \/ /\ j # Idle /\ j.kind = job[w].kind /\ j.order = job[w].order /\ j.step = "look"
     /\ DOMAIN j.chal = (DOMAIN job[w].chal) \ {Todo(w)}
     /\ \A d \in DOMAIN j.chal : j.chal[d] = job[w].chal[d]
     /\ j.kind # "cancel" => DOMAIN j.chal # {}

\* What a job has left after one name is shorter.
LEMMA RestShorter ==
  ASSUME NEW w \in Worker, IsDnsJob(job[w]), DOMAIN job[w].chal # {}
  PROVE  Shorter(w, Rest(w)) /\ \A ok : Rest(w) # Idle => Shorter(w, [Rest(w) EXCEPT !.ok = ok])
<1> DEFINE D == (DOMAIN job[w].chal) \ {Todo(w)}
           c == [d \in D |-> job[w].chal[d]]
           j == [job[w] EXCEPT !.chal = c, !.step = "look", !.zone = NoZone, !.seen = <<>>]
<1>1. \/ Rest(w) = Idle /\ D = {}
      \/ Rest(w) = j /\ ~(D = {} /\ job[w].kind # "cancel")
  BY DEF Rest
<1>2. DOMAIN c = D /\ \A d \in D : c[d] = job[w].chal[d]
  OBVIOUS
<1> HIDE DEF c
<1>3. /\ DOMAIN j = DnsFields /\ j.kind = job[w].kind /\ j.order = job[w].order /\ j.step = "look" /\ j.chal = c
      /\ job[w].kind # "idle"
  BY DEF IsDnsJob, DnsFields
<1> HIDE DEF j
<1>4. j # Idle /\ \A ok : LET k == [j EXCEPT !.ok = ok]
                          IN k # Idle /\ k.kind = j.kind /\ k.order = j.order /\ k.step = "look" /\ k.chal = c
  BY <1>3 DEF DnsFields, Idle
<1> QED
  BY <1>1, <1>2, <1>3, <1>4 DEF Shorter

\* A write or a removal, of which it is known what it puts into the zone.
LEMMA RecordsZone ==
  ASSUME ClientInv, ZoneInv, NEW w \in Worker, Writing(w), NEW j, Shorter(w, j), SetJob(w, j),
         QuietOrders, UNCHANGED <<provider, provRow, remote>>, failed' = failed \/ failed',
         IsDnsJob(job[w]), Todo(w) \in DOMAIN job[w].chal,
         \A q \in Order : Has(dns', q) => \/ Has(dns, q) \/ Has(job[w].seen, q)
                                          \/ SetsUp(w) /\ q = job[w].order,
         provider.create # "rewrite" => dns'[OtherName] = dns[OtherName],
         provider.create = "rewrite" => dns'[OtherName] \in {dns[OtherName], job[w].seen[OtherName]},
         Keeps /\ Removes => \A n \in Names : \A x \in dns'[n] :
            \/ x \in dns[n]
            \/ /\ SetsUp(w) /\ n = Todo(w) /\ x = <<job[w].order, job[w].chal[n]>>
               /\ job[w].zone = Authoritative(n) /\ job[w].zone # NoZone,
         Removes /\ ~failed' /\ CleansUp(w) /\ job[w].zone = Authoritative(Todo(w)) /\ job[w].zone # NoZone =>
            \A x \in dns'[Todo(w)] : provider.delete # "set" /\ x \notin job[w].seen[Todo(w)]
  PROVE  ZoneInv'
<1> DEFINE o == job[w].order
           d == Todo(w)
<1>1. /\ job[w] # Idle /\ o \in Order /\ job[w].kind \in {"setup", "cleanup", "cancel"} /\ d \in Names
      /\ job[w].chal[d] \in Idents /\ job[w].chal[d][1] = d /\ remote[o] # NoOrder
      /\ \A e \in DOMAIN job[w].chal : job[w].chal[e][1] = e
  BY ChalsOf, RowOfJob, NotNoOrder DEF Writing, OnRecords, IsDnsJob, Names
<1>2. job'[w] = j /\ \A v \in Worker \ {w} : job'[v] = job[v]
  BY DEF SetJob, ClientInv, ClientTypes
<1>3. /\ SetsUp(w)' => SetsUp(w) /\ j # Idle
      /\ CleansUp(w)' => CleansUp(w) /\ j # Idle
      /\ ~Writing(w)' /\ (CleansUp(w) /\ j # Idle => CleansUp(w)')
      /\ \A v \in Worker \ {w} : /\ Writing(v)' <=> Writing(v)
                                 /\ SetsUp(v)' <=> SetsUp(v)
                                 /\ CleansUp(v)' <=> CleansUp(v)
  BY <1>1, <1>2 DEF Writing, OnRecords, SetsUp, CleansUp, Shorter
<1>4. j # Idle => /\ j.order = o /\ j.step = "look" /\ DOMAIN j.chal = (DOMAIN job[w].chal) \ {d}
                  /\ \A e \in DOMAIN j.chal : j.chal[e] = job[w].chal[e]
                  /\ j.kind # "cancel" => DOMAIN j.chal # {}
                  /\ j.kind = job[w].kind
  BY DEF Shorter
<1>5. j = Idle => (DOMAIN job[w].chal) \ {d} = {}
  BY DEF Shorter
<1>6. Unpublished'
  <2> SUFFICES ASSUME NEW q \in Order, remote'[q] = NoOrder \/ (order'[q] # NoOrder /\ ~ProviderFound')
               PROVE  Free(q)'
    BY DEF Unpublished
  <2>1. Free(q)
    BY DEF ZoneInv, Unpublished, ProviderFound, QuietOrders
  <2>2. ~Has(dns', q)
    BY <2>1 DEF Free
  <2>3. \A v \in Worker : (Writing(v)' => ~Has(job'[v].seen, q)) /\ (SetsUp(v)' => job'[v].order # q)
    BY <1>2, <1>3, <1>4, <2>1 DEF Free
  <2> QED
    BY <2>2, <2>3 DEF Free, Has
<1>7. SiteKept'
  BY <1>2, <1>3 DEF ZoneInv, SiteKept
<1>8. ProvedFirst' /\ OneSetup'
  BY <1>2, <1>3, <1>4 DEF ZoneInv, ProvedFirst, OneSetup, SetsUp
<1>9. Tidy'
  <2> SUFFICES ASSUME Keeps', Removes', ~failed'
               PROVE  (InPlace /\ LeftToDo /\ ZoneFound /\ SeenAll /\ ToBeCleaned)'
    BY DEF Tidy
  <2>1. InPlace /\ LeftToDo /\ ZoneFound /\ SeenAll /\ ToBeCleaned /\ Keeps /\ Removes
    BY DEF ZoneInv, Tidy, Keeps, Removes
  <2>2. job[w].zone = ZoneOf(provider, d)
    BY <2>1 DEF ZoneFound
  <2>3. \A n \in Names : \A x \in dns'[n] :
            \/ x \in dns[n]
            \/ /\ SetsUp(w) /\ n = d /\ x = <<o, job[w].chal[d]>>
               /\ ZoneOf(provider, d) = Authoritative(d) /\ ZoneOf(provider, d) # NoZone
    BY <2>1, <2>2
  <2>4. InPlace'
    BY <1>1, <2>1, <2>3 DEF InPlace
  <2>5. LeftToDo'
    <3> SUFFICES ASSUME NEW v \in Worker, SetsUp(v)', NEW e \in DOMAIN job'[v].chal
                 PROVE  /\ <<job'[v].order, job'[v].chal[e]>> \notin dns'[e]
                        /\ job'[v].chal[e] \notin remote'[job'[v].order].proved
      BY DEF LeftToDo
    <3>1. SetsUp(v) /\ e \in DOMAIN job[v].chal /\ job'[v].chal[e] = job[v].chal[e] /\ job'[v].order = job[v].order
      BY <1>2, <1>3, <1>4
    <3>2. <<job[v].order, job[v].chal[e]>> \notin dns[e] /\ job[v].chal[e] \notin remote[job[v].order].proved
      BY <2>1, <3>1 DEF LeftToDo
    <3>3. e \in Names
      BY <3>1, KindOfJob, ChalsOf DEF SetsUp, ClientInv, ClientTypes, IsDnsJob, Names
    <3>4. <<job[v].order, job[v].chal[e]>> \notin dns'[e]
      <4>1. CASE v = w
        <5>1. e # d
          BY <1>2, <1>3, <1>4, <4>1
        <5> QED
          BY <2>3, <3>2, <3>3, <5>1
      <4>2. CASE v # w
        <5>1. SetsUp(w) => job[v].order # o
          BY <3>1, <4>2 DEF ZoneInv, OneSetup
        <5> QED
          BY <2>3, <3>2, <3>3, <5>1
      <4> QED
        BY <4>1, <4>2
    <3> QED
      BY <3>1, <3>2, <3>4
  <2>6. ZoneFound'
    BY <1>2, <1>3, <2>1 DEF ZoneFound, Todo
  <2>7. SetsUp(w) => remote[o].key = "none"
    BY <2>1, SetUpBeforeKey DEF ZoneInv
  <2>8. SeenAll'
    <3> SUFFICES ASSUME NEW v \in Worker, CleansUp(v)'
                 PROVE  /\ remote[job'[v].order].key # "none"
                        /\ job'[v].step = "write" /\ provider.delete \in {"each", "named"} =>
                             \A n \in Names, i \in Idents : <<job'[v].order, i>> \in dns'[n] =>
                                <<job'[v].order, i>> \in job'[v].seen[n]
      BY DEF SeenAll
    <3>1. CASE v = w
      BY <1>2, <1>3, <1>4, <2>1, <3>1 DEF SeenAll
    <3>2. CASE v # w
      <4>1. CleansUp(v) /\ job'[v] = job[v]
        BY <1>2, <1>3, <3>2
      <4>2. remote[job[v].order].key # "none"
        BY <2>1, <4>1 DEF SeenAll
      <4>3. SetsUp(w) => job[v].order # o
        BY <2>7, <4>2
      <4> QED
        BY <2>1, <2>3, <4>1, <4>2, <4>3 DEF SeenAll
    <3> QED
      BY <3>1, <3>2
  <2>9. ToBeCleaned'
    <3> SUFFICES ASSUME NEW q \in Order, order'[q] # NoOrder, order'[q].cert # "none",
                        NEW e \in DOMAIN order'[q].chal, <<q, order'[q].chal[e]>> \in dns'[e]
                 PROVE  \E v \in Worker : CleansUp(v)' /\ job'[v].order = q /\ e \in DOMAIN job'[v].chal
      BY DEF ToBeCleaned
    <3>1. order[q] # NoOrder /\ order[q].cert # "none" /\ order'[q].chal = order[q].chal
      BY DEF QuietOrders
    <3>2. e \in Names /\ order[q].chal[e] \in Idents
      BY <3>1, ChalsOf DEF ClientInv, ClientTypes, OrderRow, Names
    <3>3. remote[q].key # "none"
      BY <3>1 DEF ClientInv, KeyOfOrder
    <3>4. <<q, order[q].chal[e]>> \in dns[e]
      BY <2>3, <2>7, <3>1, <3>2, <3>3
    <3>5. PICK v \in Worker : CleansUp(v) /\ job[v].order = q /\ e \in DOMAIN job[v].chal
      BY <2>1, <3>1, <3>4 DEF ToBeCleaned
    <3>6. CASE v # w
      BY <1>2, <1>3, <3>5, <3>6
    <3>7. CASE v = w /\ e # d
      <4>1. j # Idle
        BY <1>5, <3>5, <3>7
      <4> QED
        BY <1>2, <1>3, <1>4, <3>5, <3>7, <4>1
    <3>8. CASE v = w /\ e = d
      <4>1. ZoneOf(provider, e) = Authoritative(e) /\ ZoneOf(provider, e) # NoZone
        BY <2>1, <3>2, <3>4 DEF InPlace
      <4>2. provider.delete # "set" /\ <<q, order[q].chal[e]>> \notin job[w].seen[e]
        BY <2>1, <2>2, <3>1, <3>5, <3>8, <4>1
      <4>3. provider.delete \in {"each", "named"}
        BY <2>1, <4>2 DEF Removes
      <4>4. <<q, order[q].chal[e]>> \in job[w].seen[e]
        BY <2>1, <3>2, <3>4, <3>5, <3>8, <4>3 DEF SeenAll, Writing
      <4> QED
        BY <4>2, <4>4
    <3> QED
      BY <3>6, <3>7, <3>8
  <2> QED
    BY <2>4, <2>5, <2>6, <2>8, <2>9
<1> QED
  BY <1>6, <1>7, <1>8, <1>9 DEF ZoneInv

\* A record created keeps the zone's invariant.
LEMMA CreateTxtZone ==
  ASSUME ClientInv, ZoneInv, NEW w \in Worker, create_txt_record(w)
  PROVE  ZoneInv'
<1> DEFINE d == Todo(w)
           i == job[w].chal[d]
           z == job[w].zone
           seen == job[w].seen
<1>1. job[w].kind = "setup" /\ job[w].step = "write"
  BY DEF create_txt_record, At
<1>2. /\ IsDnsJob(job[w]) /\ job[w] # Idle /\ DOMAIN job[w].chal # {} /\ seen \in Zone
      /\ job[w].order \in Order
  BY <1>1, KindOfJob DEF ClientInv, ClientTypes, IsDnsJob
<1>3. Writing(w) /\ SetsUp(w)
  BY <1>1, <1>2 DEF Writing, OnRecords, SetsUp
<1>4. d \in DOMAIN job[w].chal /\ d \in DomainNames
  BY <1>2, ChalsOf DEF Todo, IsDnsJob
<1>5. i \in Idents
  BY <1>2, <1>4, ChalsOf DEF IsDnsJob
<1>6. dns \in Zone /\ provider \in ProviderKinds /\ OtherName \in Names
  BY DEF ClientInv, ClientTypes, Names
<1>7. \/ dns' = dns
      \/ z # NoZone /\ z = Authoritative(d) /\ dns' \in Written(provider, dns, seen, d, <<job[w].order, i>>)
  BY DEF create_txt_record, Published, Effect, Value
<1>8. /\ \A q \in Order : Has(dns', q) => Has(dns, q) \/ Has(seen, q) \/ q = job[w].order
      /\ provider.create # "rewrite" => dns'[OtherName] = dns[OtherName]
      /\ provider.create = "rewrite" => dns'[OtherName] \in {dns[OtherName], seen[OtherName]}
  BY <1>2, <1>4, <1>5, <1>6, <1>7, WrittenHas
<1>9. Keeps => \A n \in Names : \A x \in dns'[n] :
         x \in dns[n] \/ (n = d /\ x = <<job[w].order, i>> /\ z = Authoritative(d) /\ z # NoZone)
  BY <1>2, <1>4, <1>5, <1>6, <1>7, WrittenHas DEF Keeps
<1>10. PICK ok \in BOOLEAN :
        \/ Rest(w) # Idle /\ SetJob(w, [Rest(w) EXCEPT !.ok = ok]) /\ UNCHANGED order
        \/ /\ Rest(w) = Idle
           /\ SetJob(w, Idle)
           /\ IF Exists(job[w].order) THEN SetOrder(job[w].order, "told", IF ok THEN "ok" ELSE "warning")
              ELSE UNCHANGED order
  BY DEF create_txt_record
<1>11. QuietOrders
  <2>1. CASE UNCHANGED order
    BY <2>1, OrderUnchanged, QuietOrderSet DEF ClientInv
  <2>2. CASE Exists(job[w].order) /\ \E x \in {"ok", "warning"} : SetOrder(job[w].order, "told", x)
    <3>1. order[job[w].order] \in OrderRow(job[w].order)
      BY <1>2, <2>2 DEF Exists, ClientInv, ClientTypes
    <3> QED
      BY <1>2, <2>2, <3>1, FieldSet, QuietOrderSet DEF ClientInv
  <2> QED
    BY <1>10, <2>1, <2>2
<1>12. PICK j : SetJob(w, j) /\ Shorter(w, j)
  <2>1. CASE Rest(w) # Idle /\ SetJob(w, [Rest(w) EXCEPT !.ok = ok])
    BY <1>2, <2>1, RestShorter
  <2>2. CASE Rest(w) = Idle /\ SetJob(w, Idle)
    BY <1>2, <2>2, RestShorter
  <2> QED
    BY <1>10, <2>1, <2>2
<1>13. UNCHANGED <<provider, provRow, remote>> /\ (failed' = failed \/ failed')
  BY DEF create_txt_record, Fault, NoFault
<1>14. ~CleansUp(w)
  BY <1>1 DEF CleansUp
<1> QED
  BY <1>2, <1>3, <1>4, <1>8, <1>9, <1>11, <1>12, <1>13, <1>14, RecordsZone

\* A record deleted keeps the zone's invariant.
LEMMA DeleteTxtZone ==
  ASSUME ClientInv, ZoneInv, NEW w \in Worker, delete_txt_record(w)
  PROVE  ZoneInv'
<1> DEFINE d == Todo(w)
           z == job[w].zone
           seen == job[w].seen
<1>1. job[w].kind \in {"cleanup", "cancel"} /\ job[w].step = "write"
  BY DEF delete_txt_record
<1>2. IsDnsJob(job[w]) /\ job[w] # Idle /\ DOMAIN job[w].chal # {} /\ seen \in Zone
  BY <1>1, KindOfJob DEF ClientInv, ClientTypes, IsDnsJob
<1>3. Writing(w)
  BY <1>1, <1>2 DEF Writing, OnRecords
<1>4. d \in DOMAIN job[w].chal /\ d \in DomainNames
  BY <1>2, ChalsOf DEF Todo, IsDnsJob
<1>5. dns \in Zone /\ provider \in ProviderKinds /\ OtherName \in Names /\ d \in Names
  BY <1>4 DEF ClientInv, ClientTypes, Names
<1>6. dns' = dns \/ dns' \in Removed(provider, dns, seen, d) \cup PartlyRemoved(provider, dns, seen, d)
  BY DEF delete_txt_record, Effect
<1>7. /\ \A q \in Order : Has(dns', q) => Has(dns, q) \/ Has(seen, q)
      /\ provider.create # "rewrite" => dns'[OtherName] = dns[OtherName]
      /\ provider.create = "rewrite" => dns'[OtherName] \in {dns[OtherName], seen[OtherName]}
  BY <1>2, <1>4, <1>5, <1>6, RemovedHas
<1>8. Removes => \A n \in Names : \A x \in dns'[n] : x \in dns[n]
  BY <1>2, <1>4, <1>5, <1>6, RemovedHas DEF Removes
<1>9. ASSUME Removes, ~failed', z = Authoritative(d), z # NoZone, NEW x \in dns'[d]
      PROVE  provider.delete # "set" /\ x \notin seen[d]
  <2>1. dns' \in Removed(provider, dns, seen, d)
    BY <1>9 DEF delete_txt_record, Effect, Fault
  <2>2. CASE provider.delete = "set"
    BY <1>5, <1>9, <2>1, <2>2 DEF Removed, Zone
  <2>3. CASE provider.delete \in {"each", "named"}
    BY <1>5, <1>9, <2>1, <2>3 DEF Removed, Zone
  <2> QED
    BY <1>9, <2>2, <2>3 DEF Removes
<1>10. SetJob(w, Rest(w)) /\ Shorter(w, Rest(w))
  BY <1>2, RestShorter DEF delete_txt_record
<1>11. UNCHANGED <<provider, provRow, order, remote>> /\ (failed' = failed \/ failed')
  BY DEF delete_txt_record, Fault, NoFault
<1>12. QuietOrders
  BY <1>11, OrderUnchanged, QuietOrderSet DEF ClientInv
<1> QED
  BY <1>2, <1>3, <1>4, <1>7, <1>8, <1>9, <1>10, <1>11, <1>12, RecordsZone

\* Every step of the ACME client keeps the zone's invariant.
LEMMA ZoneStepInv == ClientInv /\ ZoneInv /\ [ClientNext]_clientVars => ZoneInv'
<1> SUFFICES ASSUME ClientInv, ZoneInv, [ClientNext]_clientVars PROVE ZoneInv'
  OBVIOUS
<1>1. QuietStep => ZoneInv'
  BY QuietInv DEF QuietStep
<1>2. CASE \E w \in Worker : WorkerStep(w)
  BY <1>1, <1>2, CreateOrderZone, LookZone, CreateTxtZone, DeleteTxtZone, VerifyChallengeQuiet, VerifyQuiet,
     FinalizeQuiet, FinalizeCsrQuiet, ImportZone, CancelQuiet DEF WorkerStep
<1>3. CASE \E w \in Worker, o \in Order :
              Request(w, o) \/ VerifyStart(w, o) \/ FinalizeStart(w, o) \/ CancelStart(w, o)
  BY <1>1, <1>3, RequestQuiet, VerifyQuiet, FinalizeQuiet, CancelQuiet
<1>4. CASE \E o \in Order : check_order_status(o) \/ Renewal(o) \/ CaDecides(o) \/ CaRefuses(o)
  BY <1>1, <1>4, BesideQuiet
<1>5. CASE create_provider \/ update_provider \/ delete_provider
  BY <1>1, <1>5, ProviderQuiet
<1>6. CASE UNCHANGED clientVars
  <2>1. QuietRemotes /\ ProvedFirst' /\ QuietOrders /\ QuietJobs
    BY <1>6, QuietRemoteSame, QuietJobSame, OrderUnchanged, QuietOrderSet DEF clientVars, ClientInv
  <2>2. QuietProvider
    BY <1>6 DEF clientVars, QuietProvider
  <2> QED
    BY <1>1, <2>1, <2>2 DEF QuietStep
<1> QED
  BY <1>2, <1>3, <1>4, <1>5, <1>6 DEF ClientNext

\* Whatever orders for the same names do to each other, when no request
\* failed an order that ended with a certificate leaves no record behind; the
\* provider that can remove a record is there as long as one is published;
\* and a record of the site survives, unless the whole zone was written back
\* after a request failed.
THEOREM ZoneOfTheClient == ClientSpec => []ZoneKept
<1>1. ClientInit => ClientInv /\ ZoneInv
  BY ClientInitInv, ZoneInitInv DEF ClientInv
<1>2. ClientInv /\ ZoneInv /\ [ClientNext]_clientVars => (ClientInv /\ ZoneInv)'
  BY ClientStepInv, ZoneStepInv
<1>3. ClientInv /\ ZoneInv => ZoneKept
  <2> SUFFICES ASSUME ClientInv, ZoneInv PROVE ZoneKept
    OBVIOUS
  <2>1. \A o \in Order : Exists(o) => \A d \in DOMAIN order[o].chal : d \in Names /\ order[o].chal[d] \in Idents
                                                               /\ order[o].chal[d][1] = d
    BY ChalsOf DEF Exists, ClientInv, ClientTypes, OrderRow, Names
  <2>2. RecordsRemovable
    <3> SUFFICES ASSUME NEW o \in Order, Exists(o), NEW n \in Names, Values(o) \cap dns[n] # {}
                 PROVE  ProviderFound
      BY DEF RecordsRemovable
    <3>1. PICK d \in DOMAIN order[o].chal : Value(o, order[o].chal[d]) \in dns[n]
      BY DEF Values
    <3>2. Has(dns, o)
      BY <2>1, <3>1 DEF Has, Value
    <3> QED
      BY <3>2 DEF Exists, ZoneInv, Unpublished, Free
  <2>3. SiteRecordKept
    BY DEF SiteRecordKept, ZoneInv, SiteKept
  <2>4. CleanedUp
    <3> SUFFICES ASSUME Keeps, Removes, ~failed, NEW o \in Order, Exists(o), order[o].cert # "none", ~Busy(o),
                        NEW n \in Names, NEW d \in DOMAIN order[o].chal, <<o, order[o].chal[d]>> \in dns[n]
                 PROVE  FALSE
      BY DEF CleanedUp, Values, Value
    <3>1. InPlace /\ ToBeCleaned
      BY DEF ZoneInv, Tidy
    <3>2. n = d
      BY <2>1, <3>1 DEF InPlace
    <3>3. PICK w \in Worker : CleansUp(w) /\ job[w].order = o
      BY <3>1, <3>2 DEF ToBeCleaned, Exists
    <3> QED
      BY <3>3 DEF CleansUp, Busy
  <2> QED
    BY <2>2, <2>3, <2>4 DEF ZoneKept
<1> QED
  BY <1>1, <1>2, <1>3, PTL DEF ClientSpec

----------------------------------------------------------------------------
(* What a request was answered.  The zone a provider decides on, for any    *)
(* listing of zones.                                                       *)

\* A set of naturals that is not empty has a least element.
LEMMA LeastNatural ==
  ASSUME NEW S, S \subseteq Nat, S # {}
  PROVE  \E x \in S : \A y \in S : x <= y
<1> DEFINE R == OpToRel(<, Nat)
<1>1. \E x \in S : \A y \in S : ~(<<y, x>> \in R)
  BY NatLessThanWellFounded, WFMin
<1>2. \A x, y \in Nat : y < x => <<y, x>> \in R
  BY DEF OpToRel
<1> HIDE DEF R
<1>3. PICK x \in S : \A y \in S : ~(<<y, x>> \in R)
  BY <1>1
<1>4. \A y \in S : ~(y < x)
  BY <1>2, <1>3
<1> QED
  BY <1>4

\* A suffix of a name is known by its length.
LEMMA SuffixByLength ==
  ASSUME NEW d \in Seq(STRING)
  PROVE  /\ Len(d) \in Nat
         /\ \A i \in 1 .. Len(d) : Len(SubSeq(d, i, Len(d))) = Len(d) - i + 1
         /\ \A y, z \in LabelSuffixes(d) : Len(y) = Len(z) => y = z
         /\ \A z \in LabelSuffixes(d) : Len(z) \in Nat /\ Len(z) >= 1 /\ Len(z) <= Len(d)
<1>1. Len(d) \in Nat /\ DOMAIN d = 1 .. Len(d) /\ \A i \in 1 .. Len(d) : d[i] \in STRING
  BY LenProperties
<1>2. ASSUME NEW i \in 1 .. Len(d) PROVE Len(SubSeq(d, i, Len(d))) = Len(d) - i + 1
  <2>1. \A k \in i .. Len(d) : d[k] \in STRING
    BY <1>1
  <2> QED
    BY <1>1, <2>1, SubSeqProperties
<1>3. ASSUME NEW y \in LabelSuffixes(d), NEW z \in LabelSuffixes(d), Len(y) = Len(z) PROVE y = z
  <2>1. PICK i \in 1 .. Len(d) : y = SubSeq(d, i, Len(d))
    BY DEF LabelSuffixes
  <2>2. PICK k \in 1 .. Len(d) : z = SubSeq(d, k, Len(d))
    BY DEF LabelSuffixes
  <2>3. i = k
    BY <1>1, <1>2, <1>3, <2>1, <2>2
  <2> QED
    BY <2>1, <2>2, <2>3
<1>4. ASSUME NEW z \in LabelSuffixes(d) PROVE Len(z) \in Nat /\ Len(z) >= 1 /\ Len(z) <= Len(d)
  <2>1. PICK i \in 1 .. Len(d) : z = SubSeq(d, i, Len(d))
    BY DEF LabelSuffixes
  <2> QED
    BY <1>1, <1>2, <2>1
<1> QED
  BY <1>1, <1>2, <1>3, <1>4

\* Among suffixes of one name there is one longest.
LEMMA LongestSuffix ==
  ASSUME NEW d \in Seq(STRING), NEW S, S \subseteq LabelSuffixes(d), S # {}
  PROVE  Longest(S) \in S /\ \A y \in S : Len(y) <= Len(Longest(S))
<1>1. Len(d) \in Nat
  BY SuffixByLength
<1> DEFINE I == {i \in 1 .. Len(d) : SubSeq(d, i, Len(d)) \in S}
<1>2. I \subseteq Nat /\ I # {}
  <2>1. PICK y \in S : TRUE
    OBVIOUS
  <2>2. PICK k \in 1 .. Len(d) : y = SubSeq(d, k, Len(d))
    BY <2>1 DEF LabelSuffixes
  <2>3. k \in I
    BY <2>1, <2>2
  <2>4. I \subseteq 1 .. Len(d)
    OBVIOUS
  <2> HIDE DEF I
  <2> QED
    BY <1>1, <2>3, <2>4
<1>3. PICK i \in I : \A k \in I : i <= k
  BY <1>2, LeastNatural
<1>4. SubSeq(d, i, Len(d)) \in S
  OBVIOUS
<1>5. \A y \in S : Len(y) <= Len(SubSeq(d, i, Len(d)))
  <2> SUFFICES ASSUME NEW y \in S PROVE Len(y) <= Len(SubSeq(d, i, Len(d)))
    OBVIOUS
  <2>1. PICK k \in 1 .. Len(d) : y = SubSeq(d, k, Len(d))
    BY DEF LabelSuffixes
  <2>2. i <= k
    BY <1>3, <2>1
  <2> QED
    BY <1>1, <2>1, <2>2, SuffixByLength
<1> QED
  BY <1>4, <1>5 DEF Longest

\* A search by labels ends in the zone whose servers answer, or in none.
LEMMA ByLabelsFinds ==
  ASSUME NEW d \in Seq(STRING)
  PROVE  ByLabels(d) \in {NoZone, Authoritative(d)}
<1> DEFINE S == LabelSuffixes(d) \cap HostedSet
           T == {z \in LabelSuffixes(d) \cap HostedSet : Len(z) >= 2}
<1>1. CASE T = {}
  BY <1>1 DEF ByLabels
<1>2. CASE T # {}
  <2>1. S # {} /\ S \subseteq LabelSuffixes(d) /\ T \subseteq S
    BY <1>2
  <2>2. ByLabels(d) = Longest(T) /\ Authoritative(d) = Longest(S)
    BY <1>2, <2>1 DEF ByLabels, Authoritative
  <2>3. Longest(T) \in T /\ \A y \in T : Len(y) <= Len(Longest(T))
    BY <1>2, <2>1, LongestSuffix
  <2>4. Longest(S) \in S /\ \A y \in S : Len(y) <= Len(Longest(S))
    BY <2>1, LongestSuffix
  <2>5. /\ Len(Longest(T)) \in Nat /\ Len(Longest(S)) \in Nat /\ Len(Longest(T)) >= 2
        /\ Len(Longest(T)) <= Len(Longest(S))
    BY <2>1, <2>3, <2>4, SuffixByLength
  <2>6. Longest(S) \in T
    BY <2>4, <2>5
  <2>7. Len(Longest(S)) = Len(Longest(T))
    BY <2>3, <2>5, <2>6
  <2> QED
    BY <2>1, <2>2, <2>3, <2>4, <2>7, SuffixByLength
<1> QED
  BY <1>1, <1>2

\* A name that is hosted itself is its own zone.
LEMMA HostedIsZone ==
  ASSUME NEW d \in Seq(STRING), d \in HostedSet, d # NoZone
  PROVE  Authoritative(d) = d
<1> DEFINE S == LabelSuffixes(d) \cap HostedSet
<1>1. Len(d) \in Nat /\ Len(d) >= 1
  BY EmptySeq, LenProperties DEF NoZone
<1>2. SubSeq(d, 1, Len(d)) = d
  BY SubSeqFull
<1>3. d \in S
  BY <1>1, <1>2 DEF LabelSuffixes
<1>4. S # {} /\ S \subseteq LabelSuffixes(d) /\ Authoritative(d) = Longest(S)
  BY <1>3 DEF Authoritative
<1>5. Longest(S) \in S /\ Len(d) <= Len(Longest(S))
  BY <1>3, <1>4, LongestSuffix
<1>6. Len(Longest(S)) = Len(d)
  BY <1>1, <1>5, SuffixByLength
<1> QED
  BY <1>3, <1>4, <1>5, <1>6, SuffixByLength

\* A provider that looks for the most specific zone finds it or none.
LEMMA TrustedZone ==
  ASSUME NEW p \in ProviderKinds, NEW d \in DomainNames, NEW z,
         \/ p.zone \in {"labels", "given", "none"} /\ (z = ZoneOf(p, d) \/ z \in ZonesAfterFailure(p, d))
         \/ p.zone = "probe" /\ z = ZoneOf(p, d)
  PROVE  z \in {NoZone, Authoritative(d)} /\ (p.create = "rewrite" => z \in {NoZone, d})
<1>1. d \in Seq(STRING) /\ Modes(p)
  BY LabelsAssumption, ProviderModes
<1>2. CASE p.zone \in {"labels", "probe"}
  <2>1. z \in {NoZone, ByLabels(d)} /\ p.create # "rewrite"
    BY <1>1, <1>2 DEF ZoneOf, ZonesAfterFailure, Modes
  <2> QED
    BY <1>1, <2>1, ByLabelsFinds
<1>3. CASE p.zone = "given"
  <2>1. z = IfHosted(d)
    BY <1>3 DEF ZoneOf, ZonesAfterFailure
  <2> QED
    BY <1>1, <2>1, HostedIsZone DEF IfHosted
<1>4. CASE p.zone = "none"
  BY <1>1, <1>4 DEF ZoneOf, ZonesAfterFailure, Modes
<1> QED
  BY <1>2, <1>3, <1>4

\* An order that is the only one, whose provider finds its zones and reports a
\* refusal, and that nobody cancels.
Cancels(w) == job[w] # Idle /\ job[w].kind = "cancel"
Trusted ==
  /\ "create" \notin provider.blind /\ provider.create # "none"
  /\ provider.zone \in {"labels", "given", "none"} \/ (provider.zone = "probe" /\ ~failed)
Alone(o) == \A p \in Order \ {o} : remote[p] = NoOrder
Watched(o) ==
  /\ order[o] # NoOrder /\ order[o].cert = "none" /\ Alone(o) /\ Trusted
  /\ \A w \in Worker : ~Cancels(w)

\* The record of a domain is out; where a write replaces a zone, it is the
\* only domain of its zone.
Out(o, d) ==
  <<o, order[o].chal[d]>> \in dns[d] /\ (provider.create = "rewrite" => Authoritative(d) = d)

\* What a worker that sets up has behind it is out, unless it knows better.
SetupFine(o, w) ==
  /\ order[o].told = "nothing"
  /\ \A d \in DOMAIN job[w].chal : d \in DOMAIN order[o].chal /\ job[w].chal[d] = order[o].chal[d]
  /\ job[w].ok => \A d \in (DOMAIN order[o].chal) \ (DOMAIN job[w].chal) : Out(o, d)
  /\ job[w].step = "write" => /\ job[w].zone \in {NoZone, Authoritative(Todo(w))}
                              /\ provider.create = "rewrite" => job[w].zone \in {NoZone, Todo(w)}

PublishedFine ==
  \A o \in Order : Watched(o) =>
    /\ order[o].told = "ok" => \A d \in DOMAIN order[o].chal : Out(o, d)
    /\ \A w \in Worker : SetsUp(w) => SetupFine(o, w)

\* Records are cleaned up for an order that has its certificate.
CertFirst ==
  \A w \in Worker : CleansUp(w) => order[job[w].order] = NoOrder \/ order[job[w].order].cert # "none"

PublishedInv == PublishedFine /\ CertFirst

ToldSame == \A o \in Order : order'[o] # NoOrder => order'[o].told = order[o].told
CancelStays == \A w \in Worker : Cancels(w) => Cancels(w)' \/ order'[job[w].order] = NoOrder

\* A job on an order that is not the only one, or on the only one.
LEMMA OnlyJob ==
  ASSUME ClientInv, NEW o \in Order, Alone(o), NEW w \in Worker, job[w] # Idle, job[w].kind # "request"
  PROVE  job[w].order = o
  BY RowOfJob, NotNoOrder DEF Alone

\* A step that leaves the zone, what was answered and the cancellations alone
\* keeps the records that were answered for.
LEMMA PublishedQuiet ==
  ASSUME ClientInv, PublishedInv, QuietJobs, QuietOrders, QuietRemotes, QuietProvider, ToldSame, CancelStays
  PROVE  PublishedInv'
<1>1. \A w \in Worker : /\ SetsUp(w)' => SetsUp(w) /\ job'[w] = job[w]
                        /\ CleansUp(w)' => CleansUp(w) /\ job'[w] = job[w]
  BY DEF QuietJobs, OnRecords, SetsUp, CleansUp
<1>2. CertFirst'
  <2>1. \A w \in Worker : CleansUp(w) => job[w].order \in Order
    BY NotIdle DEF CleansUp, ClientInv, ClientTypes
  <2> QED
    BY <1>1, <2>1 DEF PublishedInv, CertFirst, QuietOrders
<1>3. PublishedFine'
  <2> SUFFICES ASSUME NEW o \in Order, Watched(o)'
               PROVE  /\ order'[o].told = "ok" => \A d \in DOMAIN order'[o].chal : Out(o, d)'
                      /\ \A w \in Worker : SetsUp(w)' => SetupFine(o, w)'
    BY DEF PublishedFine
  <2>1. /\ order'[o] # NoOrder /\ order[o] # NoOrder /\ order'[o].chal = order[o].chal
        /\ order[o].cert = "none" /\ order'[o].told = order[o].told
    BY DEF Watched, QuietOrders, ToldSame
  <2>2. Alone(o) /\ Trusted
    BY DEF Watched, Alone, Trusted, QuietRemotes, QuietProvider
  <2>3. \A w \in Worker : ~Cancels(w)
    <3> SUFFICES ASSUME NEW w \in Worker, Cancels(w) PROVE FALSE
      OBVIOUS
    <3>1. job[w].order = o
      BY <2>2, OnlyJob DEF Cancels
    <3> QED
      BY <2>1, <3>1 DEF CancelStays, Watched
  <2>4. Watched(o)
    BY <2>1, <2>2, <2>3 DEF Watched
  <2>5. \A d : Out(o, d)' <=> Out(o, d)
    BY <2>1 DEF Out, QuietProvider
  <2>6. \A w \in Worker : SetsUp(w)' => SetupFine(o, w)'
    <3> SUFFICES ASSUME NEW w \in Worker, SetsUp(w)' PROVE SetupFine(o, w)'
      OBVIOUS
    <3>1. SetupFine(o, w) /\ job'[w] = job[w] /\ Todo(w)' = Todo(w) /\ provider' = provider
      BY <1>1, <2>4 DEF PublishedInv, PublishedFine, Todo, QuietProvider
    <3> QED
      BY <2>1, <2>5, <3>1 DEF SetupFine
  <2> QED
    BY <2>1, <2>4, <2>5, <2>6 DEF PublishedInv, PublishedFine
<1> QED
  BY <1>2, <1>3 DEF PublishedInv

\* Setting the status of an order changes nothing it was answered.
LEMMA StatusTold ==
  ASSUME ClientInv, UNCHANGED order \/ \E o \in Order : \E s : SetStatus(o, s)
  PROVE  ToldSame
<1>1. CASE UNCHANGED order
  BY <1>1 DEF ToldSame
<1>2. ASSUME NEW o \in Order, NEW s, SetStatus(o, s), order[o] # NoOrder PROVE ToldSame
  <2>1. order[o] \in OrderRow(o) /\ order' = [order EXCEPT ![o] = [order[o] EXCEPT !["status"] = s]]
    BY <1>2 DEF SetStatus, Exists, SetOrder, ClientInv, ClientTypes
  <2>2. [order[o] EXCEPT !["status"] = s].told = order[o].told
    BY <2>1 DEF OrderRow
  <2> QED
    BY <2>1, <2>2 DEF ToldSame, ClientInv, ClientTypes
<1> QED
  BY <1>1, <1>2 DEF SetStatus, Exists

\* A worker that does not cancel, and takes another job, leaves the others'.
LEMMA OthersCancel ==
  ASSUME ClientInv, NEW w \in Worker, ~Cancels(w), NEW j, SetJob(w, j)
  PROVE  CancelStays
  BY DEF CancelStays, Cancels, SetJob, ClientInv, ClientTypes


\* The steps that are quiet on the zone keep the records that were answered
\* for.
LEMMA QuietPublished ==
  ASSUME ClientInv, PublishedInv, QuietStep, NEW w \in Worker, NEW j, SetJob(w, j), ~Cancels(w),
         UNCHANGED order \/ \E o \in Order : \E s : SetStatus(o, s)
  PROVE  PublishedInv'
  BY PublishedQuiet, StatusTold, OthersCancel DEF QuietStep

\* A step of a request, a verification or a finalization before the download
\* keeps the records that were answered for.
LEMMA WorkPublished ==
  ASSUME ClientInv, ZoneInv, PublishedInv, NEW w \in Worker,
         \/ \E o \in Order : Request(w, o) \/ VerifyStart(w, o) \/ FinalizeStart(w, o)
         \/ verify_challenge(w) \/ VerifyEnd(w) \/ FinalizeCheck(w) \/ FinalizeCsr(w) \/ FinalizePoll(w)
  PROVE  PublishedInv'
<1>1. QuietStep
  BY RequestQuiet, VerifyQuiet, FinalizeQuiet, VerifyChallengeQuiet, FinalizeCsrQuiet
<1>2. CASE \E o \in Order : Request(w, o) \/ VerifyStart(w, o) \/ FinalizeStart(w, o)
  <2>1. PICK j : SetJob(w, j)
    BY <1>2 DEF Request, VerifyStart, FinalizeStart
  <2>2. UNCHANGED order /\ ~Cancels(w)
    BY <1>2 DEF Request, VerifyStart, FinalizeStart, Cancels
  <2> QED
    BY <1>1, <2>1, <2>2, QuietPublished
<1>3. CASE verify_challenge(w) \/ VerifyEnd(w) \/ FinalizeCheck(w) \/ FinalizeCsr(w) \/ FinalizePoll(w)
  <2>1. job[w].kind \in {"verify", "finalize"}
    BY <1>3 DEF verify_challenge, VerifyEnd, FinalizeCheck, FinalizeCsr, FinalizePoll, At
  <2>2. job[w].order \in Order /\ ~Cancels(w)
    BY <2>1, KindOfJob, NotIdle DEF Cancels, ClientInv, ClientTypes
  <2>3. \E j : SetJob(w, j)
    BY <1>3 DEF verify_challenge, VerifyEnd, FinalizeCheck, FinalizeCsr, FinalizePoll, Step, IfReady, Raised
  <2>4. UNCHANGED order \/ \E s : SetStatus(job[w].order, s)
    BY <1>3 DEF verify_challenge, VerifyEnd, FinalizeCheck, FinalizeCsr, FinalizePoll, Raised
  <2> QED
    BY <1>1, <2>2, <2>3, <2>4, QuietPublished
<1> QED
  BY <1>2, <1>3

\* A cancellation under way, or at its end, takes its order out of the claim.
LEMMA CancelPublished ==
  ASSUME ClientInv, ZoneInv, PublishedInv, NEW w \in Worker,
         (\E o \in Order : CancelStart(w, o)) \/ CancelEnd(w)
  PROVE  PublishedInv'
<1>1. QuietStep
  BY CancelQuiet
<1>2. ToldSame
  <2>1. UNCHANGED order \/ \E o \in Order : order' = [order EXCEPT ![o] = NoOrder]
    <3>1. CASE \E o \in Order : CancelStart(w, o)
      BY <3>1 DEF CancelStart
    <3>2. CASE CancelEnd(w)
      <4>1. job[w].order \in Order
        BY <3>2, KindOfJob DEF CancelEnd, At, ClientInv, ClientTypes, IsDnsJob
      <4> QED
        BY <3>2, <4>1 DEF CancelEnd
    <3> QED
      BY <3>1, <3>2
  <2> QED
    BY <2>1 DEF ToldSame, ClientInv, ClientTypes
<1>3. CancelStays
  <2>1. CASE \E o \in Order : CancelStart(w, o)
    <3>1. ~Cancels(w) /\ (UNCHANGED job \/ \E j : SetJob(w, j))
      BY <2>1 DEF CancelStart, Cancels
    <3> QED
      BY <3>1, OthersCancel DEF CancelStays, Cancels
  <2>2. CASE CancelEnd(w)
    <3>1. job[w].order \in Order
      BY <2>2, KindOfJob DEF CancelEnd, At, ClientInv, ClientTypes, IsDnsJob
    <3> QED
      BY <2>2, <3>1 DEF CancelEnd, CancelStays, Cancels, SetJob, ClientInv, ClientTypes
  <2> QED
    BY <2>1, <2>2
<1> QED
  BY <1>1, <1>2, <1>3, PublishedQuiet DEF QuietStep

\* Steps beside the workers keep the records that were answered for.
LEMMA BesidePublished ==
  ASSUME ClientInv, ZoneInv, PublishedInv,
         \/ \E o \in Order : check_order_status(o) \/ Renewal(o) \/ CaDecides(o) \/ CaRefuses(o)
         \/ create_provider \/ update_provider \/ delete_provider
  PROVE  PublishedInv'
<1>1. QuietStep
  BY BesideQuiet, ProviderQuiet
<1>2. UNCHANGED job
  BY DEF check_order_status, Renewal, CaDecides, CaRefuses, create_provider, update_provider, delete_provider
<1>3. CancelStays
  BY <1>2 DEF CancelStays, Cancels
<1>4. ToldSame
  <2>1. CASE \E o \in Order : Renewal(o)
    <3>1. PICK o \in Order : Renewal(o)
      BY <2>1
    <3> DEFINE x == order[o].failures + 1
    <3>2. order[o] \in OrderRow(o) /\ order' = [order EXCEPT ![o] = [order[o] EXCEPT !["failures"] = x]]
      BY <3>1 DEF Renewal, Exists, SetOrder, ClientInv, ClientTypes
    <3> HIDE DEF x
    <3>3. [order[o] EXCEPT !["failures"] = x].told = order[o].told
      BY <3>2 DEF OrderRow
    <3> QED
      BY <3>2, <3>3 DEF ToldSame, ClientInv, ClientTypes
  <2>2. CASE ~\E o \in Order : Renewal(o)
    <3>1. UNCHANGED order \/ \E o \in Order : \E s : SetStatus(o, s)
      BY <2>2 DEF check_order_status, CaDecides, CaRefuses, create_provider, update_provider, delete_provider
    <3> QED
      BY <3>1, StatusTold
  <2> QED
    BY <2>1, <2>2
<1> QED
  BY <1>1, <1>3, <1>4, PublishedQuiet DEF QuietStep

\* An order just placed has nothing behind it.
LEMMA CreateOrderPublished ==
  ASSUME ClientInv, ZoneInv, PublishedInv, NEW w \in Worker, create_order(w)
  PROVE  PublishedInv'
<1> DEFINE o == job[w].order
           r == [status |-> "pending", proved |-> {}, key |-> "none"]
<1>1. job[w] # Idle /\ job[w].kind = "request" /\ o \in Order /\ ~CleansUp(w) /\ ~Cancels(w)
  BY KindOfJob DEF create_order, At, ClientInv, ClientTypes, RequestJob, CleansUp, Cancels
<1>2. remote[o] = NoOrder /\ Free(o)
  BY <1>1 DEF ClientInv, Placed, ZoneInv, Unpublished
<1>3. UNCHANGED <<provider, provRow, dns>> /\ (NoFault \/ Fault)
  BY DEF create_order
<1>4. CASE UNCHANGED <<order, remote>> /\ SetJob(w, Idle)
  <2>1. QuietStep
    BY <1>1, <1>3, <1>4, QuietJobSet, OrderUnchanged, QuietOrderSet, QuietRemoteSame, QuietProviderSame
    DEF QuietStep, ClientInv, OnRecords
  <2> QED
    BY <1>1, <1>4, <2>1, QuietPublished
<1>5. CASE \E ids \in SUBSET Requests[o] : \E chal \in Stored(ids) :
             /\ remote' = [remote EXCEPT ![o] = r]
             /\ order' = [order EXCEPT ![o] = Row(chal)] /\ SetJob(w, SetupOrIdle(o, chal))
  <2>1. PICK ids \in SUBSET Requests[o], chal \in Chals(o) :
          /\ remote' = [remote EXCEPT ![o] = r]
          /\ order' = [order EXCEPT ![o] = Row(chal)] /\ SetJob(w, SetupOrIdle(o, chal))
    BY <1>1, <1>5, ChalsOf
  <2> DEFINE j == SetupOrIdle(o, chal)
  <2>2. /\ remote'[o] = r /\ order'[o] = Row(chal) /\ \A q \in Order \ {o} : order'[q] = order[q]
        /\ \A q \in Order \ {o} : remote'[q] = remote[q]
        /\ job'[w] = j /\ \A v \in Worker \ {w} : job'[v] = job[v]
    BY <1>1, <2>1 DEF SetJob, ClientInv, ClientTypes
  <2>3. j = Idle \/ (j.kind = "setup" /\ j.order = o /\ j.step = "look" /\ j.chal = chal)
    BY DEF SetupOrIdle, DnsJob
  <2>4. r # NoOrder /\ Row(chal).told = "nothing" /\ Row(chal).chal = chal
    BY DEF NoOrder, Row
  <2> HIDE DEF r, j
  <2>5. \A v \in Worker \ {w} : job[v] # Idle /\ job[v].kind # "request" => job[v].order \in Order \ {o}
    BY <1>2, NotIdle DEF ClientInv, ClientTypes, Placed
  <2>6. CertFirst'
    <3>1. \A v \in Worker : CleansUp(v)' => v # w /\ CleansUp(v) /\ job[v].order \in Order \ {o}
      BY <2>2, <2>3, <2>5 DEF CleansUp
    <3> QED
      BY <2>2, <3>1 DEF PublishedInv, CertFirst
  <2>7. PublishedFine'
    <3> SUFFICES ASSUME NEW q \in Order, Watched(q)'
                 PROVE  /\ order'[q].told = "ok" => \A d \in DOMAIN order'[q].chal : Out(q, d)'
                        /\ \A v \in Worker : SetsUp(v)' => SetupFine(q, v)'
      BY DEF PublishedFine
    <3>1. q = o /\ \A p \in Order \ {o} : remote'[p] = NoOrder
      BY <1>1, <2>2, <2>4 DEF Watched, Alone
    <3>2. order'[q].told = "nothing" /\ order'[q].chal = chal
      BY <2>2, <2>4, <3>1
    <3>3. \A v \in Worker : SetsUp(v)' => v = w
      <4> SUFFICES ASSUME NEW v \in Worker \ {w}, SetsUp(v)' PROVE FALSE
        OBVIOUS
      <4>1. job[v] # Idle /\ job[v].kind = "setup"
        BY <2>2 DEF SetsUp
      <4> QED
        BY <2>2, <2>5, <3>1, <4>1 DEF ClientInv, Placed
    <3>4. SetsUp(w)' => SetupFine(q, w)'
      BY <2>2, <2>3, <3>2 DEF SetsUp, SetupFine
    <3> QED
      BY <3>2, <3>3, <3>4
  <2> QED
    BY <2>6, <2>7 DEF PublishedInv
<1> QED
  <2>1. \A i \in Requests[o] : Requests[o] \ {i} \in SUBSET Requests[o]
    OBVIOUS
  <2>2. Requests[o] \in SUBSET Requests[o]
    OBVIOUS
  <2> HIDE DEF o, r
  <2> QED
    BY <1>4, <1>5, <2>1, <2>2 DEF create_order, o, r


\* A certificate that is stored ends the claim on its order.
LEMMA ImportPublished ==
  ASSUME ClientInv, ZoneInv, PublishedInv, NEW w \in Worker, FinalizeImport(w)
  PROVE  PublishedInv'
<1> DEFINE o == job[w].order
<1>1. job[w] # Idle /\ job[w].kind = "finalize" /\ ~CleansUp(w) /\ ~Cancels(w)
  BY KindOfJob DEF FinalizeImport, At, ClientInv, ClientTypes, CleansUp, Cancels
<1>2. o \in Order /\ remote[o] # NoOrder /\ w # "none"
  BY <1>1, RowOfJob, NotNoOrder, ClientAssumption
<1>3. UNCHANGED <<provider, provRow, remote, dns>> /\ (NoFault \/ Fault)
  BY DEF FinalizeImport
<1>4. CASE SetJob(w, Idle) /\ (UNCHANGED order \/ SetStatus(o, "error"))
  <2>1. SameOrders
    BY <1>2, <1>4, OrderUnchanged, StatusSet DEF ClientInv, Status
  <2>2. QuietStep
    BY <1>1, <1>3, <1>4, <2>1, QuietJobSet, QuietOrderSet, QuietRemoteSame, QuietProviderSame
    DEF QuietStep, OnRecords
  <2> QED
    BY <1>1, <1>2, <1>4, <2>2, QuietPublished
<1>5. CASE /\ Exists(o) /\ SetJob(w, CleanupJob(o))
           /\ order' = [order EXCEPT ![o] = [@ EXCEPT !.status = "issued", !.cert = w]]
  <2> DEFINE c == [order[o] EXCEPT !.status = "issued", !.cert = w]
             j == CleanupJob(o)
  <2>1. order[o] \in OrderRow(o)
    BY <1>2, <1>5 DEF Exists, ClientInv, ClientTypes
  <2>2. c.cert = w
    BY <2>1 DEF OrderRow
  <2>3. /\ order'[o] = c /\ \A p \in Order \ {o} : order'[p] = order[p]
        /\ job'[w] = j /\ \A v \in Worker \ {w} : job'[v] = job[v]
    BY <1>2, <1>5 DEF SetJob, ClientInv, ClientTypes
  <2>4. j = Idle \/ j.order = o
    BY DEF CleanupJob, DnsJob
  <2> HIDE DEF c, j
  <2>5. \A q \in Order : ~Watched(q)'
    BY <1>2, <1>3, <2>2, <2>3 DEF Watched, Alone
  <2>6. CertFirst'
    <3>1. \A v \in Worker : CleansUp(v) => job[v].order \in Order
      BY NotIdle DEF CleansUp, ClientInv, ClientTypes
    <3> QED
      BY <1>2, <2>2, <2>3, <2>4, <3>1 DEF PublishedInv, CertFirst, CleansUp
  <2> QED
    BY <2>5, <2>6 DEF PublishedInv, PublishedFine
<1> QED
  BY <1>4, <1>5 DEF FinalizeImport, Raised

\* A look at the zones finds the right one.
LEMMA LookPublished ==
  ASSUME ClientInv, ZoneInv, PublishedInv, NEW w \in Worker, Look(w)
  PROVE  PublishedInv'
<1> DEFINE d == Todo(w)
<1>1. PICK z, s :
        /\ SetJob(w, [job[w] EXCEPT !.step = "write", !.zone = z, !.seen = s])
        /\ \/ failed' /\ z \in ZonesAfterFailure(provider, d)
           \/ z = ZoneOf(provider, d)
  BY DEF Look, Fault
<1>2. UNCHANGED <<provider, order, remote, dns>> /\ (failed' = failed \/ failed')
  BY DEF Look, Fault, NoFault
<1> DEFINE j == [job[w] EXCEPT !.step = "write", !.zone = z, !.seen = s]
<1>3. /\ IsDnsJob(job[w]) /\ job[w] # Idle /\ job[w].step = "look" /\ DOMAIN job[w].chal # {}
      /\ d \in DOMAIN job[w].chal
  BY KindOfJob DEF Look, ClientInv, ClientTypes, Todo
<1>4. d \in DomainNames
  BY <1>3, ChalsOf DEF IsDnsJob
<1>5. /\ j.step = "write" /\ j.zone = z /\ j.kind = job[w].kind /\ j.order = job[w].order
      /\ j.chal = job[w].chal /\ j.ok = job[w].ok /\ j # Idle
  BY <1>3 DEF IsDnsJob, DnsFields, Idle
<1>6. SetJob(w, j)
  BY <1>1
<1> HIDE DEF j
<1>7. job'[w] = j /\ \A v \in Worker \ {w} : job'[v] = job[v]
  BY <1>6 DEF SetJob, ClientInv, ClientTypes
<1>8. \A v \in Worker : /\ SetsUp(v)' <=> SetsUp(v) 
                        /\ CleansUp(v)' <=> CleansUp(v)
                        /\ Cancels(v)' <=> Cancels(v)
                        /\ job[v] # Idle => job'[v].order = job[v].order
  BY <1>3, <1>5, <1>7 DEF SetsUp, CleansUp, Cancels
<1>9. CertFirst'
  BY <1>2, <1>8 DEF PublishedInv, CertFirst, CleansUp
<1>10. PublishedFine'
  <2> SUFFICES ASSUME NEW o \in Order, Watched(o)'
               PROVE  /\ order'[o].told = "ok" => \A e \in DOMAIN order'[o].chal : Out(o, e)'
                      /\ \A v \in Worker : SetsUp(v)' => SetupFine(o, v)'
    BY DEF PublishedFine
  <2>1. Watched(o)
    BY <1>2, <1>8 DEF Watched, Alone, Trusted
  <2>2. \A e : Out(o, e)' <=> Out(o, e)
    BY <1>2 DEF Out
  <2>3. ASSUME NEW v \in Worker \ {w}, SetsUp(v)' PROVE SetupFine(o, v)'
    <3>1. SetupFine(o, v) /\ job'[v] = job[v] /\ Todo(v)' = Todo(v)
      BY <1>7, <1>8, <2>1, <2>3 DEF PublishedInv, PublishedFine, Todo
    <3> QED
      BY <1>2, <2>2, <3>1 DEF SetupFine
  <2>4. ASSUME SetsUp(w)' PROVE SetupFine(o, w)'
    <3>1. SetupFine(o, w) /\ Todo(w)' = d
      BY <1>5, <1>7, <1>8, <2>1, <2>4 DEF PublishedInv, PublishedFine, Todo
    <3>2. z \in {NoZone, Authoritative(d)} /\ (provider.create = "rewrite" => z \in {NoZone, d})
      <4>1. \/ provider.zone \in {"labels", "given", "none"} /\ (z = ZoneOf(provider, d) \/ z \in ZonesAfterFailure(provider, d))
            \/ provider.zone = "probe" /\ z = ZoneOf(provider, d)
        BY <1>1, <1>2 DEF Watched, Trusted
      <4>2. provider \in ProviderKinds
        BY DEF ClientInv, ClientTypes
      <4> QED
        BY <1>4, <4>1, <4>2, TrustedZone
    <3> QED
      BY <1>2, <1>5, <1>7, <2>2, <3>1, <3>2 DEF SetupFine
  <2> QED
    BY <1>2, <2>1, <2>2, <2>3, <2>4 DEF PublishedInv, PublishedFine
<1> QED
  BY <1>9, <1>10 DEF PublishedInv

\* A removal is of an order that is cancelled, has its certificate or is not
\* the only one.
LEMMA DeleteTxtPublished ==
  ASSUME ClientInv, ZoneInv, PublishedInv, NEW w \in Worker, delete_txt_record(w)
  PROVE  PublishedInv'
<1>1. job[w].kind \in {"cleanup", "cancel"} /\ job[w].step = "write"
  BY DEF delete_txt_record
<1>2. IsDnsJob(job[w]) /\ job[w] # Idle /\ DOMAIN job[w].chal # {} /\ job[w].order \in Order
  BY <1>1, KindOfJob DEF ClientInv, ClientTypes, IsDnsJob
<1>3. SetJob(w, Rest(w)) /\ Shorter(w, Rest(w)) /\ UNCHANGED <<order, remote>>
  BY <1>2, RestShorter DEF delete_txt_record
<1>4. job'[w] = Rest(w) /\ \A v \in Worker \ {w} : job'[v] = job[v]
  BY <1>3 DEF SetJob, ClientInv, ClientTypes
<1>5. job[w].kind = "cancel" => Cancels(w)'
  <2>1. job[w].kind = "cancel" => Rest(w) # Idle
    <3> DEFINE D == (DOMAIN job[w].chal) \ {Todo(w)}
               k == [job[w] EXCEPT !.chal = [d \in D |-> job[w].chal[d]], !.step = "look",
                                   !.zone = NoZone, !.seen = <<>>]
    <3>1. job[w].kind = "cancel" => Rest(w) = k
      BY DEF Rest
    <3>2. k.kind = job[w].kind
      BY <1>2 DEF IsDnsJob, DnsFields
    <3> HIDE DEF k
    <3> QED
      BY <3>1, <3>2 DEF Idle
  <2> QED
    BY <1>3, <1>4, <2>1 DEF Shorter, Cancels
<1>6. CertFirst'
  BY <1>2, <1>3, <1>4 DEF PublishedInv, CertFirst, CleansUp, Shorter
<1>7. \A o \in Order : ~Watched(o)'
  <2> SUFFICES ASSUME NEW o \in Order, Watched(o)' PROVE FALSE
    OBVIOUS
  <2>1. job[w].kind = "cleanup"
    BY <1>1, <1>5 DEF Watched
  <2>2. Alone(o) /\ order[o] # NoOrder /\ order[o].cert = "none"
    BY <1>3 DEF Watched, Alone
  <2>3. job[w].order = o
    BY <1>2, <2>1, <2>2, OnlyJob
  <2> QED
    BY <1>2, <2>1, <2>2, <2>3 DEF PublishedInv, CertFirst, CleansUp
<1> QED
  BY <1>6, <1>7 DEF PublishedInv, PublishedFine

\* A write to the authoritative zone puts its record out and, of a provider
\* that reports refusals, takes no record of another zone or name away.
LEMMA WrittenOut ==
  ASSUME NEW p \in ProviderKinds, NEW recs \in Zone, NEW seen \in Zone, NEW d \in Names, NEW v,
         NEW r \in Written(p, recs, seen, d, v), "create" \notin p.blind, p.create # "none",
         p.create = "rewrite" => Authoritative(d) = d
  PROVE  /\ v \in r[d]
         /\ \A e \in Names \ {d} : (p.create = "rewrite" => Authoritative(e) = e) => r[e] = recs[e]
<1>1. p.create \in {"add", "replace", "append", "appendIfSame", "rewrite"}
  BY ProviderModes DEF Modes
<1>2. CASE p.create \in {"add", "replace", "append", "appendIfSame"}
  BY <1>2 DEF Written, Zone
<1>3. CASE p.create = "rewrite"
  BY <1>3 DEF Written, Zone, SameZone
<1> QED
  BY <1>1, <1>2, <1>3

\* A record that is written, or refused, keeps the records that were answered
\* for, and the last answer is right.
LEMMA CreateTxtPublished ==
  ASSUME ClientInv, ZoneInv, PublishedInv, NEW w \in Worker, create_txt_record(w)
  PROVE  PublishedInv'
<1> SUFFICES ASSUME NEW o, o = job[w].order, NEW d, d = Todo(w) PROVE PublishedInv'
  OBVIOUS
<1> DEFINE D == (DOMAIN job[w].chal) \ {d}
           z == job[w].zone
           v == <<o, job[w].chal[d]>>
<1>1. job[w].kind = "setup" /\ job[w].step = "write"
  BY DEF create_txt_record, At
<1>2. /\ IsDnsJob(job[w]) /\ job[w] # Idle /\ DOMAIN job[w].chal # {} /\ job[w].seen \in Zone
      /\ o \in Order /\ SetsUp(w)
  BY <1>1, KindOfJob DEF ClientInv, ClientTypes, IsDnsJob, SetsUp
<1>3. d \in DOMAIN job[w].chal /\ d \in DomainNames /\ d \in Names
  BY <1>2, ChalsOf DEF Todo, IsDnsJob, Names
<1>4. dns \in Zone /\ provider \in ProviderKinds
  BY DEF ClientInv, ClientTypes
<1>5. PICK ok \in BOOLEAN :
        /\ \/ Rest(w) # Idle /\ SetJob(w, [Rest(w) EXCEPT !.ok = ok]) /\ UNCHANGED order
           \/ /\ Rest(w) = Idle
              /\ SetJob(w, Idle)
              /\ IF Exists(o) THEN SetOrder(o, "told", IF ok THEN "ok" ELSE "warning")
                 ELSE UNCHANGED order
        /\ ok => job[w].ok
        /\ ok /\ "create" \notin provider.blind => z # NoZone /\ dns' \in Published(w)
  BY DEF create_txt_record
<1>6. \/ dns' = dns
      \/ z # NoZone /\ z = Authoritative(d) /\ dns' \in Written(provider, dns, job[w].seen, d, v)
  BY DEF create_txt_record, Published, Effect, Value
<1>7. UNCHANGED <<provider, remote>> /\ (failed' = failed \/ failed')
  BY DEF create_txt_record, Fault, NoFault
<1>8. PICK j : /\ SetJob(w, j) /\ Shorter(w, j)
               /\ j # Idle => j.ok = ok /\ UNCHANGED order
               /\ j = Idle => IF Exists(o) THEN SetOrder(o, "told", IF ok THEN "ok" ELSE "warning")
                              ELSE UNCHANGED order
  <2>1. CASE Rest(w) # Idle /\ SetJob(w, [Rest(w) EXCEPT !.ok = ok]) /\ UNCHANGED order
    <3> DEFINE k == [Rest(w) EXCEPT !.ok = ok]
    <3>1. k.ok = ok
      BY <1>2, <2>1, RestOfJob DEF IsDnsJob, DnsFields
    <3>2. Shorter(w, k) /\ k # Idle /\ SetJob(w, k)
      <4>1. Shorter(w, k) /\ k.kind = Rest(w).kind /\ Rest(w).kind = "setup"
        BY <1>1, <1>2, <2>1, RestShorter, RestOfJob DEF IsDnsJob, DnsFields
      <4> QED
        BY <2>1, <4>1 DEF Idle
    <3> HIDE DEF k
    <3> QED
      BY <2>1, <3>1, <3>2
  <2>2. CASE Rest(w) = Idle
    BY <1>2, <1>5, <2>2, RestShorter
  <2> QED
    BY <1>5, <2>1, <2>2
<1>9. job'[w] = j /\ \A u \in Worker \ {w} : job'[u] = job[u]
  BY <1>8 DEF SetJob, ClientInv, ClientTypes
<1>10. /\ j # Idle => /\ j.kind = "setup" /\ j.order = o /\ j.step = "look" /\ DOMAIN j.chal = D
                      /\ \A e \in D : j.chal[e] = job[w].chal[e]
       /\ j = Idle => D = {}
  BY <1>1, <1>8 DEF Shorter
<1>11. \A u \in Worker : /\ CleansUp(u)' <=> CleansUp(u)
                         /\ Cancels(u)' <=> Cancels(u)
                         /\ CleansUp(u) => job'[u] = job[u]
                         /\ SetsUp(u)' => SetsUp(u)
  BY <1>1, <1>2, <1>9, <1>10 DEF CleansUp, Cancels, SetsUp
<1>12. QuietOrders
  <2>1. CASE UNCHANGED order
    BY <2>1, OrderUnchanged, QuietOrderSet DEF ClientInv
  <2>2. CASE Exists(o) /\ \E x \in {"ok", "warning"} : SetOrder(o, "told", x)
    <3>1. order[o] \in OrderRow(o)
      BY <1>2, <2>2 DEF Exists, ClientInv, ClientTypes
    <3> QED
      BY <1>2, <2>2, <3>1, FieldSet, QuietOrderSet DEF ClientInv
  <2> QED
    BY <1>8, <2>1, <2>2
<1>13. CertFirst'
  <2>1. \A u \in Worker : CleansUp(u) => job[u].order \in Order
    BY NotIdle DEF CleansUp, ClientInv, ClientTypes
  <2> QED
    BY <1>11, <1>12, <2>1 DEF PublishedInv, CertFirst, QuietOrders
<1>14. PublishedFine'
  <2> SUFFICES ASSUME NEW q \in Order, Watched(q)'
               PROVE  /\ order'[q].told = "ok" => \A e \in DOMAIN order'[q].chal : Out(q, e)'
                      /\ \A u \in Worker : SetsUp(u)' => SetupFine(q, u)'
    BY DEF PublishedFine
  <2>1. Watched(q)
    BY <1>7, <1>11, <1>12 DEF Watched, Alone, Trusted, QuietOrders
  <2>2. q = o
    BY <1>1, <1>2, <2>1, OnlyJob DEF Watched
  <2>3. SetupFine(o, w) /\ "create" \notin provider.blind /\ provider.create # "none"
    BY <1>2, <2>1, <2>2 DEF PublishedInv, PublishedFine, Watched, Trusted
  <2>4. order[o] \in OrderRow(o) /\ Exists(o) /\ order'[o].chal = order[o].chal
    BY <1>2, <1>12, <2>1, <2>2 DEF ClientInv, ClientTypes, Watched, QuietOrders, Exists
  <2>5. \A e \in DOMAIN order[o].chal : e \in Names
    BY <1>2, <2>4, ChalsOf DEF OrderRow, Names
  <2>6. z = Authoritative(d) /\ z # NoZone => (provider.create = "rewrite" => Authoritative(d) = d)
    BY <1>1, <2>3 DEF SetupFine
  <2>7. ASSUME NEW e \in (DOMAIN order[o].chal) \ {d}, Out(o, e) PROVE Out(o, e)'
    <3>1. dns'[e] = dns[e]
      BY <1>2, <1>3, <1>4, <1>6, <2>3, <2>5, <2>6, <2>7, WrittenOut DEF Out
    <3> QED
      BY <1>7, <2>4, <2>7, <3>1 DEF Out
  <2>8. ok => Out(o, d)'
    <3> SUFFICES ASSUME ok PROVE Out(o, d)'
      OBVIOUS
    <3>1. z # NoZone /\ z = Authoritative(d) /\ dns' \in Written(provider, dns, job[w].seen, d, v)
      BY <1>1, <1>5, <2>3 DEF SetupFine, Published, Effect, Value
    <3>2. v \in dns'[d] /\ (provider.create = "rewrite" => Authoritative(d) = d)
      BY <1>2, <1>3, <1>4, <2>3, <2>6, <3>1, WrittenOut
    <3>3. v = <<o, order[o].chal[d]>>
      BY <1>3, <2>3 DEF SetupFine
    <3> QED
      BY <1>7, <2>4, <3>2, <3>3 DEF Out
  <2>9. ok => \A e \in (DOMAIN order[o].chal) \ D : Out(o, e)'
    BY <1>5, <2>3, <2>7, <2>8 DEF SetupFine
  <2>10. \A u \in Worker : SetsUp(u)' => u = w
    <3> SUFFICES ASSUME NEW u \in Worker, SetsUp(u) PROVE u = w
      BY <1>11
    <3>1. job[u].order = o
      BY <2>1, <2>2, OnlyJob DEF Watched, SetsUp
    <3> QED
      BY <1>2, <3>1 DEF ZoneInv, OneSetup
  <2>11. CASE j # Idle
    <3>1. order'[o].told = "nothing"
      BY <1>8, <2>3, <2>11 DEF SetupFine
    <3>2. SetupFine(o, w)'
      BY <1>8, <1>9, <1>10, <2>3, <2>4, <2>9, <2>11, <3>1 DEF SetupFine
    <3> QED
      BY <2>2, <2>10, <3>1, <3>2
  <2>12. CASE j = Idle
    <3>1. order'[o].told = "ok" => ok
      <4> DEFINE x == IF ok THEN "ok" ELSE "warning"
      <4>1. order' = [order EXCEPT ![o] = [order[o] EXCEPT !["told"] = x]]
        BY <1>8, <2>4, <2>12 DEF SetOrder
      <4> HIDE DEF x
      <4>2. [order[o] EXCEPT !["told"] = x].told = x
        BY <2>4 DEF OrderRow
      <4>3. order'[o].told = x
        BY <1>2, <4>1, <4>2 DEF ClientInv, ClientTypes
      <4> QED
        BY <4>3 DEF x
    <3>2. ~SetsUp(w)'
      BY <1>9, <2>12 DEF SetsUp
    <3> QED
      BY <1>10, <2>2, <2>4, <2>9, <2>10, <2>12, <3>1, <3>2
  <2> QED
    BY <2>11, <2>12
<1> QED
  BY <1>13, <1>14 DEF PublishedInv

\* Every step of the ACME client keeps the records that were answered for.
LEMMA PublishedStepInv ==
  ClientInv /\ ZoneInv /\ PublishedInv /\ [ClientNext]_clientVars => PublishedInv'
<1> SUFFICES ASSUME ClientInv, ZoneInv, PublishedInv, [ClientNext]_clientVars PROVE PublishedInv'
  OBVIOUS
<1>1. CASE \E w \in Worker : WorkerStep(w)
  BY <1>1, CreateOrderPublished, LookPublished, CreateTxtPublished, DeleteTxtPublished, WorkPublished,
     ImportPublished, CancelPublished DEF WorkerStep
<1>2. CASE \E w \in Worker, o \in Order :
              Request(w, o) \/ VerifyStart(w, o) \/ FinalizeStart(w, o) \/ CancelStart(w, o)
  BY <1>2, WorkPublished, CancelPublished
<1>3. CASE \/ \E o \in Order : check_order_status(o) \/ Renewal(o) \/ CaDecides(o) \/ CaRefuses(o)
           \/ create_provider \/ update_provider \/ delete_provider
  BY <1>3, BesidePublished
<1>4. CASE UNCHANGED clientVars
  <2>1. QuietRemotes /\ QuietOrders /\ QuietJobs /\ QuietProvider
    BY <1>4, QuietRemoteSame, QuietJobSame, OrderUnchanged, QuietOrderSet DEF clientVars, ClientInv, QuietProvider
  <2>2. ToldSame /\ CancelStays
    BY <1>4 DEF clientVars, ToldSame, CancelStays, Cancels
  <2> QED
    BY <2>1, <2>2, PublishedQuiet
<1> QED
  BY <1>1, <1>2, <1>3, <1>4 DEF ClientNext

\* Whatever requests fail and whichever workers meet at an order, a request
\* answered without a warning has every record in the zone whose servers
\* answer, until the certificate is there or the order is cancelled: for the
\* only order, and for every provider of the registry that looks for the most
\* specific zone and at what it is answered.
THEOREM SuccessIsPublished == ClientSpec => []SuccessMeansPublished
<1>1. ClientInit => ClientInv /\ ZoneInv /\ PublishedInv
  <2>1. ClientInit => PublishedInv
    BY DEF ClientInit, PublishedInv, PublishedFine, CertFirst, Watched, CleansUp
  <2> QED
    BY <2>1, ClientInitInv, ZoneInitInv DEF ClientInv
<1>2. PublishedInv => SuccessMeansPublished
  <2> SUFFICES ASSUME PublishedInv, NEW o \in Order, Exists(o), order[o].told = "ok", order[o].cert = "none",
                      \A w \in Worker : job[w] # Idle => job[w].kind # "cancel",
                      Alone(o), Trusted, NEW d \in DOMAIN order[o].chal
               PROVE  Value(o, order[o].chal[d]) \in dns[d]
    BY DEF SuccessMeansPublished, Alone, Trusted
  <2>1. Watched(o)
    BY DEF Watched, Cancels, Exists
  <2> QED
    BY <2>1 DEF PublishedInv, PublishedFine, Out, Value
<1> QED
  BY <1>1, <1>2, ClientStepInv, ZoneStepInv, PublishedStepInv, PTL DEF ClientSpec

----------------------------------------------------------------------------
\* The system run composes parts that share no state: a behaviour of it is one
\* of every part, and the rows of all of them keep their types.
THEOREM SystemTyped == SystemSpec => []SystemTypeOK
<1>1. SystemInit => ClientInit /\ ScepInit /\ AuditInit
  BY DEF SystemInit
<1> DEFINE vars == <<clientVars, scepVars, auditVars, alertVars, jwsVars, part>>
<1>2. [SystemNext]_vars => [ClientNext]_clientVars /\ [ScepNext]_scepVars /\ [AuditNext]_auditVars
  BY DEF SystemNext
<1>3. SystemSpec => ClientSpec /\ ScepSpec /\ AuditSpec
  BY <1>1, <1>2, PTL DEF SystemSpec, ClientSpec, ScepSpec, AuditSpec
<1> QED
  BY <1>3, ClientTyped, StaysEnrolledOnce, FalseReportsOnlyFirst, PTL DEF SystemTypeOK
=============================================================================
