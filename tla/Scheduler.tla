------------------------------ MODULE Scheduler ------------------------------
(***************************************************************************)
(* The job scheduler: schedulerService (internal/service/scheduler.go) and *)
(* the taskExecutor its goroutines run (internal/service/task_executor.go) *)
(* over the task_schedules and task_execution_history tables.              *)
(*                                                                         *)
(* Execute is called by POST /v1/jobs/run, once per request and with the   *)
(* request's context; RunJobTask by a button of the telegram bot.  Nothing *)
(* keeps two calls apart: both read schedules, write history rows, wait    *)
(* for a slot of the one semaphore and stamp schedules concurrently.  A    *)
(* launched task outlives the call that started it and has its own         *)
(* deadline.  Every database call may fail, on its own or because the      *)
(* context of its caller is over; a task may time out or panic and the     *)
(* process may be killed and restarted.                                    *)
(***************************************************************************)
EXTENDS Naturals, FiniteSets

CONSTANTS
  Schedule,        \* rows of task_schedules, each with its job
  Active,          \* those with is_active
  BadCron,         \* those whose cron expression does not parse
  UnknownType,     \* those whose job's type has no strategy
  CleanUp,         \* those whose job is the data clean up
  CronNext(_, _),  \* CronNext(s, t): first activation of s later than t
  Retention,       \* retention_days of the clean up jobs, in clock units
  HttpCaller,      \* concurrent requests running Execute
  BotCaller,       \* concurrent telegram handlers running RunJobTask
  MaxConcurrency,  \* capacity of the semaphore
  MaxHistories,    \* bound: history rows ever inserted
  MaxClock         \* bound: last instant

Time == 1 .. MaxClock
HistId == 1 .. MaxHistories
Caller == HttpCaller \cup BotCaller

ASSUME ScheduleAssumption ==
  /\ Active \subseteq Schedule
  /\ BadCron \subseteq Schedule
  /\ UnknownType \subseteq Schedule
  /\ CleanUp \subseteq Schedule \ UnknownType
ASSUME CallerAssumption == HttpCaller \cap BotCaller = {}
\* A capacity of 0 makes the channel unbuffered and nobody ever receives first.
ASSUME BoundsAssumption ==
  /\ MaxConcurrency \in Nat \ {0}
  /\ MaxHistories \in Nat
  /\ MaxClock \in Nat \ {0}
  /\ Retention \in Nat
\* robfig/cron: Next returns the next activation time, later than the given one.
ASSUME CronAssumption ==
  \A s \in Schedule : \A t \in Time : CronNext(s, t) \in Nat /\ CronNext(s, t) > t

VARIABLES
  clock,      \* wall clock, in WIB
  next,       \* next_execution of each schedule; 0 is SQL NULL
  history,    \* the rows of task_execution_history
  lastId,     \* the table's last serial id
  sem,        \* slots of the semaphore in use
  task,       \* the goroutine of each history row
  call,       \* the local state of each caller
  disturbed   \* auxiliary: schedules whose claim was broken: see OncePerSlot

vars == <<clock, next, history, lastId, sem, task, call, disturbed>>
------------------------------------------------------------------------------
\* A row read by a query: the schedule and its next_execution at that moment.
Snapshot == [sched : Schedule, slot : Nat]

RowStatus == {"none", "running", "completed", "failed", "deleted"}
Row == [status : RowStatus, started : Nat, sched : Schedule \cup {"-"}, slot : Nat,
        manual : BOOLEAN]
\* status "none": not inserted yet.  slot and manual are auxiliary: the
\* next_execution the run was started for, and whether RunJobTask started it.
NoRow == [status |-> "none", started |-> 0, sched |-> "-", slot |-> 0, manual |-> FALSE]

LiveTask == {"exec", "save", "release"}
TaskPc == {"none", "done"} \cup LiveTask
TaskState == [pc : TaskPc, expired : BOOLEAN, result : {"running", "completed", "failed"},
              fault : BOOLEAN]
\* result is the in-memory Status of the history the goroutine carries;
\* fault is auxiliary: something kept the task from recording its outcome.
NoTask == [pc |-> "none", expired |-> FALSE, result |-> "running", fault |-> FALSE]
\* What is left of a goroutine that has ended.
Over(fault) == [NoTask EXCEPT !.pc = "done", !.fault = fault]

\* todo: rows read and not yet run; hist: the history row of the task in hand.
CallState == [pc : {"idle", "next", "acquire", "stamp"}, todo : SUBSET Snapshot,
              hist : 0 .. MaxHistories]
IdleCall == [pc |-> "idle", todo |-> {}, hist |-> 0]

Init ==
  /\ clock = 1
  /\ next = [s \in Schedule |-> 0]
  /\ history = [h \in HistId |-> NoRow]
  /\ lastId = 0
  /\ sem = 0
  /\ task = [h \in HistId |-> NoTask]
  /\ call = [c \in Caller |-> IdleCall]
  /\ disturbed = {}
------------------------------------------------------------------------------
\* The schedules a call has read and not finished with.
HeldBy(c) ==
  {row.sched : row \in call[c].todo}
    \cup (IF call[c].hist = 0 THEN {} ELSE {history[call[c].hist].sched})
Held == UNION {HeldBy(c) : c \in Caller}

\* One task of the call's list is behind it.
FinishTask(c) == call' = [call EXCEPT ![c].pc = "next", ![c].hist = 0]

Live == {h \in HistId : task[h].pc \in LiveTask}

TaskVars == <<history, lastId, sem, task>>

\* is_active AND (next_execution IS NULL OR next_execution <= now).
Due == {s \in Active : next[s] <= clock}

\* Execute: FindJobsToSchedule, then the loop over the rows it returned.
Execute(c) ==
  /\ call[c].pc = "idle"
  /\ \/ /\ call' = [call EXCEPT ![c].pc = "next",
                      ![c].todo = {[sched |-> s, slot |-> next[s]] : s \in Due}]
        /\ disturbed' = disturbed \cup (Due \cap Held)
     \/ UNCHANGED <<call, disturbed>>            \* the query failed
  /\ UNCHANGED <<clock, next, TaskVars>>

\* RunJobTask: whatever the row says of is_active and next_execution, the
\* first schedule of the job is run; the query gives them in no order.
RunJobTask(c) ==
  /\ call[c].pc = "idle"
  /\ \/ \E s \in Schedule :
          /\ call' = [call EXCEPT ![c].pc = "next",
                                  ![c].todo = {[sched |-> s, slot |-> next[s]]}]
          /\ disturbed' = disturbed \cup ({s} \cap Held)
     \/ UNCHANGED <<call, disturbed>>
  /\ UNCHANGED <<clock, next, TaskVars>>

\* The loop ends, or Execute notices at the top of it that its context is over:
\* the HTTP client may go away at any time.
Return(c) ==
  /\ call[c].pc = "next"
  /\ call[c].todo = {} \/ c \in HttpCaller
  /\ call' = [call EXCEPT ![c] = IdleCall]
  /\ UNCHANGED <<clock, next, TaskVars, disturbed>>

\* executeJob up to the insertion of the history row.
OpenHistory(c) ==
  /\ call[c].pc = "next"
  /\ \E row \in call[c].todo :
       \/ /\ lastId < MaxHistories
          /\ lastId' = lastId + 1
          /\ history' = [history EXCEPT ![lastId + 1] =
                           [status |-> "running", started |-> clock, sched |-> row.sched,
                            slot |-> row.slot, manual |-> c \in BotCaller]]
          /\ call' = [call EXCEPT ![c].pc = "acquire", ![c].hist = lastId + 1,
                                  ![c].todo = @ \ {row}]
       \/ /\ call' = [call EXCEPT ![c].todo = @ \ {row}]   \* the insert failed
          /\ UNCHANGED <<history, lastId>>
  /\ UNCHANGED <<clock, next, sem, task, disturbed>>

\* Mutant: the goroutine is started without waiting for the semaphore.
LaunchUnbounded(c) ==
  /\ call[c].pc = "acquire"
  /\ sem' = sem + 1
  /\ task' = [task EXCEPT ![call[c].hist].pc = "exec"]
  /\ call' = [call EXCEPT ![c].pc = "stamp"]
  /\ UNCHANGED <<clock, next, history, lastId, disturbed>>

\* The send on the semaphore, which no context interrupts, and the goroutine.
Launch(c) ==
  /\ call[c].pc = "acquire"
  /\ sem < MaxConcurrency
  /\ sem' = sem + 1
  /\ task' = [task EXCEPT ![call[c].hist].pc = "exec"]
  /\ call' = [call EXCEPT ![c].pc = "stamp"]
  /\ UNCHANGED <<clock, next, history, lastId, disturbed>>

\* Mutant: next_execution is written without its Valid flag, as NULL.
StampInvalid(c) ==
  LET run == history[call[c].hist] IN
  /\ call[c].pc = "stamp"
  /\ next' = [next EXCEPT ![run.sched] = 0]
  /\ FinishTask(c)
  /\ UNCHANGED <<clock, TaskVars, disturbed>>

\* executeJob after the launch: next_execution is counted from the instant the
\* call took before it inserted the row (and last_execution, which nothing but
\* the bot's job view reads, is that instant).
Stamp(c) ==
  LET run == history[call[c].hist] IN
  /\ call[c].pc = "stamp"
  /\ \/ /\ run.sched \notin BadCron
        /\ next' = [next EXCEPT ![run.sched] = CronNext(run.sched, run.started)]
        /\ UNCHANGED disturbed
     \/ /\ disturbed' = disturbed \cup {run.sched}   \* parse or update error
        /\ UNCHANGED next
  /\ FinishTask(c)
  /\ UNCHANGED <<clock, TaskVars>>

------------------------------------------------------------------------------
CallVars == <<clock, next, lastId, call, disturbed>>

\* taskExecutor.Execute: FindByID fails; the row is left as it is.
FindJobFails(h) ==
  /\ task[h].pc = "exec"
  /\ task' = [task EXCEPT ![h].pc = "release", ![h].fault = TRUE]
  /\ UNCHANGED <<CallVars, history, sem>>

\* Mutant: an unknown type ends the task like a failed FindByID does.
JobTypeNotFoundUnsaved(h) ==
  /\ task[h].pc = "exec"
  /\ history[h].sched \in UnknownType
  /\ task' = [task EXCEPT ![h].pc = "release"]
  /\ UNCHANGED <<CallVars, history, sem>>

\* No strategy is registered for the job's type.
JobTypeNotFound(h) ==
  /\ task[h].pc = "exec"
  /\ history[h].sched \in UnknownType
  /\ task' = [task EXCEPT ![h].pc = "save", ![h].result = "failed"]
  /\ UNCHANGED <<CallVars, history, sem>>

\* Any strategy but the clean up: it returns with or without an error.
RunStrategy(h) ==
  /\ task[h].pc = "exec"
  /\ history[h].sched \notin CleanUp \cup UnknownType
  /\ \E verdict \in {"completed", "failed"} :
       task' = [task EXCEPT ![h].pc = "save", ![h].result = verdict]
  /\ UNCHANGED <<CallVars, history, sem>>

Expired(h) == history[h].status # "none" /\ history[h].started + Retention < clock

\* DataCleanUpStrategy: every row older than the retention goes, whatever its
\* status.  A failed delete is not noticed (the repository drops its error); a
\* payload that does not parse fails the task before anything is deleted.
RunCleanUp(h) ==
  /\ task[h].pc = "exec"
  /\ history[h].sched \in CleanUp
  /\ \/ /\ history' = [g \in HistId |-> IF Expired(g)
                                       THEN [history[g] EXCEPT !.status = "deleted"]
                                       ELSE history[g]]
        /\ task' = [task EXCEPT ![h].pc = "save", ![h].result = "completed"]
     \/ /\ \E verdict \in {"completed", "failed"} :
             task' = [task EXCEPT ![h].pc = "save", ![h].result = verdict]
        /\ UNCHANGED history
  /\ UNCHANGED <<CallVars, sem>>

\* Mutant: the receive from the semaphore is not deferred.
PanicLeaksSlot(h) ==
  /\ task[h].pc = "exec"
  /\ task' = [task EXCEPT ![h] = Over(TRUE)]
  /\ UNCHANGED <<CallVars, history, sem>>

\* A panic in a strategy: GoSafe recovers it after the deferred release.
Panic(h) ==
  /\ task[h].pc = "exec"
  /\ history[h].sched \notin UnknownType
  /\ task' = [task EXCEPT ![h].pc = "release", ![h].fault = TRUE]
  /\ UNCHANGED <<CallVars, history, sem>>

\* Mutant: the row is saved (inserted again when it is gone), not updated.
SaveResultUpsert(h) ==
  /\ task[h].pc = "save"
  /\ history' = [history EXCEPT ![h].status = task[h].result]
  /\ task' = [task EXCEPT ![h].pc = "release"]
  /\ UNCHANGED <<CallVars, sem>>

\* UpdateTaskExecutionHistory, under the same context as the task itself.  An
\* update of a deleted row changes nothing and is no error.
SaveResult(h) ==
  /\ task[h].pc = "save"
  /\ \/ /\ ~task[h].expired
        /\ history' = [history EXCEPT ![h].status =
                         IF @ = "deleted" THEN @ ELSE task[h].result]
        /\ task' = [task EXCEPT ![h].pc = "release"]
     \/ /\ task' = [task EXCEPT ![h].pc = "release", ![h].fault = TRUE]
        /\ UNCHANGED history
  /\ UNCHANGED <<CallVars, sem>>

\* The deferred receive from the semaphore.
Release(h) ==
  /\ task[h].pc = "release"
  /\ sem' = sem - 1
  /\ task' = [task EXCEPT ![h] = Over(@.fault)]
  /\ UNCHANGED <<CallVars, history>>

\* The job's timeout, counted from the launch, passes.
Timeout(h) ==
  /\ task[h].pc \in {"exec", "save"}
  /\ ~task[h].expired
  /\ task' = [task EXCEPT ![h].expired = TRUE]
  /\ UNCHANGED <<CallVars, history, sem>>
------------------------------------------------------------------------------
Tick ==
  /\ clock < MaxClock
  /\ clock' = clock + 1
  /\ UNCHANGED <<next, TaskVars, call, disturbed>>

\* The process is killed and started again: the tables are all that is left,
\* and nothing at start-up looks at rows that were running.
CrashRestart ==
  /\ call' = [c \in Caller |-> IdleCall]
  /\ sem' = 0
  /\ task' = [h \in HistId |->
       CASE h \in Live -> Over(TRUE)
         [] h \notin Live /\ task[h].pc = "none" /\ h <= lastId -> [task[h] EXCEPT !.fault = TRUE]
         [] OTHER -> task[h]]
  /\ disturbed' = disturbed \cup {history[call[c].hist].sched :
                                    c \in {d \in Caller : call[d].hist # 0}}
  /\ UNCHANGED <<clock, next, history, lastId>>

CallStep(c) ==
  \/ Return(c)
  \/ OpenHistory(c)
  \/ Stamp(c)

TaskStep(h) ==
  \/ FindJobFails(h)
  \/ JobTypeNotFound(h)
  \/ RunStrategy(h)
  \/ RunCleanUp(h)
  \/ SaveResult(h)
  \/ Release(h)

Next ==
  \/ \E c \in HttpCaller : Execute(c)
  \/ \E c \in BotCaller : RunJobTask(c)
  \/ \E c \in Caller : Launch(c) \/ CallStep(c)
  \/ \E h \in HistId : TaskStep(h) \/ Panic(h) \/ Timeout(h)
  \/ Tick
  \/ CrashRestart

\* Goroutines that can run do; a sender on a Go channel waits in a FIFO queue,
\* so a caller is not overtaken at the semaphore for ever.
Fairness ==
  /\ \A c \in Caller : WF_vars(CallStep(c)) /\ SF_vars(Launch(c))
  /\ \A h \in HistId : WF_vars(TaskStep(h))

Spec == Init /\ [][Next]_vars
FairSpec == Spec /\ Fairness
------------------------------------------------------------------------------
TypeOK ==
  /\ clock \in Time
  /\ next \in [Schedule -> Nat]
  /\ history \in [HistId -> Row]
  /\ lastId \in 0 .. MaxHistories
  /\ sem \in 0 .. MaxConcurrency
  /\ task \in [HistId -> TaskState]
  /\ call \in [Caller -> CallState]
  /\ disturbed \subseteq Schedule

\* Every slot in use belongs to a task that is still running, and every such
\* task holds one: no return path, panic or timeout leaks or doubles a slot, so
\* at most MaxConcurrency tasks run at once over all the calls together.
SlotPerTask == sem = Cardinality(Live) /\ sem <= MaxConcurrency

\* A row that says "running" has a goroutine that will write its verdict, or a
\* call about to launch one; only a timeout, a panic, a failed query or update,
\* or a crash leaves one behind.
RunningIsOwned ==
  \A h \in HistId : history[h].status = "running" =>
    \/ h \in Live
    \/ \E c \in Caller : call[c].pc = "acquire" /\ call[c].hist = h
    \/ task[h].fault

\* Execute runs a schedule once for each next_execution it falls due at,
\* unless its claim was broken: two calls held the schedule at the same time,
\* its stamp failed or was never reached.  Nothing but the stamp, written after
\* the launch and from an older instant, keeps it from running again.
OncePerSlot ==
  \A g, h \in HistId :
    /\ g # h
    /\ history[g].status # "none" /\ history[h].status # "none"
    /\ ~history[g].manual /\ ~history[h].manual
    /\ history[g].sched = history[h].sched
    /\ history[g].sched \notin disturbed
    => history[g].slot # history[h].slot

\* The rows and the semaphore keep the promises of RunLedger: no row is opened
\* twice, no task launched twice, and a verdict is final.
Ledger == INSTANCE RunLedger WITH
  row <- [h \in HistId |-> history[h].status],
  launched <- {h \in HistId : task[h].pc # "none"},
  busy <- Live
LedgerSpec == Ledger!Spec

\* A call that waits for the semaphore without a context still comes back:
\* every task gives its slot back, however it ends.
CallsReturn == \A c \in Caller : call[c].pc # "idle" ~> call[c].pc = "idle"

\* What the status "timeout" and its icon in the bot's job view announce: a
\* task that ran into its timeout does not stay "running" once its executor has
\* returned.
TimeoutIsReported ==
  \A h \in HistId :
    task[h].pc = "release" /\ task[h].expired => history[h].status # "running"
==============================================================================
