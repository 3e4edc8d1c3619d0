--------------------------- MODULE SchedulerProofs ---------------------------
(***************************************************************************)
(* Proofs about Scheduler, for every set of schedules and callers, every   *)
(* capacity of the semaphore and every bound.                              *)
(***************************************************************************)
EXTENDS Scheduler, FiniteSetTheorems, TLAPS

\* The rows in use are the first lastId ones, and they are well formed.
RowsInUse ==
  \A h \in HistId :
    /\ h > lastId <=> history[h].status = "none"
    /\ h > lastId => task[h] = NoTask
    /\ h <= lastId => history[h].sched \in Schedule /\ history[h].started \in Time

\* A call carries a row exactly between inserting it and stamping its schedule,
\* and the row is its own.
RowsOfCalls ==
  \A c \in Caller :
    /\ call[c].hist <= lastId
    /\ call[c].hist # 0 <=> call[c].pc \in {"acquire", "stamp"}
    /\ call[c].pc = "acquire" => task[call[c].hist].pc = "none"
    /\ \A d \in Caller : call[c].hist = call[d].hist /\ call[c].hist # 0 => c = d

\* Where a goroutine is and what its row says agree.
VerdictsAgree ==
  \A h \in HistId :
    /\ task[h].pc = "save" => task[h].result # "running"
    /\ task[h].pc \in {"none", "exec", "save"}
         => history[h].status \in {"none", "running", "deleted"}
    /\ task[h].pc = "release" => history[h].status # "running" \/ task[h].fault

IInv ==
  /\ TypeOK
  /\ RowsInUse
  /\ RowsOfCalls
  /\ VerdictsAgree
  /\ SlotPerTask
  /\ RunningIsOwned
------------------------------------------------------------------------------
\* There are finitely many goroutines to count.
LEMMA LiveFinite == IsFiniteSet(Live) /\ Cardinality(Live) \in Nat
<1>1. IsFiniteSet(HistId)
  BY FS_Interval, BoundsAssumption DEF HistId
<1>2. Live \in SUBSET HistId
  BY DEF Live
<1> QED
  BY <1>1, <1>2, FS_Subset, FS_CardinalityType

\* An action that starts and ends no goroutine and leaves the semaphore alone
\* keeps the two in step.
LEMMA SlotsUntouched ==
  ASSUME SlotPerTask, sem' = sem, Live' = Live
  PROVE  SlotPerTask'
BY DEF SlotPerTask

LEMMA InitEstablishes == Init => IInv
<1> SUFFICES ASSUME Init PROVE IInv
  OBVIOUS
<1> USE DEF Init, NoRow, NoTask, IdleCall, Row, TaskState, CallState
<1>1. TypeOK
  BY BoundsAssumption DEF TypeOK, Time, HistId, RowStatus, TaskPc, LiveTask
<1>2. RowsInUse
  BY DEF RowsInUse, HistId
<1>3. RowsOfCalls
  BY DEF RowsOfCalls
<1>4. VerdictsAgree
  BY DEF VerdictsAgree
<1>5. SlotPerTask
  <2>1. Live = {}
    BY DEF Live, LiveTask
  <2> QED
    BY <2>1, FS_EmptySet, BoundsAssumption DEF SlotPerTask
<1>6. RunningIsOwned
  BY DEF RunningIsOwned
<1> QED
  BY <1>1, <1>2, <1>3, <1>4, <1>5, <1>6 DEF IInv

\* Execute and RunJobTask change only what their caller has read.
LEMMA ReadsPreserve ==
  ASSUME IInv, NEW c \in Caller, Execute(c) \/ RunJobTask(c)
  PROVE  IInv'
<1> USE DEF IInv, Row, TaskState, CallState
<1>1. /\ UNCHANGED <<clock, next, history, lastId, sem, task>>
      /\ \A d \in Caller : call'[d].hist = call[d].hist
      /\ \A d \in Caller : \/ call'[d].pc = call[d].pc
                           \/ call[d].pc = "idle" /\ call'[d].pc = "next"
  <2>1. CASE Execute(c)
    BY <2>1 DEF Execute, TaskVars, TypeOK
  <2>2. CASE RunJobTask(c)
    <3>0. call[c].pc = "idle" /\ UNCHANGED <<clock, next, history, lastId, sem, task>>
      BY <2>2 DEF RunJobTask, TaskVars
    <3>1. \/ UNCHANGED call
          \/ \E todo : call' = [call EXCEPT ![c].pc = "next", ![c].todo = todo]
      BY <2>2 DEF RunJobTask
    <3> QED
      BY <3>0, <3>1 DEF TypeOK
  <2> QED
    BY <2>1, <2>2
<1>2. TypeOK'
  <2>1. call' \in [Caller -> CallState]
    BY ScheduleAssumption DEF Execute, RunJobTask, TypeOK, Snapshot, Due
  <2>2. disturbed' \subseteq Schedule
    BY ScheduleAssumption DEF Execute, RunJobTask, TypeOK, Due
  <2> QED
    BY <1>1, <2>1, <2>2 DEF TypeOK
<1>3. RowsInUse'
  BY <1>1 DEF RowsInUse
<1>4. RowsOfCalls'
  BY <1>1 DEF RowsOfCalls
<1>5. VerdictsAgree'
  BY <1>1 DEF VerdictsAgree
<1>6. SlotPerTask'
  BY <1>1, SlotsUntouched DEF Live
<1>7. RunningIsOwned'
  BY <1>1 DEF RunningIsOwned, Live
<1> QED
  BY <1>2, <1>3, <1>4, <1>5, <1>6, <1>7

LEMMA ReturnPreserves ==
  ASSUME IInv, NEW c \in Caller, Return(c)
  PROVE  IInv'
<1> USE DEF IInv, Row, TaskState, CallState
<1>1. UNCHANGED <<clock, next, history, lastId, sem, task, disturbed>>
  BY DEF Return, TaskVars
<1>2. TypeOK'
  BY <1>1, BoundsAssumption DEF Return, TypeOK, IdleCall
<1>3. RowsInUse'
  BY <1>1 DEF RowsInUse
<1>4. RowsOfCalls'
  BY <1>1 DEF RowsOfCalls, Return, IdleCall, TypeOK
<1>5. VerdictsAgree'
  BY <1>1 DEF VerdictsAgree
<1>6. SlotPerTask'
  BY <1>1, SlotsUntouched DEF Live
<1>7. RunningIsOwned'
  BY <1>1 DEF RunningIsOwned, Live, Return, IdleCall, TypeOK
<1> QED
  BY <1>2, <1>3, <1>4, <1>5, <1>6, <1>7

LEMMA OpenHistoryPreserves ==
  ASSUME IInv, NEW c \in Caller, OpenHistory(c)
  PROVE  IInv'
<1> USE DEF IInv, Row, TaskState, CallState
<1>1. PICK row \in call[c].todo :
        \/ /\ lastId < MaxHistories
           /\ lastId' = lastId + 1
           /\ history' = [history EXCEPT ![lastId + 1] =
                            [status |-> "running", started |-> clock, sched |-> row.sched,
                             slot |-> row.slot, manual |-> c \in BotCaller]]
           /\ call' = [call EXCEPT ![c].pc = "acquire", ![c].hist = lastId + 1,
                                   ![c].todo = @ \ {row}]
        \/ /\ call' = [call EXCEPT ![c].todo = @ \ {row}]
           /\ UNCHANGED <<history, lastId>>
  BY DEF OpenHistory
<1>2. /\ call[c].pc = "next" /\ call[c].hist = 0
      /\ row.sched \in Schedule /\ row.slot \in Nat
      /\ UNCHANGED <<clock, next, sem, task, disturbed>>
  BY <1>1 DEF OpenHistory, TypeOK, RowsOfCalls, Snapshot
<1>3. SlotPerTask'
  BY <1>2, SlotsUntouched DEF Live
<1>4. CASE UNCHANGED <<history, lastId>> /\ call' = [call EXCEPT ![c].todo = @ \ {row}]
  <2>1. TypeOK'
    <3>1. call \in [Caller -> CallState]
      BY DEF TypeOK
    <3>2. call[c].todo \ {row} \in SUBSET Snapshot
      BY <3>1
    <3>3. call' \in [Caller -> CallState]
      BY <1>4, <3>1, <3>2
    <3> QED
      BY <1>2, <1>4, <3>3 DEF TypeOK
  <2>2. RowsInUse' /\ VerdictsAgree'
    BY <1>2, <1>4 DEF RowsInUse, VerdictsAgree
  <2>3. RowsOfCalls' /\ RunningIsOwned'
    BY <1>2, <1>4 DEF RowsOfCalls, RunningIsOwned, Live, TypeOK
  <2> QED
    BY <1>3, <2>1, <2>2, <2>3
<1>5. CASE /\ lastId < MaxHistories
           /\ lastId' = lastId + 1
           /\ history' = [history EXCEPT ![lastId + 1] =
                            [status |-> "running", started |-> clock, sched |-> row.sched,
                             slot |-> row.slot, manual |-> c \in BotCaller]]
           /\ call' = [call EXCEPT ![c].pc = "acquire", ![c].hist = lastId + 1,
                                   ![c].todo = @ \ {row}]
  <2>0. lastId + 1 \in HistId /\ task[lastId + 1] = NoTask
    BY <1>5, BoundsAssumption DEF TypeOK, HistId, RowsInUse
  <2>1. TypeOK'
    <3>1. history' \in [HistId -> Row]
      BY <1>2, <1>5, <2>0 DEF TypeOK, RowStatus, Time
    <3>2. call' \in [Caller -> CallState]
      <4>1. call \in [Caller -> CallState]
        BY DEF TypeOK
      <4>2. call[c].todo \ {row} \in SUBSET Snapshot /\ lastId + 1 \in 0 .. MaxHistories
        BY <4>1, <2>0, BoundsAssumption DEF HistId
      <4> QED
        BY <1>5, <4>1, <4>2
    <3> QED
      BY <1>2, <1>5, <3>1, <3>2, <2>0 DEF TypeOK, HistId
  <2>2. RowsInUse'
    BY <1>2, <1>5, <2>0 DEF RowsInUse, TypeOK, HistId
  <2>3. RowsOfCalls'
    BY <1>2, <1>5, <2>0 DEF RowsOfCalls, TypeOK, NoTask, HistId
  <2>4. VerdictsAgree'
    BY <1>2, <1>5, <2>0 DEF VerdictsAgree, TypeOK, NoTask
  <2>5. RunningIsOwned'
    BY <1>2, <1>5, <2>0 DEF RunningIsOwned, TypeOK, Live
  <2> QED
    BY <1>3, <2>1, <2>2, <2>3, <2>4, <2>5
<1> QED
  BY <1>1, <1>4, <1>5

LEMMA LaunchPreserves ==
  ASSUME IInv, NEW c \in Caller, Launch(c)
  PROVE  IInv'
<1> USE DEF IInv, Row, TaskState, CallState
<1> DEFINE h == call[c].hist
<1>1. /\ call[c].pc = "acquire" /\ sem < MaxConcurrency /\ sem' = sem + 1
      /\ task' = [task EXCEPT ![h].pc = "exec"]
      /\ call' = [call EXCEPT ![c].pc = "stamp"]
      /\ UNCHANGED <<clock, next, history, lastId, disturbed>>
  BY DEF Launch
<1>2. h \in HistId /\ h <= lastId /\ task[h].pc = "none"
  BY <1>1 DEF RowsOfCalls, TypeOK, HistId
<1>3. TypeOK'
  <2>1. sem' \in 0 .. MaxConcurrency
    BY <1>1, BoundsAssumption DEF TypeOK
  <2>2. task' \in [HistId -> TaskState]
    <3>1. task \in [HistId -> TaskState]
      BY DEF TypeOK
    <3>2. [task[h] EXCEPT !.pc = "exec"] \in TaskState
      BY <1>2, <3>1 DEF TaskPc, LiveTask
    <3> QED
      BY <1>1, <3>1, <3>2
  <2>3. call' \in [Caller -> CallState]
    <3>1. call \in [Caller -> CallState]
      BY DEF TypeOK
    <3>2. [call[c] EXCEPT !.pc = "stamp"] \in CallState
      BY <3>1
    <3> QED
      BY <1>1, <3>1, <3>2
  <2> QED
    BY <1>1, <2>1, <2>2, <2>3 DEF TypeOK
<1>4. RowsInUse'
  BY <1>1, <1>2 DEF RowsInUse, TypeOK, HistId
<1>5. RowsOfCalls'
  BY <1>1, <1>2 DEF RowsOfCalls, TypeOK
<1>6. VerdictsAgree'
  BY <1>1, <1>2 DEF VerdictsAgree, TypeOK
<1>7. SlotPerTask'
  <2>1. Live' = Live \cup {h} /\ h \notin Live
    BY <1>1, <1>2 DEF Live, LiveTask, TypeOK
  <2>2. Cardinality(Live') = Cardinality(Live) + 1
    BY <2>1, LiveFinite, FS_AddElement
  <2> QED
    BY <1>1, <2>2, BoundsAssumption DEF SlotPerTask, TypeOK
<1>8. RunningIsOwned'
  BY <1>1, <1>2 DEF RunningIsOwned, Live, LiveTask, TypeOK
<1> QED
  BY <1>3, <1>4, <1>5, <1>6, <1>7, <1>8

LEMMA StampPreserves ==
  ASSUME IInv, NEW c \in Caller, Stamp(c)
  PROVE  IInv'
<1> USE DEF IInv, Row, TaskState, CallState
<1> DEFINE run == history[call[c].hist]
<1>1. /\ call[c].pc = "stamp"
      /\ call' = [call EXCEPT ![c].pc = "next", ![c].hist = 0]
      /\ UNCHANGED <<clock, history, lastId, sem, task>>
  BY DEF Stamp, FinishTask, TaskVars
<1>2. \/ /\ next' = [next EXCEPT ![run.sched] = CronNext(run.sched, run.started)]
         /\ UNCHANGED disturbed
      \/ /\ disturbed' = disturbed \cup {run.sched}
         /\ UNCHANGED next
  BY DEF Stamp
<1>3. run.sched \in Schedule /\ run.started \in Time
  BY <1>1 DEF RowsOfCalls, RowsInUse, TypeOK, HistId
<1>4. TypeOK'
  <2>1. next' \in [Schedule -> Nat]
    BY <1>2, <1>3, CronAssumption DEF TypeOK
  <2>2. disturbed' \subseteq Schedule
    BY <1>2, <1>3 DEF TypeOK
  <2>3. call' \in [Caller -> CallState]
    <3>1. call \in [Caller -> CallState] /\ 0 \in 0 .. MaxHistories
      BY BoundsAssumption DEF TypeOK
    <3> QED
      BY <1>1, <3>1
  <2> QED
    BY <1>1, <2>1, <2>2, <2>3 DEF TypeOK
<1>5. RowsInUse'
  BY <1>1 DEF RowsInUse
<1>6. RowsOfCalls'
  BY <1>1 DEF RowsOfCalls, TypeOK
<1>7. VerdictsAgree'
  BY <1>1 DEF VerdictsAgree
<1>8. SlotPerTask'
  BY <1>1, SlotsUntouched DEF Live
<1>9. RunningIsOwned'
  BY <1>1 DEF RunningIsOwned, Live, TypeOK
<1> QED
  BY <1>4, <1>5, <1>6, <1>7, <1>8, <1>9

\* A step of a goroutine that keeps its slot and touches no row.
LEMMA OwnStatePreserves ==
  ASSUME IInv, NEW h \in HistId, NEW t \in TaskState,
         task[h].pc \in LiveTask, t.pc \in LiveTask,
         task' = [task EXCEPT ![h] = t],
         UNCHANGED <<CallVars, history, sem>>,
         t.pc = "save" => t.result # "running",
         t.pc # "release" => task[h].pc # "release",
         t.pc = "release" => t.fault
  PROVE  IInv'
<1> USE DEF IInv, CallVars
<1>1. task \in [HistId -> TaskState]
  BY DEF TypeOK
<1>2. TypeOK'
  BY <1>1 DEF TypeOK
<1>3. h <= lastId
  BY DEF RowsInUse, NoTask, LiveTask, TypeOK, HistId
<1>4. RowsInUse'
  BY <1>1, <1>3 DEF RowsInUse, TypeOK, HistId
<1>5. RowsOfCalls'
  BY <1>1 DEF RowsOfCalls, TypeOK, HistId, LiveTask
<1>6. VerdictsAgree'
  BY <1>1 DEF VerdictsAgree, LiveTask
<1>7. Live' = Live
  BY <1>1 DEF Live
<1>8. SlotPerTask'
  BY <1>7, SlotsUntouched
<1>9. RunningIsOwned'
  BY <1>1, <1>7 DEF RunningIsOwned, Live
<1> QED
  BY <1>2, <1>4, <1>5, <1>6, <1>8, <1>9

LEMMA TaskFailsPreserves ==
  ASSUME IInv, NEW h \in HistId, FindJobFails(h) \/ Panic(h)
  PROVE  IInv'
<1> DEFINE t == [task[h] EXCEPT !.pc = "release", !.fault = TRUE]
<1>1. task \in [HistId -> TaskState]
  BY DEF IInv, TypeOK
<1>2. t \in TaskState /\ t.pc = "release" /\ t.fault
  BY <1>1 DEF TaskState, TaskPc, LiveTask
<1>3. /\ task[h].pc = "exec"
      /\ task' = [task EXCEPT ![h] = t]
      /\ UNCHANGED <<CallVars, history, sem>>
  BY <1>1 DEF FindJobFails, Panic
<1> HIDE DEF t
<1> QED
  BY <1>2, <1>3, OwnStatePreserves DEF LiveTask

LEMMA TaskRunsPreserves ==
  ASSUME IInv, NEW h \in HistId, JobTypeNotFound(h) \/ RunStrategy(h)
  PROVE  IInv'
<1>1. task \in [HistId -> TaskState]
  BY DEF IInv, TypeOK
<1>2. PICK verdict \in {"completed", "failed"} :
        task' = [task EXCEPT ![h].pc = "save", ![h].result = verdict]
  BY DEF JobTypeNotFound, RunStrategy
<1> DEFINE t == [task[h] EXCEPT !.pc = "save", !.result = verdict]
<1>3. t \in TaskState /\ t.pc = "save" /\ t.result # "running"
  BY <1>1 DEF TaskState, TaskPc, LiveTask
<1>4. /\ task[h].pc = "exec"
      /\ task' = [task EXCEPT ![h] = t]
      /\ UNCHANGED <<CallVars, history, sem>>
  BY <1>1, <1>2 DEF JobTypeNotFound, RunStrategy
<1> HIDE DEF t
<1> QED
  BY <1>3, <1>4, OwnStatePreserves DEF LiveTask

LEMMA TimeoutPreserves ==
  ASSUME IInv, NEW h \in HistId, Timeout(h)
  PROVE  IInv'
<1> DEFINE t == [task[h] EXCEPT !.expired = TRUE]
<1>1. task \in [HistId -> TaskState]
  BY DEF IInv, TypeOK
<1>2. t \in TaskState /\ t.pc = task[h].pc /\ t.result = task[h].result
  BY <1>1 DEF TaskState
<1>3. /\ task[h].pc \in {"exec", "save"}
      /\ task' = [task EXCEPT ![h] = t]
      /\ UNCHANGED <<CallVars, history, sem>>
  BY <1>1 DEF Timeout
<1>4. task[h].pc = "save" => task[h].result # "running"
  BY DEF IInv, VerdictsAgree
<1> HIDE DEF t
<1> QED
  BY <1>2, <1>3, <1>4, OwnStatePreserves DEF LiveTask

LEMMA CleanUpPreserves ==
  ASSUME IInv, NEW h \in HistId, RunCleanUp(h)
  PROVE  IInv'
<1>1. task \in [HistId -> TaskState] /\ history \in [HistId -> Row]
  BY DEF IInv, TypeOK
<1>2. PICK verdict \in {"completed", "failed"} :
        task' = [task EXCEPT ![h].pc = "save", ![h].result = verdict]
  BY DEF RunCleanUp
<1> DEFINE t == [task[h] EXCEPT !.pc = "save", !.result = verdict]
<1>3. t \in TaskState /\ t.pc = "save" /\ t.result # "running"
  BY <1>1 DEF TaskState, TaskPc, LiveTask
<1>4. /\ task[h].pc = "exec"
      /\ task' = [task EXCEPT ![h] = t]
      /\ UNCHANGED <<CallVars, sem>>
  BY <1>1, <1>2 DEF RunCleanUp
<1> HIDE DEF t
<1>5. CASE UNCHANGED history
  BY <1>3, <1>4, <1>5, OwnStatePreserves DEF LiveTask
<1>6. CASE history' = [g \in HistId |-> IF Expired(g)
                                       THEN [history[g] EXCEPT !.status = "deleted"]
                                       ELSE history[g]]
  <2> USE DEF IInv, CallVars
  <2>1. TypeOK'
    <3>1. history' \in [HistId -> Row]
      BY <1>1, <1>6 DEF Row, RowStatus
    <3>2. task' \in [HistId -> TaskState]
      BY <1>1, <1>3, <1>4
    <3> QED
      BY <1>4, <3>1, <3>2 DEF TypeOK
  <2>2. \A g \in HistId :
          /\ \/ history'[g].status = history[g].status
             \/ history[g].status # "none" /\ history'[g].status = "deleted"
          /\ history'[g].sched = history[g].sched
          /\ history'[g].started = history[g].started
    <3> TAKE g \in HistId
    <3>1. history[g] \in Row
      BY <1>1
    <3>2. CASE Expired(g)
      <4>1. history'[g] = [history[g] EXCEPT !.status = "deleted"]
        BY <1>6, <3>2
      <4> QED
        BY <3>1, <3>2, <4>1 DEF Row, Expired
    <3>3. CASE ~Expired(g)
      BY <1>6, <3>3
    <3> QED
      BY <3>2, <3>3
  <2>3. h <= lastId
    BY <1>4 DEF RowsInUse, NoTask, TypeOK, HistId
  <2>4. RowsInUse'
    BY <1>1, <1>4, <2>2, <2>3 DEF RowsInUse, TypeOK, HistId
  <2>5. RowsOfCalls'
    BY <1>1, <1>3, <1>4 DEF RowsOfCalls, TypeOK, HistId
  <2>6. VerdictsAgree'
    BY <1>1, <1>3, <1>4, <2>2 DEF VerdictsAgree
  <2>7. Live' = Live
    BY <1>1, <1>3, <1>4 DEF Live, LiveTask
  <2>8. SlotPerTask'
    BY <1>4, <2>7, SlotsUntouched
  <2>9. RunningIsOwned'
    <3>1. h \in Live'
      BY <1>4, <2>7 DEF Live, LiveTask
    <3>2. \A g \in HistId : g # h => task'[g] = task[g]
      BY <1>1, <1>4
    <3>3. \A g \in HistId : history'[g].status = "running" => history[g].status = "running"
      BY <2>2
    <3> QED
      BY <1>4, <2>7, <3>1, <3>2, <3>3 DEF RunningIsOwned
  <2> QED
    BY <2>1, <2>4, <2>5, <2>6, <2>8, <2>9
<1> QED
  BY <1>5, <1>6 DEF RunCleanUp

LEMMA SaveResultPreserves ==
  ASSUME IInv, NEW h \in HistId, SaveResult(h)
  PROVE  IInv'
<1>1. task \in [HistId -> TaskState] /\ history \in [HistId -> Row]
  BY DEF IInv, TypeOK
<1>2. task[h].pc = "save" /\ UNCHANGED <<CallVars, sem>>
  BY DEF SaveResult
<1>3. CASE task' = [task EXCEPT ![h].pc = "release", ![h].fault = TRUE] /\ UNCHANGED history
  <2> DEFINE t == [task[h] EXCEPT !.pc = "release", !.fault = TRUE]
  <2>1. t \in TaskState /\ t.pc = "release" /\ t.fault /\ task' = [task EXCEPT ![h] = t]
    BY <1>1, <1>3 DEF TaskState, TaskPc, LiveTask
  <2> HIDE DEF t
  <2> QED
    BY <1>2, <1>3, <2>1, OwnStatePreserves DEF LiveTask
<1>4. CASE /\ history' = [history EXCEPT ![h].status =
                            IF @ = "deleted" THEN @ ELSE task[h].result]
           /\ task' = [task EXCEPT ![h].pc = "release"]
  <2> USE DEF IInv, CallVars
  <2>1. TypeOK'
    <3>1. PICK status \in RowStatus :
            history' = [history EXCEPT ![h].status = status]
      <4>1. history[h].status \in RowStatus /\ task[h].result \in RowStatus
        BY <1>1 DEF Row, RowStatus, TaskState
      <4> QED
        BY <1>4, <4>1
    <3>2. history' \in [HistId -> Row]
      BY <1>1, <3>1 DEF Row
    <3>3. task' \in [HistId -> TaskState]
      <4>1. [task[h] EXCEPT !.pc = "release"] \in TaskState
        BY <1>1 DEF TaskState, TaskPc, LiveTask
      <4> QED
        BY <1>1, <1>4, <4>1
    <3> QED
      BY <1>2, <3>2, <3>3 DEF TypeOK
  <2>2. h <= lastId /\ history[h].status \in {"running", "deleted"}
    BY <1>2 DEF RowsInUse, NoTask, VerdictsAgree, TypeOK, HistId
  <2>3. task[h].result # "running"
    BY <1>2 DEF VerdictsAgree
  <2>4. RowsInUse'
    BY <1>1, <1>2, <1>4, <2>2 DEF RowsInUse, TypeOK, HistId, TaskState
  <2>5. RowsOfCalls'
    BY <1>1, <1>2, <1>4 DEF RowsOfCalls, TypeOK, HistId, TaskState
  <2>6. VerdictsAgree'
    BY <1>1, <1>4, <2>2, <2>3 DEF VerdictsAgree, TaskState
  <2>7. Live' = Live
    BY <1>1, <1>2, <1>4 DEF Live, LiveTask, TaskState
  <2>8. SlotPerTask'
    BY <1>2, <2>7, SlotsUntouched
  <2>9. RunningIsOwned'
    BY <1>1, <1>2, <1>4, <2>2, <2>7 DEF RunningIsOwned, Live, TaskState
  <2> QED
    BY <2>1, <2>4, <2>5, <2>6, <2>8, <2>9
<1> QED
  BY <1>3, <1>4 DEF SaveResult

LEMMA ReleasePreserves ==
  ASSUME IInv, NEW h \in HistId, Release(h)
  PROVE  IInv'
<1> USE DEF IInv, CallVars
<1>1. task \in [HistId -> TaskState]
  BY DEF TypeOK
<1> DEFINE t == Over(task[h].fault)
<1>2. /\ t \in TaskState /\ t.pc = "done" /\ t.fault = task[h].fault
      /\ task[h].pc = "release" /\ sem' = sem - 1
      /\ task' = [task EXCEPT ![h] = t]
      /\ UNCHANGED <<CallVars, history>>
  BY <1>1 DEF Release, Over, NoTask, TaskState, TaskPc
<1> HIDE DEF t
<1>3. Live' = Live \ {h} /\ h \in Live
  BY <1>1, <1>2 DEF Live, LiveTask
<1>4. Cardinality(Live') = Cardinality(Live) - 1
  BY <1>3, LiveFinite, FS_RemoveElement
<1>5. SlotPerTask'
  BY <1>2, <1>4, BoundsAssumption, LiveFinite DEF SlotPerTask
<1>6. TypeOK'
  <2>1. Cardinality(Live') \in Nat
    BY <1>3, LiveFinite, FS_RemoveElement, FS_CardinalityType
  <2>2. sem' \in 0 .. MaxConcurrency
    BY <1>5, <2>1, BoundsAssumption DEF SlotPerTask
  <2>3. task' \in [HistId -> TaskState]
    BY <1>1, <1>2
  <2> QED
    BY <1>2, <2>2, <2>3 DEF TypeOK
<1>7. h <= lastId
  BY <1>2 DEF RowsInUse, NoTask, TypeOK, HistId
<1>8. RowsInUse'
  BY <1>1, <1>2, <1>7 DEF RowsInUse, TypeOK, HistId
<1>9. RowsOfCalls'
  BY <1>1, <1>2 DEF RowsOfCalls, TypeOK, HistId
<1>10. VerdictsAgree'
  BY <1>1, <1>2 DEF VerdictsAgree
<1>11. RunningIsOwned'
  BY <1>1, <1>2, <1>3 DEF RunningIsOwned, VerdictsAgree, Live
<1> QED
  BY <1>5, <1>6, <1>8, <1>9, <1>10, <1>11

LEMMA TickPreserves ==
  ASSUME IInv, Tick
  PROVE  IInv'
<1> USE DEF IInv, Tick, TaskVars
<1>1. TypeOK'
  BY BoundsAssumption DEF TypeOK, Time
<1>2. RowsInUse' /\ RowsOfCalls' /\ VerdictsAgree' /\ RunningIsOwned'
  BY DEF RowsInUse, RowsOfCalls, VerdictsAgree, RunningIsOwned, Live
<1>3. SlotPerTask'
  BY SlotsUntouched DEF Live
<1> QED
  BY <1>1, <1>2, <1>3

\* A crash empties the semaphore and ends every goroutine at once, and every
\* row it leaves running is marked.
LEMMA CrashPreserves ==
  ASSUME IInv, CrashRestart
  PROVE  IInv'
<1> USE DEF IInv
<1>1. task \in [HistId -> TaskState] /\ history \in [HistId -> Row]
  BY DEF TypeOK
<1>2. \A h \in HistId :
        /\ h \in Live => task'[h] = Over(TRUE)
        /\ h \notin Live /\ task[h].pc = "none" /\ h <= lastId
             => task'[h] = [task[h] EXCEPT !.fault = TRUE]
        /\ h \notin Live /\ ~(task[h].pc = "none" /\ h <= lastId) => task'[h] = task[h]
  BY DEF CrashRestart
<1>10. \A h \in HistId :
         /\ task'[h] \in TaskState
         /\ h \in Live => task'[h].pc = "done" /\ task'[h].fault
         /\ h \notin Live => task'[h].pc = task[h].pc /\ task'[h].result = task[h].result
         /\ task[h].fault => task'[h].fault
         /\ h \notin Live /\ task[h].pc = "none" /\ h <= lastId => task'[h].fault
  <2> TAKE h \in HistId
  <2>1. task[h] \in TaskState
    BY <1>1
  <2>2. CASE h \in Live
    BY <1>2, <2>2 DEF Over, NoTask, TaskState, TaskPc
  <2>3. CASE h \notin Live /\ task[h].pc = "none" /\ h <= lastId
    <3>1. task'[h] = [task[h] EXCEPT !.fault = TRUE]
      BY <1>2, <2>3
    <3> QED
      BY <2>1, <2>3, <3>1 DEF TaskState
  <2>4. CASE h \notin Live /\ ~(task[h].pc = "none" /\ h <= lastId)
    BY <1>2, <2>1, <2>4
  <2> QED
    BY <2>2, <2>3, <2>4
<1>3. Live' = {}
  BY <1>10 DEF Live, LiveTask
<1>4. SlotPerTask'
  BY <1>3, FS_EmptySet, BoundsAssumption DEF SlotPerTask, CrashRestart
<1>5. TypeOK'
  <2>1. disturbed' \subseteq Schedule
    BY DEF CrashRestart, TypeOK, CallState, RowsInUse, RowsOfCalls, HistId
  <2>2. call' \in [Caller -> CallState]
    BY BoundsAssumption DEF CrashRestart, CallState, IdleCall
  <2>3. task' \in [HistId -> TaskState]
    BY <1>10 DEF CrashRestart
  <2>4. sem' \in 0 .. MaxConcurrency
    BY BoundsAssumption DEF CrashRestart
  <2> QED
    BY <2>1, <2>2, <2>3, <2>4 DEF CrashRestart, TypeOK
<1>6. RowsInUse'
  <2>1. \A h \in HistId : h > lastId => h \notin Live
    BY DEF RowsInUse, NoTask, Live, LiveTask
  <2>2. UNCHANGED <<history, lastId>> /\ lastId \in Nat
    BY DEF CrashRestart, TypeOK
  <2>3. \A h \in HistId : h > lastId => task'[h] = task[h]
    <3> SUFFICES ASSUME NEW h \in HistId, h > lastId PROVE task'[h] = task[h]
      OBVIOUS
    <3>1. ~(h <= lastId)
      BY <2>2 DEF HistId
    <3> QED
      BY <1>2, <2>1, <3>1
  <2> QED
    BY <2>2, <2>3 DEF RowsInUse
<1>7. RowsOfCalls'
  <2>1. \A c \in Caller : call'[c].hist = 0 /\ call'[c].pc = "idle"
    BY DEF CrashRestart, IdleCall
  <2>2. lastId' \in Nat
    BY DEF CrashRestart, TypeOK
  <2> QED
    BY <2>1, <2>2 DEF RowsOfCalls
<1>8. VerdictsAgree'
  BY <1>10 DEF VerdictsAgree, CrashRestart, Live, LiveTask
<1>9. RunningIsOwned'
  <2> SUFFICES ASSUME NEW h \in HistId, history[h].status = "running", h \notin Live
               PROVE  task'[h].fault
    BY <1>10 DEF RunningIsOwned, CrashRestart
  <2>1. h <= lastId
    BY DEF RowsInUse, TypeOK, HistId
  <2>2. CASE task[h].pc = "none"
    BY <1>10, <2>1, <2>2
  <2>3. CASE task[h].pc # "none"
    BY <1>10, <2>3 DEF RunningIsOwned, RowsOfCalls
  <2> QED
    BY <2>2, <2>3
<1> QED
  BY <1>4, <1>5, <1>6, <1>7, <1>8, <1>9
------------------------------------------------------------------------------
\* Every step keeps the inductive invariant.
LEMMA StepPreserves == IInv /\ [Next]_vars => IInv'
<1> SUFFICES ASSUME IInv, [Next]_vars PROVE IInv'
  OBVIOUS
<1>1. ASSUME NEW c \in HttpCaller, Execute(c) PROVE IInv'
  BY <1>1, ReadsPreserve DEF Caller
<1>2. ASSUME NEW c \in BotCaller, RunJobTask(c) PROVE IInv'
  BY <1>2, ReadsPreserve DEF Caller
<1>3. ASSUME NEW c \in Caller, Launch(c) \/ CallStep(c) PROVE IInv'
  BY <1>3, LaunchPreserves, ReturnPreserves, OpenHistoryPreserves, StampPreserves DEF CallStep
<1>4. ASSUME NEW h \in HistId, TaskStep(h) \/ Panic(h) \/ Timeout(h) PROVE IInv'
  BY <1>4, TaskFailsPreserves, TaskRunsPreserves, TimeoutPreserves, CleanUpPreserves,
     SaveResultPreserves, ReleasePreserves DEF TaskStep
<1>5. CASE Tick
  BY <1>5, TickPreserves
<1>6. CASE CrashRestart
  BY <1>6, CrashPreserves
<1>7. CASE UNCHANGED vars
  BY <1>7 DEF vars, IInv, TypeOK, RowsInUse, RowsOfCalls, VerdictsAgree, SlotPerTask,
     RunningIsOwned, Live
<1> QED
  BY <1>1, <1>2, <1>3, <1>4, <1>5, <1>6, <1>7 DEF Next

\* The inductive invariant holds of every reachable state.
THEOREM Invariance == Spec => []IInv
BY InitEstablishes, StepPreserves, PTL DEF Spec

\* Every variable keeps its type, whatever fails, times out, panics or crashes.
THEOREM TypeCorrect == Spec => []TypeOK
BY Invariance, PTL DEF IInv

\* The semaphore counts the tasks that are running, and there are never more of
\* them than its capacity.
THEOREM SlotsAreTasks == Spec => []SlotPerTask
BY Invariance, PTL DEF IInv

\* A row that stays "running" with nobody working on it met a fault.
THEOREM RunningRowsAreOwned == Spec => []RunningIsOwned
BY Invariance, PTL DEF IInv
------------------------------------------------------------------------------
\* The refinement: what a step of Scheduler is to RunLedger.
RowBar == [h \in HistId |-> history[h].status]
LaunchedBar == {h \in HistId : task[h].pc # "none"}

LEMMA LedgerInit == Init => Ledger!Init
BY DEF Init, Ledger!Init, NoRow, NoTask, Live, LiveTask

\* A step that moves no row's status and starts or ends no goroutine.
LEMMA LedgerStutters ==
  ASSUME \A h \in HistId : history'[h].status = history[h].status,
         \A h \in HistId : /\ task'[h].pc = "none" <=> task[h].pc = "none"
                           /\ task'[h].pc \in LiveTask <=> task[h].pc \in LiveTask
  PROVE  UNCHANGED Ledger!ledgerVars
BY DEF Ledger!ledgerVars, Live

LEMMA LedgerOpens ==
  ASSUME IInv, NEW c \in Caller, OpenHistory(c)
  PROVE  [Ledger!Next]_Ledger!ledgerVars
<1> USE DEF IInv
<1>1. UNCHANGED task
  BY DEF OpenHistory
<1>2. CASE UNCHANGED history
  BY <1>1, <1>2, LedgerStutters
<1>3. CASE \E r : r.status = "running" /\ lastId < MaxHistories
                  /\ history' = [history EXCEPT ![lastId + 1] = r]
  <2> DEFINE h == lastId + 1
  <2>1. h \in HistId /\ history[h].status = "none"
    BY <1>3, BoundsAssumption DEF TypeOK, RowsInUse, HistId
  <2>2. history'[h].status = "running"
        /\ \A g \in HistId : g # h => history'[g].status = history[g].status
    BY <1>3, <2>1 DEF TypeOK
  <2>3. PICK g \in HistId : g = h
    BY <2>1
  <2> HIDE DEF h
  <2>4. Ledger!Open(g)
    BY <1>1, <2>1, <2>2, <2>3 DEF Ledger!Open, Live
  <2> QED
    BY <2>4 DEF Ledger!Next
<1>4. UNCHANGED history \/ \E r : r.status = "running" /\ lastId < MaxHistories
                                  /\ history' = [history EXCEPT ![lastId + 1] = r]
  BY DEF OpenHistory
<1> QED
  BY <1>2, <1>3, <1>4

LEMMA LedgerLaunches ==
  ASSUME IInv, NEW c \in Caller, Launch(c)
  PROVE  [Ledger!Next]_Ledger!ledgerVars
<1> USE DEF IInv
<1> DEFINE h == call[c].hist
<1>1. /\ sem < MaxConcurrency /\ UNCHANGED history
      /\ task' = [task EXCEPT ![h].pc = "exec"]
  BY DEF Launch
<1>2. h \in HistId /\ h <= lastId /\ task[h].pc = "none" /\ history[h].status # "none"
  BY DEF Launch, RowsOfCalls, RowsInUse, TypeOK, HistId, CallState
<1>3. task \in [HistId -> TaskState]
  BY DEF TypeOK
<1>4. task'[h].pc = "exec" /\ \A g \in HistId : g # h => task'[g] = task[g]
  BY <1>1, <1>2, <1>3 DEF TaskState
<1> HIDE DEF h
<1>5. Live' = Live \cup {h}
  BY <1>2, <1>4 DEF Live, LiveTask
<1>6. LaunchedBar' = LaunchedBar \cup {h} /\ h \notin LaunchedBar
  BY <1>2, <1>4 DEF LaunchedBar
<1>7. Cardinality(Live) < MaxConcurrency
  BY <1>1 DEF SlotPerTask
<1>8. PICK g \in HistId : g = h
  BY <1>2
<1>9. Ledger!Launch(g)
  <2>1. RowBar[g] # "none" /\ RowBar' = RowBar
    BY <1>1, <1>2, <1>8 DEF RowBar
  <2>2. /\ g \notin LaunchedBar /\ LaunchedBar' = LaunchedBar \cup {g}
        /\ Live' = Live \cup {g}
    BY <1>5, <1>6, <1>8
  <2> QED
    BY <1>7, <2>1, <2>2 DEF Ledger!Launch, RowBar, LaunchedBar, Cardinality, Ledger!Cardinality
<1> QED
  BY <1>9 DEF Ledger!Next

LEMMA LedgerReports ==
  ASSUME IInv, NEW h \in HistId, SaveResult(h)
  PROVE  [Ledger!Next]_Ledger!ledgerVars
<1> USE DEF IInv
<1>1. task \in [HistId -> TaskState] /\ history \in [HistId -> Row]
  BY DEF TypeOK
<1>2. /\ task[h].pc = "save" /\ task'[h].pc = "release"
      /\ \A g \in HistId : g # h => task'[g] = task[g]
  BY <1>1 DEF SaveResult, TaskState
<1>3. Live' = Live /\ h \in Live /\ LaunchedBar' = LaunchedBar
  BY <1>2 DEF Live, LiveTask, LaunchedBar
<1>4. CASE UNCHANGED history
  BY <1>2, <1>4, LedgerStutters DEF LiveTask
<1>5. CASE history' = [history EXCEPT ![h].status =
                         IF @ = "deleted" THEN @ ELSE task[h].result]
  <2>1. CASE history[h].status = "deleted"
    <3>1. \A g \in HistId : history'[g].status = history[g].status
      BY <1>1, <1>5, <2>1 DEF Row
    <3> QED
      BY <1>2, <3>1, LedgerStutters DEF LiveTask
  <2>2. CASE history[h].status # "deleted"
    <3>1. history[h].status = "running"
      BY <1>2, <2>2 DEF VerdictsAgree, RowsInUse, NoTask, TypeOK, HistId
    <3>2. task[h].result \in {"completed", "failed"}
      BY <1>1, <1>2 DEF VerdictsAgree, TaskState
    <3>3. /\ history'[h].status = task[h].result
          /\ \A g \in HistId : g # h => history'[g].status = history[g].status
      BY <1>1, <1>5, <2>2 DEF Row
    <3>4. RowBar' = [RowBar EXCEPT ![h] = task[h].result]
      BY <3>3 DEF RowBar
    <3>5. PICK verdict \in {"completed", "failed"} : verdict = task[h].result
      BY <3>2
    <3>6. Ledger!Report(h, verdict)
      BY <1>3, <3>1, <3>4, <3>5 DEF Ledger!Report, RowBar, LaunchedBar
    <3> QED
      BY <3>6 DEF Ledger!Next, Ledger!Verdict
  <2> QED
    BY <2>1, <2>2
<1> QED
  BY <1>4, <1>5 DEF SaveResult

LEMMA LedgerRetires ==
  ASSUME IInv, NEW h \in HistId, Release(h)
  PROVE  [Ledger!Next]_Ledger!ledgerVars
<1> USE DEF IInv
<1>1. task \in [HistId -> TaskState] /\ UNCHANGED history
  BY DEF TypeOK, Release
<1>2. /\ task[h].pc = "release" /\ task'[h].pc = "done"
      /\ \A g \in HistId : g # h => task'[g] = task[g]
  BY <1>1 DEF Release, Over, NoTask
<1>3. Live' = Live \ {h} /\ h \in Live /\ LaunchedBar' = LaunchedBar
  BY <1>2 DEF Live, LiveTask, LaunchedBar
<1>4. Ledger!Retire(h)
  BY <1>1, <1>3 DEF Ledger!Retire, LaunchedBar
<1> QED
  BY <1>4 DEF Ledger!Next

LEMMA LedgerPurges ==
  ASSUME IInv, NEW h \in HistId, RunCleanUp(h)
  PROVE  [Ledger!Next]_Ledger!ledgerVars
<1> USE DEF IInv
<1>1. task \in [HistId -> TaskState] /\ history \in [HistId -> Row]
  BY DEF TypeOK
<1>2. /\ task[h].pc = "exec" /\ task'[h].pc = "save"
      /\ \A g \in HistId : g # h => task'[g] = task[g]
  BY <1>1 DEF RunCleanUp, TaskState
<1>3. Live' = Live /\ LaunchedBar' = LaunchedBar
  BY <1>2 DEF Live, LiveTask, LaunchedBar
<1>4. CASE UNCHANGED history
  BY <1>2, <1>4, LedgerStutters DEF LiveTask
<1>5. CASE history' = [g \in HistId |-> IF Expired(g)
                                       THEN [history[g] EXCEPT !.status = "deleted"]
                                       ELSE history[g]]
  <2> DEFINE old == {g \in HistId : Expired(g)}
  <2>1. \A g \in HistId :
          history'[g].status = IF g \in old THEN "deleted" ELSE history[g].status
    BY <1>1, <1>5 DEF Row
  <2>2. RowBar' = [g \in HistId |-> IF g \in old THEN "deleted" ELSE RowBar[g]]
    BY <2>1 DEF RowBar
  <2>3. \A g \in old : RowBar[g] # "none"
    BY DEF RowBar, Expired
  <2>4. PICK purged \in SUBSET HistId : purged = old
    OBVIOUS
  <2> HIDE DEF old
  <2>5. Ledger!Purge(purged)
    BY <1>3, <2>2, <2>3, <2>4 DEF Ledger!Purge, RowBar, LaunchedBar
  <2> QED
    BY <2>5 DEF Ledger!Next
<1> QED
  BY <1>4, <1>5 DEF RunCleanUp

LEMMA LedgerHalts ==
  ASSUME IInv, CrashRestart
  PROVE  [Ledger!Next]_Ledger!ledgerVars
<1> USE DEF IInv
<1>1. task \in [HistId -> TaskState] /\ UNCHANGED history
  BY DEF TypeOK, CrashRestart
<1>2. \A h \in HistId :
        /\ h \in Live => task'[h] = Over(TRUE)
        /\ h \notin Live /\ task[h].pc = "none" /\ h <= lastId
             => task'[h] = [task[h] EXCEPT !.fault = TRUE]
        /\ h \notin Live /\ ~(task[h].pc = "none" /\ h <= lastId) => task'[h] = task[h]
  BY DEF CrashRestart
<1>3. \A h \in HistId : task'[h].pc = IF h \in Live THEN "done" ELSE task[h].pc
  <2> TAKE h \in HistId
  <2>1. CASE h \in Live
    BY <1>2, <2>1 DEF Over, NoTask
  <2>2. CASE h \notin Live /\ task[h].pc = "none" /\ h <= lastId
    <3>1. task'[h] = [task[h] EXCEPT !.fault = TRUE] /\ task[h] \in TaskState
      BY <1>1, <1>2, <2>2
    <3> QED
      BY <2>2, <3>1 DEF TaskState
  <2>3. CASE h \notin Live /\ ~(task[h].pc = "none" /\ h <= lastId)
    BY <1>2, <2>3
  <2> QED
    BY <2>1, <2>2, <2>3
<1>4. Live' = {} /\ LaunchedBar' = LaunchedBar
  BY <1>3 DEF Live, LiveTask, LaunchedBar
<1>5. Ledger!Halt
  BY <1>1, <1>4 DEF Ledger!Halt, LaunchedBar
<1> QED
  BY <1>5 DEF Ledger!Next

LEMMA LedgerOtherTaskSteps ==
  ASSUME IInv, NEW h \in HistId,
         FindJobFails(h) \/ JobTypeNotFound(h) \/ RunStrategy(h) \/ Panic(h) \/ Timeout(h)
  PROVE  UNCHANGED Ledger!ledgerVars
<1>1. task \in [HistId -> TaskState] /\ UNCHANGED history
  BY DEF IInv, TypeOK, FindJobFails, JobTypeNotFound, RunStrategy, Panic, Timeout
<1>2. /\ task[h].pc \in LiveTask /\ task'[h].pc \in LiveTask
      /\ \A g \in HistId : g # h => task'[g] = task[g]
  BY <1>1 DEF FindJobFails, JobTypeNotFound, RunStrategy, Panic, Timeout, TaskState, LiveTask
<1> QED
  BY <1>1, <1>2, LedgerStutters DEF LiveTask

\* The scheduler keeps every promise of RunLedger: rows are opened and tasks
\* launched once, never more than MaxConcurrency are busy, a verdict is final.
THEOREM ImplementsLedger == Spec => LedgerSpec
<1>1. ASSUME IInv, [Next]_vars PROVE [Ledger!Next]_Ledger!ledgerVars
  <2>1. ASSUME NEW c \in HttpCaller, Execute(c) PROVE UNCHANGED Ledger!ledgerVars
    BY <2>1, LedgerStutters DEF Execute, TaskVars
  <2>2. ASSUME NEW c \in BotCaller, RunJobTask(c) PROVE UNCHANGED Ledger!ledgerVars
    BY <2>2, LedgerStutters DEF RunJobTask, TaskVars
  <2>3. ASSUME NEW c \in Caller, Return(c) \/ Stamp(c) PROVE UNCHANGED Ledger!ledgerVars
    BY <2>3, LedgerStutters DEF Return, Stamp, TaskVars
  <2>4. CASE Tick \/ UNCHANGED vars
    BY <2>4, LedgerStutters DEF Tick, TaskVars, vars
  <2>5. ASSUME NEW c \in Caller, Launch(c) \/ CallStep(c)
        PROVE  [Ledger!Next]_Ledger!ledgerVars
    BY <1>1, <2>3, <2>5, LedgerOpens, LedgerLaunches DEF CallStep
  <2>6. ASSUME NEW h \in HistId, TaskStep(h) \/ Panic(h) \/ Timeout(h)
        PROVE  [Ledger!Next]_Ledger!ledgerVars
    BY <1>1, <2>6, LedgerOtherTaskSteps, LedgerReports, LedgerRetires, LedgerPurges DEF TaskStep
  <2>7. CASE CrashRestart
    BY <1>1, <2>7, LedgerHalts
  <2> QED
    BY <1>1, <2>1, <2>2, <2>4, <2>5, <2>6, <2>7 DEF Next
<1> QED
  BY <1>1, LedgerInit, Invariance, PTL DEF Spec, LedgerSpec, Ledger!Spec
------------------------------------------------------------------------------
(***************************************************************************)
(* An undisturbed schedule runs once per slot (OncePerSlot).               *)
(*                                                                         *)
(* The argument: while nobody else holds the schedule, what a call read of *)
(* it is still what the table says; a run that has been stamped lies       *)
(* strictly before the schedule's next_execution; so the slot of a new run *)
(* lies strictly after every run before it, hence after their slots.       *)
(***************************************************************************)

\* What a call has read: it was due when an Execute read it, it is up to date
\* while the schedule is undisturbed, and no schedule is listed twice.
ReadsAreFresh ==
  \A c \in Caller : \A row \in call[c].todo :
    /\ c \in HttpCaller => row.slot <= clock
    /\ row.sched \notin disturbed => row.slot = next[row.sched]
    /\ call[c].hist # 0 => history[call[c].hist].sched # row.sched
    /\ \A other \in call[c].todo : other.sched = row.sched => other = row

\* Two calls hold a schedule at the same time only if it is disturbed.
HoldersApart ==
  \A c, d \in Caller : \A s \in HeldBy(c) \cap HeldBy(d) : c = d \/ s \in disturbed

\* Runs start when or after they are due, and not in the future.
RunsAreDated ==
  \A h \in HistId : h <= lastId =>
    /\ history[h].started <= clock
    /\ ~history[h].manual => history[h].slot <= history[h].started

\* A run nobody holds any more was stamped: its schedule is next due after it.
StampedAhead ==
  \A h \in HistId : h <= lastId /\ history[h].sched \notin disturbed =>
    \/ \E c \in Caller : call[c].hist = h
    \/ history[h].started < next[history[h].sched]

\* The run a call holds is the latest of its schedule.
HeldIsLatest ==
  \A c \in Caller : call[c].hist # 0 =>
    \A g \in HistId :
      g <= lastId /\ history[g].sched = history[call[c].hist].sched
        /\ history[g].sched \notin disturbed
      => history[g].started <= history[call[c].hist].started

Claims ==
  /\ ReadsAreFresh
  /\ HoldersApart
  /\ RunsAreDated
  /\ StampedAhead
  /\ HeldIsLatest
  /\ OncePerSlot
------------------------------------------------------------------------------
LEMMA InitClaims == Init => Claims
<1> SUFFICES ASSUME Init PROVE Claims
  OBVIOUS
<1>1. /\ lastId = 0
      /\ \A c \in Caller : call[c].todo = {} /\ call[c].hist = 0
      /\ \A h \in HistId : history[h].status = "none" /\ ~(h <= lastId)
  BY BoundsAssumption DEF Init, IdleCall, NoRow, HistId
<1> QED
  BY <1>1 DEF Claims, ReadsAreFresh, HoldersApart, HeldBy, RunsAreDated, StampedAhead,
              HeldIsLatest, OncePerSlot

\* A step that changes neither what the calls hold nor what the schedules and
\* the rows say of when to run, and does not turn the clock back.
LEMMA ClaimsUntouched ==
  ASSUME IInv, Claims,
         UNCHANGED <<next, lastId, disturbed>>,
         clock' \in Nat, clock' >= clock,
         \A h \in HistId :
           /\ history'[h].sched = history[h].sched
           /\ history'[h].slot = history[h].slot
           /\ history'[h].started = history[h].started
           /\ history'[h].manual = history[h].manual
           /\ history'[h].status = "none" <=> history[h].status = "none",
         \A c \in Caller : call'[c].todo = call[c].todo /\ call'[c].hist = call[c].hist
  PROVE  Claims'
<1> USE DEF Claims
<1>0. \A c \in Caller : call[c].hist # 0 => call[c].hist \in HistId
  BY DEF IInv, TypeOK, CallState, HistId
<1>1. \A c \in Caller : HeldBy(c)' = HeldBy(c)
  BY <1>0 DEF HeldBy
<1>2. ReadsAreFresh'
  <2>1. \A c \in Caller : \A row \in call[c].todo : row.slot \in Nat
    BY DEF IInv, TypeOK, CallState, Snapshot
  <2>2. clock \in Nat
    BY BoundsAssumption DEF IInv, TypeOK, Time
  <2> QED
    BY <1>0, <2>1, <2>2 DEF ReadsAreFresh
<1>3. HoldersApart'
  BY <1>1 DEF HoldersApart
<1>4. RunsAreDated'
  <2>1. clock \in Nat /\ \A h \in HistId : history[h].started \in Nat
    BY BoundsAssumption DEF IInv, TypeOK, Time, Row
  <2> QED
    BY <2>1 DEF RunsAreDated
<1>5. StampedAhead'
  BY DEF StampedAhead
<1>6. HeldIsLatest'
  BY <1>0 DEF HeldIsLatest
<1>7. OncePerSlot'
  BY DEF OncePerSlot
<1> QED
  BY <1>2, <1>3, <1>4, <1>5, <1>6, <1>7

\* Whoever reads a schedule that another call holds disturbs it.
LEMMA ReadsKeepClaims ==
  ASSUME IInv, Claims, NEW c \in Caller,
         \/ Execute(c)
         \/ c \in BotCaller /\ RunJobTask(c)
  PROVE  Claims'
<1>0. CASE UNCHANGED <<call, disturbed>>
  <2>1. UNCHANGED <<clock, next, history, lastId>>
    BY DEF Execute, RunJobTask, TaskVars
  <2>2. clock \in Nat
    BY BoundsAssumption DEF IInv, TypeOK, Time
  <2> QED
    BY <1>0, <2>1, <2>2, ClaimsUntouched
<1>1. CASE ~UNCHANGED <<call, disturbed>>
  <2>1. /\ UNCHANGED <<clock, next, history, lastId>>
        /\ call[c].pc = "idle"
    BY DEF Execute, RunJobTask, TaskVars
  <2>2. PICK read \in SUBSET Schedule, fresh \in SUBSET Snapshot :
          /\ call' = [call EXCEPT ![c].pc = "next", ![c].todo = fresh]
          /\ disturbed' = disturbed \cup (read \cap Held)
          /\ c \in HttpCaller => \A s \in read : next[s] <= clock
          /\ \A s \in read : \E row \in fresh : row.sched = s
          /\ \A row \in fresh : row.sched \in read /\ row.slot = next[row.sched]
    <3>0. next \in [Schedule -> Nat]
      BY DEF IInv, TypeOK
    <3>1. CASE Execute(c)
      <4> DEFINE rows == {[sched |-> s, slot |-> next[s]] : s \in Due}
      <4>1. Due \in SUBSET Schedule /\ \A s \in Due : next[s] <= clock
        BY ScheduleAssumption DEF Due
      <4>2. rows \in SUBSET Snapshot
        BY <3>0, <4>1 DEF Snapshot
      <4>3. \A row \in rows : row.sched \in Due /\ row.slot = next[row.sched]
        OBVIOUS
      <4>4. ASSUME NEW s \in Due PROVE \E row \in rows : row.sched = s
        <5>1. [sched |-> s, slot |-> next[s]] \in rows
          OBVIOUS
        <5> QED
          BY <5>1
      <4>5. /\ call' = [call EXCEPT ![c].pc = "next", ![c].todo = rows]
            /\ disturbed' = disturbed \cup (Due \cap Held)
        BY <3>1, <1>1 DEF Execute
      <4> HIDE DEF rows
      <4> QED
        BY <4>1, <4>2, <4>3, <4>4, <4>5
    <3>2. CASE RunJobTask(c) /\ c \in BotCaller
      <4>1. PICK s \in Schedule :
              /\ call' = [call EXCEPT ![c].pc = "next",
                                      ![c].todo = {[sched |-> s, slot |-> next[s]]}]
              /\ disturbed' = disturbed \cup ({s} \cap Held)
        BY <3>2, <1>1 DEF RunJobTask
      <4> DEFINE rows == {[sched |-> s, slot |-> next[s]]}
                 read == {s}
      <4>2. rows \in SUBSET Snapshot /\ read \in SUBSET Schedule
        BY <3>0 DEF Snapshot
      <4>3. /\ \A row \in rows : row.sched \in read /\ row.slot = next[row.sched]
            /\ \A x \in read : \E row \in rows : row.sched = x
        OBVIOUS
      <4>4. /\ call' = [call EXCEPT ![c].pc = "next", ![c].todo = rows]
            /\ disturbed' = disturbed \cup (read \cap Held)
        BY <4>1
      <4>5. c \notin HttpCaller
        BY <3>2, CallerAssumption
      <4> HIDE DEF rows, read
      <4> QED
        BY <4>2, <4>3, <4>4, <4>5
    <3> QED
      BY <3>1, <3>2
  <2>3. /\ call'[c].todo = fresh
        /\ \A d \in Caller : call'[d].hist = call[d].hist
        /\ \A d \in Caller \ {c} : call'[d].todo = call[d].todo
        /\ call[c].hist = 0
    BY <2>1, <2>2 DEF IInv, TypeOK, CallState, RowsOfCalls
  <2>4. \A d \in Caller : call[d].hist # 0 => call[d].hist \in HistId
    BY DEF IInv, TypeOK, CallState, HistId
  <2>5. HeldBy(c)' = read /\ \A d \in Caller \ {c} : HeldBy(d)' = HeldBy(d)
    <3>1. {row.sched : row \in fresh} = read
      BY <2>2
    <3>2. HeldBy(c)' = read
      BY <2>3, <3>1 DEF HeldBy
    <3>3. ASSUME NEW d \in Caller \ {c} PROVE HeldBy(d)' = HeldBy(d)
      BY <2>1, <2>3 DEF HeldBy
    <3> QED
      BY <3>2, <3>3
  <2>6. ReadsAreFresh'
    <3>1. ASSUME NEW row \in fresh, NEW other \in fresh, other.sched = row.sched
          PROVE  other = row
      <4>1. /\ row = [sched |-> row.sched, slot |-> next[row.sched]]
            /\ other = [sched |-> other.sched, slot |-> next[other.sched]]
        BY <2>2 DEF Snapshot
      <4> QED
        BY <3>1, <4>1
    <3>2. ASSUME NEW d \in Caller, NEW row \in call'[d].todo
          PROVE  /\ d \in HttpCaller => row.slot <= clock'
                 /\ row.sched \notin disturbed' => row.slot = next'[row.sched]
                 /\ call'[d].hist # 0 => history'[call'[d].hist].sched # row.sched
                 /\ \A other \in call'[d].todo : other.sched = row.sched => other = row
      <4>1. CASE d = c
        <5>1. row \in fresh /\ row.sched \in read /\ row.slot = next[row.sched]
          BY <2>2, <2>3, <3>2, <4>1
        <5>2. \A other \in fresh : other.sched = row.sched => other = row
          BY <3>1, <5>1
        <5>3. c \in HttpCaller => row.slot <= clock
          BY <2>2, <5>1
        <5> QED
          BY <2>1, <2>3, <4>1, <5>1, <5>2, <5>3
      <4>2. CASE d # c
        <5>1. row \in call[d].todo /\ call'[d].todo = call[d].todo
          BY <2>3, <3>2, <4>2
        <5>2. disturbed \subseteq disturbed'
          BY <2>2
        <5> QED
          BY <2>1, <2>3, <5>1, <5>2 DEF Claims, ReadsAreFresh
      <4> QED
        BY <4>1, <4>2
    <3> QED
      BY <3>2 DEF ReadsAreFresh
  <2>7. HoldersApart'
    <3>1. \A d \in Caller : \A s \in HeldBy(d) : s \in Held
      BY DEF Held
    <3> QED
      BY <2>2, <2>5, <3>1 DEF Claims, HoldersApart
  <2>8. RunsAreDated'
    BY <2>1 DEF Claims, RunsAreDated
  <2>9. StampedAhead'
    <3>1. ASSUME NEW h \in HistId, h <= lastId', history'[h].sched \notin disturbed'
          PROVE  \/ \E d \in Caller : call'[d].hist = h
                 \/ history'[h].started < next'[history'[h].sched]
      <4>1. h <= lastId /\ history[h].sched \notin disturbed
        BY <2>1, <2>2, <3>1
      <4>2. \/ \E d \in Caller : call[d].hist = h
            \/ history[h].started < next[history[h].sched]
        BY <4>1 DEF Claims, StampedAhead
      <4> QED
        BY <2>1, <2>3, <4>2
    <3> QED
      BY <3>1 DEF StampedAhead
  <2>10. HeldIsLatest'
    <3>1. HeldIsLatest
      BY DEF Claims
    <3>2. disturbed \subseteq disturbed'
      BY <2>2
    <3> QED
      BY <2>1, <2>3, <3>1, <3>2 DEF HeldIsLatest
  <2>11. OncePerSlot'
    BY <2>1, <2>2 DEF Claims, OncePerSlot
  <2> QED
    BY <2>6, <2>7, <2>8, <2>9, <2>10, <2>11 DEF Claims
<1> QED
  BY <1>0, <1>1

LEMMA ReturnKeepsClaims ==
  ASSUME IInv, Claims, NEW c \in Caller, Return(c)
  PROVE  Claims'
<1>1. /\ UNCHANGED <<clock, next, history, lastId, disturbed>>
      /\ \A d \in Caller : call'[d].hist = call[d].hist
      /\ \A d \in Caller : call'[d].todo \in {call[d].todo, {}}
  BY DEF Return, TaskVars, IInv, TypeOK, CallState, RowsOfCalls, IdleCall
<1>2. \A d \in Caller : HeldBy(d)' \subseteq HeldBy(d)
  BY <1>1 DEF HeldBy
<1>3. ReadsAreFresh'
  BY <1>1 DEF Claims, ReadsAreFresh
<1>4. HoldersApart'
  BY <1>1, <1>2 DEF Claims, HoldersApart
<1>5. RunsAreDated' /\ StampedAhead' /\ HeldIsLatest' /\ OncePerSlot'
  BY <1>1 DEF Claims, RunsAreDated, StampedAhead, HeldIsLatest, OncePerSlot
<1> QED
  BY <1>3, <1>4, <1>5 DEF Claims

\* A row whose insertion failed is dropped from the list.
LEMMA SkipKeepsClaims ==
  ASSUME IInv, Claims, NEW c \in Caller, NEW row \in call[c].todo,
         call' = [call EXCEPT ![c].todo = @ \ {row}],
         UNCHANGED <<clock, next, history, lastId, disturbed>>
  PROVE  Claims'
<1>1. /\ \A d \in Caller : call'[d].hist = call[d].hist
      /\ \A d \in Caller : call'[d].todo \subseteq call[d].todo
  BY DEF IInv, TypeOK, CallState
<1>2. \A d \in Caller : HeldBy(d)' \subseteq HeldBy(d)
  BY <1>1 DEF HeldBy
<1>3. ReadsAreFresh'
  BY <1>1 DEF Claims, ReadsAreFresh
<1>4. HoldersApart'
  BY <1>1, <1>2 DEF Claims, HoldersApart
<1>5. RunsAreDated' /\ StampedAhead' /\ HeldIsLatest' /\ OncePerSlot'
  BY <1>1 DEF Claims, RunsAreDated, StampedAhead, HeldIsLatest, OncePerSlot
<1> QED
  BY <1>3, <1>4, <1>5 DEF Claims

\* OpenHistory when the insertion succeeds.
InsertRow(c, row) ==
  /\ call[c].pc = "next"
  /\ lastId < MaxHistories
  /\ lastId' = lastId + 1
  /\ history' = [history EXCEPT ![lastId + 1] =
                   [status |-> "running", started |-> clock, sched |-> row.sched,
                    slot |-> row.slot, manual |-> c \in BotCaller]]
  /\ call' = [call EXCEPT ![c].pc = "acquire", ![c].hist = lastId + 1,
                          ![c].todo = @ \ {row}]
  /\ UNCHANGED <<clock, next, disturbed>>

\* The step that runs a schedule: the slot it read is later than every run
\* there is, unless the schedule is disturbed.
LEMMA OpeningKeepsClaims ==
  ASSUME IInv, Claims, NEW c \in Caller, NEW row \in call[c].todo, InsertRow(c, row)
  PROVE  Claims'
<1>0. PICK k, Old : k = lastId + 1 /\ Old = {h \in HistId : h <= lastId}
  OBVIOUS
<1>1. /\ lastId \in Nat /\ k \in HistId /\ k \notin Old /\ k # 0
      /\ {h \in HistId : h <= lastId'} = Old \cup {k}
      /\ clock \in Nat
      /\ row.sched \in Schedule /\ row.slot \in Nat
      /\ UNCHANGED <<clock, next, disturbed>>
  BY <1>0, BoundsAssumption DEF InsertRow, IInv, TypeOK, HistId, Time, CallState, Snapshot
<1>2. /\ \A h \in HistId \ {k} : history'[h] = history[h]
      /\ history'[k].started = clock /\ history'[k].sched = row.sched
      /\ history'[k].slot = row.slot /\ (history'[k].manual <=> c \in BotCaller)
      /\ history'[k].status = "running"
  BY <1>0, <1>1 DEF IInv, TypeOK, InsertRow
<1>3. \A h \in Old : /\ h \in HistId \ {k} /\ h # 0
                      /\ history'[h] = history[h]
                      /\ history[h].started \in Nat
  <2>1. \A h \in HistId : history[h].started \in Nat
    BY DEF IInv, TypeOK, Row
  <2>2. 0 \notin HistId
    BY DEF HistId
  <2> QED
    BY <1>0, <1>1, <1>2, <2>1, <2>2
<1>4. /\ call[c].hist = 0 /\ call'[c].hist = k /\ call'[c].todo = call[c].todo \ {row}
      /\ \A d \in Caller \ {c} : call'[d] = call[d]
      /\ \A d \in Caller : call[d].hist # 0 => call[d].hist \in Old
  <2>1. \A d \in Caller : call[d].hist # 0 => call[d].hist \in Old
    BY <1>0 DEF IInv, TypeOK, CallState, RowsOfCalls, HistId
  <2>2. call[c].hist = 0
    BY DEF IInv, RowsOfCalls, InsertRow
  <2>3. call \in [Caller -> CallState]
    BY DEF IInv, TypeOK
  <2> QED
    BY <1>0, <2>1, <2>2, <2>3 DEF CallState, InsertRow
<1>5. row.sched \in HeldBy(c)
  BY DEF HeldBy
<1>6. \A d \in Caller : HeldBy(d)' \subseteq HeldBy(d)
  <2>1. HeldBy(c)' \subseteq HeldBy(c)
    <3>1. {r.sched : r \in call'[c].todo} \subseteq {r.sched : r \in call[c].todo}
      BY <1>4
    <3>2. HeldBy(c)' = {r.sched : r \in call'[c].todo} \cup {row.sched}
      BY <1>1, <1>2, <1>4 DEF HeldBy
    <3> QED
      BY <1>5, <3>1, <3>2 DEF HeldBy
  <2>2. ASSUME NEW d \in Caller \ {c} PROVE HeldBy(d)' = HeldBy(d)
    <3>1. call'[d] = call[d] /\ (call[d].hist # 0 =>
            history'[call[d].hist] = history[call[d].hist])
      BY <1>1, <1>2, <1>4
    <3> QED
      BY <1>4, <3>1 DEF HeldBy
  <2> QED
    BY <2>1, <2>2
\* Nobody else has a run of the schedule in hand.
<1>7. ASSUME row.sched \notin disturbed, NEW d \in Caller, call[d].hist # 0
      PROVE  history[call[d].hist].sched # row.sched
  <2>1. history[call[d].hist].sched \in HeldBy(d)
    BY <1>7 DEF HeldBy
  <2> QED
    BY <1>4, <1>5, <1>7, <2>1 DEF Claims, HoldersApart
\* Every run of the schedule started before the slot of this one.
<1>8. ASSUME row.sched \notin disturbed, NEW g \in Old, history[g].sched = row.sched
      PROVE  history[g].started < row.slot
  <2>1. ~\E d \in Caller : call[d].hist = g
    BY <1>0, <1>1, <1>7, <1>8 DEF HistId
  <2>2. history[g].started < next[row.sched]
    BY <1>0, <1>8, <2>1 DEF Claims, StampedAhead
  <2> QED
    BY <1>8, <2>2 DEF Claims, ReadsAreFresh
<1>9. ReadsAreFresh'
  <2>1. ASSUME NEW d \in Caller, NEW r \in call'[d].todo
        PROVE  /\ d \in HttpCaller => r.slot <= clock'
               /\ r.sched \notin disturbed' => r.slot = next'[r.sched]
               /\ call'[d].hist # 0 => history'[call'[d].hist].sched # r.sched
               /\ \A other \in call'[d].todo : other.sched = r.sched => other = r
    <3>1. CASE d = c
      <4>1. r \in call[c].todo /\ r # row /\ call'[c].hist = k /\ call'[c].todo \subseteq call[c].todo
        BY <1>4, <2>1, <3>1
      <4>2. r.sched # row.sched
        BY <4>1 DEF Claims, ReadsAreFresh
      <4> QED
        BY <1>1, <1>2, <3>1, <4>1, <4>2 DEF Claims, ReadsAreFresh
    <3>2. CASE d # c
      <4>1. call'[d] = call[d] /\ (call[d].hist # 0 =>
              history'[call[d].hist] = history[call[d].hist])
        BY <1>1, <1>2, <1>4, <3>2
      <4>2. r \in call[d].todo
        BY <2>1, <4>1
      <4>3. call'[d].todo = call[d].todo /\ call'[d].hist = call[d].hist
        BY <4>1
      <4> QED
        BY <1>1, <4>1, <4>2, <4>3 DEF Claims, ReadsAreFresh
    <3> QED
      BY <3>1, <3>2
  <2> QED
    BY <2>1 DEF ReadsAreFresh
<1>10. HoldersApart'
  BY <1>1, <1>6 DEF Claims, HoldersApart
<1>11. RunsAreDated'
  <2>1. c \notin BotCaller => row.slot <= clock
    BY DEF Claims, ReadsAreFresh, Caller
  <2>2. \A h \in Old :
          /\ history[h].started <= clock
          /\ ~history[h].manual => history[h].slot <= history[h].started
    BY <1>0 DEF Claims, RunsAreDated
  <2>3. /\ history'[k].started <= clock'
        /\ ~history'[k].manual => history'[k].slot <= history'[k].started
    BY <1>1, <1>2, <2>1
  <2>4. \A h \in Old \cup {k} :
          /\ history'[h].started <= clock'
          /\ ~history'[h].manual => history'[h].slot <= history'[h].started
    BY <1>1, <1>3, <2>2, <2>3
  <2> QED
    BY <1>1, <2>4 DEF RunsAreDated
<1>12. StampedAhead'
  <2>1. ASSUME NEW h \in Old, history[h].sched \notin disturbed
        PROVE  \/ \E d \in Caller : call'[d].hist = h
               \/ history'[h].started < next'[history'[h].sched]
    <3>1. CASE \E d \in Caller : call[d].hist = h
      <4>1. PICK d \in Caller : call[d].hist = h
        BY <3>1
      <4>2. call'[d].hist = h
        BY <1>4, <1>3, <2>1, <4>1
      <4> QED
        BY <4>2
    <3>2. CASE ~\E d \in Caller : call[d].hist = h
      BY <1>0, <1>1, <1>2, <2>1, <3>2 DEF Claims, StampedAhead
    <3> QED
      BY <3>1, <3>2
  <2>2. \A h \in Old : history'[h] = history[h]
    BY <1>0, <1>1, <1>2
  <2> QED
    <3>1. \A h \in Old \cup {k} : history'[h].sched \notin disturbed' =>
            \/ \E d \in Caller : call'[d].hist = h
            \/ history'[h].started < next'[history'[h].sched]
      <4>1. call'[c].hist = k
        BY <1>4
      <4> QED
        BY <1>1, <4>1, <2>1, <2>2
    <3> QED
      BY <1>1, <3>1 DEF StampedAhead
<1>13. HeldIsLatest'
  <2>1. ASSUME NEW d \in Caller, call'[d].hist # 0, NEW g \in Old \cup {k},
               history'[g].sched = history'[call'[d].hist].sched,
               history'[g].sched \notin disturbed
        PROVE  history'[g].started <= history'[call'[d].hist].started
    <3>1. CASE d = c
      <4>1. history'[call'[d].hist].started = clock
        BY <1>2, <1>4, <3>1
      <4>2. \A h \in Old : history'[h].started <= clock
        BY <1>0, <1>3 DEF Claims, RunsAreDated
      <4> QED
        BY <1>1, <1>2, <2>1, <4>1, <4>2
    <3>2. CASE d # c /\ g = k
      BY <1>1, <1>2, <1>4, <1>7, <2>1, <3>2
    <3>3. CASE d # c /\ g # k
      <4>1. /\ call'[d].hist = call[d].hist /\ call[d].hist \in Old /\ g \in Old
            /\ history'[g] = history[g] /\ history'[call[d].hist] = history[call[d].hist]
        BY <1>4, <1>3, <2>1, <3>3
      <4> QED
        BY <1>0, <1>1, <1>3, <2>1, <4>1 DEF Claims, HeldIsLatest
    <3> QED
      BY <3>1, <3>2, <3>3
  <2> QED
    BY <1>1, <2>1 DEF HeldIsLatest
<1>14. OncePerSlot'
  <2>1. \A h \in HistId : history'[h].status # "none" => h \in Old \cup {k}
    <3>1. \A h \in HistId : history[h].status # "none" => h <= lastId
      BY <1>1 DEF IInv, RowsInUse, HistId
    <3> QED
      BY <1>0, <1>1, <1>2, <3>1
  <2>2. \A h \in Old : history[h].status # "none"
    <3>1. \A h \in HistId : h <= lastId => ~(h > lastId)
      BY <1>1 DEF HistId
    <3> QED
      BY <1>0, <3>1 DEF IInv, RowsInUse
  <2>3. ASSUME NEW g \in Old, row.sched \notin disturbed,
               ~history[g].manual, history[g].sched = row.sched
        PROVE  history[g].slot # row.slot
    <3>1. history[g].slot <= history[g].started /\ history[g].started < row.slot
      BY <1>0, <1>8, <2>3 DEF Claims, RunsAreDated
    <3>2. history[g].slot \in Nat /\ history[g].started \in Nat
      BY <1>0 DEF IInv, TypeOK, Row
    <3> QED
      BY <1>1, <3>1, <3>2
  <2>4. ASSUME NEW g \in Old \cup {k}, NEW h \in Old \cup {k}, g # h,
               ~history'[g].manual, ~history'[h].manual,
               history'[g].sched = history'[h].sched,
               history'[g].sched \notin disturbed
        PROVE  history'[g].slot # history'[h].slot
    <3>1. CASE g = k
      BY <1>1, <1>2, <2>3, <2>4, <3>1
    <3>2. CASE h = k
      BY <1>1, <1>2, <2>3, <2>4, <3>2
    <3>3. CASE g # k /\ h # k
      BY <1>0, <1>1, <1>2, <2>2, <2>4, <3>3 DEF Claims, OncePerSlot
    <3> QED
      BY <3>1, <3>2, <3>3
  <2> QED
    BY <1>1, <2>1, <2>4 DEF OncePerSlot
<1> QED
  BY <1>9, <1>10, <1>11, <1>12, <1>13, <1>14 DEF Claims

\* The stamp moves the schedule beyond its latest run; where it fails, the
\* schedule is disturbed from then on.
LEMMA StampKeepsClaims ==
  ASSUME IInv, Claims, NEW c \in Caller, Stamp(c)
  PROVE  Claims'
<1>1. PICK k, s : k = call[c].hist /\ s = history[k].sched
  OBVIOUS
<1>2. /\ call[c].hist # 0 /\ k \in HistId /\ k <= lastId
      /\ s \in Schedule /\ history[k].started \in Time
      /\ next \in [Schedule -> Nat]
      /\ \A h \in HistId : history[h].started \in Nat
      /\ \A h \in HistId : h <= lastId => history[h].sched \in Schedule
  <2>1. /\ call[c].hist # 0 /\ call[c].hist \in 0 .. MaxHistories /\ call[c].hist <= lastId
        /\ next \in [Schedule -> Nat]
    BY DEF Stamp, IInv, TypeOK, CallState, RowsOfCalls
  <2>2. call[c].hist \in HistId
    BY <2>1, BoundsAssumption DEF HistId
  <2>3. \A h \in HistId : h <= lastId => history[h].sched \in Schedule /\ history[h].started \in Time
    BY DEF IInv, RowsInUse
  <2>4. \A h \in HistId : history[h].started \in Nat
    BY DEF IInv, TypeOK, Row
  <2> QED
    BY <1>1, <2>1, <2>2, <2>3, <2>4
<1>3. /\ UNCHANGED <<clock, history, lastId>>
      /\ call'[c].hist = 0
      /\ \A d \in Caller \ {c} : call'[d].hist = call[d].hist
      /\ \A d \in Caller : call'[d].todo = call[d].todo
      /\ disturbed' \in {disturbed, disturbed \cup {s}}
  BY <1>1 DEF Stamp, FinishTask, TaskVars, IInv, TypeOK, CallState
<1>4. /\ \A x \in Schedule \ {s} : next'[x] = next[x]
      /\ s \notin disturbed' => /\ next'[s] \in Nat
                               /\ next'[s] > history[k].started
  <2>1. /\ CronNext(s, history[k].started) \in Nat
        /\ CronNext(s, history[k].started) > history[k].started
    BY <1>2, CronAssumption
  <2>2. \/ next' = [next EXCEPT ![s] = CronNext(s, history[k].started)]
        \/ next' = next /\ s \in disturbed'
    BY <1>1 DEF Stamp
  <2> QED
    BY <1>2, <2>1, <2>2
<1>5. \A d \in Caller : HeldBy(d)' \subseteq HeldBy(d)
  BY <1>3 DEF HeldBy
<1>6. s \in HeldBy(c)
  BY <1>1, <1>2 DEF HeldBy
<1>7. \A d \in Caller : \A row \in call[d].todo :
        row.sched \in Schedule /\ (row.sched = s => s \in disturbed)
  <2>1. ASSUME NEW d \in Caller, NEW row \in call[d].todo, row.sched = s
        PROVE  s \in disturbed
    <3>1. s \in HeldBy(d)
      BY <2>1 DEF HeldBy
    <3>2. d # c
      BY <1>1, <1>2, <2>1 DEF Claims, ReadsAreFresh
    <3> QED
      BY <1>6, <3>1, <3>2 DEF Claims, HoldersApart
  <2> QED
    BY <2>1 DEF IInv, TypeOK, CallState, Snapshot
<1>8. disturbed \subseteq disturbed'
  BY <1>3
<1>9. ReadsAreFresh'
  <2>1. ASSUME NEW d \in Caller, NEW row \in call[d].todo
        PROVE  /\ d \in HttpCaller => row.slot <= clock
               /\ row.sched \notin disturbed' => row.slot = next'[row.sched]
               /\ call'[d].hist # 0 => history[call'[d].hist].sched # row.sched
               /\ \A other \in call[d].todo : other.sched = row.sched => other = row
    <3>1. row.sched \notin disturbed' => row.sched # s /\ row.slot = next[row.sched]
      BY <1>7, <1>8 DEF Claims, ReadsAreFresh
    <3>2. call'[d].hist # 0 => call'[d].hist = call[d].hist
      BY <1>3
    <3> QED
      BY <1>4, <1>7, <3>1, <3>2 DEF Claims, ReadsAreFresh
  <2> QED
    BY <1>3, <2>1 DEF ReadsAreFresh
<1>10. HoldersApart'
  BY <1>5, <1>8 DEF Claims, HoldersApart
<1>11. RunsAreDated'
  BY <1>3 DEF Claims, RunsAreDated
<1>12. StampedAhead'
  <2>1. ASSUME NEW h \in HistId, h <= lastId, history[h].sched \notin disturbed',
               ~\E d \in Caller : call'[d].hist = h
        PROVE  history[h].started < next'[history[h].sched]
    <3>1. CASE history[h].sched = s
      <4>1. history[h].started <= history[k].started
        BY <1>1, <1>2, <1>8, <2>1, <3>1 DEF Claims, HeldIsLatest
      <4> QED
        BY <1>2, <1>4, <2>1, <3>1, <4>1 DEF Time
    <3>2. CASE history[h].sched # s
      <4>1. h # k
        BY <1>1, <3>2
      <4>2. ~\E d \in Caller : call[d].hist = h
        BY <1>1, <1>3, <2>1, <4>1
      <4>3. history[h].started < next[history[h].sched]
        BY <1>8, <2>1, <4>2 DEF Claims, StampedAhead
      <4> QED
        BY <1>2, <1>4, <2>1, <3>2, <4>3
    <3> QED
      BY <3>1, <3>2
  <2> QED
    BY <1>3, <2>1 DEF StampedAhead
<1>13. HeldIsLatest'
  <2>1. ASSUME NEW d \in Caller, call'[d].hist # 0
        PROVE  call'[d].hist = call[d].hist
    BY <1>3, <2>1
  <2> QED
    BY <1>3, <1>8, <2>1 DEF Claims, HeldIsLatest
<1>14. OncePerSlot'
  BY <1>3, <1>8 DEF Claims, OncePerSlot
<1> QED
  BY <1>9, <1>10, <1>11, <1>12, <1>13, <1>14 DEF Claims

\* A crash disturbs the schedules whose run was opened and not yet stamped.
LEMMA CrashKeepsClaims ==
  ASSUME IInv, Claims, CrashRestart
  PROVE  Claims'
<1>1. /\ UNCHANGED <<clock, next, history, lastId>>
      /\ \A c \in Caller : call'[c].hist = 0 /\ call'[c].todo = {}
      /\ disturbed \subseteq disturbed'
      /\ \A c \in Caller : call[c].hist # 0 => history[call[c].hist].sched \in disturbed'
  BY DEF CrashRestart, IdleCall
<1>2. \A c \in Caller : HeldBy(c)' = {}
  BY <1>1 DEF HeldBy
<1>3. \A h \in HistId : h # 0
  BY DEF HistId
<1>4. ReadsAreFresh' /\ HeldIsLatest'
  BY <1>1 DEF ReadsAreFresh, HeldIsLatest
<1>5. HoldersApart'
  BY <1>2 DEF HoldersApart
<1>6. RunsAreDated'
  BY <1>1 DEF Claims, RunsAreDated
<1>7. StampedAhead'
  BY <1>1, <1>3 DEF Claims, StampedAhead
<1>8. OncePerSlot'
  BY <1>1 DEF Claims, OncePerSlot
<1> QED
  BY <1>4, <1>5, <1>6, <1>7, <1>8 DEF Claims

\* What the goroutines do to the rows: their status changes, no row appears.
LEMMA TaskStepsKeepClaims ==
  ASSUME IInv, Claims, NEW h \in HistId, TaskStep(h) \/ Panic(h) \/ Timeout(h)
  PROVE  Claims'
<1>1. UNCHANGED <<clock, next, lastId, call, disturbed>>
  BY DEF TaskStep, Panic, Timeout, FindJobFails, JobTypeNotFound, RunStrategy, RunCleanUp,
         SaveResult, Release, CallVars
<1>2. clock \in Nat
  BY BoundsAssumption DEF IInv, TypeOK, Time
<1>3. ASSUME NEW g \in HistId
      PROVE  /\ history'[g].sched = history[g].sched
             /\ history'[g].slot = history[g].slot
             /\ history'[g].started = history[g].started
             /\ history'[g].manual = history[g].manual
             /\ history'[g].status = "none" <=> history[g].status = "none"
  <2>1. history \in [HistId -> Row]
    BY DEF IInv, TypeOK
  <2>2. CASE UNCHANGED history
    BY <2>2
  <2>3. CASE RunCleanUp(h)
    BY <2>1, <2>3 DEF RunCleanUp, Expired, Row
  <2>4. CASE SaveResult(h)
    <3>1. history[h].status # "none" /\ task[h].result # "none"
      BY <2>4 DEF SaveResult, IInv, TypeOK, RowsInUse, TaskState, NoTask
    <3> QED
      BY <2>1, <2>4, <3>1 DEF SaveResult, Row
  <2>5. UNCHANGED history \/ RunCleanUp(h) \/ SaveResult(h)
    BY DEF TaskStep, Panic, Timeout, FindJobFails, JobTypeNotFound, RunStrategy, Release
  <2> QED
    BY <2>2, <2>3, <2>4, <2>5
<1> QED
  BY <1>1, <1>2, <1>3, ClaimsUntouched

LEMMA StepKeepsClaims == IInv /\ Claims /\ [Next]_vars => Claims'
<1> SUFFICES ASSUME IInv, Claims, [Next]_vars PROVE Claims'
  OBVIOUS
<1>0. clock \in Nat
  BY BoundsAssumption DEF IInv, TypeOK, Time
<1>1. ASSUME NEW c \in HttpCaller, Execute(c) PROVE Claims'
  BY <1>1, ReadsKeepClaims DEF Caller
<1>2. ASSUME NEW c \in BotCaller, RunJobTask(c) PROVE Claims'
  BY <1>2, ReadsKeepClaims DEF Caller
<1>3. ASSUME NEW c \in Caller, Launch(c) PROVE Claims'
  <2>1. /\ UNCHANGED <<clock, next, history, lastId, disturbed>>
        /\ \A d \in Caller : call'[d].todo = call[d].todo /\ call'[d].hist = call[d].hist
    BY <1>3 DEF Launch, IInv, TypeOK, CallState
  <2> QED
    BY <1>0, <2>1, ClaimsUntouched
<1>4. ASSUME NEW c \in Caller, Return(c) PROVE Claims'
  BY <1>4, ReturnKeepsClaims
<1>5. ASSUME NEW c \in Caller, OpenHistory(c) PROVE Claims'
  <2>1. PICK row \in call[c].todo :
          \/ InsertRow(c, row)
          \/ /\ call' = [call EXCEPT ![c].todo = @ \ {row}]
             /\ UNCHANGED <<clock, next, history, lastId, disturbed>>
    BY <1>5 DEF OpenHistory, InsertRow
  <2> QED
    BY <2>1, OpeningKeepsClaims, SkipKeepsClaims
<1>6. ASSUME NEW c \in Caller, Stamp(c) PROVE Claims'
  BY <1>6, StampKeepsClaims
<1>7. ASSUME NEW h \in HistId, TaskStep(h) \/ Panic(h) \/ Timeout(h) PROVE Claims'
  BY <1>7, TaskStepsKeepClaims
<1>8. CASE Tick
  <2>1. UNCHANGED <<next, history, lastId, call, disturbed>> /\ clock' = clock + 1
    BY <1>8 DEF Tick, TaskVars
  <2>2. clock' \in Nat /\ clock' >= clock
    BY <1>0, <2>1
  <2> QED
    BY <2>1, <2>2, ClaimsUntouched
<1>9. CASE CrashRestart
  BY <1>9, CrashKeepsClaims
<1>10. CASE UNCHANGED vars
  BY <1>0, <1>10, ClaimsUntouched DEF vars
<1> QED
  BY <1>1, <1>2, <1>3, <1>4, <1>5, <1>6, <1>7, <1>8, <1>9, <1>10 DEF Next, CallStep

\* An undisturbed schedule is run once for each instant it falls due at, however
\* many requests run Execute and whenever the process dies.
THEOREM RunsOncePerSlot == Spec => []OncePerSlot
<1>1. Claims => OncePerSlot
  BY DEF Claims
<1> QED
  BY <1>1, InitClaims, StepKeepsClaims, Invariance, PTL DEF Spec
==============================================================================
