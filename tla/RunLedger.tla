------------------------------ MODULE RunLedger ------------------------------
(***************************************************************************)
(* What the scheduler promises about the task_execution_history rows it    *)
(* writes, with none of the callers, locks or timers that make it happen:  *)
(* a row is opened once, its task is launched at most once and only while  *)
(* fewer than MaxConcurrency tasks are busy, a verdict is written by a     *)
(* busy task over an open row alone, and the row never changes after that  *)
(* except by being purged.  Scheduler.tla is shown to implement this.      *)
(***************************************************************************)
EXTENDS Naturals, FiniteSets

CONSTANTS HistId,          \* identities of history rows
          MaxConcurrency   \* capacity of the scheduler's semaphore

VARIABLES row,       \* status of each history row
          launched,  \* rows whose task was ever started
          busy       \* rows whose task holds a slot of the semaphore

ledgerVars == <<row, launched, busy>>

Verdict == {"completed", "failed"}
RowStatus == {"none", "running", "deleted"} \cup Verdict

Init ==
  /\ row = [h \in HistId |-> "none"]
  /\ launched = {}
  /\ busy = {}

Open(h) ==
  /\ row[h] = "none"
  /\ row' = [row EXCEPT ![h] = "running"]
  /\ UNCHANGED <<launched, busy>>

Launch(h) ==
  /\ row[h] # "none"
  /\ h \notin launched
  /\ Cardinality(busy) < MaxConcurrency
  /\ launched' = launched \cup {h}
  /\ busy' = busy \cup {h}
  /\ UNCHANGED row

Report(h, verdict) ==
  /\ h \in busy
  /\ row[h] = "running"
  /\ row' = [row EXCEPT ![h] = verdict]
  /\ UNCHANGED <<launched, busy>>

Retire(h) ==
  /\ h \in busy
  /\ busy' = busy \ {h}
  /\ UNCHANGED <<row, launched>>

Purge(old) ==
  /\ \A h \in old : row[h] # "none"
  /\ row' = [h \in HistId |-> IF h \in old THEN "deleted" ELSE row[h]]
  /\ UNCHANGED <<launched, busy>>

\* The process dies: its goroutines are gone, the rows stay as they are.
Halt ==
  /\ busy' = {}
  /\ UNCHANGED <<row, launched>>

Next ==
  \/ \E h \in HistId :
       \/ Open(h)
       \/ Launch(h)
       \/ \E verdict \in Verdict : Report(h, verdict)
       \/ Retire(h)
  \/ \E old \in SUBSET HistId : Purge(old)
  \/ Halt

Spec == Init /\ [][Next]_ledgerVars
==============================================================================
