------------------------------ MODULE Positions ------------------------------
(***************************************************************************)
(* The rows of stock_positions and everybody who writes them: the          *)
(* monitoring job and the refresh button (EvaluateStockPosition), the      *)
(* price alert job, and the telegram handlers that set, exit and delete a  *)
(* position.                                                               *)
(*                                                                         *)
(* None of them locks anything.  Each reads a row, works on its copy while *)
(* the others go on, and hands the copy to the repository's Update, which  *)
(* writes every field of it that is not zero (TrailingRules.Saved).  A     *)
(* worker stands for one position of one job run, or for one handler; a    *)
(* job reads all its positions at once and comes to this one later.        *)
(***************************************************************************)
EXTENDS TrailingRules, FiniteSets

CONSTANTS
  Markets,       \* the market states evaluations meet
  Entries,       \* the terms positions are opened with
  Key,           \* user, stock code and exchange of a position
  Worker,        \* jobs and handlers running at the same time
  MaxPositions   \* bound: rows ever inserted

Id == 1 .. MaxPositions

ASSUME PositionsAssumption ==
  /\ Markets \subseteq MarketState
  /\ Entries \subseteq Terms
  /\ MaxPositions \in Nat

VARIABLES
  row,        \* the rows of stock_positions
  work,       \* what each worker has in hand
  stale,      \* auxiliary: workers whose row was written since they read it
  raced       \* auxiliary: keys whose duplicate check was overtaken

vars == <<row, work, stale, raced>>
------------------------------------------------------------------------------
\* exit is exit_price, of which we only tell whether it is there.
Row == [is : {"none", "present", "deleted"}, key : Key \cup {"-"}, active : BOOLEAN,
        exit : {"null", "price"}, levels : Position]
NoTerms == [buy |-> 0, tp |-> 0, sl |-> 0]
NoLevels == [terms |-> NoTerms, trail |-> 0, highest |-> 0, stop |-> 0]
NoRow == [is |-> "none", key |-> "-", active |-> FALSE, exit |-> "null", levels |-> NoLevels]

Job == {"monitor", "alert", "exit"}
\* id 0: no row in hand.
Work == [job : {"idle", "set"} \cup Job, id : 0 .. MaxPositions, copy : Row,
         key : Key \cup {"-"}]
Idle == [job |-> "idle", id |-> 0, copy |-> NoRow, key |-> "-"]

Present == {i \in Id : row[i].is = "present"}
Active(key) == {i \in Present : row[i].active /\ row[i].key = key}
Holding(i) == {w \in Worker : work[w].id = i}

Init ==
  /\ row = [i \in Id |-> NoRow]
  /\ work = [w \in Worker |-> Idle]
  /\ stale = {}
  /\ raced = {}
------------------------------------------------------------------------------
NonNull(new, old) == IF new = "null" THEN old ELSE new

\* Mutant: the copy replaces the row (gorm's Save).
MergedAll(old, copy) == copy

\* What gorm's Updates makes of a row: the fields of the copy that are not zero,
\* is_active always being one of them.
Merged(old, copy) ==
  [old EXCEPT !.active = copy.active, !.exit = NonNull(copy.exit, @),
              !.levels = Saved(@, copy.levels)]

\* Repository Update by worker w.  A row that is gone is not found, which is no
\* error.
Update(w, i, copy) ==
  IF i \in Present
  THEN /\ row' = [row EXCEPT ![i] = Merged(@, copy)]
       /\ stale' = (stale \cup Holding(i)) \ {w}
       /\ raced' = raced \cup (IF copy.active /\ ~row[i].active THEN {row[i].key} ELSE {})
  ELSE /\ stale' = stale \ {w}
       /\ UNCHANGED <<row, raced>>

Take(w, job, i) ==
  work' = [work EXCEPT ![w] = [job |-> job, id |-> i, copy |-> row[i], key |-> "-"]]

Finish(w) == work' = [work EXCEPT ![w] = Idle]

\* A query, an analysis or an update fails: the worker gives up.
GiveUp(w) ==
  /\ work[w].job # "idle"
  /\ Finish(w)
  /\ stale' = stale \ {w}
  /\ UNCHANGED <<row, raced>>
------------------------------------------------------------------------------
\* The monitoring job reads the active positions, the refresh button any one.
ReadToMonitor(w) ==
  /\ work[w].job = "idle"
  /\ \E i \in Present : Take(w, "monitor", i)
  /\ UNCHANGED <<row, stale, raced>>

\* EvaluateStockPosition: analyse, judge the copy and update the row.
Evaluate(w) ==
  /\ work[w].job = "monitor"
  /\ \E m \in Markets :
       Update(w, work[w].id,
              [work[w].copy EXCEPT !.levels = Judged(work[w].copy.levels, m)])
  /\ Finish(w)

\* StockPriceAlertStrategy: the active positions with an alert.
ReadToAlert(w) ==
  /\ work[w].job = "idle"
  /\ \E i \in Present : row[i].active /\ Take(w, "alert", i)
  /\ UNCHANGED <<row, stale, raced>>

\* A target of the copy is reached, the trailing ones replacing the user's.
AlertDue(levels, price) ==
  \/ levels.trail = 0 /\ price >= levels.terms.tp
  \/ levels.trail > 0 /\ price <= levels.trail
  \/ levels.stop > 0 /\ price <= levels.stop
  \/ levels.stop = 0 /\ price <= levels.terms.sl

\* An alert, sent or suppressed, stamps the row: the whole copy is written back.
Alert(w) ==
  /\ work[w].job = "alert"
  /\ \E price \in MaybePrice :
       IF AlertDue(work[w].copy.levels, price)
       THEN Update(w, work[w].id, work[w].copy)
       ELSE stale' = stale \ {w} /\ UNCHANGED <<row, raced>>
  /\ Finish(w)

\* ExitStockPosition: nothing asks whether the position is still active.
ReadToExit(w) ==
  /\ work[w].job = "idle"
  /\ \E i \in Present : Take(w, "exit", i)
  /\ UNCHANGED <<row, stale, raced>>

\* A price that is not positive is not saved, the exit is.
Exit(w) ==
  /\ work[w].job = "exit"
  /\ \E price \in {"null", "price"} :
       Update(w, work[w].id,
              [work[w].copy EXCEPT !.active = FALSE, !.exit = NonNull(price, @)])
  /\ Finish(w)

\* DeleteStockPositionTelegramUser
Delete(w) ==
  /\ work[w].job = "idle"
  /\ \E i \in Present :
       /\ row' = [row EXCEPT ![i] = [NoRow EXCEPT !.is = "deleted"]]
       /\ stale' = stale \cup Holding(i)
  /\ UNCHANGED <<work, raced>>

\* Mutant: exited positions are not told from active ones.
CheckAnything(w) ==
  /\ work[w].job = "idle"
  /\ \E key \in Key :
       /\ work' = [work EXCEPT ![w] = [Idle EXCEPT !.job = "set", !.key = key]]
       /\ raced' = raced \cup {k \in {key} : \E v \in Worker : work[v].key = k}
  /\ UNCHANGED <<row, stale>>

\* SetStockPosition: refuses a stock the user already has an active position in.
CheckExisting(w) ==
  /\ work[w].job = "idle"
  /\ \E key \in Key :
       /\ Active(key) = {}
       /\ work' = [work EXCEPT ![w] = [Idle EXCEPT !.job = "set", !.key = key]]
       /\ raced' = raced \cup {k \in {key} : \E v \in Worker : work[v].key = k}
  /\ UNCHANGED <<row, stale>>

\* The transaction that inserts the row; no unique index stands in its way.
Create(w) ==
  /\ work[w].job = "set"
  /\ \E i \in Id, terms \in Entries :
       /\ row[i].is = "none" /\ \A j \in Id : j < i => row[j].is # "none"
       /\ row' = [row EXCEPT ![i] = [is |-> "present", key |-> work[w].key, active |-> TRUE,
                                     exit |-> "null", levels |-> [NoLevels EXCEPT !.terms = terms]]]
  /\ Finish(w)
  /\ UNCHANGED <<stale, raced>>

Next ==
  \E w \in Worker :
    \/ ReadToMonitor(w) \/ Evaluate(w)
    \/ ReadToAlert(w) \/ Alert(w)
    \/ ReadToExit(w) \/ Exit(w)
    \/ Delete(w)
    \/ CheckExisting(w) \/ Create(w)
    \/ GiveUp(w)

Spec == Init /\ [][Next]_vars
------------------------------------------------------------------------------
TypeOK ==
  /\ row \in [Id -> Row]
  /\ work \in [Worker -> Work]
  /\ stale \subseteq Worker
  /\ raced \subseteq Key

\* However the copies of the workers overwrite each other, a row never mixes
\* the levels of two of them into ones that no evaluation gives.
LevelsAreSound == \A i \in Id : SoundLevels(row[i].levels)

\* A user has one active position in a stock, unless two sets of it overlapped
\* or an update brought an exited one back.
OneActivePerKey ==
  \A key \in Key : Cardinality(Active(key)) > 1 => key \in raced

\* A position that was exited keeps an exit price and a deleted one stays
\* deleted: a copy from before the exit has no price to write, and a copy of
\* a deleted row no row to write to.
NothingIsForgotten ==
  [][\A i \in Id :
       /\ row[i].exit = "price" => row'[i].exit = "price" \/ row'[i].is = "deleted"
       /\ row[i].is = "deleted" => row'[i].is = "deleted"]_vars

Undone(old, new) ==
  \/ new.levels.trail < old.levels.trail
  \/ new.levels.highest < old.levels.highest
  \/ new.levels.stop < old.levels.stop
  \/ new.active /\ ~old.active

\* Only a copy that was overtaken undoes anything: it takes another write
\* between a worker's read and its update to lower a trigger or a stop, or to
\* make an exited position active again.
OnlyStaleCopiesUndo ==
  [][\A i \in Id :
       row[i].is = "present" /\ row'[i].is = "present" /\ Undone(row[i], row'[i])
         => \E w \in stale : work[w].id = i /\ work'[w] # work[w]]_vars

\* "Exit posisi berhasil disimpan": once saved, the exit stands.
ExitSticks == \A i \in Id : row[i].exit = "price" => ~row[i].active
==============================================================================
