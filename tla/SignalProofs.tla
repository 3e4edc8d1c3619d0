----------------------------- MODULE SignalProofs -----------------------------
(***************************************************************************)
(* What SignalJobs.tla states of the buy signals, for any stocks, users,   *)
(* plans, jobs and workers: the types, that one job tells a user of a      *)
(* signal once, that only users who want a message get one, and that       *)
(* batches are whole.                                                      *)
(***************************************************************************)
EXTENDS SignalJobs, TLAPS, FiniteSetTheorems

Flying(c) == c.at \in {"mark", "holders", "tell"}

\* A worker at work has a stock, and its signal is one of that stock.
WellCalled(c) ==
  /\ c \in Call
  /\ c.at # "off" => c.stock \in Stock
  /\ Flying(c) => c.signal \in Signal /\ c.signal[1] = c.stock

CallsTyped ==
  /\ DOMAIN call = Worker /\ call = [w \in Worker |-> call[w]]
  /\ \A w \in Worker : WellCalled(call[w])

SignalsTyped ==
  /\ subs \subseteq User /\ holds \subseteq User \X Stock
  /\ marks \subseteq Signal /\ raced \subseteq Signal
  /\ told \in [User -> [Signal -> 0 .. 2]]
  /\ moved \in [Worker -> SUBSET User]
  /\ changes \in 0 .. MaxChanges

StoreTyped ==
  /\ store \subseteq Analysis /\ IsFiniteSet(store)
  /\ second \in Second
  /\ cut \subseteq Stock \X Second

\* The stocks of a job are distinct, and a job that goes on has one to go on with.
WellPlanned(j) ==
  /\ j.at = "idle" => j.next = 1
  /\ j.at \in {"loop", "acquire"} => j.next <= Len(j.todo)
  /\ \A m, n \in DOMAIN j.todo : m # n => j.todo[m].stock # j.todo[n].stock

JobsTyped ==
  /\ job \in [Job -> JobState]
  /\ \A j \in Job : WellPlanned(job[j])

\* A worker has been started for the stock of its place in the list.
Placed ==
  \A w \in Worker : call[w].at # "off" =>
    /\ w[2] < job[w[1]].next /\ w[2] \in DOMAIN job[w[1]].todo
    /\ call[w].stock = job[w[1]].todo[w[2]].stock

TypeInv == CallsTyped /\ SignalsTyped /\ StoreTyped /\ JobsTyped /\ Placed

LEMMA TypeInvTyped ==
  TypeInv => TypeOK
BY DEF TypeInv, CallsTyped, WellCalled, SignalsTyped, StoreTyped, JobsTyped, TypeOK, TypeOKSignals
------------------------------------------------------------------------------
(* Workers.                                                                *)

\* A step of one worker.
Moves(w, c) == call' = [call EXCEPT ![w] = c]

LEMMA OneCall ==
  ASSUME CallsTyped, NEW w \in Worker, NEW c, WellCalled(c), Moves(w, c)
  PROVE  /\ CallsTyped'
         /\ call'[w] = c /\ \A v \in Worker : v # w => call'[v] = call[v]
BY DEF CallsTyped, Moves

LEMMA OffCalled ==
  ASSUME NEW since \in Second
  PROVE  Off(since) \in Call /\ Off(since).at = "off" /\ Off(since).users = {}
BY DEF Off, Call, Step

\* The record a worker that ends is left with.
LEMMA EndsMoves ==
  ASSUME CallsTyped, NEW w \in Worker, call[w].at # "off",
         NEW result \in {"reported", "failed", "crashed", "lost"}, Ends(w, result)
  PROVE  \E c : /\ Moves(w, c) /\ WellCalled(c) /\ c.at = "done" /\ c.stock = call[w].stock
                /\ c.users = {} /\ c.since = call[w].since /\ c.result = result
<1> DEFINE c == [Off(call[w].since) EXCEPT !.at = "done", !.stock = call[w].stock,
                                           !.result = result]
<1>1. call[w] \in Call /\ call[w].stock \in Stock /\ call[w].since \in Second
  BY DEF CallsTyped, WellCalled, Call
<1>2. /\ c \in Call /\ c.at = "done" /\ c.stock = call[w].stock /\ c.users = {}
      /\ c.since = call[w].since /\ c.result = result
  BY <1>1 DEF Off, Call, Step
<1>3. WellCalled(c)
  BY <1>1, <1>2 DEF WellCalled, Flying
<1>4. Moves(w, c)
  BY DEF Ends, Moves, CallsTyped
<1> QED BY <1>2, <1>3, <1>4

\* One that goes on keeps what it has.
LEMMA GoesMoves ==
  ASSUME CallsTyped, NEW w \in Worker, call[w].at # "off", NEW at \in Step, at # "off",
         at \in {"mark", "holders", "tell"} => Flying(call[w]), Goes(w, at)
  PROVE  \E c : /\ Moves(w, c) /\ WellCalled(c) /\ c.at = at /\ c.stock = call[w].stock
                /\ c.since = call[w].since /\ c.got = call[w].got
                /\ c.signal = call[w].signal /\ c.users = call[w].users
<1> DEFINE c == [call[w] EXCEPT !.at = at]
<1>1. call[w] \in Call /\ WellCalled(call[w])
  BY DEF CallsTyped, WellCalled
<1>2. /\ c \in Call /\ c.at = at /\ c.stock = call[w].stock
      /\ c.since = call[w].since /\ c.got = call[w].got
      /\ c.signal = call[w].signal /\ c.users = call[w].users
  BY <1>1 DEF Call
<1>3. WellCalled(c)
  BY <1>1, <1>2 DEF WellCalled, Flying
<1>4. Moves(w, c)
  BY DEF Goes, Moves
<1> QED BY <1>2, <1>3, <1>4
------------------------------------------------------------------------------
(* Every step keeps the types.                                             *)

\* A worker that is at work goes on, and the jobs stand still.
LEMMA WorkerGoesOn ==
  ASSUME TypeInv, NEW w \in Worker, call[w].at # "off",
         NEW c, Moves(w, c), WellCalled(c), c.stock = call[w].stock, UNCHANGED job
  PROVE  CallsTyped' /\ JobsTyped' /\ Placed'
<1>1. CallsTyped' /\ call'[w] = c /\ \A v \in Worker : v # w => call'[v] = call[v]
  BY OneCall DEF TypeInv
<1>2. JobsTyped'
  BY DEF TypeInv, JobsTyped, WellPlanned
<1>3. Placed'
  <2> SUFFICES ASSUME NEW v \in Worker, call'[v].at # "off"
               PROVE  /\ v[2] < job[v[1]].next /\ v[2] \in DOMAIN job[v[1]].todo
                      /\ call'[v].stock = job[v[1]].todo[v[2]].stock
    BY DEF Placed
  <2>1. call[v].at # "off" /\ call'[v].stock = call[v].stock
    BY <1>1
  <2> QED BY <2>1 DEF TypeInv, Placed
<1> QED BY <1>1, <1>2, <1>3

LEMMA WorkerEnds ==
  ASSUME TypeInv, NEW w \in Worker, call[w].at # "off",
         NEW result \in {"reported", "failed", "crashed", "lost"}, Ends(w, result), UNCHANGED job
  PROVE  CallsTyped' /\ JobsTyped' /\ Placed'
<1>1. PICK c : Moves(w, c) /\ WellCalled(c) /\ c.stock = call[w].stock
  BY EndsMoves DEF TypeInv
<1> QED BY <1>1, WorkerGoesOn

LEMMA WorkerGoes ==
  ASSUME TypeInv, NEW w \in Worker, call[w].at # "off", NEW at \in Step, at # "off",
         at \in {"mark", "holders", "tell"} => Flying(call[w]), Goes(w, at), UNCHANGED job
  PROVE  CallsTyped' /\ JobsTyped' /\ Placed'
<1>1. PICK c : Moves(w, c) /\ WellCalled(c) /\ c.stock = call[w].stock
  BY GoesMoves DEF TypeInv
<1> QED BY <1>1, WorkerGoesOn

LEMMA StoreStays ==
  ASSUME StoreTyped, UNCHANGED <<store, second, cut>>
  PROVE  StoreTyped'
BY DEF StoreTyped

LEMMA ReadSubscribersTyped ==
  ASSUME TypeInv, NEW w \in Worker, ReadSubscribers(w), UNCHANGED <<job, store, second, cut>>
  PROVE  TypeInv'
<1>1. call[w].at # "off"
  BY DEF ReadSubscribers
<1>2. CallsTyped' /\ JobsTyped' /\ Placed'
  <2>1. CASE Ends(w, "reported")
    BY <1>1, <2>1, WorkerEnds
  <2>2. CASE call' = [call EXCEPT ![w].at = "plan", ![w].users = subs]
    <3> DEFINE c == [call[w] EXCEPT !.at = "plan", !.users = subs]
    <3>1. call[w] \in Call /\ call[w].stock \in Stock /\ subs \subseteq User
      BY <1>1 DEF TypeInv, CallsTyped, WellCalled, SignalsTyped
    <3>2. c \in Call /\ c.at = "plan" /\ c.stock = call[w].stock
      BY <3>1 DEF Call, Step
    <3>3. WellCalled(c)
      BY <3>1, <3>2 DEF WellCalled, Flying
    <3>4. Moves(w, c)
      BY <2>2 DEF Moves, TypeInv, CallsTyped
    <3> QED BY <1>1, <3>2, <3>3, <3>4, WorkerGoesOn
  <2> QED BY <2>1, <2>2 DEF ReadSubscribers
<1>3. SignalsTyped'
  BY DEF ReadSubscribers, TypeInv, SignalsTyped
<1> QED BY <1>2, <1>3, StoreStays DEF TypeInv

LEMMA PlanIsSignal ==
  ASSUME NEW stock \in Stock, NEW plan \in Plan
  PROVE  HashIdentifier(stock, plan) \in Signal /\ HashIdentifier(stock, plan)[1] = stock
BY DEF HashIdentifier, Signal

\* The plan is a signal nobody has marked, or the worker ends.
LEMMA Planned ==
  ASSUME TypeInv, NEW w \in Worker, NEW minScore, MakePlan(w, minScore)
  PROVE  \/ Ends(w, "reported") /\ UNCHANGED raced
         \/ \E c : \E signal \in Signal \ marks :
              /\ Moves(w, c) /\ WellCalled(c) /\ c.at = "mark" /\ c.signal = signal
              /\ c.stock = call[w].stock /\ c.users = call[w].users /\ c.got = call[w].got
              /\ c.since = call[w].since
              /\ raced' = raced \cup {s \in {signal} : Rivals(w, s) # {}}
<1>1. call[w] \in Call /\ call[w].stock \in Stock /\ call[w].at = "plan"
  BY DEF MakePlan, TypeInv, CallsTyped, WellCalled
<1>2. SUFFICES ASSUME ~(Ends(w, "reported") /\ UNCHANGED raced)
               PROVE  \E c : \E signal \in Signal \ marks :
              /\ Moves(w, c) /\ WellCalled(c) /\ c.at = "mark" /\ c.signal = signal
              /\ c.stock = call[w].stock /\ c.users = call[w].users /\ c.got = call[w].got
              /\ c.since = call[w].since
              /\ raced' = raced \cup {s \in {signal} : Rivals(w, s) # {}}
  OBVIOUS
<1>3. PICK plan \in Plan :
        /\ HashIdentifier(call[w].stock, plan) \notin marks
        /\ call' = [call EXCEPT ![w].at = "mark",
                               ![w].signal = HashIdentifier(call[w].stock, plan)]
        /\ raced' = raced \cup {s \in {HashIdentifier(call[w].stock, plan)} : Rivals(w, s) # {}}
  BY <1>2 DEF MakePlan
<1>4. PICK signal \in Signal : signal = HashIdentifier(call[w].stock, plan) /\ signal[1] = call[w].stock
  BY <1>1, PlanIsSignal
<1> DEFINE c == [call[w] EXCEPT !.at = "mark", !.signal = signal]
<1>5. /\ c \in Call /\ c.at = "mark" /\ c.signal = signal /\ c.stock = call[w].stock
      /\ c.users = call[w].users /\ c.got = call[w].got /\ c.since = call[w].since
  BY <1>1 DEF Call, Step
<1>6. WellCalled(c)
  BY <1>1, <1>4, <1>5 DEF WellCalled, Flying
<1>7. Moves(w, c)
  BY <1>3, <1>4 DEF Moves, TypeInv, CallsTyped
<1>8. signal \in Signal \ marks /\ raced' = raced \cup {s \in {signal} : Rivals(w, s) # {}}
  BY <1>3, <1>4
<1> HIDE DEF c
<1> QED BY <1>5, <1>6, <1>7, <1>8

LEMMA MakePlanTyped ==
  ASSUME TypeInv, NEW w \in Worker, NEW minScore, MakePlan(w, minScore),
         UNCHANGED <<job, store, second, cut>>
  PROVE  TypeInv'
<1>1. call[w].at # "off" /\ UNCHANGED <<subs, holds, marks, told, moved, changes>>
  BY DEF MakePlan
<1>2. CASE Ends(w, "reported") /\ UNCHANGED raced
  BY <1>1, <1>2, WorkerEnds, StoreStays DEF TypeInv, SignalsTyped
<1>3. CASE \E c : \E signal \in Signal \ marks :
             /\ Moves(w, c) /\ WellCalled(c) /\ c.stock = call[w].stock
             /\ raced' = raced \cup {s \in {signal} : Rivals(w, s) # {}}
  <2>1. raced' \subseteq Signal
    BY <1>3 DEF TypeInv, SignalsTyped
  <2> QED BY <1>1, <1>3, <2>1, WorkerGoesOn, StoreStays DEF TypeInv, SignalsTyped
<1> QED BY <1>2, <1>3, Planned

LEMMA MarkTyped ==
  ASSUME TypeInv, NEW w \in Worker, Mark(w), UNCHANGED <<job, store, second, cut>>
  PROVE  TypeInv'
<1>1. call[w].at = "mark" /\ Flying(call[w]) /\ call[w].signal \in Signal
  BY DEF Mark, TypeInv, CallsTyped, WellCalled, Flying
<1>2. CallsTyped' /\ JobsTyped' /\ Placed'
  BY <1>1, WorkerGoes DEF Mark, Step
<1>3. SignalsTyped'
  BY <1>1 DEF Mark, TypeInv, SignalsTyped
<1> QED BY <1>2, <1>3, StoreStays DEF TypeInv

\* Somebody is left to be told, or the worker ends.
LEMMA ToTell ==
  ASSUME TypeInv, NEW w \in Worker, ReadHolders(w)
  PROVE  \/ Ends(w, "reported")
         \/ \E c : /\ Moves(w, c) /\ WellCalled(c) /\ c.at = "tell" /\ c.signal = call[w].signal
                   /\ c.stock = call[w].stock /\ c.got = call[w].got /\ c.since = call[w].since
                   /\ c.users = call[w].users \ Holders(call[w].stock)
<1> DEFINE c == [call[w] EXCEPT !.at = "tell", !.users = call[w].users \ Holders(call[w].stock)]
<1>1. call[w] \in Call /\ WellCalled(call[w]) /\ call[w].at = "holders" /\ Flying(call[w])
  BY DEF ReadHolders, TypeInv, CallsTyped, WellCalled, Flying
<1>2. /\ c \in Call /\ c.at = "tell" /\ c.signal = call[w].signal
      /\ c.stock = call[w].stock /\ c.got = call[w].got /\ c.since = call[w].since
      /\ c.users = call[w].users \ Holders(call[w].stock)
  BY <1>1 DEF Call, Step
<1>3. WellCalled(c)
  BY <1>1, <1>2 DEF WellCalled, Flying
<1>4. Ends(w, "reported") \/ Moves(w, c)
  BY DEF ReadHolders, Moves, TypeInv, CallsTyped
<1> QED BY <1>2, <1>3, <1>4

LEMMA ReadHoldersTyped ==
  ASSUME TypeInv, NEW w \in Worker, ReadHolders(w), UNCHANGED <<job, store, second, cut>>
  PROVE  TypeInv'
<1>1. call[w].at # "off" /\ UNCHANGED <<subs, holds, marks, told, raced, moved, changes>>
  BY DEF ReadHolders
<1>2. CallsTyped' /\ JobsTyped' /\ Placed'
  BY <1>1, ToTell, WorkerEnds, WorkerGoesOn
<1> QED BY <1>1, <1>2, StoreStays DEF TypeInv, SignalsTyped

\* Somebody has been told, and is off the list.
LEMMA Telling ==
  ASSUME TypeInv, NEW w \in Worker, Tell(w)
  PROVE  \E u \in call[w].users :
           /\ told' = [told EXCEPT ![u][call[w].signal] = IF @ = 2 THEN 2 ELSE @ + 1]
           /\ \/ Ends(w, "reported")
              \/ \E c : /\ Moves(w, c) /\ WellCalled(c) /\ c.at = "tell" /\ c.signal = call[w].signal
                        /\ c.stock = call[w].stock /\ c.got = call[w].got
                        /\ c.since = call[w].since /\ c.users = call[w].users \ {u}
<1>1. call[w] \in Call /\ WellCalled(call[w]) /\ call[w].at = "tell" /\ Flying(call[w])
  BY DEF Tell, TypeInv, CallsTyped, WellCalled, Flying
<1>2. PICK u \in call[w].users :
        /\ told' = [told EXCEPT ![u][call[w].signal] = IF @ = 2 THEN 2 ELSE @ + 1]
        /\ Ends(w, "reported") \/ call' = [call EXCEPT ![w].users = @ \ {u}]
  BY DEF Tell
<1> DEFINE c == [call[w] EXCEPT !.users = call[w].users \ {u}]
<1>3. /\ c \in Call /\ c.at = "tell" /\ c.signal = call[w].signal
      /\ c.stock = call[w].stock /\ c.got = call[w].got /\ c.since = call[w].since
      /\ c.users = call[w].users \ {u}
  BY <1>1 DEF Call, Step
<1>4. WellCalled(c)
  BY <1>1, <1>3 DEF WellCalled, Flying
<1>5. Ends(w, "reported") \/ Moves(w, c)
  BY <1>2 DEF Moves, TypeInv, CallsTyped
<1> HIDE DEF c
<1> QED BY <1>2, <1>3, <1>4, <1>5

LEMMA TellTyped ==
  ASSUME TypeInv, NEW w \in Worker, Tell(w), UNCHANGED <<job, store, second, cut>>
  PROVE  TypeInv'
<1>1. call[w].at # "off" /\ UNCHANGED <<subs, holds, marks, raced, moved, changes>>
  BY DEF Tell
<1>2. CallsTyped' /\ JobsTyped' /\ Placed'
  BY <1>1, Telling, WorkerEnds, WorkerGoesOn
<1>3. call[w].signal \in Signal /\ call[w].users \subseteq User
  BY DEF Tell, TypeInv, CallsTyped, WellCalled, Flying, Call
<1>4. told' \in [User -> [Signal -> 0 .. 2]]
  <2>1. PICK u \in call[w].users :
          told' = [told EXCEPT ![u][call[w].signal] = IF @ = 2 THEN 2 ELSE @ + 1]
    BY Telling
  <2>2. told \in [User -> [Signal -> 0 .. 2]]
    BY DEF TypeInv, SignalsTyped
  <2> QED BY <1>3, <2>1, <2>2
<1> QED BY <1>1, <1>2, <1>4, StoreStays DEF TypeInv, SignalsTyped

LEMMA SignalFailsTyped ==
  ASSUME TypeInv, NEW w \in Worker, SignalFails(w), UNCHANGED <<job, store, second, cut>>
  PROVE  TypeInv'
<1>1. call[w].at # "off" /\ UNCHANGED <<subs, holds, marks, told, raced, moved, changes>>
  BY DEF SignalFails
<1>2. CallsTyped' /\ JobsTyped' /\ Placed'
  BY <1>1, WorkerEnds DEF SignalFails
<1> QED BY <1>1, <1>2, StoreStays DEF TypeInv, SignalsTyped

LEMMA SignallingTyped ==
  ASSUME TypeInv, NEW w \in Worker, Signalling(w)
  PROVE  TypeInv'
BY ReadSubscribersTyped, MakePlanTyped, MarkTyped, ReadHoldersTyped, TellTyped, SignalFailsTyped
   DEF Signalling

\* Workers that fetch, store or quote leave the signals and the jobs alone.
LEMMA FetchTyped ==
  ASSUME TypeInv, NEW w \in Worker, Fetch(w)
  PROVE  TypeInv'
<1>1. call[w].at = "fetch" /\ UNCHANGED <<subs, holds, marks, told, raced, moved, changes>>
      /\ UNCHANGED <<job, store, second>>
  BY DEF Fetch, SameSignals
<1>2. call[w] \in Call /\ call[w].stock \in Stock
  BY <1>1 DEF TypeInv, CallsTyped, WellCalled
<1>3. CallsTyped' /\ JobsTyped' /\ Placed' /\ cut' \subseteq Stock \X Second
  <2>1. CASE Ends(w, "failed") /\ UNCHANGED cut
    BY <1>1, <2>1, WorkerEnds DEF TypeInv, StoreTyped
  <2>2. CASE \E got \in Beginnings :
          /\ call' = [call EXCEPT ![w].at = "store", ![w].got = got]
          /\ cut' = cut \cup (IF got = Timeframe THEN {} ELSE {<<call[w].stock, call[w].since>>})
    <3>1. PICK got \in SUBSET Timeframe :
          /\ call' = [call EXCEPT ![w].at = "store", ![w].got = got]
          /\ cut' = cut \cup (IF got = Timeframe THEN {} ELSE {<<call[w].stock, call[w].since>>})
      BY <2>2 DEF Beginnings
    <3> DEFINE c == [call[w] EXCEPT !.at = "store", !.got = got]
    <3>2. c \in Call /\ c.at = "store" /\ c.stock = call[w].stock
      BY <1>2 DEF Call, Step
    <3>3. WellCalled(c)
      BY <1>2, <3>2 DEF WellCalled, Flying
    <3>4. Moves(w, c)
      BY <3>1 DEF Moves, TypeInv, CallsTyped
    <3>5. cut' \subseteq Stock \X Second
      BY <1>2, <3>1 DEF Call, TypeInv, StoreTyped
    <3> HIDE DEF c
    <3> QED BY <1>1, <3>2, <3>3, <3>4, <3>5, WorkerGoesOn
  <2> QED BY <2>1, <2>2 DEF Fetch
<1> QED BY <1>1, <1>3 DEF TypeInv, SignalsTyped, StoreTyped

\* A batch is stored in rows of their types, as many as it has timeframes.
LEMMA Rows ==
  ASSUME NEW w \in Worker, NEW c \in Call, c.stock \in Stock
  PROVE  LET rows == {[stock |-> c.stock, since |-> c.since, tf |-> tf, by |-> w] : tf \in c.got}
         IN  rows \subseteq Analysis /\ IsFiniteSet(rows)
<1> DEFINE rows == {[stock |-> c.stock, since |-> c.since, tf |-> tf, by |-> w] : tf \in c.got}
           row == [tf \in c.got |-> [stock |-> c.stock, since |-> c.since, tf |-> tf, by |-> w]]
<1>1. c.got \subseteq Timeframe
  BY DEF Call
<1>2. IsFiniteSet(c.got)
  BY <1>1, FS_Subset, SignalJobsAssumption
<1>3. row \in Surjection(c.got, rows)
  BY DEF Surjection
<1>4. IsFiniteSet(rows)
  <2> HIDE DEF rows, row
  <2> QED BY <1>2, <1>3, FS_Surjection
<1>5. rows \subseteq Analysis
  BY <1>1 DEF Analysis, Call
<1> QED BY <1>4, <1>5

LEMMA StoreBatchTyped ==
  ASSUME TypeInv, NEW w \in Worker, StoreBatch(w)
  PROVE  TypeInv'
<1>1. call[w].at = "store" /\ UNCHANGED <<subs, holds, marks, told, raced, moved, changes>>
      /\ UNCHANGED <<job, second, cut>>
  BY DEF StoreBatch, SameSignals
<1>2. call[w] \in Call /\ call[w].stock \in Stock
  BY <1>1 DEF TypeInv, CallsTyped, WellCalled
<1>3. CallsTyped' /\ JobsTyped' /\ Placed'
  BY <1>1, WorkerEnds, WorkerGoes DEF StoreBatch, Step
<1>4. store' \subseteq Analysis /\ IsFiniteSet(store')
  <2>1. CASE UNCHANGED store
    BY <2>1 DEF TypeInv, StoreTyped
  <2>2. CASE store' = store \cup {[stock |-> call[w].stock, since |-> call[w].since, tf |-> tf,
                                   by |-> w] : tf \in call[w].got}
    <3>1. PICK rows : /\ store' = store \cup rows
                      /\ rows \subseteq Analysis /\ IsFiniteSet(rows)
      BY <1>2, <2>2, Rows
    <3> QED BY <3>1, FS_Union DEF TypeInv, StoreTyped
  <2> QED BY <2>1, <2>2 DEF StoreBatch
<1> QED BY <1>1, <1>3, <1>4 DEF TypeInv, SignalsTyped, StoreTyped

LEMMA QuoteTyped ==
  ASSUME TypeInv, NEW w \in Worker, Quote(w) \/ Panic(w)
  PROVE  TypeInv'
<1>1. call[w].at # "off" /\ UNCHANGED <<subs, holds, marks, told, raced, moved, changes>>
      /\ UNCHANGED <<job, store, second, cut>>
  BY DEF Quote, Panic, SameSignals
<1>2. \/ Goes(w, "subscribers")
      \/ \E result \in {"reported", "failed", "crashed", "lost"} : Ends(w, result)
  BY DEF Quote, Panic
<1>3. CallsTyped' /\ JobsTyped' /\ Placed'
  BY <1>1, <1>2, WorkerEnds, WorkerGoes DEF Step
<1> QED BY <1>1, <1>3, StoreStays DEF TypeInv, SignalsTyped
------------------------------------------------------------------------------
(* Jobs.                                                                   *)

LEMMA OneJob ==
  ASSUME JobsTyped, NEW j \in Job, NEW r \in JobState, WellPlanned(r), job' = [job EXCEPT ![j] = r]
  PROVE  JobsTyped' /\ job'[j] = r /\ \A k \in Job : k # j => job'[k] = job[k]
BY DEF JobsTyped

\* Each stock or batch of a set once.
LEMMA Orders ==
  ASSUME NEW S, IsFiniteSet(S), S # {}, NEW f \in SetToSeqs(S)
  PROVE  f \in Seq(S) /\ 1 <= Len(f) /\ \A m, n \in DOMAIN f : m # n => f[m] # f[n]
<1>1. Cardinality(S) \in Nat /\ Cardinality(S) # 0
  BY FS_CardinalityType, FS_EmptySet
<1>2. f \in [1 .. Cardinality(S) -> S]
  BY DEF SetToSeqs
<1>3. f \in Seq(S) /\ Len(f) = Cardinality(S)
  BY <1>1, <1>2
<1> QED BY <1>1, <1>3 DEF SetToSeqs

LEMMA ScreenedStocks ==
  ASSUME NEW list \in Lists, list # <<>>, NEW stocks \in Unique(list)
  PROVE  stocks \in Seq(Stock) /\ 1 <= Len(stocks)
         /\ \A m, n \in DOMAIN stocks : m # n => stocks[m] # stocks[n]
<1>1. list \in Seq(Stock)
  BY SignalJobsAssumption
<1>2. ToSet(list) \subseteq Stock /\ ToSet(list) # {}
  <2>1. 1 \in DOMAIN list
    BY <1>1
  <2> QED BY <1>1, <2>1 DEF ToSet
<1>3. IsFiniteSet(ToSet(list))
  BY <1>2, FS_Subset, SignalJobsAssumption
<1>4. stocks \in SetToSeqs(ToSet(list))
  BY DEF Unique
<1>5. /\ stocks \in Seq(ToSet(list)) /\ 1 <= Len(stocks)
      /\ \A m, n \in DOMAIN stocks : m # n => stocks[m] # stocks[n]
  BY <1>2, <1>3, <1>4, Orders
<1>6. stocks \in Seq(Stock)
  BY <1>2, <1>5
<1> QED BY <1>5, <1>6

LEMMA BatchesTyped ==
  ASSUME StoreTyped
  PROVE  Batches \subseteq Batch /\ IsFiniteSet(Batches)
<1> DEFINE batchOf == [r \in store |-> [stock |-> r.stock, since |-> r.since,
              got |-> {q.tf : q \in {q \in store : q.stock = r.stock /\ q.since = r.since}}]]
<1>1. batchOf \in Surjection(store, Batches)
  BY DEF Surjection, Batches
<1>2. IsFiniteSet(Batches)
  <2> HIDE DEF batchOf
  <2> QED BY <1>1, FS_Surjection DEF StoreTyped
<1>3. Batches \subseteq Batch
  BY DEF Batches, Batch, StoreTyped, Analysis
<1> QED BY <1>2, <1>3

\* One batch of a code, so one of a stock.
LEMMA LatestBatches ==
  ASSUME StoreTyped, NEW batches \in Latest(0)
  PROVE  /\ batches \subseteq Batches /\ IsFiniteSet(batches)
         /\ \A b, c \in batches : b.stock = c.stock => b = c
<1> DEFINE whole == {b \in Batches : Cardinality(b.got) >= 0}
           Peers(b) == {c \in whole : CodeOf[c.stock] = CodeOf[b.stock]}
<1>1. batches \subseteq whole /\ \A b \in whole : \E one \in whole : batches \cap Peers(b) = {one}
  BY DEF Latest
<1>2. \A b, c \in batches : b.stock = c.stock => b = c
  <2> SUFFICES ASSUME NEW b \in batches, NEW c \in batches, b.stock = c.stock PROVE b = c
    OBVIOUS
  <2>1. b \in whole /\ c \in whole /\ b \in Peers(b) /\ c \in Peers(b)
    BY <1>1
  <2>2. PICK one : batches \cap Peers(b) = {one}
    BY <1>1, <2>1
  <2> QED BY <2>1, <2>2
<1>3. batches \subseteq Batches
  BY <1>1
<1> QED BY <1>2, <1>3, BatchesTyped, FS_Subset

\* A job that keeps its list and its place in it keeps its workers'.
LEMMA JobGoesOn ==
  ASSUME TypeInv, NEW j \in Job, NEW r \in JobState, WellPlanned(r), job' = [job EXCEPT ![j] = r],
         r.todo = job[j].todo, r.next = job[j].next,
         UNCHANGED <<signalVars, store, second, cut>>
  PROVE  TypeInv'
<1>1. JobsTyped' /\ job'[j] = r /\ \A k \in Job : k # j => job'[k] = job[k]
  BY OneJob DEF TypeInv
<1>2. \A k \in Job : job'[k].todo = job[k].todo /\ job'[k].next = job[k].next
  BY <1>1
<1>3. UNCHANGED call
  BY DEF signalVars
<1>4. CallsTyped'
  BY <1>3 DEF TypeInv, CallsTyped
<1>5. Placed'
  BY <1>2, <1>3 DEF TypeInv, Placed, Worker
<1> QED BY <1>1, <1>4, <1>5 DEF TypeInv, SignalsTyped, StoreTyped, signalVars

LEMMA JobEndsTyped ==
  ASSUME TypeInv, NEW j \in Job, NEW code \in {"success", "partial", "failed", "skipped"},
         JobEnds(j, code), UNCHANGED <<signalVars, store, second, cut>>
  PROVE  TypeInv'
<1> DEFINE r == [job[j] EXCEPT !.at = "ended", !.code = code]
<1>1. job \in [Job -> JobState] /\ job[j] \in JobState /\ WellPlanned(job[j])
  BY DEF TypeInv, JobsTyped
<1>2. r \in JobState /\ r.at = "ended" /\ r.todo = job[j].todo /\ r.next = job[j].next
  BY <1>1 DEF JobState
<1>3. WellPlanned(r)
  BY <1>1, <1>2 DEF WellPlanned
<1>4. job' = [job EXCEPT ![j] = r]
  BY <1>1 DEF JobEnds
<1> HIDE DEF r
<1> QED BY <1>2, <1>3, <1>4, JobGoesOn

\* A job that was idle has no worker yet, and gets its list.
LEMMA JobBegins ==
  ASSUME TypeInv, NEW j \in Job, job[j].at = "idle", NEW at \in {"loop", "acquire"},
         NEW todo \in Seq(Batch), 1 <= Len(todo),
         \A m, n \in DOMAIN todo : m # n => todo[m].stock # todo[n].stock,
         job' = [job EXCEPT ![j].at = at, ![j].todo = todo],
         UNCHANGED <<signalVars, store, second, cut>>
  PROVE  TypeInv'
<1> DEFINE r == [job[j] EXCEPT !.at = at, !.todo = todo]
<1>1. job \in [Job -> JobState] /\ job[j] \in JobState /\ WellPlanned(job[j])
  BY DEF TypeInv, JobsTyped
<1>2. r \in JobState /\ r.at = at /\ r.todo = todo /\ r.next = job[j].next
  BY <1>1 DEF JobState
<1>3. job[j].next = 1
  BY <1>1 DEF WellPlanned
<1>4. WellPlanned(r)
  BY <1>2, <1>3 DEF WellPlanned
<1>5. job' = [job EXCEPT ![j] = r]
  BY <1>1
<1> HIDE DEF r
<1>6. JobsTyped' /\ job'[j] = r /\ \A k \in Job : k # j => job'[k] = job[k]
  BY <1>2, <1>4, <1>5, OneJob DEF TypeInv
<1>7. UNCHANGED call
  BY DEF signalVars
<1>8. \A w \in Worker : w[1] = j => call[w].at = "off"
  <2> SUFFICES ASSUME NEW w \in Worker, w[1] = j, call[w].at # "off" PROVE FALSE
    OBVIOUS
  <2>1. w[2] < 1 /\ w[2] \in DOMAIN job[j].todo
    BY <1>3 DEF TypeInv, Placed
  <2>2. DOMAIN job[j].todo = 1 .. Len(job[j].todo)
    BY <1>1 DEF JobState
  <2> QED BY <2>1, <2>2
<1>9. Placed'
  BY <1>6, <1>7, <1>8 DEF TypeInv, Placed, Worker
<1>10. CallsTyped'
  BY <1>7 DEF TypeInv, CallsTyped
<1> QED BY <1>6, <1>9, <1>10 DEF TypeInv, SignalsTyped, StoreTyped, signalVars

LEMMA ScreenTyped ==
  ASSUME TypeInv, NEW j \in Job, Screen(j)
  PROVE  TypeInv'
<1>1. CASE JobEnds(j, "failed") \/ JobEnds(j, "skipped")
  BY <1>1, JobEndsTyped DEF Screen
<1>2. CASE \E list \in Lists : list # <<>> /\ \E stocks \in Unique(list) :
             job' = [job EXCEPT ![j].at = "loop", ![j].todo =
               [i \in DOMAIN stocks |-> [stock |-> stocks[i], since |-> 0, got |-> {}]]]
  <2>1. PICK list \in Lists : list # <<>> /\ \E stocks \in Unique(list) :
          job' = [job EXCEPT ![j].at = "loop", ![j].todo =
            [i \in DOMAIN stocks |-> [stock |-> stocks[i], since |-> 0, got |-> {}]]]
    BY <1>2
  <2>2. PICK stocks \in Unique(list) :
          job' = [job EXCEPT ![j].at = "loop", ![j].todo =
            [i \in DOMAIN stocks |-> [stock |-> stocks[i], since |-> 0, got |-> {}]]]
    BY <2>1
  <2>3. /\ stocks \in Seq(Stock) /\ 1 <= Len(stocks)
        /\ \A m, n \in DOMAIN stocks : m # n => stocks[m] # stocks[n]
    BY <2>1, ScreenedStocks
  <2> DEFINE todo == [i \in DOMAIN stocks |-> [stock |-> stocks[i], since |-> 0, got |-> {}]]
  <2>4. todo \in Seq(Batch) /\ 1 <= Len(todo)
    <3>1. DOMAIN stocks = 1 .. Len(stocks) /\ Len(stocks) \in Nat
      BY <2>3
    <3>2. todo \in [1 .. Len(stocks) -> Batch]
      BY <2>3, <3>1, SignalJobsAssumption DEF Batch
    <3>3. todo \in Seq(Batch) /\ Len(todo) = Len(stocks)
      <4> HIDE DEF todo
      <4> QED BY <3>1, <3>2
    <3> QED BY <2>3, <3>3
  <2>5. \A m, n \in DOMAIN todo : m # n => todo[m].stock # todo[n].stock
    BY <2>3
  <2>6. job[j].at = "idle" /\ job' = [job EXCEPT ![j].at = "loop", ![j].todo = todo]
    BY <2>2 DEF Screen
  <2> HIDE DEF todo
  <2> QED BY <2>4, <2>5, <2>6, JobBegins DEF Screen
<1> QED BY <1>1, <1>2 DEF Screen

LEMMA ReadLatestTyped ==
  ASSUME TypeInv, NEW j \in Job, ReadLatest(j)
  PROVE  TypeInv'
<1>1. CASE JobEnds(j, "failed") \/ JobEnds(j, "skipped")
  BY <1>1, JobEndsTyped DEF ReadLatest
<1>2. CASE \E batches \in Latest(0) : batches # {} /\ \E todo \in SetToSeqs(batches) :
             job' = [job EXCEPT ![j].at = "acquire", ![j].todo = todo]
  <2>1. PICK batches \in Latest(0) : batches # {} /\ \E todo \in SetToSeqs(batches) :
          job' = [job EXCEPT ![j].at = "acquire", ![j].todo = todo]
    BY <1>2
  <2>2. PICK todo \in SetToSeqs(batches) :
          job' = [job EXCEPT ![j].at = "acquire", ![j].todo = todo]
    BY <2>1
  <2>3. /\ batches \subseteq Batch /\ IsFiniteSet(batches)
        /\ \A b, c \in batches : b.stock = c.stock => b = c
    BY LatestBatches, BatchesTyped DEF TypeInv
  <2>4. /\ todo \in Seq(batches) /\ 1 <= Len(todo)
        /\ \A m, n \in DOMAIN todo : m # n => todo[m] # todo[n]
    BY <2>1, <2>3, Orders
  <2>5. \A m, n \in DOMAIN todo : m # n => todo[m].stock # todo[n].stock
    BY <2>3, <2>4
  <2>6. todo \in Seq(Batch)
    BY <2>3, <2>4
  <2>7. job[j].at = "idle" /\ UNCHANGED <<signalVars, store, second, cut>>
    BY DEF ReadLatest
  <2> DEFINE start == "acquire"
  <2>8. start \in {"loop", "acquire"} /\ job' = [job EXCEPT ![j].at = start, ![j].todo = todo]
    BY <2>2
  <2> HIDE DEF start
  <2> QED BY <2>4, <2>5, <2>6, <2>7, <2>8, JobBegins
<1> QED BY <1>1, <1>2 DEF ReadLatest

LEMMA JobWaitsTyped ==
  ASSUME TypeInv, NEW j \in Job, LoopOn(j) \/ Return(j) \/ ContextEnds(j)
  PROVE  TypeInv'
<1>1. job \in [Job -> JobState] /\ job[j] \in JobState /\ WellPlanned(job[j])
  BY DEF TypeInv, JobsTyped
<1>2. CASE LoopOn(j)
  <2>1. PICK at \in {"wait", "acquire"} : job' = [job EXCEPT ![j].at = at]
    BY <1>2 DEF LoopOn
  <2> DEFINE r == [job[j] EXCEPT !.at = at]
  <2>2. r \in JobState /\ r.at = at /\ r.todo = job[j].todo /\ r.next = job[j].next
    BY <1>1 DEF JobState
  <2>3. WellPlanned(r)
    BY <1>1, <1>2, <2>2 DEF WellPlanned, LoopOn
  <2>4. job' = [job EXCEPT ![j] = r]
    BY <1>1, <2>1
  <2> HIDE DEF r
  <2> QED BY <1>2, <2>2, <2>3, <2>4, JobGoesOn DEF LoopOn
<1>3. CASE Return(j)
  <2>1. Code(j) \in {"success", "partial", "failed", "skipped"}
    BY DEF Code
  <2> QED BY <1>3, <2>1, JobEndsTyped DEF Return
<1>4. CASE ContextEnds(j)
  <2> DEFINE r == [job[j] EXCEPT !.over = TRUE]
  <2>1. r \in JobState /\ r.at = job[j].at /\ r.todo = job[j].todo /\ r.next = job[j].next
    BY <1>1 DEF JobState
  <2>2. WellPlanned(r)
    BY <1>1, <2>1 DEF WellPlanned
  <2>3. job' = [job EXCEPT ![j] = r]
    BY <1>1, <1>4 DEF ContextEnds
  <2> HIDE DEF r
  <2> QED BY <1>4, <2>1, <2>2, <2>3, JobGoesOn DEF ContextEnds
<1> QED BY <1>2, <1>3, <1>4

\* The record a worker starts with.
LEMMA Starting ==
  ASSUME TypeInv, NEW j \in Job, StartWorker(j)
  PROVE  LET i == job[j].next
             batch == job[j].todo[i]
         IN  /\ i \in DOMAIN job[j].todo /\ batch \in Batch
             /\ second' \in Second
             /\ \E c : /\ Moves(<<j, i>>, c) /\ WellCalled(c) /\ c.stock = batch.stock
                       /\ \/ j \in Analyzers /\ c.at = "fetch"
                          \/ /\ j \notin Analyzers /\ c.at = "quote"
                             /\ c.got = batch.got /\ c.since = batch.since
             /\ \E at \in {"wait", "loop"} :
                  /\ at = "loop" <=> i # Len(job[j].todo)
                  /\ job' = [job EXCEPT ![j].next = i + 1, ![j].at = at]
<1> DEFINE i == job[j].next
           batch == job[j].todo[i]
           new == [Off(batch.since) EXCEPT !.stock = batch.stock, !.got = batch.got]
<1>1. job[j] \in JobState /\ WellPlanned(job[j]) /\ job[j].at = "acquire"
  BY DEF TypeInv, JobsTyped, StartWorker
<1>2. i \in DOMAIN job[j].todo /\ batch \in Batch
  BY <1>1 DEF WellPlanned, JobState
<1>3. batch.stock \in Stock /\ batch.since \in Second /\ batch.got \subseteq Timeframe
  BY <1>2 DEF Batch
<1>4. second' \in Second /\ second \in Second
  BY DEF StartWorker, TypeInv, StoreTyped
<1>5. new \in Call /\ new.stock = batch.stock /\ new.got = batch.got /\ new.since = batch.since
  BY <1>3 DEF Off, Call, Step
<1> HIDE DEF new
<1>6. \E c : /\ Moves(<<j, i>>, c) /\ WellCalled(c) /\ c.stock = batch.stock
             /\ \/ j \in Analyzers /\ c.at = "fetch"
                \/ /\ j \notin Analyzers /\ c.at = "quote"
                   /\ c.got = batch.got /\ c.since = batch.since
  <2>1. CASE j \in Analyzers
    <3> DEFINE c == [new EXCEPT !.at = "fetch", !.since = second']
    <3>1. c \in Call /\ c.at = "fetch" /\ c.stock = batch.stock
      BY <1>4, <1>5 DEF Call, Step
    <3>2. WellCalled(c)
      BY <1>3, <3>1 DEF WellCalled, Flying
    <3>3. Moves(<<j, i>>, c)
      BY <2>1 DEF StartWorker, Moves, new
    <3> QED BY <2>1, <3>1, <3>2, <3>3
  <2>2. CASE j \notin Analyzers
    <3> DEFINE c == [new EXCEPT !.at = "quote"]
    <3>1. /\ c \in Call /\ c.at = "quote" /\ c.stock = batch.stock
          /\ c.got = batch.got /\ c.since = batch.since
      BY <1>5 DEF Call, Step
    <3>2. WellCalled(c)
      BY <1>3, <3>1 DEF WellCalled, Flying
    <3>3. Moves(<<j, i>>, c)
      BY <2>2 DEF StartWorker, Moves, new
    <3> QED BY <2>2, <3>1, <3>2, <3>3
  <2> QED BY <2>1, <2>2
<1>7. \E at \in {"wait", "loop"} :
        /\ at = "loop" <=> i # Len(job[j].todo)
        /\ job' = [job EXCEPT ![j].next = i + 1, ![j].at = at]
  BY DEF StartWorker
<1> QED BY <1>2, <1>4, <1>6, <1>7

LEMMA StartWorkerTyped ==
  ASSUME TypeInv, NEW j \in Job, StartWorker(j)
  PROVE  TypeInv'
<1>1. PICK i : i = job[j].next
  OBVIOUS
<1>2. PICK batch : batch = job[j].todo[i]
  OBVIOUS
<1>3. i \in DOMAIN job[j].todo /\ batch \in Batch /\ second' \in Second
  BY <1>1, <1>2, Starting
<1>4. PICK c : Moves(<<j, i>>, c) /\ WellCalled(c) /\ c.stock = batch.stock
  BY <1>1, <1>2, Starting
<1>5. PICK at \in {"wait", "loop"} : /\ at = "loop" <=> i # Len(job[j].todo)
                                     /\ job' = [job EXCEPT ![j].next = i + 1, ![j].at = at]
  BY <1>1, Starting
<1>6. job \in [Job -> JobState] /\ job[j] \in JobState /\ WellPlanned(job[j]) /\ job[j].at = "acquire"
  BY DEF TypeInv, JobsTyped, StartWorker
<1>7. i \in Nat \ {0} /\ i <= Len(job[j].todo) /\ Len(job[j].todo) \in Nat
  BY <1>1, <1>6 DEF WellPlanned, JobState
<1> DEFINE r == [job[j] EXCEPT !.next = i + 1, !.at = at]
<1>8. r \in JobState /\ r.at = at /\ r.next = i + 1 /\ r.todo = job[j].todo
  BY <1>5, <1>6, <1>7 DEF JobState
<1>9. WellPlanned(r)
  BY <1>5, <1>6, <1>7, <1>8 DEF WellPlanned
<1>10. job' = [job EXCEPT ![j] = r]
  BY <1>5, <1>6
<1> HIDE DEF r
<1>11. JobsTyped' /\ job'[j] = r /\ \A k \in Job : k # j => job'[k] = job[k]
  BY <1>8, <1>9, <1>10, OneJob DEF TypeInv
<1>12. /\ CallsTyped'
       /\ \A w \in Worker : call'[w] = IF w = <<j, i>> THEN c ELSE call[w]
  BY <1>4 DEF TypeInv, CallsTyped, Moves
<1>13. Placed'
  <2> SUFFICES ASSUME NEW w \in Worker, call'[w].at # "off"
               PROVE  /\ w[2] < job'[w[1]].next /\ w[2] \in DOMAIN job'[w[1]].todo
                      /\ call'[w].stock = job'[w[1]].todo[w[2]].stock
    BY DEF Placed
  <2>1. CASE w = <<j, i>>
    BY <1>2, <1>3, <1>4, <1>7, <1>8, <1>11, <1>12, <2>1
  <2>2. CASE w # <<j, i>>
    <3>1. /\ w[2] < job[w[1]].next /\ w[2] \in DOMAIN job[w[1]].todo
          /\ call'[w].stock = job[w[1]].todo[w[2]].stock
      BY <1>12, <2>2 DEF TypeInv, Placed
    <3>2. CASE w[1] = j
      <4>1. w[2] < i /\ w[2] \in 1 .. Len(job[j].todo)
        BY <1>1, <1>6, <3>1, <3>2 DEF JobState
      <4> QED BY <1>7, <1>8, <1>11, <3>1, <3>2, <4>1
    <3>3. CASE w[1] # j
      BY <1>11, <3>1, <3>3 DEF Worker
    <3> QED BY <3>2, <3>3
  <2> QED BY <2>1, <2>2
<1>14. UNCHANGED <<subs, holds, marks, told, raced, moved, changes, store, cut>>
  BY DEF StartWorker
<1> QED BY <1>3, <1>11, <1>12, <1>13, <1>14 DEF TypeInv, SignalsTyped, StoreTyped

LEMMA OutsideTyped ==
  ASSUME TypeInv, Outside
  PROVE  TypeInv'
<1>1. UNCHANGED <<call, job, store, second, cut>>
  BY DEF Outside, UserActs, SetAlertSignal, Trade, Changed, MarkExpires
<1>2. CallsTyped' /\ JobsTyped' /\ Placed' /\ StoreTyped'
  BY <1>1 DEF TypeInv, CallsTyped, JobsTyped, Placed, StoreTyped
<1>3. changes < MaxChanges /\ changes' = changes + 1
  BY DEF Outside, UserActs, SetAlertSignal, Trade, Changed, MarkExpires
<1>4. changes' \in 0 .. MaxChanges
  BY <1>3, SendSignalAssumption DEF TypeInv, SignalsTyped
<1>5. SignalsTyped'
  <2>1. CASE \E s \in Signal : MarkExpires(s)
    <3>1. PICK s \in Signal : MarkExpires(s)
      BY <2>1
    <3>2. told' \in [User -> [Signal -> 0 .. 2]]
      BY <3>1 DEF MarkExpires, TypeInv, SignalsTyped
    <3> QED BY <1>4, <3>1, <3>2 DEF MarkExpires, TypeInv, SignalsTyped
  <2>2. CASE \E u \in User : SetAlertSignal(u) \/ \E s \in Traded : Trade(u, s)
    <3>1. PICK u \in User : SetAlertSignal(u) \/ \E s \in Traded : Trade(u, s)
      BY <2>2
    <3>2. Changed(u)
      BY <3>1 DEF SetAlertSignal, Trade
    <3>3. moved' \in [Worker -> SUBSET User]
      BY <3>2 DEF Changed, TypeInv, SignalsTyped
    <3>4. subs' \subseteq User
      BY <3>1 DEF SetAlertSignal, Trade, TypeInv, SignalsTyped
    <3>5. holds' \subseteq User \X Stock
      <4>1. CASE UNCHANGED holds
        BY <4>1 DEF TypeInv, SignalsTyped
      <4>2. CASE \E s \in Traded : holds' \subseteq holds \cup {<<u, s>>}
        BY <4>2, SendSignalAssumption DEF TypeInv, SignalsTyped
      <4> QED BY <3>1, <4>1, <4>2 DEF SetAlertSignal, Trade
    <3> QED BY <1>4, <3>2, <3>3, <3>4, <3>5 DEF Changed, TypeInv, SignalsTyped
  <2> QED BY <2>1, <2>2 DEF Outside, UserActs
<1> QED BY <1>2, <1>5 DEF TypeInv

LEMMA TypeBegins ==
  Init => TypeInv
<1> SUFFICES ASSUME Init PROVE TypeInv
  OBVIOUS
<1>1. 0 \in Second /\ MaxChanges \in Nat
  BY SignalJobsAssumption, SendSignalAssumption
<1>2. call = [w \in Worker |-> Off(0)]
  BY DEF Init, InitSignals
<1>3. WellCalled(Off(0)) /\ Off(0).at = "off"
  BY <1>1, OffCalled DEF WellCalled, Flying
<1>4. CallsTyped /\ Placed
  BY <1>2, <1>3 DEF CallsTyped, Placed
<1>5. SignalsTyped
  BY <1>1 DEF Init, InitSignals, SignalsTyped
<1>6. StoreTyped
  BY <1>1, FS_EmptySet DEF Init, StoreTyped
<1>7. NewJob \in JobState /\ WellPlanned(NewJob)
  BY DEF NewJob, JobState, WellPlanned
<1>8. JobsTyped
  BY <1>7 DEF Init, JobsTyped
<1> QED BY <1>4, <1>5, <1>6, <1>8 DEF TypeInv

LEMMA TypeStep ==
  TypeInv /\ [Next]_vars => TypeInv'
<1> SUFFICES ASSUME TypeInv, [Next]_vars PROVE TypeInv'
  OBVIOUS
<1>1. CASE UNCHANGED vars
  BY <1>1 DEF vars, signalVars, TypeInv, CallsTyped, SignalsTyped, StoreTyped, JobsTyped, Placed
<1> QED BY <1>1, SignallingTyped, FetchTyped, StoreBatchTyped, QuoteTyped, ScreenTyped,
           ReadLatestTyped, JobWaitsTyped, StartWorkerTyped, OutsideTyped
        DEF Next, Inside, WorkerActs, JobActs

LEMMA TypeAlways ==
  Spec => []TypeInv
<1> QED BY TypeBegins, TypeStep, PTL DEF Spec

\* Workers, jobs, marks and rows keep their types, for any lists, jobs and workers;
\* no job works on a stock twice.
THEOREM SignalsTypeCorrect == Spec => []TypeOK
<1> QED BY TypeAlways, TypeInvTyped, PTL
------------------------------------------------------------------------------
(* One job tells a user of a signal once.                                  *)

\* A worker on its way to tell has set the mark, or is about to.
Marked ==
  \A w \in Worker : call[w].at \in {"holders", "tell"} => call[w].signal \in marks

\* Two workers on their way with one signal found it unmarked both.
Races ==
  \A v, w \in Worker :
    v # w /\ Flying(call[v]) /\ Flying(call[w]) /\ call[v].signal = call[w].signal
      => call[w].signal \in raced

ToldIsMarked ==
  \A u \in User, s \in Signal : told[u][s] > 0 => s \in marks

\* Whoever is still on the list of a worker has not been told of its signal.
Untold ==
  \A w \in Worker : Flying(call[w]) =>
    \A u \in call[w].users : told[u][call[w].signal] > 0 => call[w].signal \in raced

TellInv == Marked /\ Races /\ ToldIsMarked /\ Untold /\ OneJobTellsOnce

\* The workers of one job have signals of their own.
LEMMA OwnSignal ==
  ASSUME TypeInv, NEW v \in Worker, NEW w \in Worker, v # w, v[1] = w[1],
         call[v].at # "off", call[w].at # "off"
  PROVE  call[v].stock # call[w].stock
<1>1. /\ v[2] \in DOMAIN job[w[1]].todo /\ call[v].stock = job[w[1]].todo[v[2]].stock
      /\ w[2] \in DOMAIN job[w[1]].todo /\ call[w].stock = job[w[1]].todo[w[2]].stock
  BY DEF TypeInv, Placed
<1>2. v[2] # w[2] /\ w[1] \in Job
  BY DEF Worker
<1> QED BY <1>1, <1>2 DEF TypeInv, JobsTyped, WellPlanned

\* A worker that tells nobody, and changes nothing but itself.
LEMMA QuietCall ==
  ASSUME TypeInv, TellInv, NEW w, NEW c, Moves(w, c), ~Flying(c), UNCHANGED <<marks, told, raced>>
  PROVE  TellInv'
<1>1. \A v \in Worker : call'[v] = c \/ call'[v] = call[v]
  BY DEF Moves, TypeInv, CallsTyped
<1>2. Marked' /\ Races' /\ Untold'
  BY <1>1 DEF TellInv, Marked, Races, Untold, Flying
<1> QED BY <1>2 DEF TellInv, ToldIsMarked, OneJobTellsOnce

LEMMA QuietTells ==
  ASSUME TellInv, UNCHANGED <<call, marks, told, raced>>
  PROVE  TellInv'
BY DEF TellInv, Marked, Races, ToldIsMarked, Untold, OneJobTellsOnce

LEMMA EndsTells ==
  ASSUME TypeInv, TellInv, NEW w \in Worker, call[w].at # "off",
         NEW result \in {"reported", "failed", "crashed", "lost"}, Ends(w, result),
         UNCHANGED <<marks, told, raced>>
  PROVE  TellInv'
<1>1. PICK c : Moves(w, c) /\ c.at = "done"
  BY EndsMoves DEF TypeInv
<1> QED BY <1>1, QuietCall DEF Flying

LEMMA GoesTells ==
  ASSUME TypeInv, TellInv, NEW w \in Worker, call[w].at # "off",
         Goes(w, "subscribers"), UNCHANGED <<marks, told, raced>>
  PROVE  TellInv'
<1>1. PICK c : Moves(w, c) /\ c.at = "subscribers"
  BY GoesMoves DEF TypeInv, Step
<1> QED BY <1>1, QuietCall DEF Flying

LEMMA MakePlanTells ==
  ASSUME TypeInv, TellInv, NEW w \in Worker, NEW minScore, MakePlan(w, minScore)
  PROVE  TellInv'
<1>1. call[w].at = "plan" /\ UNCHANGED <<marks, told>>
  BY DEF MakePlan
<1>2. CASE Ends(w, "reported") /\ UNCHANGED raced
  BY <1>1, <1>2, EndsTells
<1>3. CASE \E c : \E signal \in Signal \ marks :
              /\ Moves(w, c) /\ WellCalled(c) /\ c.at = "mark" /\ c.signal = signal
              /\ c.stock = call[w].stock /\ c.users = call[w].users
              /\ raced' = raced \cup {s \in {signal} : Rivals(w, s) # {}}
  <2>1. PICK c : \E signal \in Signal \ marks :
              /\ Moves(w, c) /\ WellCalled(c) /\ c.at = "mark" /\ c.signal = signal
              /\ c.stock = call[w].stock /\ c.users = call[w].users
              /\ raced' = raced \cup {s \in {signal} : Rivals(w, s) # {}}
    BY <1>3
  <2>2. PICK signal \in Signal \ marks :
              /\ Moves(w, c) /\ WellCalled(c) /\ c.at = "mark" /\ c.signal = signal
              /\ c.stock = call[w].stock /\ c.users = call[w].users
              /\ raced' = raced \cup {s \in {signal} : Rivals(w, s) # {}}
    BY <2>1
  <2>3. call'[w] = c /\ \A v \in Worker : v # w => call'[v] = call[v]
    BY <2>2, OneCall DEF TypeInv
  <2>4. Marked'
    BY <1>1, <2>2, <2>3 DEF TellInv, Marked
  <2>5. ASSUME NEW v \in Worker, v # w, Flying(call[v]), call[v].signal = signal
        PROVE  signal \in raced'
    <3>1. call[v].at = "mark"
      BY <2>2, <2>5 DEF TellInv, Marked, Flying
    <3>2. call[v].stock = call[w].stock
      BY <2>2, <2>5 DEF WellCalled, Flying, TypeInv, CallsTyped
    <3>3. v[1] # w[1]
      BY <1>1, <2>5, <3>1, <3>2, OwnSignal
    <3>4. v \in Rivals(w, signal)
      BY <2>5, <3>1, <3>3 DEF Rivals
    <3> QED BY <2>2, <3>4
  <2>6. Races'
    BY <2>2, <2>3, <2>5 DEF TellInv, Races, Flying
  <2>7. Untold'
    <3> SUFFICES ASSUME NEW v \in Worker, Flying(call'[v]), NEW u \in call'[v].users,
                        told[u][call'[v].signal] > 0
                 PROVE  call'[v].signal \in raced'
      BY <1>1 DEF Untold
    <3>1. CASE v = w
      <4>1. u \in User
        BY <2>2, <2>3, <3>1 DEF WellCalled, Call
      <4> QED BY <2>2, <2>3, <3>1, <4>1 DEF TellInv, ToldIsMarked
    <3>2. CASE v # w
      BY <2>2, <2>3, <3>2 DEF TellInv, Untold
    <3> QED BY <3>1, <3>2
  <2> QED BY <1>1, <2>2, <2>4, <2>6, <2>7 DEF TellInv, ToldIsMarked, OneJobTellsOnce
<1> QED BY <1>2, <1>3, Planned

LEMMA MarkTells ==
  ASSUME TypeInv, TellInv, NEW w \in Worker, Mark(w)
  PROVE  TellInv'
<1>1. call[w].at = "mark" /\ Flying(call[w])
  BY DEF Mark, Flying
<1>2. PICK c : /\ Moves(w, c) /\ WellCalled(c) /\ c.at = "holders"
               /\ c.signal = call[w].signal /\ c.users = call[w].users
  BY <1>1, GoesMoves DEF Mark, TypeInv, Step
<1>3. call'[w] = c /\ \A v \in Worker : v # w => call'[v] = call[v]
  BY <1>2, OneCall DEF TypeInv
<1>4. marks' = marks \cup {call[w].signal} /\ UNCHANGED <<told, raced>>
  BY DEF Mark
<1>5. \A v \in Worker : /\ Flying(call'[v]) <=> Flying(call[v])
                        /\ Flying(call'[v]) => /\ call'[v].signal = call[v].signal
                                               /\ call'[v].users = call[v].users
  BY <1>1, <1>2, <1>3 DEF Flying
<1>6. Marked'
  BY <1>2, <1>3, <1>4 DEF TellInv, Marked
<1>7. Races' /\ Untold'
  BY <1>4, <1>5 DEF TellInv, Races, Untold
<1> QED BY <1>4, <1>6, <1>7 DEF TellInv, ToldIsMarked, OneJobTellsOnce

LEMMA ReadHoldersTells ==
  ASSUME TypeInv, TellInv, NEW w \in Worker, ReadHolders(w)
  PROVE  TellInv'
<1>1. call[w].at = "holders" /\ Flying(call[w]) /\ UNCHANGED <<marks, told, raced>>
  BY DEF ReadHolders, Flying
<1>2. CASE Ends(w, "reported")
  BY <1>1, <1>2, EndsTells
<1>3. CASE \E c : /\ Moves(w, c) /\ WellCalled(c) /\ c.at = "tell" /\ c.signal = call[w].signal
                  /\ c.users = call[w].users \ Holders(call[w].stock)
  <2>1. PICK c : /\ Moves(w, c) /\ WellCalled(c) /\ c.at = "tell" /\ c.signal = call[w].signal
                 /\ c.users \subseteq call[w].users
    BY <1>3
  <2>2. call'[w] = c /\ \A v \in Worker : v # w => call'[v] = call[v]
    BY <2>1, OneCall DEF TypeInv
  <2>3. \A v \in Worker : /\ Flying(call'[v]) <=> Flying(call[v])
                          /\ Flying(call'[v]) => /\ call'[v].signal = call[v].signal
                                                 /\ call'[v].users \subseteq call[v].users
    BY <1>1, <2>1, <2>2 DEF Flying
  <2>4. Marked'
    BY <1>1, <2>1, <2>2 DEF TellInv, Marked
  <2>5. Races'
    BY <1>1, <2>3 DEF TellInv, Races
  <2>6. Untold'
    BY <1>1, <2>3 DEF TellInv, Untold
  <2> QED BY <1>1, <2>4, <2>5, <2>6 DEF TellInv, ToldIsMarked, OneJobTellsOnce
<1> QED BY <1>2, <1>3, ToTell

LEMMA TellTells ==
  ASSUME TypeInv, TellInv, NEW w \in Worker, Tell(w)
  PROVE  TellInv'
<1>1. /\ call[w].at = "tell" /\ Flying(call[w]) /\ UNCHANGED <<marks, raced>>
      /\ call[w].signal \in Signal /\ call[w].users \subseteq User
  BY DEF Tell, Flying, TypeInv, CallsTyped, WellCalled, Call
<1>2. PICK u \in call[w].users :
        /\ told' = [told EXCEPT ![u][call[w].signal] = IF @ = 2 THEN 2 ELSE @ + 1]
        /\ \/ Ends(w, "reported")
           \/ \E c : /\ Moves(w, c) /\ c.at = "tell" /\ c.signal = call[w].signal
                     /\ c.users = call[w].users \ {u}
  BY Telling
<1>3. PICK c : /\ Moves(w, c)
               /\ \/ ~Flying(c)
                  \/ c.at = "tell" /\ c.signal = call[w].signal /\ c.users = call[w].users \ {u}
  <2>1. CASE Ends(w, "reported")
    BY <1>1, <2>1, EndsMoves DEF TypeInv, Flying
  <2> QED BY <1>2, <2>1
<1>4. call'[w] = c /\ \A v \in Worker : v # w => call'[v] = call[v]
  BY <1>3 DEF Moves, TypeInv, CallsTyped
<1>5. /\ \A v \in User, s \in Signal :
           <<v, s>> # <<u, call[w].signal>> => told'[v][s] = told[v][s]
      /\ told[u][call[w].signal] \in 0 .. 2
      /\ told'[u][call[w].signal] > 1 => told[u][call[w].signal] > 0
  <2>1. told \in [User -> [Signal -> 0 .. 2]] /\ u \in User
    BY <1>1 DEF TypeInv, SignalsTyped
  <2> QED BY <1>1, <1>2, <2>1
<1>6. \A v \in Worker : /\ Flying(call'[v]) => Flying(call[v])
                        /\ Flying(call'[v]) => /\ call'[v].signal = call[v].signal
                                               /\ call'[v].users \subseteq call[v].users
                                               /\ v = w => u \notin call'[v].users
  BY <1>1, <1>3, <1>4
<1>7. Marked'
  BY <1>1, <1>3, <1>4 DEF TellInv, Marked, Flying
<1>8. Races'
  BY <1>1, <1>6 DEF TellInv, Races
<1>9. call[w].signal \in marks
  BY <1>1 DEF TellInv, Marked
<1>10. ToldIsMarked'
  BY <1>1, <1>5, <1>9 DEF TellInv, ToldIsMarked
<1>11. Untold'
  <2> SUFFICES ASSUME NEW v \in Worker, Flying(call'[v]), NEW a \in call'[v].users,
                      told'[a][call'[v].signal] > 0
               PROVE  call'[v].signal \in raced
    BY <1>1 DEF Untold
  <2>1. /\ Flying(call[v]) /\ call'[v].signal = call[v].signal /\ a \in call[v].users
        /\ (v = w => a # u) /\ a \in User /\ call[v].signal \in Signal
    BY <1>6 DEF TypeInv, CallsTyped, WellCalled, Call
  <2>2. CASE a = u /\ call[v].signal = call[w].signal
    BY <1>1, <2>1, <2>2 DEF TellInv, Races
  <2>3. CASE ~(a = u /\ call[v].signal = call[w].signal)
    BY <1>5, <2>1, <2>3 DEF TellInv, Untold
  <2> QED BY <2>2, <2>3
<1>12. OneJobTellsOnce'
  <2>1. told[u][call[w].signal] > 0 => call[w].signal \in raced
    BY <1>1 DEF TellInv, Untold
  <2> QED BY <1>1, <1>5, <2>1 DEF TellInv, OneJobTellsOnce
<1> QED BY <1>7, <1>8, <1>10, <1>11, <1>12 DEF TellInv

LEMMA OutsideTells ==
  ASSUME TypeInv, TellInv, Outside
  PROVE  TellInv'
<1>1. CASE \E s \in Signal : MarkExpires(s)
  <2>1. PICK s \in Signal : MarkExpires(s)
    BY <1>1
  <2>2. \A w \in Worker : Flying(call[w]) => call[w].signal # s
    BY <2>1 DEF MarkExpires, InFlight, Flying
  <2>3. marks' = marks \ {s} /\ raced' = raced \ {s} /\ UNCHANGED call
    BY <2>1 DEF MarkExpires
  <2>4. \A u \in User, t \in Signal : told'[u][t] = IF t = s THEN 0 ELSE told[u][t]
    BY <2>1 DEF MarkExpires, TypeInv, SignalsTyped
  <2>5. Marked' /\ Races'
    BY <2>2, <2>3 DEF TellInv, Marked, Races, Flying
  <2>6. ToldIsMarked' /\ OneJobTellsOnce'
    BY <2>3, <2>4 DEF TellInv, ToldIsMarked, OneJobTellsOnce
  <2>7. Untold'
    <3> SUFFICES ASSUME NEW w \in Worker, Flying(call[w]), NEW u \in call[w].users,
                        told'[u][call[w].signal] > 0
                 PROVE  call[w].signal \in raced'
      BY <2>3 DEF Untold
    <3>1. u \in User /\ call[w].signal \in Signal /\ call[w].signal # s
      BY <2>2 DEF TypeInv, CallsTyped, WellCalled, Call
    <3> QED BY <2>3, <2>4, <3>1 DEF TellInv, Untold
  <2> QED BY <2>5, <2>6, <2>7 DEF TellInv
<1>2. CASE UserActs
  BY <1>2, QuietTells DEF UserActs, SetAlertSignal, Trade, Changed
<1> QED BY <1>1, <1>2 DEF Outside

LEMMA WorkerTells ==
  ASSUME TypeInv, TellInv, NEW w \in Worker, WorkerActs(w)
  PROVE  TellInv'
<1>1. CASE Fetch(w)
  <2>1. CASE Ends(w, "failed")
    BY <1>1, <2>1, EndsTells DEF Fetch, SameSignals
  <2>2. CASE \E got \in Beginnings : call' = [call EXCEPT ![w].at = "store", ![w].got = got]
    <3>1. PICK got \in Beginnings : call' = [call EXCEPT ![w].at = "store", ![w].got = got]
      BY <2>2
    <3> DEFINE c == [call[w] EXCEPT !.at = "store", !.got = got]
    <3>2. Moves(w, c) /\ c.at = "store"
      BY <3>1 DEF Moves, TypeInv, CallsTyped, WellCalled, Call
    <3> QED BY <1>1, <3>2, QuietCall DEF Fetch, SameSignals, Flying
  <2> QED BY <1>1, <2>1, <2>2 DEF Fetch
<1>2. CASE StoreBatch(w) \/ Quote(w) \/ Panic(w)
  BY <1>2, EndsTells, GoesTells DEF StoreBatch, Quote, Panic, SameSignals
<1>3. CASE ReadSubscribers(w)
  <2>1. CASE Ends(w, "reported")
    BY <1>3, <2>1, EndsTells DEF ReadSubscribers
  <2>2. CASE call' = [call EXCEPT ![w].at = "plan", ![w].users = subs]
    <3> DEFINE c == [call[w] EXCEPT !.at = "plan", !.users = subs]
    <3>1. Moves(w, c) /\ c.at = "plan"
      BY <2>2 DEF Moves, TypeInv, CallsTyped, WellCalled, Call
    <3> QED BY <1>3, <3>1, QuietCall DEF ReadSubscribers, Flying
  <2> QED BY <1>3, <2>1, <2>2 DEF ReadSubscribers
<1>4. CASE SignalFails(w)
  BY <1>4, EndsTells DEF SignalFails
<1> QED BY <1>1, <1>2, <1>3, <1>4, MakePlanTells, MarkTells, ReadHoldersTells, TellTells
        DEF WorkerActs, Signalling

LEMMA JobTells ==
  ASSUME TypeInv, TellInv, NEW j \in Job, JobActs(j) \/ ContextEnds(j)
  PROVE  TellInv'
<1>1. CASE StartWorker(j)
  <2>1. PICK c : Moves(<<j, job[j].next>>, c) /\ c.at \in {"fetch", "quote"}
    BY <1>1, Starting
  <2> QED BY <1>1, <2>1, QuietCall DEF StartWorker, Flying
<1> QED BY <1>1, QuietTells
        DEF JobActs, ContextEnds, Screen, ReadLatest, LoopOn, Return, signalVars

LEMMA TellStep ==
  TypeInv /\ TellInv /\ [Next]_vars => TellInv'
<1> SUFFICES ASSUME TypeInv, TellInv, [Next]_vars PROVE TellInv'
  OBVIOUS
<1>1. CASE UNCHANGED vars
  BY <1>1, QuietTells DEF vars, signalVars
<1> QED BY <1>1, WorkerTells, JobTells, OutsideTells DEF Next, Inside

\* Nobody is told of a signal twice in the life of its mark, unless two jobs looked
\* the mark up before either set it: whatever their lists, the workers of one job
\* never do (send_signal.go:114).
THEOREM OneJobTells == Spec => []OneJobTellsOnce
<1>1. Init => TellInv
  BY DEF Init, InitSignals, Off, Flying, TellInv, Marked, Races, ToldIsMarked, Untold,
         OneJobTellsOnce
<1> QED BY <1>1, TellStep, TypeAlways, PTL DEF Spec, TellInv
------------------------------------------------------------------------------
(* Only users who want a message get one.                                  *)

\* Who is on a worker's list wanted to be when it was read, and holds nothing once
\* the holders are off it; or he has changed his mind since.
Wanted ==
  \A w \in Worker : call[w].at \in {"plan", "mark", "holders", "tell"} =>
    \A u \in call[w].users :
      \/ u \in moved[w]
      \/ u \in subs /\ (call[w].at = "tell" => <<u, call[w].stock>> \notin holds)

\* A step that makes no list longer keeps it, unless it puts a worker among those
\* that tell.
LEMMA ListShrinks ==
  ASSUME Wanted, NEW w \in Worker, NEW c, Moves(w, c), call \in [Worker -> Call],
         UNCHANGED <<subs, holds, moved>>,
         \/ c.at \notin {"plan", "mark", "holders", "tell"}
         \/ /\ c.users \subseteq call[w].users /\ c.stock = call[w].stock
            /\ c.at \in {"mark", "holders"} \/ (c.at = "tell" /\ call[w].at = "tell")
            /\ call[w].at \in {"plan", "mark", "holders", "tell"}
  PROVE  Wanted'
<1>1. call'[w] = c /\ \A v \in Worker : v # w => call'[v] = call[v]
  BY DEF Moves
<1> QED BY <1>1 DEF Wanted

LEMMA CallsAreFunction ==
  TypeInv => call \in [Worker -> Call]
BY DEF TypeInv, CallsTyped, WellCalled

LEMMA EndsWanted ==
  ASSUME TypeInv, Wanted, NEW w \in Worker, call[w].at # "off", UNCHANGED <<subs, holds, moved>>,
         \/ Goes(w, "subscribers")
         \/ \E result \in {"reported", "failed", "crashed", "lost"} : Ends(w, result)
  PROVE  Wanted'
<1>1. PICK c : Moves(w, c) /\ c.at \in {"done", "subscribers"}
  BY EndsMoves, GoesMoves DEF TypeInv, Step
<1> QED BY <1>1, ListShrinks, CallsAreFunction

LEMMA SignallingWanted ==
  ASSUME TypeInv, Wanted, NEW w \in Worker, Signalling(w)
  PROVE  Wanted'
<1>1. CASE ReadSubscribers(w)
  <2>1. CASE Ends(w, "reported")
    <3>1. PICK c : Moves(w, c) /\ c.at = "done"
      BY <1>1, <2>1, EndsMoves DEF ReadSubscribers, TypeInv
    <3>2. \A v \in Worker : call'[v] = c \/ (v # w /\ call'[v] = call[v])
      BY <3>1, CallsAreFunction DEF Moves
    <3>3. \A v \in Worker : v # w => moved'[v] = moved[v]
      BY <1>1 DEF ReadSubscribers, TypeInv, SignalsTyped
    <3> QED BY <1>1, <3>1, <3>2, <3>3 DEF Wanted, ReadSubscribers
  <2>2. CASE call' = [call EXCEPT ![w].at = "plan", ![w].users = subs]
    <3>1. /\ call'[w].at = "plan" /\ call'[w].users = subs
          /\ \A v \in Worker : v # w => call'[v] = call[v]
      BY <2>2, CallsAreFunction DEF Call
    <3>2. \A v \in Worker : v # w => moved'[v] = moved[v]
      BY <1>1 DEF ReadSubscribers, TypeInv, SignalsTyped
    <3> QED BY <1>1, <3>1, <3>2 DEF Wanted, ReadSubscribers
  <2> QED BY <1>1, <2>1, <2>2 DEF ReadSubscribers
<1>2. CASE \E minScore : MakePlan(w, minScore)
  <2>1. call[w].at = "plan" /\ UNCHANGED <<subs, holds, moved>>
    BY <1>2 DEF MakePlan
  <2>2. CASE \E c : /\ Moves(w, c) /\ c.at = "mark" /\ c.stock = call[w].stock
                    /\ c.users = call[w].users
    BY <2>1, <2>2, ListShrinks, CallsAreFunction
  <2> QED BY <1>2, <2>1, <2>2, Planned, EndsWanted
<1>3. CASE Mark(w)
  <2>1. PICK c : Moves(w, c) /\ c.at = "holders" /\ c.stock = call[w].stock /\ c.users = call[w].users
    BY <1>3, GoesMoves DEF Mark, TypeInv, Step, Flying
  <2>2. call[w].at = "mark" /\ UNCHANGED <<subs, holds, moved>>
    BY <1>3 DEF Mark
  <2> QED BY <2>1, <2>2, ListShrinks, CallsAreFunction
<1>4. CASE ReadHolders(w)
  <2>1. call[w].at = "holders" /\ UNCHANGED <<subs, holds, moved>>
    BY <1>4 DEF ReadHolders
  <2>2. CASE \E c : /\ Moves(w, c) /\ c.at = "tell" /\ c.stock = call[w].stock
                    /\ c.users = call[w].users \ Holders(call[w].stock)
    <3>1. PICK c : /\ Moves(w, c) /\ c.at = "tell" /\ c.stock = call[w].stock
                   /\ c.users = call[w].users \ Holders(call[w].stock)
      BY <2>2
    <3>2. call'[w] = c /\ \A v \in Worker : v # w => call'[v] = call[v]
      BY <3>1, CallsAreFunction DEF Moves
    <3>3. \A u \in c.users : u \in call[w].users /\ <<u, c.stock>> \notin holds
      BY <3>1, CallsAreFunction DEF Holders, Call
    <3> QED BY <2>1, <3>1, <3>2, <3>3 DEF Wanted
  <2> QED BY <1>4, <2>1, <2>2, ToTell, EndsWanted
<1>5. CASE Tell(w)
  <2>1. call[w].at = "tell" /\ UNCHANGED <<subs, holds, moved>>
    BY <1>5 DEF Tell
  <2> QED BY <1>5, <2>1, Telling, EndsWanted, ListShrinks, CallsAreFunction
<1>6. CASE SignalFails(w)
  BY <1>6, EndsWanted DEF SignalFails
<1> QED BY <1>1, <1>2, <1>3, <1>4, <1>5, <1>6 DEF Signalling

LEMMA WorkerWanted ==
  ASSUME TypeInv, Wanted, NEW w \in Worker, WorkerActs(w)
  PROVE  Wanted'
<1>1. CASE Fetch(w)
  <2>1. CASE \E got \in Beginnings : call' = [call EXCEPT ![w].at = "store", ![w].got = got]
    <3>1. PICK got \in Beginnings : call' = [call EXCEPT ![w].at = "store", ![w].got = got]
      BY <2>1
    <3> DEFINE c == [call[w] EXCEPT !.at = "store", !.got = got]
    <3>2. Moves(w, c) /\ c.at = "store"
      BY <3>1, CallsAreFunction DEF Moves, Call
    <3> QED BY <1>1, <3>2, ListShrinks, CallsAreFunction DEF Fetch, SameSignals
  <2> QED BY <1>1, <2>1, EndsWanted DEF Fetch, SameSignals
<1>2. CASE StoreBatch(w) \/ Quote(w) \/ Panic(w)
  BY <1>2, EndsWanted DEF StoreBatch, Quote, Panic, SameSignals
<1> QED BY <1>1, <1>2, SignallingWanted DEF WorkerActs

LEMMA OtherWanted ==
  ASSUME TypeInv, Wanted, Outside \/ \E j \in Job : JobActs(j) \/ ContextEnds(j)
  PROVE  Wanted'
<1>1. CASE \E u \in User : SetAlertSignal(u) \/ \E s \in Traded : Trade(u, s)
  <2>1. PICK u \in User : SetAlertSignal(u) \/ \E s \in Traded : Trade(u, s)
    BY <1>1
  <2>2. /\ UNCHANGED call
        /\ \A w \in Worker : call[w].at \in {"plan", "mark", "holders", "tell"} =>
             moved'[w] = moved[w] \cup {u}
    BY <2>1 DEF SetAlertSignal, Trade, Changed, TypeInv, SignalsTyped
  <2>3. \A v : v # u => /\ v \in subs' <=> v \in subs
                        /\ \A s : <<v, s>> \in holds' <=> <<v, s>> \in holds
    <3>1. CASE SetAlertSignal(u)
      BY <3>1 DEF SetAlertSignal
    <3>2. CASE \E s \in Traded : Trade(u, s)
      <4>1. PICK s \in Traded : Trade(u, s)
        BY <3>2
      <4>2. UNCHANGED subs
        BY <4>1 DEF Trade
      <4>3. holds' = holds \cup {<<u, s>>} \/ holds' = holds \ {<<u, s>>}
        BY <4>1 DEF Trade
      <4> QED BY <4>2, <4>3
    <3> QED BY <2>1, <3>1, <3>2
  <2> QED BY <2>2, <2>3 DEF Wanted
<1>2. CASE \E j \in Job : StartWorker(j)
  <2>1. PICK j \in Job : StartWorker(j)
    BY <1>2
  <2>2. PICK c : Moves(<<j, job[j].next>>, c) /\ c.at \in {"fetch", "quote"}
    BY <2>1, Starting
  <2>3. \A v \in Worker : call'[v] = c \/ call'[v] = call[v]
    BY <2>2, CallsAreFunction DEF Moves
  <2> QED BY <2>1, <2>2, <2>3 DEF StartWorker, Wanted
<1>3. CASE UNCHANGED <<call, subs, holds, moved>>
  BY <1>3 DEF Wanted
<1> QED BY <1>1, <1>2, <1>3 DEF Outside, UserActs, MarkExpires, JobActs, ContextEnds, Screen,
                                ReadLatest, LoopOn, Return, signalVars

LEMMA WantedAlways ==
  Spec => []Wanted
<1>1. Init => Wanted
  BY DEF Init, InitSignals, Off, Wanted
<1>2. TypeInv /\ Wanted /\ [Next]_vars => Wanted'
  BY WorkerWanted, OtherWanted DEF Next, Inside, vars, signalVars, Wanted
<1> QED BY <1>1, <1>2, TypeAlways, PTL DEF Spec

\* Only Tell tells.
LEMMA ToldByTell ==
  ASSUME TypeInv, [Next]_vars, NEW u \in User, NEW s \in Signal, told'[u][s] > told[u][s]
  PROVE  \E w \in Worker : Tell(w)
<1>1. told[u][s] \in 0 .. 2
  BY DEF TypeInv, SignalsTyped
<1>2. ~UNCHANGED told
  BY <1>1
<1>3. CASE \E t \in Signal : MarkExpires(t)
  <2>1. told'[u][s] \in {0, told[u][s]}
    BY <1>3 DEF MarkExpires, TypeInv, SignalsTyped
  <2> QED BY <1>1, <2>1
<1>4. ~(\E j \in Job : JobActs(j) \/ ContextEnds(j)) /\ ~UNCHANGED vars /\ ~UserActs
  BY <1>2 DEF JobActs, ContextEnds, Screen, ReadLatest, LoopOn, Return, StartWorker, signalVars,
              vars, UserActs, SetAlertSignal, Trade, Changed
<1>5. \A w \in Worker : WorkerActs(w) => Tell(w)
  BY <1>2 DEF WorkerActs, Signalling, Fetch, StoreBatch, Quote, Panic, SameSignals, ReadSubscribers,
              MakePlan, Mark, ReadHolders, SignalFails
<1> QED BY <1>3, <1>4, <1>5 DEF Next, Inside, Outside

\* A user who is told wants it, or has switched his alert or traded since the call
\* read the subscribers, whichever calls and jobs overlap (send_signal.go:71, 122).
THEOREM ToldAreWanted == Spec => OnlyWanted
<1>1. ASSUME TypeInv, Wanted, [Next]_vars, NEW u \in User, NEW s \in Signal,
             told'[u][s] > told[u][s]
      PROVE  \E w \in Worker :
               /\ call[w].at = "tell" /\ call[w].signal = s /\ u \in call[w].users
               /\ u \in moved[w] \/ (u \in subs /\ <<u, s[1]>> \notin holds)
  <2>1. PICK w \in Worker : Tell(w)
    BY <1>1, ToldByTell
  <2>2. PICK a \in call[w].users :
          told' = [told EXCEPT ![a][call[w].signal] = IF @ = 2 THEN 2 ELSE @ + 1]
    BY <1>1, <2>1, Telling
  <2>3. /\ call[w].at = "tell" /\ call[w].signal[1] = call[w].stock
        /\ call[w].signal \in Signal /\ call[w].users \subseteq User
    BY <1>1, <2>1 DEF Tell, TypeInv, CallsTyped, WellCalled, Flying, Call
  <2>4. told \in [User -> [Signal -> 0 .. 2]]
    BY <1>1 DEF TypeInv, SignalsTyped
  <2>5. a = u /\ call[w].signal = s
    <3>1. told[u][s] \in 0 .. 2
      BY <2>4
    <3> QED BY <1>1, <2>2, <2>3, <2>4, <3>1
  <2>6. u \in moved[w] \/ (u \in subs /\ <<u, call[w].stock>> \notin holds)
    BY <1>1, <2>3, <2>5 DEF Wanted
  <2> QED BY <2>3, <2>5, <2>6
<1>2. TypeInv /\ Wanted /\ [Next]_vars =>
        [\A u \in User, s \in Signal :
           told'[u][s] > told[u][s] =>
             \E w \in Worker :
               /\ call[w].at = "tell" /\ call[w].signal = s /\ u \in call[w].users
               /\ u \in moved[w] \/ (u \in subs /\ <<u, s[1]>> \notin holds)]_vars
  BY <1>1
<1> QED BY <1>2, TypeAlways, WantedAlways, PTL DEF Spec, OnlyWanted
------------------------------------------------------------------------------
(* Batches are whole.                                                      *)

\* A batch has all its timeframes, or its analysis was ended.
IsWhole(b, ended) == b.got = Timeframe \/ <<b.stock, b.since>> \in ended

WholeCalls ==
  \A w \in Worker :
    call[w].at \in {"store", "quote", "subscribers", "plan", "mark", "holders", "tell"} =>
      IsWhole(call[w], cut)

WholeLists ==
  \A j \in Job \ Analyzers : \A i \in DOMAIN job[j].todo : IsWhole(job[j].todo[i], cut)

WholeRows ==
  \A r \in store : <<r.stock, r.since>> \notin cut =>
    \A tf \in Timeframe : \E q \in store : q.stock = r.stock /\ q.since = r.since /\ q.tf = tf

WholeInv == WholeCalls /\ WholeLists /\ WholeRows

LEMMA WholeBatches ==
  ASSUME StoreTyped, WholeRows
  PROVE  \A b \in Batches : IsWhole(b, cut)
<1> SUFFICES ASSUME NEW b \in Batches, <<b.stock, b.since>> \notin cut
             PROVE  b.got = Timeframe
  BY DEF IsWhole
<1>1. PICK r \in store :
        b = [stock |-> r.stock, since |-> r.since,
             got |-> {q.tf : q \in {q \in store : q.stock = r.stock /\ q.since = r.since}}]
  BY DEF Batches
<1>2. {q.tf : q \in {q \in store : q.stock = r.stock /\ q.since = r.since}} = Timeframe
  BY <1>1 DEF WholeRows, StoreTyped, Analysis
<1> QED BY <1>1, <1>2

LEMMA WholeMeans ==
  TypeInv /\ WholeInv => BatchesAreWhole
BY WholeBatches DEF TypeInv, WholeInv, WholeCalls, BatchesAreWhole, IsWhole

\* One worker goes on with a whole batch or with none.
LEMMA WholeCall ==
  ASSUME WholeInv, call \in [Worker -> Call], NEW w, NEW c, Moves(w, c), cut \subseteq cut',
         c.at \in {"store", "quote", "subscribers", "plan", "mark", "holders", "tell"} =>
           IsWhole(c, cut'),
         UNCHANGED store, \A j \in Job : job'[j].todo = job[j].todo
  PROVE  WholeInv'
<1>1. \A v \in Worker : call'[v] = c \/ call'[v] = call[v]
  BY DEF Moves
<1>2. WholeCalls'
  BY <1>1 DEF WholeInv, WholeCalls, IsWhole
<1>3. WholeLists' /\ WholeRows'
  BY DEF WholeInv, WholeLists, WholeRows, IsWhole
<1> QED BY <1>2, <1>3 DEF WholeInv

LEMMA WholeStays ==
  ASSUME WholeInv, UNCHANGED <<call, store, cut>>, \A j \in Job : job'[j].todo = job[j].todo
  PROVE  WholeInv'
BY DEF WholeInv, WholeCalls, WholeLists, WholeRows, IsWhole

LEMMA EndsWhole ==
  ASSUME TypeInv, WholeInv, NEW w \in Worker, call[w].at # "off", UNCHANGED <<job, store, cut>>,
         NEW result \in {"reported", "failed", "crashed", "lost"}, Ends(w, result)
  PROVE  WholeInv'
<1>1. PICK c : Moves(w, c) /\ c.at = "done"
  BY EndsMoves DEF TypeInv
<1> QED BY <1>1, WholeCall, CallsAreFunction

\* A worker that goes on with the batch it has.
LEMMA SameBatchWhole ==
  ASSUME TypeInv, WholeInv, NEW w \in Worker, NEW c, Moves(w, c), UNCHANGED <<job, store, cut>>,
         call[w].at \in {"store", "quote", "subscribers", "plan", "mark", "holders", "tell"},
         c.stock = call[w].stock, c.since = call[w].since, c.got = call[w].got
  PROVE  WholeInv'
<1>1. IsWhole(c, cut)
  BY DEF WholeInv, WholeCalls, IsWhole
<1> QED BY <1>1, WholeCall, CallsAreFunction

LEMMA SignallingWhole ==
  ASSUME TypeInv, WholeInv, NEW w \in Worker, Signalling(w)
  PROVE  WholeInv'
<1>1. /\ call[w].at \in {"subscribers", "plan", "mark", "holders", "tell"}
      /\ UNCHANGED <<job, store, cut>>
  BY DEF Signalling, ReadSubscribers, MakePlan, Mark, ReadHolders, Tell, SignalFails
<1>2. CASE \E c : /\ Moves(w, c) /\ c.stock = call[w].stock /\ c.since = call[w].since
                  /\ c.got = call[w].got
  BY <1>1, <1>2, SameBatchWhole
<1>3. CASE Ends(w, "reported")
  BY <1>1, <1>3, EndsWhole
<1>4. CASE call' = [call EXCEPT ![w].at = "plan", ![w].users = subs]
  <2> DEFINE c == [call[w] EXCEPT !.at = "plan", !.users = subs]
  <2>1. Moves(w, c) /\ c.stock = call[w].stock /\ c.since = call[w].since /\ c.got = call[w].got
    BY <1>4, CallsAreFunction DEF Moves, Call
  <2> QED BY <1>1, <2>1, SameBatchWhole
<1>5. Mark(w) => \E c : /\ Moves(w, c) /\ c.stock = call[w].stock /\ c.since = call[w].since
                        /\ c.got = call[w].got
  BY GoesMoves DEF Mark, TypeInv, Step, Flying
<1>6. (\E minScore : MakePlan(w, minScore)) \/ ReadHolders(w) \/ Tell(w) =>
        \/ Ends(w, "reported")
        \/ \E c : /\ Moves(w, c) /\ c.stock = call[w].stock /\ c.since = call[w].since
                  /\ c.got = call[w].got
  BY Planned, ToTell, Telling
<1> QED BY <1>2, <1>3, <1>4, <1>5, <1>6 DEF Signalling, ReadSubscribers, SignalFails

LEMMA FetchWhole ==
  ASSUME TypeInv, WholeInv, NEW w \in Worker, Fetch(w)
  PROVE  WholeInv'
<1>1. call[w].at = "fetch" /\ UNCHANGED <<job, store>>
  BY DEF Fetch
<1>2. CASE Ends(w, "failed") /\ UNCHANGED cut
  BY <1>1, <1>2, EndsWhole
<1>3. CASE \E got \in Beginnings :
        /\ call' = [call EXCEPT ![w].at = "store", ![w].got = got]
        /\ cut' = cut \cup (IF got = Timeframe THEN {} ELSE {<<call[w].stock, call[w].since>>})
  <2>1. PICK got \in Beginnings :
        /\ call' = [call EXCEPT ![w].at = "store", ![w].got = got]
        /\ cut' = cut \cup (IF got = Timeframe THEN {} ELSE {<<call[w].stock, call[w].since>>})
    BY <1>3
  <2> DEFINE c == [call[w] EXCEPT !.at = "store", !.got = got]
  <2>2. Moves(w, c) /\ c.stock = call[w].stock /\ c.since = call[w].since /\ c.got = got
    BY <2>1, CallsAreFunction DEF Moves, Call
  <2>3. IsWhole(c, cut') /\ cut \subseteq cut'
    BY <2>1, <2>2 DEF IsWhole
  <2> HIDE DEF c
  <2> QED BY <1>1, <2>2, <2>3, WholeCall, CallsAreFunction
<1> QED BY <1>2, <1>3 DEF Fetch

LEMMA StoreBatchWhole ==
  ASSUME TypeInv, WholeInv, NEW w \in Worker, StoreBatch(w)
  PROVE  WholeInv'
<1>1. call[w].at = "store" /\ UNCHANGED <<job, cut>> /\ call[w] \in Call
  BY CallsAreFunction DEF StoreBatch
<1>2. CASE Ends(w, "failed") /\ UNCHANGED store
  BY <1>1, <1>2, EndsWhole
<1>3. CASE Goes(w, "subscribers") /\
           store' = store \cup {[stock |-> call[w].stock, since |-> call[w].since, tf |-> tf,
                                 by |-> w] : tf \in call[w].got}
  <2>1. IsWhole(call[w], cut)
    BY <1>1 DEF WholeInv, WholeCalls
  <2>2. PICK c : /\ Moves(w, c) /\ c.stock = call[w].stock /\ c.since = call[w].since
                 /\ c.got = call[w].got
    BY <1>1, <1>3, GoesMoves DEF TypeInv, Step
  <2>3. \A v \in Worker : call'[v] = c \/ call'[v] = call[v]
    BY <2>2, CallsAreFunction DEF Moves
  <2>4. WholeCalls' /\ WholeLists'
    BY <1>1, <2>1, <2>2, <2>3 DEF WholeInv, WholeCalls, WholeLists, IsWhole
  <2>5. WholeRows'
    <3> SUFFICES ASSUME NEW r \in store', <<r.stock, r.since>> \notin cut, NEW tf \in Timeframe
                 PROVE  \E q \in store' : q.stock = r.stock /\ q.since = r.since /\ q.tf = tf
      BY <1>1 DEF WholeRows
    <3>1. CASE r \in store
      BY <1>3, <3>1 DEF WholeInv, WholeRows
    <3>2. CASE r \notin store
      <4>1. r.stock = call[w].stock /\ r.since = call[w].since
        BY <1>3, <3>2
      <4>2. tf \in call[w].got
        BY <2>1, <4>1 DEF IsWhole
      <4> DEFINE q == [stock |-> call[w].stock, since |-> call[w].since, tf |-> tf, by |-> w]
      <4>3. q \in store'
        BY <1>3, <4>2
      <4> QED BY <4>1, <4>3
    <3> QED BY <3>1, <3>2
  <2> QED BY <2>4, <2>5 DEF WholeInv
<1> QED BY <1>2, <1>3 DEF StoreBatch

LEMMA QuoteWhole ==
  ASSUME TypeInv, WholeInv, NEW w \in Worker, Quote(w) \/ Panic(w)
  PROVE  WholeInv'
<1>1. /\ call[w].at \in {"quote", "store", "plan"} /\ UNCHANGED <<job, store, cut>>
  BY DEF Quote, Panic
<1>2. CASE Goes(w, "subscribers")
  BY <1>1, <1>2, GoesMoves, SameBatchWhole DEF TypeInv, Step
<1>3. CASE \E result \in {"reported", "failed", "crashed", "lost"} : Ends(w, result)
  BY <1>1, <1>3, EndsWhole
<1> QED BY <1>2, <1>3 DEF Quote, Panic

LEMMA JobWhole ==
  ASSUME TypeInv, WholeInv, NEW j \in Job, JobActs(j) \/ ContextEnds(j)
  PROVE  WholeInv'
<1>1. job \in [Job -> JobState]
  BY DEF TypeInv, JobsTyped
<1>2. CASE StartWorker(j)
  <2>1. PICK c : /\ Moves(<<j, job[j].next>>, c)
                 /\ c.stock = job[j].todo[job[j].next].stock
                 /\ \/ j \in Analyzers /\ c.at = "fetch"
                    \/ /\ j \notin Analyzers /\ c.at = "quote"
                       /\ c.got = job[j].todo[job[j].next].got
                       /\ c.since = job[j].todo[job[j].next].since
    BY <1>2, Starting
  <2>2. c.at = "quote" => IsWhole(c, cut)
    <3>1. job[j].next \in DOMAIN job[j].todo
      BY <1>2, Starting
    <3>2. j \notin Analyzers => IsWhole(job[j].todo[job[j].next], cut)
      BY <3>1 DEF WholeInv, WholeLists
    <3> QED BY <2>1, <3>2 DEF IsWhole
  <2>3. UNCHANGED <<store, cut>> /\ \A k \in Job : job'[k].todo = job[k].todo
    BY <1>1, <1>2 DEF StartWorker, JobState
  <2> QED BY <2>1, <2>2, <2>3, WholeCall, CallsAreFunction
<1>3. CASE LoopOn(j) \/ Return(j) \/ ContextEnds(j) \/ \E code : JobEnds(j, code)
  <2>1. \A k \in Job : job'[k].todo = job[k].todo
    <3>1. \A code : JobEnds(j, code) => \A k \in Job : job'[k].todo = job[k].todo
      BY <1>1 DEF JobEnds, JobState
    <3>2. \A at : job' = [job EXCEPT ![j].at = at] => \A k \in Job : job'[k].todo = job[k].todo
      BY <1>1 DEF JobState
    <3>3. ContextEnds(j) => \A k \in Job : job'[k].todo = job[k].todo
      BY <1>1 DEF ContextEnds, JobState
    <3>4. LoopOn(j) => \E at : job' = [job EXCEPT ![j].at = at]
      BY DEF LoopOn
    <3> QED BY <1>3, <3>1, <3>2, <3>3, <3>4 DEF Return
  <2>2. CASE StartWorker(j)
    BY <1>2, <2>2
  <2>3. CASE ~StartWorker(j)
    BY <2>1, <2>3, WholeStays DEF JobActs, ContextEnds, Screen, ReadLatest, LoopOn, Return, signalVars
  <2> QED BY <2>2, <2>3
<1>4. CASE Screen(j)
  <2>1. \A k \in Job \ Analyzers : job'[k] = job[k]
    BY <1>1, <1>4 DEF Screen, JobEnds
  <2>2. UNCHANGED <<call, store, cut>>
    BY <1>4 DEF Screen, signalVars
  <2> QED BY <2>1, <2>2 DEF WholeInv, WholeCalls, WholeLists, WholeRows, IsWhole
<1>5. CASE ReadLatest(j) /\ \E batches \in Latest(0) : batches # {} /\ \E todo \in SetToSeqs(batches) :
             job' = [job EXCEPT ![j].at = "acquire", ![j].todo = todo]
  <2>1. PICK batches \in Latest(0) : batches # {} /\ \E todo \in SetToSeqs(batches) :
          job' = [job EXCEPT ![j].at = "acquire", ![j].todo = todo]
    BY <1>5
  <2>2. PICK todo \in SetToSeqs(batches) :
          job' = [job EXCEPT ![j].at = "acquire", ![j].todo = todo]
    BY <2>1
  <2>3. IsFiniteSet(batches) /\ \A b \in batches : IsWhole(b, cut)
    BY LatestBatches, WholeBatches DEF TypeInv, WholeInv
  <2>4. \A i \in DOMAIN todo : IsWhole(todo[i], cut)
    BY <2>1, <2>3, Orders
  <2>5. UNCHANGED <<call, store, cut>>
    BY <1>5 DEF ReadLatest, signalVars
  <2>6. job'[j].todo = todo /\ \A k \in Job : k # j => job'[k] = job[k]
    BY <1>1, <2>2 DEF JobState
  <2>7. WholeLists'
    BY <2>4, <2>5, <2>6 DEF WholeInv, WholeLists
  <2> QED BY <2>5, <2>7 DEF WholeInv, WholeCalls, WholeRows
<1> QED BY <1>2, <1>3, <1>4, <1>5 DEF JobActs, ReadLatest

LEMMA WholeStep ==
  TypeInv /\ WholeInv /\ [Next]_vars => WholeInv'
<1> SUFFICES ASSUME TypeInv, WholeInv, [Next]_vars PROVE WholeInv'
  OBVIOUS
<1>1. CASE Outside \/ UNCHANGED vars
  BY <1>1, WholeStays DEF Outside, UserActs, SetAlertSignal, Trade, Changed, MarkExpires,
                          vars, signalVars
<1> QED BY <1>1, SignallingWhole, FetchWhole, StoreBatchWhole, QuoteWhole, JobWhole
        DEF Next, Inside, WorkerActs

\* No reader finds, and no signal is made of, a batch that lacks a timeframe, unless a
\* context ended while its analysis was being started (stock_analyzer.go:230).
THEOREM WholeBatchesOnly == Spec => []BatchesAreWhole
<1>1. Init => WholeInv
  BY DEF Init, InitSignals, Off, NewJob, WholeInv, WholeCalls, WholeLists, WholeRows
<1> QED BY <1>1, WholeStep, WholeMeans, TypeAlways, PTL DEF Spec
------------------------------------------------------------------------------
(* An analyzer that reports success has stored its analyses.               *)

\* A worker of the analyzer is past its insert.
PastStore(c) ==
  \/ c.at \in {"subscribers", "plan", "mark", "holders", "tell"}
  \/ c.at = "done" /\ c.result \in {"reported", "lost"}

Row(w, c, tf) == [stock |-> c.stock, since |-> c.since, tf |-> tf, by |-> w]

IsStored(w, c, rows, ended) ==
  <<c.stock, c.since>> \in ended \/ \A tf \in Timeframe : Row(w, c, tf) \in rows

StoredCalls ==
  \A w \in Worker :
    /\ w[1] \in Analyzers /\ PastStore(call[w]) => IsStored(w, call[w], store, cut)
    /\ w[1] \in Analyzers => call[w].at # "quote"
    /\ call[w].at = "done" => call[w].result # "none"
    /\ call[w].at = "off" => call[w].result = "none"

\* The list is worked through unless the context ended, and success means that no
\* worker failed.
RunsThrough(j) ==
  /\ j.at = "idle" => j.todo = <<>>
  /\ j.at \in {"wait", "ended"} /\ ~j.over => j.next = Len(j.todo) + 1
  /\ j.at # "ended" => j.code = "none"
  /\ DOMAIN j.todo \subseteq Slot

JobsRunThrough ==
  \A j \in Analyzers :
    /\ RunsThrough(job[j])
    /\ \A i \in Slot : i < job[j].next => call[<<j, i>>].at # "off"
    /\ job[j].code = "success" =>
         \A i \in Slot : /\ call[<<j, i>>].at \in {"off", "done"}
                         /\ call[<<j, i>>].result # "failed"

SuccessInv == StoredCalls /\ JobsRunThrough

LEMMA SuccessMeans ==
  TypeInv /\ SuccessInv => SuccessMeansStored
<1> SUFFICES ASSUME TypeInv, SuccessInv, NEW j \in Analyzers, job[j].code = "success",
                    ~job[j].over, NEW i \in DOMAIN job[j].todo
             PROVE  LET c == call[<<j, i>>]
                    IN  \/ c.result = "crashed" \/ <<c.stock, c.since>> \in cut
                        \/ \A tf \in Timeframe :
                             [stock |-> c.stock, since |-> c.since, tf |-> tf, by |-> <<j, i>>] \in store
  BY DEF SuccessMeansStored
<1>1. j \in Job /\ job[j] \in JobState
  BY SignalJobsAssumption DEF TypeInv, JobsTyped
<1>2. /\ i \in Slot /\ job[j].at = "ended" /\ job[j].next = Len(job[j].todo) + 1
      /\ i \in 1 .. Len(job[j].todo)
  BY <1>1 DEF SuccessInv, JobsRunThrough, RunsThrough, JobState
<1>3. <<j, i>> \in Worker /\ i < job[j].next
  BY <1>1, <1>2 DEF Worker, JobState
<1>4. call[<<j, i>>].at = "done" /\ call[<<j, i>>].result # "failed"
  BY <1>2, <1>3 DEF SuccessInv, JobsRunThrough
<1>5. call[<<j, i>>].result \in {"reported", "lost", "crashed"}
  BY <1>3, <1>4, CallsAreFunction DEF SuccessInv, StoredCalls, Call
<1> QED BY <1>3, <1>4, <1>5 DEF SuccessInv, StoredCalls, PastStore, IsStored, Row

\* One worker at work goes on: nothing of the jobs changes, and none of them is done.
LEMMA CallSucceeds ==
  ASSUME TypeInv, SuccessInv, NEW w \in Worker, NEW c, Moves(w, c),
         call[w].at \notin {"off", "done"}, c.at # "off", UNCHANGED job,
         store \subseteq store', cut \subseteq cut',
         w[1] \in Analyzers /\ PastStore(c) => IsStored(w, c, store', cut'),
         w[1] \in Analyzers => c.at # "quote",
         c.at = "done" => c.result # "none"
  PROVE  SuccessInv'
<1>1. call'[w] = c /\ \A v \in Worker : v # w => call'[v] = call[v]
  BY CallsAreFunction DEF Moves
<1>2. StoredCalls'
  BY <1>1 DEF SuccessInv, StoredCalls, IsStored
<1>3. \A j \in Analyzers, i \in Slot : <<j, i>> \in Worker
  BY SignalJobsAssumption DEF Worker
<1>4. JobsRunThrough'
  <2> SUFFICES ASSUME NEW j \in Analyzers, NEW i \in Slot
               PROVE  /\ i < job[j].next => call'[<<j, i>>].at # "off"
                      /\ job[j].code = "success" => /\ call'[<<j, i>>].at \in {"off", "done"}
                                                    /\ call'[<<j, i>>].result # "failed"
    BY DEF SuccessInv, JobsRunThrough, RunsThrough
  <2>1. CASE <<j, i>> = w
    BY <1>1, <2>1 DEF SuccessInv, JobsRunThrough
  <2>2. CASE <<j, i>> # w
    BY <1>1, <1>3, <2>2 DEF SuccessInv, JobsRunThrough
  <2> QED BY <2>1, <2>2
<1> QED BY <1>2, <1>4 DEF SuccessInv

LEMMA EndsSucceeds ==
  ASSUME TypeInv, SuccessInv, NEW w \in Worker, call[w].at \notin {"off", "done"},
         UNCHANGED <<job, store, cut>>,
         NEW result \in {"reported", "failed", "crashed", "lost"}, Ends(w, result),
         result \in {"reported", "lost"} /\ w[1] \in Analyzers => PastStore(call[w])
  PROVE  SuccessInv'
<1>1. PICK c : /\ Moves(w, c) /\ c.at = "done" /\ c.result = result
               /\ c.stock = call[w].stock /\ c.since = call[w].since
  BY EndsMoves DEF TypeInv
<1>2. w[1] \in Analyzers /\ PastStore(c) => IsStored(w, c, store, cut)
  BY <1>1 DEF PastStore, SuccessInv, StoredCalls, IsStored, Row
<1> QED BY <1>1, <1>2, CallSucceeds

LEMMA SameStockSucceeds ==
  ASSUME TypeInv, SuccessInv, NEW w \in Worker, NEW c, Moves(w, c), UNCHANGED <<job, store, cut>>,
         call[w].at \in {"subscribers", "plan", "mark", "holders", "tell"},
         c.at \in {"subscribers", "plan", "mark", "holders", "tell"},
         c.stock = call[w].stock, c.since = call[w].since
  PROVE  SuccessInv'
<1>1. w[1] \in Analyzers => IsStored(w, c, store, cut)
  BY DEF PastStore, SuccessInv, StoredCalls, IsStored, Row
<1> QED BY <1>1, CallSucceeds

LEMMA SignallingSucceeds ==
  ASSUME TypeInv, SuccessInv, NEW w \in Worker, Signalling(w)
  PROVE  SuccessInv'
<1>1. /\ call[w].at \in {"subscribers", "plan", "mark", "holders", "tell"}
      /\ UNCHANGED <<job, store, cut>>
  BY DEF Signalling, ReadSubscribers, MakePlan, Mark, ReadHolders, Tell, SignalFails
<1>2. CASE \E c : /\ Moves(w, c) /\ c.stock = call[w].stock /\ c.since = call[w].since
                  /\ c.at \in {"subscribers", "plan", "mark", "holders", "tell"}
  BY <1>1, <1>2, SameStockSucceeds
<1>3. CASE Ends(w, "reported")
  BY <1>1, <1>3, EndsSucceeds DEF PastStore
<1>4. CASE call' = [call EXCEPT ![w].at = "plan", ![w].users = subs]
  <2> DEFINE c == [call[w] EXCEPT !.at = "plan", !.users = subs]
  <2>1. Moves(w, c) /\ c.stock = call[w].stock /\ c.since = call[w].since /\ c.at = "plan"
    BY <1>4, CallsAreFunction DEF Moves, Call
  <2> QED BY <1>1, <2>1, SameStockSucceeds
<1>5. Mark(w) => \E c : /\ Moves(w, c) /\ c.stock = call[w].stock /\ c.since = call[w].since
                        /\ c.at = "holders"
  BY GoesMoves DEF Mark, TypeInv, Step, Flying
<1>6. (\E minScore : MakePlan(w, minScore)) \/ ReadHolders(w) \/ Tell(w) =>
        \/ Ends(w, "reported")
        \/ \E c : /\ Moves(w, c) /\ c.stock = call[w].stock /\ c.since = call[w].since
                  /\ c.at \in {"mark", "tell"}
  BY Planned, ToTell, Telling
<1> QED BY <1>2, <1>3, <1>4, <1>5, <1>6 DEF Signalling, ReadSubscribers, SignalFails

LEMMA StoringSucceeds ==
  ASSUME TypeInv, WholeInv, SuccessInv, NEW w \in Worker, Fetch(w) \/ StoreBatch(w)
  PROVE  SuccessInv'
<1>1. call[w].at \in {"fetch", "store"} /\ UNCHANGED job
  BY DEF Fetch, StoreBatch
<1>2. CASE Ends(w, "failed") /\ UNCHANGED <<store, cut>>
  BY <1>1, <1>2, EndsSucceeds
<1>3. CASE Fetch(w) /\ \E got \in Beginnings : call' = [call EXCEPT ![w].at = "store", ![w].got = got]
  <2>1. PICK got \in Beginnings : call' = [call EXCEPT ![w].at = "store", ![w].got = got]
    BY <1>3
  <2> DEFINE c == [call[w] EXCEPT !.at = "store", !.got = got]
  <2>2. Moves(w, c) /\ c.at = "store"
    BY <2>1, CallsAreFunction DEF Moves, Call
  <2>3. store \subseteq store' /\ cut \subseteq cut'
    BY <1>3 DEF Fetch
  <2> HIDE DEF c
  <2> QED BY <1>1, <2>2, <2>3, CallSucceeds DEF PastStore
<1>4. CASE StoreBatch(w) /\ Goes(w, "subscribers") /\
           store' = store \cup {[stock |-> call[w].stock, since |-> call[w].since, tf |-> tf,
                                 by |-> w] : tf \in call[w].got}
  <2>1. call[w].at = "store" /\ cut' = cut
    BY <1>4 DEF StoreBatch
  <2>2. PICK c : /\ Moves(w, c) /\ c.stock = call[w].stock /\ c.since = call[w].since
                 /\ c.at = "subscribers"
    BY <1>4, <2>1, GoesMoves DEF TypeInv, Step
  <2>3. IsWhole(call[w], cut)
    BY <2>1 DEF WholeInv, WholeCalls
  <2>4. IsStored(w, c, store', cut')
    BY <1>4, <2>1, <2>2, <2>3 DEF IsWhole, IsStored, Row
  <2>5. store \subseteq store'
    BY <1>4
  <2> QED BY <1>1, <2>1, <2>2, <2>4, <2>5, CallSucceeds
<1> QED BY <1>2, <1>3, <1>4 DEF Fetch, StoreBatch

LEMMA QuoteSucceeds ==
  ASSUME TypeInv, SuccessInv, NEW w \in Worker, Quote(w) \/ Panic(w)
  PROVE  SuccessInv'
<1>1. UNCHANGED <<job, store, cut>>
  BY DEF Quote, Panic
<1>2. CASE Quote(w)
  <2>1. call[w].at = "quote" /\ w[1] \notin Analyzers
    BY <1>2 DEF Quote, SuccessInv, StoredCalls
  <2>2. CASE Goes(w, "subscribers")
    <3>1. PICK c : Moves(w, c) /\ c.at = "subscribers"
      BY <2>1, <2>2, GoesMoves DEF TypeInv, Step
    <3> QED BY <1>1, <2>1, <3>1, CallSucceeds
  <2> QED BY <1>1, <1>2, <2>1, <2>2, EndsSucceeds DEF Quote
<1>3. CASE Panic(w)
  BY <1>1, <1>3, EndsSucceeds DEF Panic, PastStore
<1> QED BY <1>2, <1>3

\* A list is no longer than the slots there are.
LEMMA ListFits ==
  ASSUME NEW list \in Lists, NEW stocks \in Unique(list)
  PROVE  DOMAIN stocks \subseteq Slot
<1>1. ToSet(list) \subseteq Stock
  BY SignalJobsAssumption DEF ToSet
<1>2. /\ Cardinality(ToSet(list)) \in Nat /\ Cardinality(Stock) \in Nat
      /\ Cardinality(ToSet(list)) <= Cardinality(Stock)
  BY <1>1, SignalJobsAssumption, FS_Subset, FS_CardinalityType
<1>3. DOMAIN stocks = 1 .. Cardinality(ToSet(list))
  BY DEF Unique, SetToSeqs
<1> QED BY <1>2, <1>3, SignalJobsAssumption

\* A job changes and no worker does.
LEMMA JobSucceeds ==
  ASSUME TypeInv, SuccessInv, NEW j \in Job, NEW r \in JobState, job' = [job EXCEPT ![j] = r],
         UNCHANGED <<call, store, cut>>, r.next = job[j].next,
         j \in Analyzers => RunsThrough(r),
         r.code = "success" /\ j \in Analyzers =>
           \A i \in Slot : /\ call[<<j, i>>].at \in {"off", "done"}
                           /\ call[<<j, i>>].result # "failed"
  PROVE  SuccessInv'
<1>1. job'[j] = r /\ \A k \in Job : k # j => job'[k] = job[k]
  BY DEF TypeInv, JobsTyped
<1>2. StoredCalls'
  BY DEF SuccessInv, StoredCalls
<1>3. JobsRunThrough'
  <2> SUFFICES ASSUME NEW k \in Analyzers
               PROVE  /\ RunsThrough(job'[k])
                      /\ \A i \in Slot : i < job'[k].next => call[<<k, i>>].at # "off"
                      /\ job'[k].code = "success" =>
                           \A i \in Slot : /\ call[<<k, i>>].at \in {"off", "done"}
                                           /\ call[<<k, i>>].result # "failed"
    BY DEF JobsRunThrough
  <2>1. k \in Job
    BY SignalJobsAssumption
  <2> QED BY <1>1, <2>1 DEF SuccessInv, JobsRunThrough
<1> QED BY <1>2, <1>3 DEF SuccessInv

LEMMA BeginsSucceeds ==
  ASSUME TypeInv, SuccessInv, NEW j \in Job, Screen(j) \/ ReadLatest(j)
  PROVE  SuccessInv'
<1>1. job[j] \in JobState /\ job \in [Job -> JobState] /\ UNCHANGED <<call, store, cut>>
      /\ job[j].at = "idle" /\ WellPlanned(job[j])
  BY DEF Screen, ReadLatest, signalVars, TypeInv, JobsTyped
<1>2. j \in Analyzers => RunsThrough(job[j])
  BY DEF SuccessInv, JobsRunThrough
<1>3. ASSUME NEW code \in {"failed", "skipped"}, JobEnds(j, code)
      PROVE  SuccessInv'
  <2> DEFINE r == [job[j] EXCEPT !.at = "ended", !.code = code]
  <2>1. /\ r \in JobState /\ job' = [job EXCEPT ![j] = r] /\ r.next = job[j].next /\ r.code # "success"
        /\ r.at = "ended" /\ r.todo = job[j].todo
    BY <1>1, <1>3 DEF JobState, JobEnds
  <2>2. j \in Analyzers => RunsThrough(r)
    BY <1>1, <1>2, <2>1 DEF RunsThrough, WellPlanned
  <2> HIDE DEF r
  <2> QED BY <1>1, <2>1, <2>2, JobSucceeds
<1>4. CASE j \in Analyzers /\ \E list \in Lists : list # <<>> /\ \E stocks \in Unique(list) :
             job' = [job EXCEPT ![j].at = "loop", ![j].todo =
               [i \in DOMAIN stocks |-> [stock |-> stocks[i], since |-> 0, got |-> {}]]]
  <2>1. PICK list \in Lists : list # <<>> /\ \E stocks \in Unique(list) :
          job' = [job EXCEPT ![j].at = "loop", ![j].todo =
            [i \in DOMAIN stocks |-> [stock |-> stocks[i], since |-> 0, got |-> {}]]]
    BY <1>4
  <2>2. PICK stocks \in Unique(list) :
          job' = [job EXCEPT ![j].at = "loop", ![j].todo =
            [i \in DOMAIN stocks |-> [stock |-> stocks[i], since |-> 0, got |-> {}]]]
    BY <2>1
  <2> DEFINE todo == [i \in DOMAIN stocks |-> [stock |-> stocks[i], since |-> 0, got |-> {}]]
             r == [job[j] EXCEPT !.at = "loop", !.todo = todo]
  <2>3. DOMAIN todo \subseteq Slot
    BY ListFits
  <2>4. job' \in [Job -> JobState]
    <3>1. TypeInv'
      BY <1>4, ScreenTyped, ReadLatestTyped
    <3> QED BY <3>1 DEF TypeInv, JobsTyped
  <2>5. r = job'[j] /\ job' = [job EXCEPT ![j] = r]
    BY <1>1, <2>2
  <2>6. /\ r \in JobState /\ r.next = job[j].next /\ r.code = job[j].code
        /\ r.at = "loop" /\ r.todo = todo
    BY <1>1, <2>4, <2>5 DEF JobState
  <2> HIDE DEF r, todo
  <2>7. RunsThrough(r) /\ r.code # "success"
    BY <1>1, <1>2, <1>4, <2>3, <2>6 DEF RunsThrough
  <2> QED BY <1>1, <2>5, <2>6, <2>7, JobSucceeds
<1>5. CASE j \notin Analyzers
  <2>1. \A k \in Analyzers : job'[k] = job[k]
    BY <1>1, <1>5, SignalJobsAssumption DEF Screen, ReadLatest, JobEnds
  <2>2. StoredCalls'
    BY <1>1 DEF SuccessInv, StoredCalls
  <2>3. JobsRunThrough'
    BY <1>1, <2>1 DEF SuccessInv, JobsRunThrough
  <2> QED BY <2>2, <2>3 DEF SuccessInv
<1> QED BY <1>3, <1>4, <1>5 DEF Screen, ReadLatest

LEMMA WaitsSucceeds ==
  ASSUME TypeInv, SuccessInv, NEW j \in Job, LoopOn(j) \/ Return(j) \/ ContextEnds(j)
  PROVE  SuccessInv'
<1>1. job[j] \in JobState /\ job \in [Job -> JobState] /\ UNCHANGED <<call, store, cut>>
  BY DEF LoopOn, Return, ContextEnds, signalVars, TypeInv, JobsTyped
<1>2. j \in Analyzers => /\ RunsThrough(job[j])
                         /\ job[j].code = "success" =>
                              \A i \in Slot : /\ call[<<j, i>>].at \in {"off", "done"}
                                              /\ call[<<j, i>>].result # "failed"
  BY DEF SuccessInv, JobsRunThrough
<1>3. CASE LoopOn(j)
  <2>1. PICK at \in {"wait", "acquire"} :
          /\ job' = [job EXCEPT ![j].at = at]
          /\ at = "wait" => job[j].over
    BY <1>3 DEF LoopOn
  <2> DEFINE r == [job[j] EXCEPT !.at = at]
  <2>2. /\ r \in JobState /\ r.next = job[j].next
        /\ r.at = at /\ r.code = job[j].code /\ r.todo = job[j].todo
    BY <1>1, <2>1 DEF JobState
  <2>3. job' = [job EXCEPT ![j] = r]
    BY <1>1, <2>1
  <2>4. j \in Analyzers => RunsThrough(r)
    <3>1. job[j].at = "loop"
      BY <1>3 DEF LoopOn
    <3>2. r.over = job[j].over
      BY <1>1 DEF JobState, r
    <3> QED BY <1>2, <2>1, <2>2, <3>1, <3>2 DEF RunsThrough
  <2> HIDE DEF r
  <2> QED BY <1>1, <1>2, <2>2, <2>3, <2>4, JobSucceeds
<1>4. CASE Return(j)
  <2> DEFINE r == [job[j] EXCEPT !.at = "ended", !.code = Code(j)]
  <2>1. Code(j) \in {"success", "partial", "failed", "skipped"}
    BY DEF Code
  <2>2. /\ r \in JobState /\ job' = [job EXCEPT ![j] = r] /\ r.next = job[j].next
        /\ r.at = "ended" /\ r.code = Code(j) /\ r.todo = job[j].todo /\ r.over = job[j].over
    BY <1>1, <1>4, <2>1 DEF JobState, Return, JobEnds
  <2> HIDE DEF r
  <2>3. j \in Analyzers => RunsThrough(r)
    <3>1. job[j].at = "wait"
      BY <1>4 DEF Return
    <3> QED BY <1>2, <2>2, <3>1 DEF RunsThrough
  <2>4. ASSUME j \in Analyzers, Code(j) = "success", NEW i \in Slot
        PROVE  call[<<j, i>>].at \in {"off", "done"} /\ call[<<j, i>>].result # "failed"
    <3>1. {k \in Begun(j) : call[<<j, k>>].result \in {"failed"}} = {}
      BY <2>4 DEF Code
    <3>2. Finished(j) = Begun(j)
      BY <1>4 DEF Return
    <3>3. <<j, i>> \in Worker
      BY DEF Worker
    <3>4. CASE i \in Begun(j)
      BY <3>1, <3>2, <3>4 DEF Finished
    <3>5. CASE i \notin Begun(j)
      <4>1. call[<<j, i>>].at = "off"
        BY <3>5 DEF Begun
      <4>2. call[<<j, i>>].result = "none"
        BY <3>3, <4>1 DEF SuccessInv, StoredCalls
      <4> QED BY <4>1, <4>2
    <3> QED BY <3>4, <3>5
  <2> QED BY <1>1, <2>2, <2>3, <2>4, JobSucceeds
<1>5. CASE ContextEnds(j)
  <2> DEFINE r == [job[j] EXCEPT !.over = TRUE]
  <2>1. /\ r \in JobState /\ job' = [job EXCEPT ![j] = r] /\ r.next = job[j].next
        /\ r.at = job[j].at /\ r.code = job[j].code /\ r.todo = job[j].todo /\ r.over
    BY <1>1, <1>5 DEF JobState, ContextEnds
  <2> HIDE DEF r
  <2>2. j \in Analyzers => RunsThrough(r)
    BY <1>2, <2>1 DEF RunsThrough
  <2> QED BY <1>1, <1>2, <2>1, <2>2, JobSucceeds
<1> QED BY <1>3, <1>4, <1>5

LEMMA StartSucceeds ==
  ASSUME TypeInv, SuccessInv, NEW j \in Job, StartWorker(j)
  PROVE  SuccessInv'
<1>1. PICK i : i = job[j].next
  OBVIOUS
<1>2. PICK c : /\ Moves(<<j, i>>, c) /\ WellCalled(c)
               /\ \/ j \in Analyzers /\ c.at = "fetch"
                  \/ j \notin Analyzers /\ c.at = "quote"
  BY <1>1, Starting
<1>3. PICK at \in {"wait", "loop"} : /\ at = "loop" <=> i # Len(job[j].todo)
                                     /\ job' = [job EXCEPT ![j].next = i + 1, ![j].at = at]
  BY <1>1, Starting
<1>4. /\ job \in [Job -> JobState] /\ job[j] \in JobState /\ job[j].at = "acquire"
      /\ UNCHANGED <<store, cut>> /\ WellPlanned(job[j])
  BY DEF TypeInv, JobsTyped, StartWorker
<1>5. \A w \in Worker : call'[w] = IF w = <<j, i>> THEN c ELSE call[w]
  BY <1>2, CallsAreFunction DEF Moves
<1>6. StoredCalls'
  BY <1>2, <1>4, <1>5 DEF SuccessInv, StoredCalls, PastStore
<1>7. /\ job'[j].next = i + 1 /\ job'[j].at = at /\ job'[j].todo = job[j].todo
      /\ job'[j].code = job[j].code /\ job'[j].over = job[j].over
      /\ \A k \in Job : k # j => job'[k] = job[k]
  BY <1>3, <1>4 DEF JobState
<1>8. i \in Nat \ {0} /\ i <= Len(job[j].todo) /\ Len(job[j].todo) \in Nat
  BY <1>1, <1>4 DEF WellPlanned, JobState
<1>9. ASSUME NEW k \in Analyzers
      PROVE  /\ RunsThrough(job'[k])
             /\ \A n \in Slot : n < job'[k].next => call'[<<k, n>>].at # "off"
             /\ job'[k].code = "success" =>
                  \A n \in Slot : /\ call'[<<k, n>>].at \in {"off", "done"}
                                  /\ call'[<<k, n>>].result # "failed"
  <2>1. k \in Job /\ \A n \in Slot : <<k, n>> \in Worker
    BY SignalJobsAssumption DEF Worker
  <2>2. CASE k # j
    BY <1>5, <1>7, <2>1, <2>2 DEF SuccessInv, JobsRunThrough
  <2>3. CASE k = j
    <3>1. RunsThrough(job[j]) /\ job[j].code = "none"
      BY <1>4, <2>3 DEF SuccessInv, JobsRunThrough, RunsThrough
    <3>2. at = "wait" /\ ~job[j].over => i + 1 = Len(job[j].todo) + 1
      BY <1>3, <1>8
    <3>3. RunsThrough(job'[k])
      BY <1>7, <2>3, <3>1, <3>2 DEF RunsThrough
    <3>4. ASSUME NEW n \in Slot, n < i + 1 PROVE call'[<<k, n>>].at # "off"
      <4>1. CASE n = i
        BY <1>2, <1>5, <2>1, <2>3, <4>1
      <4>2. CASE n # i
        <5>1. n < i
          BY <1>8, <3>4, <4>2, SignalJobsAssumption
        <5> QED BY <1>1, <1>5, <2>1, <2>3, <4>2, <5>1 DEF SuccessInv, JobsRunThrough
      <4> QED BY <4>1, <4>2
    <3> QED BY <1>7, <2>3, <3>1, <3>3, <3>4
  <2> QED BY <2>2, <2>3
<1>10. JobsRunThrough'
  BY <1>9 DEF JobsRunThrough
<1> QED BY <1>6, <1>10 DEF SuccessInv

LEMMA SuccessStep ==
  TypeInv /\ WholeInv /\ SuccessInv /\ [Next]_vars => SuccessInv'
<1> SUFFICES ASSUME TypeInv, WholeInv, SuccessInv, [Next]_vars PROVE SuccessInv'
  OBVIOUS
<1>1. CASE Outside \/ UNCHANGED vars
  <2>1. UNCHANGED <<call, job, store, cut>>
    BY <1>1 DEF Outside, UserActs, SetAlertSignal, Trade, Changed, MarkExpires, vars, signalVars
  <2> QED BY <2>1 DEF SuccessInv, StoredCalls, JobsRunThrough
<1> QED BY <1>1, SignallingSucceeds, StoringSucceeds, QuoteSucceeds, BeginsSucceeds,
           WaitsSucceeds, StartSucceeds DEF Next, Inside, WorkerActs, JobActs

\* An analyzer that had its time and reports success has stored an analysis of every
\* stock of its list, the panicked and the timed out aside, however its workers
\* interleaved (stock_analyzer.go:181).
THEOREM SuccessIsStored == Spec => []SuccessMeansStored
<1>1. Init => WholeInv
  BY DEF Init, InitSignals, Off, NewJob, WholeInv, WholeCalls, WholeLists, WholeRows
<1>2. Init => SuccessInv
  <2> SUFFICES ASSUME Init PROVE SuccessInv
    OBVIOUS
  <2>1. call = [w \in Worker |-> Off(0)] /\ job = [j \in Job |-> NewJob]
    BY DEF Init, InitSignals
  <2>2. StoredCalls
    BY <2>1 DEF StoredCalls, PastStore, Off
  <2>3. \A i \in Slot : ~(i < 1)
    BY SignalJobsAssumption
  <2>4. RunsThrough(NewJob)
    BY DEF RunsThrough, NewJob
  <2>5. \A j \in Analyzers : job[j] = NewJob
    BY <2>1, SignalJobsAssumption
  <2>6. NewJob.next = 1 /\ NewJob.code # "success"
    BY DEF NewJob
  <2>7. JobsRunThrough
    BY <2>3, <2>4, <2>5, <2>6 DEF JobsRunThrough
  <2> QED BY <2>2, <2>7 DEF SuccessInv
<1> QED BY <1>1, <1>2, WholeStep, SuccessStep, SuccessMeans, TypeAlways, PTL DEF Spec
==============================================================================
