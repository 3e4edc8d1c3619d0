------------------------------ MODULE SignalJobs ------------------------------
(***************************************************************************)
(* The two jobs that look for buy signals.  The analyzer screens the       *)
(* market, analyses each stock in all timeframes, stores the batch and     *)
(* calls SendBuySignal; the generator calls it for the newest stored batch *)
(* of each stock.  Both start one worker per stock, as many at a time as   *)
(* their semaphore lets in, and may run side by side.                      *)
(*                                                                         *)
(* The analyzer looks at its context before each stock and each timeframe  *)
(* and stops where it is: the timeframes it has by then make a batch.      *)
(***************************************************************************)
EXTENDS SendSignal, SequencesExt

CONSTANTS
  Analyzers,        \* the jobs that run the analyzer; the others the generator
  Lists,            \* what the screener and the payload may list
  MaxConcurrency,   \* capacity of a job's semaphore
  PayloadScore,     \* minimum score of the generator's payload, 0 for none
  CodeOf            \* the stock code, which two exchanges may both list

ASSUME SignalJobsAssumption ==
  /\ Analyzers \subseteq Job
  /\ Slot \subseteq Nat \ {0}
  /\ IsFiniteSet(Stock) /\ 1 .. Cardinality(Stock) \subseteq Slot   \* goroutines are free
  /\ Lists \subseteq Seq(Stock)
  /\ MaxConcurrency \in Nat \ {0}   \* at 0 no worker ever gets in
  /\ PayloadScore \in Nat
  /\ Second \subseteq Nat /\ 0 \in Second
  /\ IsFiniteSet(Timeframe) /\ Timeframe = 1 .. Cardinality(Timeframe)

VARIABLES
  job,      \* state of each job run
  store,    \* rows of stock_analyses
  second,   \* when the last analysis began, to the second
  cut       \* auxiliary: <<stock, second>> of analyses a context ended

vars == <<signalVars, job, store, second, cut>>
------------------------------------------------------------------------------
Batch == [stock : Stock, since : Second, got : SUBSET Timeframe]
JobState == [at : {"idle", "loop", "acquire", "wait", "ended"}, todo : Seq(Batch),
             next : Nat \ {0}, over : BOOLEAN,
             code : {"none", "success", "partial", "failed", "skipped"}]
NewJob == [at |-> "idle", todo |-> <<>>, next |-> 1, over |-> FALSE, code |-> "none"]
\* by: auxiliary, whose analysis it is.
Analysis == [stock : Stock, since : Second, tf : Timeframe, by : Worker]

Init ==
  /\ InitSignals(0)
  /\ job = [j \in Job |-> NewJob]
  /\ store = {}
  /\ second = 0
  /\ cut = {}

Begun(j) == {i \in Slot : call[<<j, i>>].at # "off"}

\* Mutant: releasing the semaphore and the wait group are not deferred.
FinishedWell(j) ==
  {i \in Begun(j) : call[<<j, i>>].at = "done" /\ call[<<j, i>>].result \notin {"crashed", "lost"}}

Finished(j) == {i \in Begun(j) : call[<<j, i>>].at = "done"}
JobEnds(j, code) == job' = [job EXCEPT ![j].at = "ended", ![j].code = code]
------------------------------------------------------------------------------
\* Mutant: a stock that two lists name is analysed twice.
All(list) == {list}

\* The stocks of a list, each once and in the order they first come in.
Unique(list) ==
  {stocks \in SetToSeqs(ToSet(list)) :
     \A n \in DOMAIN stocks : \A m \in 1 .. n - 1 :
       \E k \in DOMAIN list : list[k] = stocks[m] /\ \A l \in 1 .. k : list[l] # stocks[n]}

\* The buy lists and the additional stocks, each stock once.
Screen(j) ==
  /\ j \in Analyzers /\ job[j].at = "idle"
  /\ \/ JobEnds(j, "failed")
     \/ \E list \in Lists :
          IF list = <<>> THEN JobEnds(j, "skipped")
          ELSE \E stocks \in Unique(list) :
                 job' = [job EXCEPT ![j].at = "loop", ![j].todo =
                     [i \in DOMAIN stocks |-> [stock |-> stocks[i], since |-> 0, got |-> {}]]]
  /\ UNCHANGED <<signalVars, store, second, cut>>

\* Rows with one hash_identifier are one batch, whoever stored them.
Batches ==
  {[stock |-> r.stock, since |-> r.since,
    got |-> {q.tf : q \in {q \in store : q.stock = r.stock /\ q.since = r.since}}] : r \in store}

\* The newest batch of each stock code, whatever its exchange, of those with
\* the expected number of timeframes.
Latest(expected) ==
  LET whole == {b \in Batches : Cardinality(b.got) >= expected}
      Peers(b) == {c \in whole : CodeOf[c.stock] = CodeOf[b.stock]}
  IN  {some \in SUBSET {b \in whole : \A c \in Peers(b) : c.since <= b.since} :
         \A b \in whole : \E one \in whole : some \cap Peers(b) = {one}}

\* The generator expects no number of timeframes, and groups what it reads by
\* exchange and stock, in a map: any of them may come first.
ReadLatest(j) ==
  /\ j \notin Analyzers /\ job[j].at = "idle"
  /\ \/ JobEnds(j, "failed")
     \/ \E batches \in Latest(0) :
          IF batches = {} THEN JobEnds(j, "skipped")
          ELSE \E todo \in SetToSeqs(batches) :
                 job' = [job EXCEPT ![j].at = "acquire", ![j].todo = todo]
  /\ UNCHANGED <<signalVars, store, second, cut>>

\* Only the analyzer looks at its context between two stocks.
LoopOn(j) ==
  /\ job[j].at = "loop"
  /\ job' = [job EXCEPT ![j].at =
       IF j \in Analyzers /\ job[j].over THEN "wait" ELSE "acquire"]
  /\ UNCHANGED <<signalVars, store, second, cut>>

\* A worker gets into the semaphore.  An analysis reads the clock, which is all
\* that the clock is read for.
StartWorker(j) ==
  /\ job[j].at = "acquire" /\ Cardinality(Begun(j) \ Finished(j)) < MaxConcurrency
  /\ LET i == job[j].next
         batch == job[j].todo[i]
         new == [Off(batch.since) EXCEPT !.stock = batch.stock, !.got = batch.got]
     IN  /\ IF j \in Analyzers
            THEN /\ second' \in {now \in Second : now >= second}
                 /\ call' = [call EXCEPT ![<<j, i>>] =
                      [new EXCEPT !.at = "fetch", !.since = second']]
            ELSE /\ call' = [call EXCEPT ![<<j, i>>] = [new EXCEPT !.at = "quote"]]
                 /\ UNCHANGED second
         /\ job' = [job EXCEPT ![j].next = i + 1,
                               ![j].at = IF i = Len(job[j].todo) THEN "wait" ELSE "loop"]
  /\ UNCHANGED <<subs, holds, marks, told, raced, moved, changes, store, cut>>
------------------------------------------------------------------------------
SameSignals == UNCHANGED <<subs, holds, marks, told, raced, moved, changes>>

Beginnings == {{tf \in Timeframe : tf < n} : n \in 1 .. Cardinality(Timeframe) + 1}

\* Mutant: the error of a timeframe is dropped, and the others are stored.
FetchDropsError(w) ==
  /\ call[w].at = "fetch"
  /\ \E got \in SUBSET Timeframe : call' = [call EXCEPT ![w].at = "store", ![w].got = got]
  /\ SameSignals /\ UNCHANGED <<job, store, second, cut>>

\* The timeframes are started in order and fetched side by side.  One that fails
\* fails the group, of which nothing is stored.  The context of the job, or that
\* of the analysis, which may time out at any time, keeps the rest from being
\* started: what was started is the batch.
Fetch(w) ==
  /\ call[w].at = "fetch"
  /\ \/ Ends(w, "failed") /\ UNCHANGED cut
     \/ \E got \in Beginnings :
          /\ call' = [call EXCEPT ![w].at = "store", ![w].got = got]
          /\ cut' = cut \cup (IF got = Timeframe THEN {} ELSE {<<call[w].stock, call[w].since>>})
  /\ SameSignals /\ UNCHANGED <<job, store, second>>

\* Mutant: an insert that fails is logged, and no error.
StoreAnyway(w) ==
  /\ call[w].at = "store" /\ Goes(w, "subscribers")
  /\ \E rows \in {{}, call[w].got} :
       store' = store \cup {[stock |-> call[w].stock, since |-> call[w].since, tf |-> tf,
                             by |-> w] : tf \in rows}
  /\ SameSignals /\ UNCHANGED <<job, second, cut>>

\* CreateBulk is one statement; with nothing to insert it is left out.
StoreBatch(w) ==
  /\ call[w].at = "store"
  /\ \/ Ends(w, "failed") /\ call[w].got # {} /\ UNCHANGED store
     \/ /\ Goes(w, "subscribers")
        /\ store' = store \cup {[stock |-> call[w].stock, since |-> call[w].since, tf |-> tf,
                                 by |-> w] : tf \in call[w].got}
  /\ SameSignals /\ UNCHANGED <<job, second, cut>>

\* The generator fetches the last price first, for the plan.
Quote(w) ==
  /\ call[w].at = "quote"
  /\ Goes(w, "subscribers") \/ Ends(w, "reported")
  /\ SameSignals /\ UNCHANGED <<job, store, second, cut>>

MinScoreOf(w) ==
  IF w[1] \in Analyzers \/ PayloadScore = 0 THEN MinScore ELSE PayloadScore

\* A worker panics, before or after its analysis is done: GoSafe recovers and its
\* deferred release runs, as does the report of the generator's workers.
Panic(w) ==
  /\ call[w].at \in {"store", "plan"}
  /\ Ends(w, IF w[1] \notin Analyzers THEN "reported"
             ELSE IF call[w].at = "plan" THEN "lost" ELSE "crashed")
  /\ SameSignals /\ UNCHANGED <<job, store, second, cut>>

Signalling(w) ==
  /\ ReadSubscribers(w) \/ MakePlan(w, MinScoreOf(w)) \/ Mark(w) \/ ReadHolders(w)
       \/ Tell(w) \/ SignalFails(w)
  /\ UNCHANGED <<job, store, second, cut>>
------------------------------------------------------------------------------
\* The analyzer's exit code.  A worker that panicked reports no result, and an
\* error of SendBuySignal is none of the analysis; the generator always succeeds.
Code(j) ==
  LET result(r) == {i \in Begun(j) : call[<<j, i>>].result \in r}
  IN  IF j \notin Analyzers THEN "success"
      ELSE IF result({"reported", "failed"}) = {} THEN "skipped"
      ELSE IF result({"failed"}) = {} THEN "success"
      ELSE IF result({"reported", "lost"}) = {} THEN "failed"
      ELSE "partial"

Return(j) ==
  /\ job[j].at = "wait" /\ Finished(j) = Begun(j)
  /\ JobEnds(j, Code(j))
  /\ UNCHANGED <<signalVars, store, second, cut>>

\* The context of the job ends: its timeout, or a shutdown.  Only the loop of the
\* analyzer asks, and its analyses, which Fetch lets end at any time.
ContextEnds(j) ==
  /\ j \in Analyzers /\ job[j].at \in {"loop", "acquire"} /\ ~job[j].over
  /\ job' = [job EXCEPT ![j].over = TRUE]
  /\ UNCHANGED <<signalVars, store, second, cut>>

WorkerActs(w) ==
  \/ Fetch(w) \/ StoreBatch(w)
  \/ Quote(w) \/ Panic(w) \/ Signalling(w)

JobActs(j) == Screen(j) \/ ReadLatest(j) \/ LoopOn(j) \/ StartWorker(j) \/ Return(j)

Outside ==
  /\ UserActs \/ \E s \in Signal : MarkExpires(s)
  /\ UNCHANGED <<job, store, second, cut>>

Inside ==
  \/ \E w \in Worker : WorkerActs(w)
  \/ \E j \in Job : JobActs(j)

Next == Inside \/ Outside \/ \E j \in Job : ContextEnds(j)

\* As long as some goroutine of the jobs can go on, one does: every call of theirs
\* returns, with an error if need be.
Fairness == WF_vars(Inside)

Spec == Init /\ [][Next]_vars /\ Fairness
------------------------------------------------------------------------------
\* Type invariant.
TypeOK ==
  /\ TypeOKSignals
  /\ job \in [Job -> JobState]
  /\ store \subseteq Analysis
  /\ second \in Second
  /\ cut \subseteq Stock \X Second

\* However the workers of one job interleave, they tell a user of a signal once
\* in the life of its mark.  Only two jobs that look the mark up before either
\* sets it tell him twice (buy_signal_generator.go and stock_analyzer.go both
\* start SendBuySignal workers).
OneJobTellsOnce ==
  \A u \in User, s \in Signal : told[u][s] > 1 => s \in raced

\* A user who gets a message wants it: his alert is on and he has no position in
\* the stock, unless he changed one of them after the call read the subscribers.
OnlyWanted ==
  [][\A u \in User, s \in Signal :
       told'[u][s] > told[u][s] =>
         \E w \in Worker :
           /\ call[w].at = "tell" /\ call[w].signal = s /\ u \in call[w].users
           /\ u \in moved[w] \/ (u \in subs /\ <<u, s[1]>> \notin holds)]_vars

\* What a reader takes for a batch has all the timeframes, unless a context ended
\* while its analysis was being started: one failed timeframe keeps the rest of
\* its batch out of the store, and so out of the signals.
BatchesAreWhole ==
  /\ \A b \in Batches : b.got = Timeframe \/ <<b.stock, b.since>> \in cut
  /\ \A w \in Worker : call[w].at \in {"mark", "holders", "tell"} =>
       call[w].got = Timeframe \/ <<call[w].stock, call[w].since>> \in cut

\* An analyzer run that reports success, in time, leaves no stock of its list
\* without its analysis stored, those aside whose worker panicked or whose
\* analysis timed out.
SuccessMeansStored ==
  \A j \in Analyzers : job[j].code = "success" /\ ~job[j].over =>
    \A i \in DOMAIN job[j].todo :
      LET c == call[<<j, i>>]
      IN  \/ c.result = "crashed" \/ <<c.stock, c.since>> \in cut
          \/ \A tf \in Timeframe :
               [stock |-> c.stock, since |-> c.since, tf |-> tf, by |-> <<j, i>>] \in store

\* Every job that starts returns, whatever its workers run into.
JobsReturn == \A j \in Job : job[j].at # "idle" ~> job[j].at = "ended"
==============================================================================
