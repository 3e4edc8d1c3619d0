----------------------------- MODULE Monitoring -----------------------------
(***************************************************************************)
(* What becomes of a verdict (EvaluateStockPosition in                     *)
(* internal/strategy/stock_position_monitoring.go): the position's row is  *)
(* updated, then a monitoring record inserted, then the user told, if      *)
(* there is something to tell.  Each step may fail and leaves what the     *)
(* earlier ones did.                                                       *)
(*                                                                         *)
(* One position.  A worker is a run of the monitoring job, a press of the  *)
(* refresh button, or one of the other writers of the row (the price alert *)
(* job and the exit), which write back the copy they read.  The levels are *)
(* those of TrailingRules; the score is a number here, since what is told  *)
(* depends on whether it rose.                                             *)
(***************************************************************************)
EXTENDS TrailingRules, FiniteSets

CONSTANTS Markets, Entries,   \* as in Positions
          Scores,             \* the scores evaluations give, of 0 .. 100
          Worker,
          MaxMissed           \* bound: no more news is lost after this much

ASSUME MonitoringAssumption ==
  /\ Markets \subseteq MarketState
  /\ Entries \subseteq Terms
  /\ Scores \subseteq 0 .. 100
  /\ MaxMissed \in Nat

VARIABLES
  row,      \* levels, initial_score and final_score of the position
  latest,   \* the newest monitoring record, of which the score matters
  work,     \* what each worker has in hand
  told,     \* auxiliary: news the user was sent
  missed,   \* auxiliary: news that was due and never sent
  stale,    \* auxiliary: workers whose row was written since they read it
  torn      \* auxiliary: an update was not followed by its own record

vars == <<row, latest, work, told, missed, stale, torn>>
------------------------------------------------------------------------------
\* A float that is not a number: no comparison with it holds, it is not zero,
\* and JSON cannot express it.
NotANumber == -1
Score == (0 .. 100) \cup {NotANumber}
Less(a, b) == a # NotANumber /\ b # NotANumber /\ a < b

\* The band determineFinalStatus sorts a score into.
Band(score) == IF score >= 70 THEN "high" ELSE IF score >= 50 THEN "middle" ELSE "low"

\* A position without a target may get a score that is not a number (PositionScore).
ScoresIn(pos, m) ==
  {s \in Scores \cup (IF pos.terms.tp = 0 THEN {NotANumber} ELSE {}) : Band(s) = m.score}

Row == [levels : Position, initial : Score, final : Score]
Record == [is : BOOLEAN, score : Score]
NoRecord == [is |-> FALSE, score |-> 0]
News == ({"stop", "trail"} \X Level) \cup ({"score"} \X Score)
Verdict == [score : Score, news : SUBSET News, tell : BOOLEAN]   \* tell: it is sent
Work == [at : {"idle", "judging", "rewriting", "recording", "telling"}, copy : Row,
         verdict : Verdict]

NoRow == [levels |-> [terms |-> [buy |-> 0, tp |-> 0, sl |-> 0], trail |-> 0, highest |-> 0,
                      stop |-> 0], initial |-> 0, final |-> 0]
NoVerdict == [score |-> 0, news |-> {}, tell |-> FALSE]
Idle == [at |-> "idle", copy |-> NoRow, verdict |-> NoVerdict]

Init ==
  /\ row \in {[NoRow EXCEPT !.levels.terms = terms] : terms \in Entries}
  /\ latest = NoRecord
  /\ work = [w \in Worker |-> Idle]
  /\ told = {} /\ missed = {} /\ stale = {} /\ torn = FALSE
------------------------------------------------------------------------------
\* Mutant: compared with the copy after it was given the new levels.
RaisedTooLate(copy, m) ==
  LET judged == Judged(copy.levels, m) IN
  {n \in {<<"trail", judged.trail>>} : judged.trail > judged.trail}

\* The levels an evaluation raised, compared with the copy before it is changed.
Raised(copy, m) ==
  LET judged == Judged(copy.levels, m) IN
  {n \in {<<"trail", judged.trail>>} : judged.trail > copy.levels.trail}
    \cup {n \in {<<"stop", judged.stop>>} : judged.stop > copy.levels.stop}

\* A position in warning is told of when its score rose, a dangerous one always.
ShouldSend(copy, m, score) ==
  \/ Status(copy.levels, m) = "warning" /\ Less(copy.final, score)
  \/ Status(copy.levels, m) = "dangerous"
  \/ Raised(copy, m) # {}

Dangerous(score) == {n \in {<<"score", score>>} : Band(score) = "low"}

Found(copy, m, score) ==
  LET send == ShouldSend(copy, m, score) IN
  [score |-> score, tell |-> send,
   news |-> IF send THEN Raised(copy, m) \cup Dangerous(score) ELSE {}]

\* Mutant: every score is taken for the first one.
RescoredAlways(copy, m, score) ==
  [levels |-> Judged(copy.levels, m), initial |-> score, final |-> score]

\* The copy handed to Update; a first score of 0 does not count as one.
Rescored(copy, m, score) ==
  [levels |-> Judged(copy.levels, m), initial |-> NonZero(copy.initial, score), final |-> score]

\* Mutant: the copy replaces the row (gorm's Save).
MergedAll(copy) == copy

\* gorm's Updates, field by field.
Merged(copy) ==
  [levels |-> Saved(row.levels, copy.levels), initial |-> NonZero(copy.initial, row.initial),
   final |-> NonZero(copy.final, row.final)]

Recording == {w \in Worker : work[w].at = "recording"}
Reading == {w \in Worker : work[w].at \in {"judging", "rewriting"}}

\* Repository Update by w.
Update(w, copy) ==
  /\ row' = Merged(copy)
  /\ stale' = (stale \cup Reading) \ {w}

Miss(news) ==
  /\ Cardinality(missed) < MaxMissed \/ news \subseteq missed
  /\ missed' = missed \cup news
------------------------------------------------------------------------------
Take(w, at, copy) ==
  /\ work[w].at = "idle"
  /\ work' = [work EXCEPT ![w] = [Idle EXCEPT !.at = at, !.copy = copy]]
  /\ UNCHANGED <<row, latest, told, missed, stale, torn>>

\* The job and the refresh button.
ReadToJudge(w) == Take(w, "judging", row)

\* An alert takes the row as it is.  So does an exit, except for the score it finds
\* in the newest record: it looks for it at the wrong place of the JSON and gets 0.
ReadToRewrite(w) ==
  \/ Take(w, "rewriting", row)
  \/ latest.is /\ Take(w, "rewriting", [row EXCEPT !.final = 0])

\* The verdict, the update, and the summary made into JSON, which fails for a
\* score that is not a number: the row has it, but nothing is recorded or told.
Evaluate(w) ==
  /\ work[w].at = "judging"
  /\ \E m \in Markets : \E score \in ScoresIn(work[w].copy.levels, m) :
       LET verdict == Found(work[w].copy, m, score) IN
       /\ Update(w, Rescored(work[w].copy, m, score))
       /\ IF score = NotANumber
          THEN /\ work' = [work EXCEPT ![w] = Idle]
               /\ Miss(verdict.news)
               /\ torn' = TRUE
          ELSE /\ work' = [work EXCEPT ![w] = [Idle EXCEPT !.at = "recording",
                                                           !.verdict = verdict]]
               /\ torn' = (Recording \ {w} # {})
               /\ UNCHANGED missed
  /\ UNCHANGED <<latest, told>>

\* The monitoring record; without something to tell that is all.
Create(w) ==
  /\ work[w].at = "recording"
  /\ latest' = [is |-> TRUE, score |-> work[w].verdict.score]
  /\ work' = [work EXCEPT ![w] = IF @.verdict.tell THEN [@ EXCEPT !.at = "telling"] ELSE Idle]
  /\ UNCHANGED <<row, told, missed, stale, torn>>

\* SendMessageUser; that sending failed is logged and no more.
SendMessageUser(w) ==
  /\ work[w].at = "telling"
  /\ \/ told' = told \cup work[w].verdict.news /\ UNCHANGED missed
     \/ Miss(work[w].verdict.news) /\ UNCHANGED told
  /\ work' = [work EXCEPT ![w] = Idle]
  /\ UNCHANGED <<row, latest, stale, torn>>

\* The alert's, or the exit's, copy is written back; a score of 0 is left out.
Rewrite(w) ==
  /\ work[w].at = "rewriting"
  /\ Update(w, work[w].copy)
  /\ torn' = (torn \/ w \in stale)
  /\ work' = [work EXCEPT ![w] = Idle]
  /\ UNCHANGED <<latest, told, missed>>

\* A query, an analysis or an insert fails, or the process ends.
GiveUp(w) ==
  /\ work[w].at # "idle"
  /\ Miss(work[w].verdict.news)
  /\ torn' = (torn \/ work[w].at = "recording")
  /\ stale' = stale \ {w}
  /\ work' = [work EXCEPT ![w] = Idle]
  /\ UNCHANGED <<row, latest, told>>

Next ==
  \E w \in Worker :
    \/ ReadToJudge(w) \/ Evaluate(w) \/ Create(w) \/ SendMessageUser(w)
    \/ ReadToRewrite(w) \/ Rewrite(w) \/ GiveUp(w)

Spec == Init /\ [][Next]_vars
------------------------------------------------------------------------------
TypeOK ==
  /\ row \in Row /\ latest \in Record /\ work \in [Worker -> Work]
  /\ told \subseteq News /\ missed \subseteq News
  /\ stale \subseteq Worker /\ torn \in BOOLEAN

\* What a row says that its owner must know: a raised trigger or stop and a score
\* that is dangerous.
Telling(r) ==
  {n \in {<<"trail", r.levels.trail>>, <<"stop", r.levels.stop>>} : n[2] # 0}
    \cup (IF r.final # 0 THEN Dangerous(r.final) ELSE {})

\* What the owner was told, was to be told, or is about to be.
Covered == told \cup missed \cup UNION {work[w].verdict.news : w \in Worker}

\* Whatever copies overwrite each other, the owner of a position was told of the
\* levels in force and of a dangerous score in its row, or is about to be, unless
\* a step after the update of the row failed.
NewsIsTold == Telling(row) \subseteq Covered

\* The lists show the score of the newest record and sort by the one in the row.
\* They are the same, but for a score of 0, which the update leaves out, while an
\* evaluation is between its update and its record, and after one that failed
\* there, overlapped another, or was overwritten by an older copy.
ScoresAgree ==
  latest.is /\ latest.score # row.final =>
    latest.score = 0 \/ Recording # {} \/ torn

\* The score a position is compared with ever after is changed by evaluations
\* and copies only that another write overtook.
InitialScoreStays ==
  [][row.initial # 0 /\ row'.initial # row.initial
       => \E w \in stale : work'[w] # work[w]]_vars
==============================================================================
