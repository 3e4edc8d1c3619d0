-------------------------- MODULE MonitoringProofs --------------------------
(***************************************************************************)
(* Proofs about Monitoring, for every set of workers, markets, entries and *)
(* scores.                                                                 *)
(*                                                                         *)
(* The argument for NewsIsTold: what is covered only ever grows, and not   *)
(* the row alone but every copy in hand is covered, so that writing an old *)
(* copy back brings no news.  For ScoresAgree: a copy nobody overtook is   *)
(* the row, and unless torn one evaluation at most is about to insert its  *)
(* record, which then has the score of the row.                            *)
(***************************************************************************)
EXTENDS Monitoring, TLAPS

\* A worker with a copy has no verdict, and what is not sent has no news.
NewsIsSent ==
  \A w \in Worker :
    work[w].verdict.news # {} => work[w].at \in {"recording", "telling"} /\ work[w].verdict.tell

CopiesAreTold == \A w \in Reading : Telling(work[w].copy) \subseteq Covered

\* A copy nobody overtook is the row, or the row without its score.
FreshCopies ==
  \A w \in Reading \ stale :
    /\ work[w].copy.levels = row.levels
    /\ work[w].copy.initial = row.initial
    /\ work[w].copy.final \in {row.final, 0}

\* Unless torn, one record at most is on its way, and it is the row's.
RecordsOnTheWay ==
  ~torn => \A v, w \in Recording :
    v = w /\ work[w].verdict.score \in {row.final, 0}

MonitoringInv ==
  /\ TypeOK /\ NewsIsSent
  /\ NewsIsTold /\ CopiesAreTold
  /\ FreshCopies /\ RecordsOnTheWay /\ ScoresAgree
------------------------------------------------------------------------------
LEMMA IdleIsTyped == NoRow \in Row /\ NoVerdict \in Verdict /\ Idle \in Work
<1>1. NoRow \in Row
  BY DEF NoRow, Row, Position, Terms, MaybePrice, Level, Score
<1>2. NoVerdict \in Verdict
  BY DEF NoVerdict, Verdict, Score
<1> QED BY <1>1, <1>2 DEF Idle, Work

LEMMA Prices == MaybePrice \subseteq Nat
BY PriceAssumption DEF MaybePrice

\* The fields of a position and of a market are prices.
LEMMA Fields ==
  ASSUME NEW pos \in Position
  PROVE  /\ pos.terms \in Terms
         /\ pos.terms.buy \in Nat /\ pos.terms.tp \in Nat /\ pos.terms.sl \in Nat
         /\ pos.trail \in Nat /\ pos.highest \in Nat /\ pos.stop \in Nat
BY Prices DEF Position, Terms, Level

LEMMA MarketsArePriced ==
  ASSUME NEW m \in MarketState
  PROVE  m.last \in Nat /\ m.target \in Nat /\ m.r1 \in Nat /\ m.low \in Nat
BY Prices DEF MarketState

\* A stop is raised above the ones in force and not below the entry.
LEMMA StopLevel ==
  ASSUME NEW pos \in Position, NEW m \in MarketState
  PROVE  /\ Stop(pos, m) \in Nat
         /\ Stop(pos, m) # 0 => /\ Stop(pos, m) = ProposedStop(pos, m)
                                /\ Stop(pos, m) > pos.stop
                                /\ Stop(pos, m) > pos.terms.sl
                                /\ Stop(pos, m) >= pos.terms.buy
BY Fields, MarketsArePriced DEF Stop, ProposedStop, EffectiveSL, Higher

LEMMA SaveKeepsPosition ==
  ASSUME NEW old \in Position, NEW copy \in Position
  PROVE  Saved(old, copy) \in Position
BY Fields DEF Saved, Position, Level, NonZero

\* The trigger of an evaluation is none or not below the one before.
LEMMA TrailOfJudged ==
  ASSUME NEW pos \in Position, NEW m \in MarketState
  PROVE  Trail(pos, m) \in Nat /\ (Trail(pos, m) = 0 \/ Trail(pos, m) >= pos.trail)
BY Fields, MarketsArePriced DEF Trail, Trigger, Peak, EffectiveTP, Higher

LEMMA JudgedIsTyped ==
  ASSUME NEW pos \in Position, NEW m \in MarketState
  PROVE  /\ Judged(pos, m) \in Position
         /\ Judged(pos, m).trail = Trail(pos, m) /\ Judged(pos, m).stop = Stop(pos, m)
<1>1. Higher(Peak(pos, m), pos.highest) \in Nat
  BY Fields, MarketsArePriced DEF Peak, Higher
<1>2. Trail(pos, m) \in Nat /\ Stop(pos, m) \in Nat /\ pos.terms \in Terms
  BY TrailOfJudged, StopLevel, Fields
<1> QED BY <1>1, <1>2 DEF Judged, Position, Level

\* A fresh score of the row it was read from.
LEMMA RescoredFields ==
  ASSUME NEW copy \in Row, NEW m \in MarketState, NEW score \in Score
  PROVE  /\ Rescored(copy, m, score) \in Row
         /\ Rescored(copy, m, score).levels = Judged(copy.levels, m)
         /\ Rescored(copy, m, score).initial = NonZero(copy.initial, score)
         /\ Rescored(copy, m, score).final = score
<1>1. Judged(copy.levels, m) \in Position /\ copy.initial \in Score
  BY JudgedIsTyped DEF Row
<1>2. NonZero(copy.initial, score) \in Score
  BY <1>1 DEF NonZero
<1> QED BY <1>1, <1>2 DEF Rescored, Row

LEMMA MergedFields ==
  ASSUME row \in Row, NEW copy \in Row
  PROVE  /\ Merged(copy) \in Row
         /\ Merged(copy).levels = Saved(row.levels, copy.levels)
         /\ Merged(copy).initial = NonZero(copy.initial, row.initial)
         /\ Merged(copy).final = NonZero(copy.final, row.final)
<1>1. /\ row.levels \in Position /\ copy.levels \in Position
      /\ row.initial \in Score /\ row.final \in Score
      /\ copy.initial \in Score /\ copy.final \in Score
  BY DEF Row
<1>2. Saved(row.levels, copy.levels) \in Position
  BY <1>1, SaveKeepsPosition
<1>3. NonZero(copy.initial, row.initial) \in Score /\ NonZero(copy.final, row.final) \in Score
  BY <1>1 DEF NonZero
<1> QED BY <1>2, <1>3 DEF Merged, Row

\* Writing a copy brings no news but the copy's.
LEMMA MergedTells ==
  ASSUME row \in Row, NEW copy \in Row
  PROVE  Telling(Merged(copy)) \subseteq Telling(row) \cup Telling(copy)
<1>1. row.levels \in Position /\ copy.levels \in Position
  BY DEF Row
<1>2. /\ Merged(copy).levels.trail = NonZero(copy.levels.trail, row.levels.trail)
      /\ Merged(copy).levels.stop = NonZero(copy.levels.stop, row.levels.stop)
      /\ Merged(copy).final = NonZero(copy.final, row.final)
  <2>1. Merged(copy).levels = Saved(row.levels, copy.levels)
        /\ Merged(copy).final = NonZero(copy.final, row.final)
    BY MergedFields
  <2>2. \A old, new : /\ Saved(old, new).trail = NonZero(new.trail, old.trail)
                      /\ Saved(old, new).stop = NonZero(new.stop, old.stop)
    BY DEF Saved
  <2> QED BY <2>1, <2>2
<1>3. PICK t, s, f : t = Merged(copy).levels.trail /\ s = Merged(copy).levels.stop
                     /\ f = Merged(copy).final
  OBVIOUS
<1>4. Telling(Merged(copy)) = {n \in {<<"trail", t>>, <<"stop", s>>} : n[2] # 0}
                                \cup (IF f # 0 THEN Dangerous(f) ELSE {})
  BY <1>3 DEF Telling
<1>5. t # 0 => <<"trail", t>> \in Telling(row) \cup Telling(copy)
  BY <1>2, <1>3 DEF Telling, NonZero
<1>6. s # 0 => <<"stop", s>> \in Telling(row) \cup Telling(copy)
  BY <1>2, <1>3 DEF Telling, NonZero
<1>7. f # 0 => Dangerous(f) \subseteq Telling(row) \cup Telling(copy)
  BY <1>2, <1>3 DEF Telling, NonZero
<1> QED BY <1>4, <1>5, <1>6, <1>7

\* A score in the low band is dangerous, whatever else the market says.
LEMMA LowIsDangerous ==
  ASSUME NEW pos, NEW m, m.score = "low"
  PROVE  Status(pos, m) = "dangerous"
BY DEF Status

\* What an evaluation finds is typed, and has all the news of the rescored copy.
LEMMA FoundIsTyped ==
  ASSUME NEW copy \in Row, NEW m \in MarketState, NEW score \in Score
  PROVE  Found(copy, m, score) \in Verdict
<1>1. Judged(copy.levels, m).trail \in Nat /\ Judged(copy.levels, m).stop \in Nat
  BY JudgedIsTyped DEF Row, Position, Level
<1>2. Raised(copy, m) \subseteq News
  BY <1>1 DEF Raised, News, Level
<1>3. Dangerous(score) \subseteq News
  BY DEF Dangerous, News
<1>4. ShouldSend(copy, m, score) \in BOOLEAN
      /\ Less(copy.final, score) \in BOOLEAN
  BY DEF ShouldSend, Less
<1> QED BY <1>2, <1>3, <1>4 DEF Found, Verdict

LEMMA FoundTells ==
  ASSUME NEW copy \in Row, NEW m \in MarketState, NEW score \in Score, Band(score) = m.score
  PROVE  Telling(Rescored(copy, m, score)) \subseteq Telling(copy) \cup Found(copy, m, score).news
<1> DEFINE news == Found(copy, m, score).news
<1>1. copy.levels \in Position
  BY DEF Row
<1>2. PICK t, s : t = Trail(copy.levels, m) /\ s = Stop(copy.levels, m)
  OBVIOUS
<1>3. /\ Rescored(copy, m, score).levels.trail = t /\ Rescored(copy, m, score).levels.stop = s
      /\ Rescored(copy, m, score).final = score
  BY <1>1, <1>2, RescoredFields, JudgedIsTyped
<1>4. news = IF ShouldSend(copy, m, score) THEN Raised(copy, m) \cup Dangerous(score) ELSE {}
  BY DEF Found
<1>5. Raised(copy, m) \subseteq news
  BY <1>4 DEF ShouldSend
<1>6. t # 0 => <<"trail", t>> \in Telling(copy) \cup news
  <2>1. t = 0 \/ t > copy.levels.trail \/ t = copy.levels.trail
    BY <1>1, <1>2, TrailOfJudged, Fields
  <2>2. t > copy.levels.trail => <<"trail", t>> \in Raised(copy, m)
    BY <1>1, <1>2, JudgedIsTyped DEF Raised
  <2>3. t # 0 /\ t = copy.levels.trail => <<"trail", t>> \in Telling(copy)
    BY DEF Telling
  <2> QED BY <1>5, <2>1, <2>2, <2>3
<1>7. s # 0 => <<"stop", s>> \in Telling(copy) \cup news
  <2>1. s # 0 => s > copy.levels.stop
    BY <1>1, <1>2, StopLevel
  <2>2. s > copy.levels.stop => <<"stop", s>> \in Raised(copy, m)
    BY <1>1, <1>2, JudgedIsTyped DEF Raised
  <2> QED BY <1>5, <2>1, <2>2
<1>8. Dangerous(score) \subseteq news
  <2>1. CASE Band(score) = "low"
    <3>1. ShouldSend(copy, m, score)
      BY <2>1, LowIsDangerous DEF ShouldSend
    <3> QED BY <1>4, <3>1
  <2>2. CASE Band(score) # "low"
    BY <2>2 DEF Dangerous
  <2> QED BY <2>1, <2>2
<1>9. Telling(Rescored(copy, m, score))
        = {n \in {<<"trail", t>>, <<"stop", s>>} : n[2] # 0}
            \cup (IF score # 0 THEN Dangerous(score) ELSE {})
  BY <1>3 DEF Telling
<1> QED BY <1>6, <1>7, <1>8, <1>9
------------------------------------------------------------------------------
\* The steps, each of which keeps the invariant.

LEMMA InitMonitoring == Init => MonitoringInv
<1> SUFFICES ASSUME Init PROVE MonitoringInv
  OBVIOUS
<1>1. PICK terms \in Entries : row = [NoRow EXCEPT !.levels.terms = terms]
  BY DEF Init
<1>2. terms \in Terms
  BY MonitoringAssumption
<1>3. row = [levels |-> [terms |-> terms, trail |-> 0, highest |-> 0, stop |-> 0],
             initial |-> 0, final |-> 0]
  BY <1>1 DEF NoRow
<1>4. row \in Row /\ Telling(row) = {}
  <2>1. row \in Row
    BY <1>2, <1>3 DEF Row, Position, Level, Score
  <2>2. row.levels.trail = 0 /\ row.levels.stop = 0 /\ row.final = 0
    BY <1>3
  <2> QED BY <2>1, <2>2 DEF Telling
<1>5. \A w \in Worker : work[w] = Idle /\ work[w].at = "idle" /\ work[w].verdict.news = {}
  BY DEF Init, Idle, NoVerdict
<1>6. TypeOK
  <2>1. NoRecord \in Record
    BY DEF NoRecord, Record, Score
  <2>2. work \in [Worker -> Work]
    BY IdleIsTyped DEF Init
  <2> QED BY <1>4, <2>1, <2>2 DEF Init, TypeOK
<1>7. Reading = {} /\ Recording = {} /\ ~latest.is
  BY <1>5 DEF Reading, Recording, Init, NoRecord
<1> QED
  BY <1>4, <1>5, <1>6, <1>7
     DEF MonitoringInv, NewsIsSent, NewsIsTold, CopiesAreTold, FreshCopies, RecordsOnTheWay,
         ScoresAgree

\* A step of worker w that leaves the others alone and loses none of its news keeps
\* what is covered.
LEMMA CoveredGrows ==
  ASSUME TypeOK, NEW w \in Worker,
         \A v \in Worker \ {w} : work'[v] = work[v],
         told \subseteq told', missed \subseteq missed',
         work[w].verdict.news \subseteq Covered'
  PROVE  Covered \subseteq Covered'
BY DEF Covered

\* A worker takes the row, or the row without its score.
LEMMA TakeKeeps ==
  ASSUME MonitoringInv, NEW w \in Worker, NEW at \in {"judging", "rewriting"},
         NEW copy \in Row, copy.levels = row.levels, copy.initial = row.initial,
         copy.final \in {row.final, 0}, Take(w, at, copy)
  PROVE  MonitoringInv'
<1> USE DEF MonitoringInv
<1>1. /\ work' = [work EXCEPT ![w] = [Idle EXCEPT !.at = at, !.copy = copy]]
      /\ UNCHANGED <<row, latest, told, missed, stale, torn>> /\ work[w].at = "idle"
  BY DEF Take
<1>2. PICK r : r = [Idle EXCEPT !.at = at, !.copy = copy]
  OBVIOUS
<1>3. r = [at |-> at, copy |-> copy, verdict |-> NoVerdict]
  BY <1>2 DEF Idle
<1>4. r \in Work /\ r.at = at /\ r.copy = copy /\ r.verdict.news = {}
  BY <1>3, IdleIsTyped DEF Work, NoVerdict
<1>5. /\ work'[w] = r /\ work' \in [Worker -> Work]
      /\ \A v \in Worker \ {w} : work'[v] = work[v]
  BY <1>1, <1>2, <1>4 DEF TypeOK
<1>6. TypeOK'
  BY <1>1, <1>5 DEF TypeOK
<1>7. work[w].verdict.news = {}
  BY <1>1 DEF NewsIsSent
<1>8. Covered \subseteq Covered'
  BY <1>1, <1>5, <1>7, CoveredGrows
<1>9. Recording' = Recording
  BY <1>1, <1>4, <1>5 DEF Recording
<1>10. Reading' = Reading \cup {w}
  BY <1>4, <1>5 DEF Reading
<1>11. NewsIsSent'
  BY <1>4, <1>5 DEF NewsIsSent
<1>12. NewsIsTold'
  BY <1>1, <1>8 DEF NewsIsTold, Telling
<1>13. CopiesAreTold'
  <2>1. Telling(copy) \subseteq Telling(row)
    BY DEF Telling
  <2>2. \A v \in Reading : v # w => Telling(work'[v].copy) \subseteq Covered'
    BY <1>5, <1>8 DEF CopiesAreTold, Reading
  <2>3. Telling(work'[w].copy) \subseteq Covered'
    BY <1>4, <1>5, <1>8, <2>1 DEF NewsIsTold
  <2> QED BY <1>10, <2>2, <2>3 DEF CopiesAreTold, Telling
<1>14. FreshCopies'
  BY <1>1, <1>4, <1>5, <1>10 DEF FreshCopies, Reading
<1>15. RecordsOnTheWay' /\ ScoresAgree'
  BY <1>1, <1>4, <1>5, <1>9 DEF RecordsOnTheWay, ScoresAgree, Recording
<1> QED BY <1>6, <1>11, <1>12, <1>13, <1>14, <1>15

\* Worker w has r in hand after the step, the others what they had.
Moves(w, r) == r \in Work /\ work' = [work EXCEPT ![w] = r]

LEMMA MovedIs ==
  ASSUME TypeOK, NEW w \in Worker, NEW r, Moves(w, r)
  PROVE  /\ work' \in [Worker -> Work] /\ work'[w] = r
         /\ \A v \in Worker \ {w} : work'[v] = work[v]
BY DEF Moves, TypeOK

\* An update, by a worker that is done with its copy, of what is covered.
LEMMA UpdateKeeps ==
  ASSUME MonitoringInv, NEW w \in Worker, NEW r, Moves(w, r),
         r.at \notin {"judging", "rewriting"},
         NEW copy \in Row, Update(w, copy), Telling(copy) \subseteq Covered',
         Covered \subseteq Covered'
  PROVE  /\ row' \in Row /\ stale' \subseteq Worker
         /\ NewsIsTold' /\ CopiesAreTold' /\ FreshCopies'
<1> USE DEF MonitoringInv
<1>1. row' = Merged(copy) /\ stale' = (stale \cup Reading) \ {w}
  BY DEF Update
<1>2. row \in Row /\ stale \subseteq Worker
  BY DEF TypeOK
<1>3. row' \in Row /\ stale' \subseteq Worker
  BY <1>1, <1>2, MergedFields DEF Reading
<1>4. Reading' = Reading \ {w}
  BY MovedIs DEF Reading
<1>5. Telling(row') \subseteq Telling(row) \cup Telling(copy)
  <2>1. PICK merged : merged = Merged(copy)
    OBVIOUS
  <2> QED BY <1>1, <1>2, <2>1, MergedTells DEF Telling
<1>6. NewsIsTold'
  BY <1>5 DEF NewsIsTold, Telling
<1>7. CopiesAreTold'
  <2>1. \A v \in Reading \ {w} : work'[v] = work[v]
    BY MovedIs DEF Reading
  <2>2. \A v \in Reading \ {w} : Telling(work[v].copy) \subseteq Covered'
    BY DEF CopiesAreTold
  <2> QED BY <1>4, <2>1, <2>2 DEF CopiesAreTold, Telling
<1>8. Reading' \ stale' = {}
  BY <1>1, <1>4
<1> QED BY <1>3, <1>6, <1>7, <1>8 DEF FreshCopies

\* A step that leaves the row alone, by a worker without a copy after it.
LEMMA SettleKeeps ==
  ASSUME MonitoringInv, NEW w \in Worker, NEW r, Moves(w, r),
         r.at \notin {"judging", "rewriting"},
         row' = row, stale \ {w} \subseteq stale', stale' \subseteq stale,
         Covered \subseteq Covered'
  PROVE  NewsIsTold' /\ CopiesAreTold' /\ FreshCopies'
<1> USE DEF MonitoringInv
<1>1. Reading' = Reading \ {w}
  BY MovedIs DEF Reading
<1>2. \A v \in Reading \ {w} : work'[v] = work[v]
  BY MovedIs DEF Reading
<1>3. NewsIsTold'
  BY DEF NewsIsTold, Telling
<1>4. CopiesAreTold'
  BY <1>1, <1>2 DEF CopiesAreTold, Telling
<1>5. FreshCopies'
  BY <1>1, <1>2 DEF FreshCopies
<1> QED BY <1>3, <1>4, <1>5

LEMMA CreateKeeps ==
  ASSUME MonitoringInv, NEW w \in Worker, Create(w)
  PROVE  MonitoringInv'
<1> USE DEF MonitoringInv
<1>1. work[w] \in Work /\ work[w].verdict \in Verdict /\ work[w].verdict.score \in Score
  BY DEF TypeOK, Work, Verdict
<1>2. PICK r : r = IF work[w].verdict.tell THEN [work[w] EXCEPT !.at = "telling"] ELSE Idle
  OBVIOUS
<1>3. /\ r \in Work /\ r.at \in {"telling", "idle"}
      /\ r.verdict.news = work[w].verdict.news
      /\ r.verdict.news # {} => r.at = "telling" /\ r.verdict.tell
  <2>1. CASE work[w].verdict.tell
    BY <1>1, <1>2, <2>1 DEF Work
  <2>2. CASE ~work[w].verdict.tell
    <3>1. work[w].verdict.news = {}
      BY <2>2 DEF NewsIsSent
    <3> QED BY <1>2, <2>2, <3>1, IdleIsTyped DEF Idle, NoVerdict
  <2> QED BY <2>1, <2>2
<1>4. Moves(w, r)
  BY <1>2, <1>3 DEF Create, Moves
<1>5. /\ work' \in [Worker -> Work] /\ work'[w] = r
      /\ \A v \in Worker \ {w} : work'[v] = work[v]
  BY <1>4, MovedIs
<1>6. /\ UNCHANGED <<row, told, missed, stale, torn>> /\ work[w].at = "recording"
      /\ latest' = [is |-> TRUE, score |-> work[w].verdict.score]
  BY DEF Create
<1>7. TypeOK'
  BY <1>1, <1>5, <1>6 DEF TypeOK, Record
<1>8. Covered \subseteq Covered'
  <2>1. work[w].verdict.news \subseteq Covered'
    BY <1>3, <1>5 DEF Covered
  <2> QED BY <1>5, <1>6, <2>1, CoveredGrows
<1>9. NewsIsTold' /\ CopiesAreTold' /\ FreshCopies'
  BY <1>3, <1>4, <1>6, <1>8, SettleKeeps
<1>10. NewsIsSent'
  BY <1>3, <1>5 DEF NewsIsSent
<1>11. Recording' = Recording \ {w} /\ w \in Recording
  BY <1>3, <1>5, <1>6 DEF Recording
<1>12. RecordsOnTheWay'
  BY <1>5, <1>6, <1>11 DEF RecordsOnTheWay
<1>13. ScoresAgree'
  <2>1. ~torn => work[w].verdict.score \in {row.final, 0}
    BY <1>11 DEF RecordsOnTheWay
  <2>2. latest'.score = work[w].verdict.score
    BY <1>6
  <2> QED BY <1>6, <2>1, <2>2 DEF ScoresAgree
<1> QED BY <1>7, <1>9, <1>10, <1>12, <1>13

\* A step after which w is idle and its news told or missed; a record that is not
\* inserted leaves the row torn.
LEMMA EndKeeps ==
  ASSUME MonitoringInv, NEW w \in Worker, work' = [work EXCEPT ![w] = Idle],
         UNCHANGED <<row, latest>>,
         told' \in SUBSET News, missed' \in SUBSET News,
         told \subseteq told', missed \subseteq missed',
         work[w].verdict.news \subseteq told' \cup missed',
         stale' \subseteq stale, stale \ {w} \subseteq stale',
         torn' = (torn \/ work[w].at = "recording")
  PROVE  MonitoringInv'
<1> USE DEF MonitoringInv
<1>1. Moves(w, Idle)
  BY IdleIsTyped DEF Moves
<1>2. Idle.at = "idle" /\ Idle.verdict.news = {}
  BY DEF Idle, NoVerdict
<1>3. /\ work' \in [Worker -> Work] /\ work'[w] = Idle
      /\ \A v \in Worker \ {w} : work'[v] = work[v]
  BY <1>1, MovedIs
<1>4. TypeOK'
  BY <1>3 DEF TypeOK
<1>5. Covered \subseteq Covered'
  <2>1. work[w].verdict.news \subseteq Covered'
    BY DEF Covered
  <2> QED BY <1>3, <2>1, CoveredGrows
<1>6. NewsIsTold' /\ CopiesAreTold' /\ FreshCopies'
  BY <1>1, <1>2, <1>5, SettleKeeps
<1>7. NewsIsSent'
  BY <1>2, <1>3 DEF NewsIsSent
<1>8. Recording' = Recording \ {w}
  BY <1>2, <1>3 DEF Recording
<1>9. RecordsOnTheWay'
  <2>1. \A v \in Recording' : v \in Recording /\ work'[v] = work[v]
    BY <1>3, <1>8 DEF Recording
  <2>2. ~torn' => ~torn
    OBVIOUS
  <2> QED BY <2>1, <2>2 DEF RecordsOnTheWay
<1>10. ScoresAgree'
  <2>1. ~torn' => Recording' = Recording
    BY <1>8 DEF Recording
  <2> QED BY <2>1 DEF ScoresAgree
<1> QED BY <1>4, <1>6, <1>7, <1>9, <1>10

LEMMA SendKeeps ==
  ASSUME MonitoringInv, NEW w \in Worker, SendMessageUser(w) \/ GiveUp(w)
  PROVE  MonitoringInv'
<1>1. work[w].verdict.news \subseteq News /\ told \subseteq News /\ missed \subseteq News
      /\ torn \in BOOLEAN
  BY DEF MonitoringInv, TypeOK, Work, Verdict
<1>2. CASE SendMessageUser(w)
  <2>1. /\ work' = [work EXCEPT ![w] = Idle] /\ UNCHANGED <<row, latest, stale, torn>>
        /\ work[w].at = "telling"
        /\ \/ told' = told \cup work[w].verdict.news /\ missed' = missed
           \/ missed' = missed \cup work[w].verdict.news /\ told' = told
    BY <1>2 DEF SendMessageUser, Miss
  <2> QED BY <1>1, <2>1, EndKeeps
<1>3. CASE GiveUp(w)
  <2>1. /\ work' = [work EXCEPT ![w] = Idle] /\ UNCHANGED <<row, latest, told>>
        /\ missed' = missed \cup work[w].verdict.news
        /\ torn' = (torn \/ work[w].at = "recording") /\ stale' = stale \ {w}
    BY <1>3 DEF GiveUp, Miss
  <2> QED BY <1>1, <2>1, EndKeeps
<1> QED BY <1>2, <1>3

LEMMA RewriteKeeps ==
  ASSUME MonitoringInv, NEW w \in Worker, Rewrite(w)
  PROVE  MonitoringInv'
<1> USE DEF MonitoringInv
<1>1. PICK copy : copy = work[w].copy
  OBVIOUS
<1>2. /\ Update(w, copy) /\ torn' = (torn \/ w \in stale) /\ UNCHANGED <<latest, told, missed>>
      /\ work' = [work EXCEPT ![w] = Idle] /\ work[w].at = "rewriting"
  BY <1>1 DEF Rewrite
<1>3. copy \in Row /\ row \in Row /\ torn \in BOOLEAN
  BY <1>1 DEF TypeOK, Work
<1>4. Moves(w, Idle) /\ Idle.at = "idle" /\ Idle.verdict.news = {}
  BY <1>2, IdleIsTyped DEF Moves, Idle, NoVerdict
<1>5. /\ work' \in [Worker -> Work] /\ work'[w] = Idle
      /\ \A v \in Worker \ {w} : work'[v] = work[v]
  BY <1>4, MovedIs
<1>6. work[w].verdict.news = {}
  BY <1>2 DEF NewsIsSent
<1>7. Covered \subseteq Covered'
  BY <1>2, <1>5, <1>6, CoveredGrows
<1>8. Telling(copy) \subseteq Covered'
  BY <1>1, <1>2, <1>7 DEF CopiesAreTold, Reading
<1>9. /\ row' \in Row /\ stale' \subseteq Worker
      /\ NewsIsTold' /\ CopiesAreTold' /\ FreshCopies'
  BY <1>2, <1>3, <1>4, <1>7, <1>8, UpdateKeeps
<1>10. TypeOK'
  BY <1>2, <1>3, <1>5, <1>9 DEF TypeOK
<1>11. NewsIsSent'
  BY <1>4, <1>5 DEF NewsIsSent
<1>12. Recording' = Recording
  BY <1>2, <1>4, <1>5 DEF Recording
<1>13. ~torn' => ~torn /\ row'.final = row.final
  <2> SUFFICES ASSUME ~torn' PROVE ~torn /\ row'.final = row.final
    OBVIOUS
  <2>1. w \in Reading \ stale /\ ~torn
    BY <1>2 DEF Reading
  <2>2. copy.final \in {row.final, 0}
    BY <1>1, <2>1 DEF FreshCopies
  <2>3. row'.final = NonZero(copy.final, row.final)
    BY <1>2, <1>3, MergedFields DEF Update
  <2> QED BY <2>1, <2>2, <2>3 DEF NonZero
<1>14. RecordsOnTheWay'
  BY <1>2, <1>5, <1>12, <1>13 DEF RecordsOnTheWay, Recording
<1>15. ScoresAgree'
  BY <1>2, <1>12, <1>13 DEF ScoresAgree
<1> QED BY <1>9, <1>10, <1>11, <1>14, <1>15

\* An evaluation: its news is on its way, or missed when the score is no number.
LEMMA EvaluateKeeps ==
  ASSUME MonitoringInv, NEW w \in Worker, Evaluate(w)
  PROVE  MonitoringInv'
<1> USE DEF MonitoringInv
<1>1. PICK copy : copy = work[w].copy
  OBVIOUS
<1>0. PICK m \in Markets : \E score \in ScoresIn(work[w].copy.levels, m) :
        /\ Update(w, Rescored(work[w].copy, m, score))
        /\ IF score = NotANumber
           THEN /\ work' = [work EXCEPT ![w] = Idle]
                /\ Miss(Found(work[w].copy, m, score).news)
                /\ torn' = TRUE
           ELSE /\ work' = [work EXCEPT ![w] =
                              [Idle EXCEPT !.at = "recording",
                                           !.verdict = Found(work[w].copy, m, score)]]
                /\ torn' = (Recording \ {w} # {})
                /\ UNCHANGED missed
  BY DEF Evaluate
<1>2. PICK score \in ScoresIn(work[w].copy.levels, m) :
        /\ Update(w, Rescored(work[w].copy, m, score))
        /\ IF score = NotANumber
           THEN /\ work' = [work EXCEPT ![w] = Idle]
                /\ Miss(Found(work[w].copy, m, score).news)
                /\ torn' = TRUE
           ELSE /\ work' = [work EXCEPT ![w] =
                              [Idle EXCEPT !.at = "recording",
                                           !.verdict = Found(work[w].copy, m, score)]]
                /\ torn' = (Recording \ {w} # {})
                /\ UNCHANGED missed
  BY <1>0
<1>3. /\ work[w].at = "judging" /\ copy \in Row /\ row \in Row /\ m \in MarketState
      /\ score \in Score /\ Band(score) = m.score /\ UNCHANGED <<latest, told>>
  <2>1. work[w].at = "judging" /\ UNCHANGED <<latest, told>>
    BY DEF Evaluate
  <2>2. copy \in Row /\ row \in Row /\ m \in MarketState
    BY <1>1, MonitoringAssumption DEF TypeOK, Work
  <2>3. score \in Score /\ Band(score) = m.score
    BY MonitoringAssumption DEF ScoresIn, Score
  <2> QED BY <2>1, <2>2, <2>3
<1>4. PICK found : found = Found(copy, m, score)
  OBVIOUS
<1>5. PICK new : new = Rescored(copy, m, score)
  OBVIOUS
<1>6. /\ found \in Verdict /\ new \in Row
      /\ Telling(new) \subseteq Telling(copy) \cup found.news
      /\ found.news # {} => found.tell
      /\ found.score = score /\ new.final = score
  <2>1. found \in Verdict /\ new \in Row /\ new.final = score
    BY <1>3, <1>4, <1>5, FoundIsTyped, RescoredFields
  <2>2. Telling(new) \subseteq Telling(copy) \cup found.news
    BY <1>3, <1>4, <1>5, FoundTells
  <2>3. (found.news # {} => found.tell) /\ found.score = score
    BY <1>4 DEF Found
  <2> QED BY <2>1, <2>2, <2>3
<1>7. PICK r : r = IF score = NotANumber THEN Idle
                  ELSE [Idle EXCEPT !.at = "recording", !.verdict = found]
  OBVIOUS
<1>8. /\ r \in Work
      /\ score = NotANumber => r.at = "idle" /\ r.verdict.news = {}
      /\ score # NotANumber => r.at = "recording" /\ r.verdict = found
  <2>1. CASE score = NotANumber
    BY <1>7, <2>1, IdleIsTyped DEF Idle, NoVerdict
  <2>2. CASE score # NotANumber
    <3>1. r = [at |-> "recording", copy |-> NoRow, verdict |-> found]
      BY <1>7, <2>2 DEF Idle
    <3> QED BY <1>6, <2>2, <3>1, IdleIsTyped DEF Work
  <2> QED BY <2>1, <2>2
<1>9. Moves(w, r)
  BY <1>1, <1>2, <1>4, <1>7, <1>8 DEF Moves
<1>10. /\ work' \in [Worker -> Work] /\ work'[w] = r
       /\ \A v \in Worker \ {w} : work'[v] = work[v]
  BY <1>9, MovedIs
<1>11. /\ missed' = missed \cup (IF score = NotANumber THEN found.news ELSE {})
       /\ torn' = (score = NotANumber \/ Recording \ {w} # {})
       /\ Update(w, new)
  BY <1>1, <1>2, <1>4, <1>5 DEF Miss
<1>12. found.news \subseteq Covered'
  BY <1>8, <1>10, <1>11 DEF Covered
<1>13. Covered \subseteq Covered'
  <2>1. work[w].verdict.news = {}
    BY <1>3 DEF NewsIsSent
  <2> QED BY <1>3, <1>10, <1>11, <2>1, CoveredGrows
<1>14. Telling(new) \subseteq Covered'
  <2>1. Telling(copy) \subseteq Covered
    BY <1>1, <1>3 DEF CopiesAreTold, Reading
  <2> QED BY <1>6, <1>12, <1>13, <2>1
<1>15. /\ row' \in Row /\ stale' \subseteq Worker
       /\ NewsIsTold' /\ CopiesAreTold' /\ FreshCopies'
  BY <1>6, <1>8, <1>9, <1>11, <1>13, <1>14, UpdateKeeps
<1>16. TypeOK'
  <2>1. found.news \subseteq News
    BY <1>6 DEF Verdict
  <2>2. missed' \subseteq News
    BY <1>11, <2>1 DEF TypeOK
  <2>3. torn' \in BOOLEAN
    BY <1>11
  <2> QED BY <1>3, <1>10, <1>15, <2>2, <2>3 DEF TypeOK
<1>17. NewsIsSent'
  BY <1>6, <1>8, <1>10 DEF NewsIsSent
<1>18. ~torn' => Recording' = {w} /\ work'[w].verdict.score \in {row'.final, 0}
  <2> SUFFICES ASSUME ~torn'
               PROVE  Recording' = {w} /\ work'[w].verdict.score \in {row'.final, 0}
    OBVIOUS
  <2>1. score # NotANumber /\ Recording \ {w} = {}
    BY <1>11
  <2>2. Recording' = {w}
    BY <1>8, <1>10, <2>1 DEF Recording
  <2>3. row'.final = NonZero(score, row.final)
    BY <1>3, <1>6, <1>11, MergedFields DEF Update
  <2> QED BY <1>6, <1>8, <1>10, <2>1, <2>2, <2>3 DEF NonZero
<1>19. RecordsOnTheWay'
  BY <1>18 DEF RecordsOnTheWay
<1>20. ScoresAgree'
  BY <1>18 DEF ScoresAgree
<1> QED BY <1>15, <1>16, <1>17, <1>19, <1>20
------------------------------------------------------------------------------
LEMMA ReadKeeps ==
  ASSUME MonitoringInv, NEW w \in Worker, ReadToJudge(w) \/ ReadToRewrite(w)
  PROVE  MonitoringInv'
<1>1. row \in Row
  BY DEF MonitoringInv, TypeOK
<1>2. PICK bare : bare = [row EXCEPT !.final = 0]
  OBVIOUS
<1>3. /\ bare \in Row /\ bare.levels = row.levels /\ bare.initial = row.initial
      /\ bare.final = 0
  BY <1>1, <1>2 DEF Row, Score
<1>4. Take(w, "judging", row) \/ Take(w, "rewriting", row) \/ Take(w, "rewriting", bare)
  BY <1>2 DEF ReadToJudge, ReadToRewrite
<1> QED BY <1>1, <1>3, <1>4, TakeKeeps

\* MonitoringInv holds in every reachable state.
LEMMA AlwaysMonitoringInv == Spec => []MonitoringInv
<1>1. MonitoringInv /\ [Next]_vars => MonitoringInv'
  <2> SUFFICES ASSUME MonitoringInv, [Next]_vars PROVE MonitoringInv'
    OBVIOUS
  <2>1. CASE UNCHANGED vars
    BY <2>1 DEF vars, MonitoringInv, TypeOK, NewsIsSent, NewsIsTold, CopiesAreTold, FreshCopies,
                RecordsOnTheWay, ScoresAgree, Reading, Recording, Covered, Telling
  <2>2. CASE Next
    <3>1. PICK w \in Worker :
            \/ ReadToJudge(w) \/ Evaluate(w) \/ Create(w) \/ SendMessageUser(w)
            \/ ReadToRewrite(w) \/ Rewrite(w) \/ GiveUp(w)
      BY <2>2 DEF Next
    <3> QED BY <3>1, ReadKeeps, EvaluateKeeps, CreateKeeps, SendKeeps, RewriteKeeps
  <2> QED BY <2>1, <2>2
<1> QED BY <1>1, InitMonitoring, PTL DEF Spec

\* The row, its record, copies and verdicts keep their types.
THEOREM MonitoringTyped == Spec => []TypeOK
BY AlwaysMonitoringInv, PTL DEF MonitoringInv

\* EvaluateStockPosition tells the owner of every raised level and dangerous score
\* it leaves in the row, or a step after the update failed.
THEOREM NewsTold == Spec => []NewsIsTold
BY AlwaysMonitoringInv, PTL DEF MonitoringInv

\* The newest record and the row have the same score, but for the named causes.
THEOREM ScoresTheSame == Spec => []ScoresAgree
BY AlwaysMonitoringInv, PTL DEF MonitoringInv

\* initial_score, once set, is changed through an overtaken copy only.
THEOREM InitialStays == Spec => InitialScoreStays
<1> DEFINE Step == row.initial # 0 /\ row'.initial # row.initial
                     => \E w \in stale : work'[w] # work[w]
<1>1. MonitoringInv /\ [Next]_vars => Step
  <2> SUFFICES ASSUME MonitoringInv, [Next]_vars, row.initial # 0, row'.initial # row.initial
               PROVE  \E w \in stale : work'[w] # work[w]
    OBVIOUS
  <2>1. PICK w \in Worker : Evaluate(w) \/ Rewrite(w)
    BY DEF Next, vars, ReadToJudge, ReadToRewrite, Take, Create, SendMessageUser, GiveUp
  <2>2. /\ work \in [Worker -> Work] /\ row \in Row /\ work[w].copy \in Row
        /\ w \in Reading /\ work'[w].at \notin {"judging", "rewriting"}
    <3>1. work \in [Worker -> Work] /\ row \in Row
      BY DEF MonitoringInv, TypeOK
    <3>2. w \in Reading
      BY <2>1 DEF Evaluate, Rewrite, Reading
    <3>3. work'[w].at \in {"idle", "recording"}
      <4>1. CASE Rewrite(w)
        BY <3>1, <4>1 DEF Rewrite, Idle
      <4>2. CASE Evaluate(w)
        <5>1. PICK found :
                \/ work' = [work EXCEPT ![w] = Idle]
                \/ work' = [work EXCEPT ![w] = [Idle EXCEPT !.at = "recording", !.verdict = found]]
          BY <4>2 DEF Evaluate
        <5>2. PICK r : r = [Idle EXCEPT !.at = "recording", !.verdict = found]
          OBVIOUS
        <5>3. r.at = "recording" /\ Idle.at = "idle"
          BY <5>2 DEF Idle
        <5> QED BY <3>1, <5>1, <5>2, <5>3
      <4> QED BY <2>1, <4>1, <4>2
    <3> QED BY <3>1, <3>2, <3>3 DEF Work
  <2>3. work'[w] # work[w]
    BY <2>2 DEF Reading
  <2>4. w \in stale
    <3> SUFFICES ASSUME w \notin stale PROVE FALSE
      OBVIOUS
    <3>1. work[w].copy.initial = row.initial
      BY <2>2 DEF MonitoringInv, FreshCopies
    <3>2. CASE Rewrite(w)
      <4>1. row' = Merged(work[w].copy)
        BY <3>2 DEF Rewrite, Update
      <4>2. row'.initial = NonZero(work[w].copy.initial, row.initial)
        BY <2>2, <4>1, MergedFields
      <4> QED BY <3>1, <4>2 DEF NonZero
    <3>3. CASE Evaluate(w)
      <4>0. PICK m \in Markets : \E score \in ScoresIn(work[w].copy.levels, m) :
              row' = Merged(Rescored(work[w].copy, m, score))
        BY <3>3 DEF Evaluate, Update
      <4>1. PICK score \in ScoresIn(work[w].copy.levels, m) :
              row' = Merged(Rescored(work[w].copy, m, score))
        BY <4>0
      <4>2. m \in MarketState /\ score \in Score
        BY MonitoringAssumption DEF ScoresIn, Score
      <4>3. PICK new : new = Rescored(work[w].copy, m, score)
        OBVIOUS
      <4>4. new \in Row /\ new.initial = NonZero(work[w].copy.initial, score)
        BY <2>2, <4>2, <4>3, RescoredFields
      <4>5. row'.initial = NonZero(new.initial, row.initial)
        BY <2>2, <4>1, <4>3, <4>4, MergedFields
      <4> QED BY <3>1, <4>4, <4>5 DEF NonZero
    <3> QED BY <2>1, <3>2, <3>3
  <2> QED BY <2>3, <2>4
<1>2. MonitoringInv /\ [Next]_vars => [Step]_vars
  BY <1>1
<1> QED BY <1>2, AlwaysMonitoringInv, PTL DEF Spec, InitialScoreStays
=============================================================================
