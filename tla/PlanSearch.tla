------------------------------ MODULE PlanSearch ------------------------------
(***************************************************************************)
(* calculatePlan (internal/service/trading_calculate.go): among the levels *)
(* below the entry a stop loss and among those above it a take profit, the *)
(* pair with the best score whose reward is worth its risk; failing that,  *)
(* distances in ATRs.                                                      *)
(*                                                                         *)
(* Scores of sources are in tenths, those of plans in thousandths.  Plans  *)
(* of equal score are all kept: which of them wins is left to Go's sort.   *)
(***************************************************************************)
EXTENDS Levels

NoPlan == [entry |-> 0, sl |-> 0, tp |-> 0, kind |-> "none", score |-> 0]

\* Every price once, with the score of its first source.
FirstOfEach(sources) ==
  {sources[i] : i \in {i \in DOMAIN sources :
                         \A j \in 1 .. i - 1 : sources[j].price # sources[i].price}}

Shifted(sources, by) == [i \in DOMAIN sources |-> [sources[i] EXCEPT !.price = @ - by]]

\* Supports by their touches, then the averages of the main timeframes.
SLCandidates(entry, supports, emas, by) ==
  LET sources == [i \in DOMAIN supports |->
                    [price |-> supports[i].price, score |-> 10 * supports[i].touches]]
                 \o FlattenSeq([i \in DOMAIN emas |->
                      <<[price |-> emas[i].ema10, score |-> 15],
                        [price |-> emas[i].ema20, score |-> 20],
                        [price |-> emas[i].ema50, score |-> 25]>>])
  IN  {s \in FirstOfEach(Shifted(sources, by)) : s.price < entry}

\* Resistances by their touches, then the price buckets by their counts.
TPCandidates(entry, resistances, buckets, by) ==
  LET sources == [i \in DOMAIN resistances |->
                    [price |-> resistances[i].price, score |-> 10 * resistances[i].touches]]
                 \o [i \in DOMAIN buckets |->
                      [price |-> buckets[i].price, score |-> buckets[i].count]]
  IN  {s \in FirstOfEach(Shifted(sources, by)) : s.price > entry}

Config ==
  [primary |-> [maxSL |-> 5, minSL |-> 2, maxTP |-> 7, bonus |-> 10000],
   secondary |-> [maxSL |-> 10, minSL |-> 1, maxTP |-> 14, bonus |-> 0]]
TargetRiskReward == 1

\* Mutant: any reward will do.
FitsAnyReward(entry, sl, tp, c) ==
  LET risk == entry - sl.price
      reward == tp.price - entry
  IN  /\ 100 * risk <= c.maxSL * entry /\ 100 * risk >= c.minSL * entry
      /\ 100 * reward <= c.maxTP * entry

Fits(entry, sl, tp, c) ==
  LET risk == entry - sl.price
      reward == tp.price - entry
  IN  /\ 100 * risk <= c.maxSL * entry /\ 100 * risk >= c.minSL * entry
      /\ 100 * reward <= c.maxTP * entry
      /\ reward >= TargetRiskReward * risk

\* 30 for the ratio, 20 for each source and the entry, 10 for the kind of plan.
Score(entry, sl, tp, quality, c) ==
  Min({30000, (7500 * (tp.price - entry)) \div (entry - sl.price)})
    + 400 * Min({50, sl.score}) + 400 * Min({50, tp.score}) + 400 * Max({0, quality})
    + c.bonus

BestPlans(entry, sls, tps, kind, quality) ==
  LET c == Config[kind]
      plans == {[entry |-> entry, sl |-> p[1].price, tp |-> p[2].price, kind |-> kind,
                 score |-> Score(entry, p[1], p[2], quality, c)] :
                  p \in {p \in sls \X tps : Fits(entry, p[1], p[2], c)}}
  IN  {p \in plans : \A q \in plans : q.score <= p.score}

IdealPlans(entry, sls, tps, quality) ==
  LET primary == BestPlans(entry, sls, tps, "primary", quality)
  IN  IF primary # {} THEN primary ELSE BestPlans(entry, sls, tps, "secondary", quality)

\* Close to its EMA20, a healthy RSI, an uptrend: up to 50.
EntryQuality(entry, ta) ==
  (IF ta.ema20 = 0 THEN 0
   ELSE IF 100 * (entry - ta.ema20) <= ta.ema20 THEN 20
   ELSE IF 100 * (entry - ta.ema20) <= 3 * ta.ema20 THEN 10
   ELSE IF 100 * (entry - ta.ema20) > 5 * ta.ema20 THEN -10 ELSE 0)
  + (IF 50 <= ta.rsi /\ ta.rsi <= 65 THEN 15 ELSE IF ta.rsi > 70 THEN -10 ELSE 0)
  + (IF ta.ema20 > ta.ema50 THEN 15 ELSE 0)

\* Without candles enough for an ATR there is no plan at all.
ATRBasedPlan(entry, atr, multiplier) ==
  IF atr = 0 THEN NoPlan
  ELSE [entry |-> entry, sl |-> entry - (multiplier * atr) \div 1000, tp |-> entry + 3 * atr,
        kind |-> "atr", score |-> 500]

\* The levels are moved down, stops by their distance and targets by a tenth of
\* an ATR.
calculatePlans(entry, supports, resistances, emas, buckets, atr, multiplier, ta) ==
  LET ideal == IdealPlans(entry, SLCandidates(entry, supports, emas, (atr * multiplier) \div 1000),
                          TPCandidates(entry, resistances, buckets, atr \div 10),
                          EntryQuality(entry, ta))
  IN  IF ideal # {} THEN ideal ELSE {ATRBasedPlan(entry, atr, multiplier)}
==============================================================================
