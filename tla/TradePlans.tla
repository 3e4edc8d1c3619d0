----------------------------- MODULE TradePlans -----------------------------
(***************************************************************************)
(* CreateTradePlan and EvaluatePositionMonitoring over the stored analyses *)
(* of a stock (internal/service/trading.go, trading_position.go): an entry *)
(* (SmartEntry), a stop and a target for it (PlanSearch), the plan judged  *)
(* as if it were a position (TrailingRules), and a score (PositionScore).  *)
(*                                                                         *)
(* An analysis is a record of a timeframe, its candles, its technical      *)
(* analysis and the market price at the time.  A reading of the parameters *)
(* that fails is left to the callers.                                      *)
(***************************************************************************)
EXTENDS SmartEntry, PlanSearch, PositionScore

CONSTANTS
  Weight,     \* of each configured timeframe
  IsMain      \* the timeframes whose averages count

ASSUME WeightAssumption ==
  /\ DOMAIN Weight # {} /\ IsFiniteSet(DOMAIN Weight) /\ IsMain \subseteq DOMAIN Weight
  /\ \A t \in DOMAIN Weight : Weight[t] \in Nat \ {0}
  /\ \A t, u \in DOMAIN Weight : Weight[t] = Weight[u] => t = u

\* What is stored of a stock.  Candles with a price of 0 are skipped by the fetch;
\* its market price is 0 when the answer names none.
Price == Nat \ {0}
StoredCandle == [open : Price, high : Price, low : Price, close : Price, volume : Nat]
TechnicalAnalysis ==
  [summary : -2 .. 2, ma : Int, osc : Int, macd : Int, signal : Int, rsi : Int, stochK : Int,
   adx : Int, close : Int, ema10 : Int, ema20 : Int, ema50 : Int, ema100 : Int, ema200 : Int,
   classicS : [1 .. 3 -> Int], fibonacciS : [1 .. 3 -> Int],
   classicR : [1 .. 3 -> Int], fibonacciR : [1 .. 3 -> Int]]
StockAnalysis ==
  [timeframe : STRING, price : Nat, candles : Seq(StoredCandle), ta : TechnicalAnalysis]

Rules == INSTANCE TrailingRules

Heaviest(timeframes) == CHOOSE t \in timeframes : \A u \in timeframes : Weight[u] <= Weight[t]
MainTimeframe == Heaviest(DOMAIN Weight)

\* The last analysis of a timeframe, or none: <<>>.
OfTimeframe(analyses, timeframe) ==
  LET found == {i \in DOMAIN analyses : analyses[i].timeframe = timeframe}
  IN  IF found = {} THEN <<>> ELSE <<analyses[Max(found)]>>

\* findMainAnalysisData
MainData(analyses) == OfTimeframe(analyses, MainTimeframe)
SecondaryData(analyses) ==
  LET others == DOMAIN Weight \ {MainTimeframe}
  IN  IF others = {} THEN <<>> ELSE OfTimeframe(analyses, Heaviest(others))

CanBeJudged(analyses) == MainData(analyses) # <<>> /\ MainData(analyses)[1].candles # <<>>

\* The last price another job has cached comes before the one of the analysis;
\* 0 stands for none.
MarketPrice(analyses, cached) == IF cached # 0 THEN cached ELSE Last(analyses).price

\* An evaluation without either takes the last close.
LastPrice(analyses, cached) ==
  LET market == MarketPrice(analyses, cached)
  IN  IF market # 0 THEN market ELSE Back(MainData(analyses)[1].candles, 0).close

Supports(analyses) ==
  FlattenSeq([i \in DOMAIN analyses |-> buildPivots(analyses[i].ta, analyses[i].candles, TRUE)])
Resistances(analyses) ==
  FlattenSeq([i \in DOMAIN analyses |-> buildPivots(analyses[i].ta, analyses[i].candles, FALSE)])
Buckets(analyses) ==
  FlattenSeq([i \in DOMAIN analyses |-> SetToSeq(ClosePriceBuckets(analyses[i].candles))])

\* CalculateSupportResistance, for an analysis that can be judged.
CalculateSupportResistance(analyses) ==
  LET main == MainData(analyses)[1]
  IN  [supports |-> buildPivots(main.ta, main.candles, TRUE),
       resistances |-> buildPivots(main.ta, main.candles, FALSE)]
------------------------------------------------------------------------------
\* evaluatePotentialAtTakeProfit: a strong candle on a high volume, not overbought.
LastCandle(main) ==
  LET last == Back(main.candles, 0)
      mean == Mean(main.candles, 20)
  IN  IF isStrongBullishCandle(last) /\ mean > 0 /\ 2 * last.volume > 3 * mean /\ main.ta.rsi < 85
      THEN "breakout"
      ELSE IF Len(main.candles) >= 2 /\ isBearishEngulfing(last, Back(main.candles, 1))
      THEN "engulfing" ELSE "other"

\* Both scores in hundredths, the sum compared in ten thousandths.
Band(summary, score) ==
  LET final == 6000 * summary + 40 * score
  IN  IF score = NotANumber THEN "low"
      ELSE IF final >= 700000 THEN "high" ELSE IF final >= 500000 THEN "middle" ELSE "low"

\* What the rules for a position see of the market.
MarketState(terms, analyses, supports, resistances, cached) ==
  LET main == MainData(analyses)[1]
      secondary == SecondaryData(analyses)
      last == LastPrice(analyses, cached)
      candle == LastCandle(main)
  IN  [last |-> last, candle |-> candle,
       target |-> IF candle # "breakout" THEN 0
                  ELSE IF main.ta.classicR[2] = 0 THEN main.ta.fibonacciR[2]
                  ELSE main.ta.classicR[2],
       tech |-> MapTradingViewScreenerRecommend(main.ta.summary),
       r1 |-> IF secondary = <<>> THEN 0 ELSE secondary[1].ta.classicR[1],
       low |-> IF Len(main.candles) < 2 THEN 0 ELSE Back(main.candles, 1).low,
       score |-> Band(CalculateSummary(analyses, Weight),
                      calculateAdvancedScore(terms, main.ta,
                        [i \in DOMAIN secondary |-> secondary[i].ta], main.candles, last,
                        supports, resistances))]

Untrailed(terms) == [terms |-> terms, trail |-> 0, highest |-> 0, stop |-> 0]

\* EvaluatePositionMonitoring of a position that trails nothing yet.
Evaluate(terms, analyses, supports, resistances, cached) ==
  LET m == MarketState(terms, analyses, supports, resistances, cached)
      pos == Untrailed(terms)
  IN  [signal |-> Rules!Signal(pos, m), status |-> Rules!Status(pos, m), stop |-> Rules!Stop(pos, m)]
------------------------------------------------------------------------------
EmaData(analyses) ==
  LET Averages(a) == IF a.timeframe \notin IsMain THEN <<>>
                     ELSE <<[ema10 |-> a.ta.ema10, ema20 |-> a.ta.ema20, ema50 |-> a.ta.ema50]>>
  IN  FlattenSeq([i \in DOMAIN analyses |-> Averages(analyses[i])])

Entry(analyses, cached) ==
  LET main == MainData(analyses)[1]
  IN  calculateSmartEntry(MarketPrice(analyses, cached), main.ta, main.candles,
                          Supports(analyses), Resistances(analyses), EmaData(analyses))

PlansFor(analyses, cached) ==
  LET main == MainData(analyses)[1]
  IN  calculatePlans(Entry(analyses, cached), Supports(analyses), Resistances(analyses),
                     EmaData(analyses), Buckets(analyses), calculateATR(main.candles),
                     ATRMultiplierForSL(main.ta), main.ta)

\* Mutant: the plan is told safe by its score, wherever its stop is.
StatusOfScore(terms, analyses, cached) ==
  LET m == MarketState(terms, analyses, Supports(analyses), Resistances(analyses), cached)
  IN  IF m.score = "high" THEN "safe" ELSE IF m.score = "middle" THEN "warning" ELSE "dangerous"

PlanStatus(terms, analyses, cached) ==
  Evaluate(terms, analyses, Supports(analyses), Resistances(analyses), cached).status

\* The score is 70% analysis and 30% plan, in thousandths.  No plan at all, of a
\* stock without analysis or candles of its main timeframe, is the empty set.
CreateTradePlan(analyses, cached) ==
  IF analyses = <<>> THEN {}
  ELSE IF ~CanBeJudged(analyses) THEN {}
  ELSE {[plan |-> p,
         market |-> MarketPrice(analyses, cached),
         status |-> PlanStatus([buy |-> p.entry, tp |-> p.tp, sl |-> p.sl], analyses, cached),
         isBuySignal |-> MainData(analyses)[1].ta.summary > 0,
         score |-> 700 * CalculateSummary(analyses, Weight) + (3 * p.score) \div 10] :
         p \in PlansFor(analyses, cached)}
==============================================================================
