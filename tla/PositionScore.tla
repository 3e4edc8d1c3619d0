--------------------------- MODULE PositionScore ---------------------------
(***************************************************************************)
(* calculateAdvancedScore and CalculateSummary (internal/service): how     *)
(* well a position stands, from 0 to 100, and what the technical analyses  *)
(* of all timeframes add up to.  The texts of the insights are left out.   *)
(***************************************************************************)
EXTENDS Levels

\* A float that is not a number, no comparison with which holds; scores are not
\* negative.
NotANumber == -1

normalizeScore(score) == Min({100, Max({0, score})})

MapTradingViewScreenerRecommend(summary) ==
  IF summary > 0 THEN "buy" ELSE IF summary < 0 THEN "sell" ELSE "neutral"
------------------------------------------------------------------------------
scoreTrend(ta) ==
  LET global == [s \in -2 .. 2 |-> <<-50, -35, 15, 35, 50>>[s + 3]]
      averages == (IF ta.close > ta.ema10 THEN 5 ELSE 0) + (IF ta.close > ta.ema20 THEN 10 ELSE 0)
                  + (IF ta.close > ta.ema50 THEN 15 ELSE 0)
                  + (IF ta.close > ta.ema100 THEN 20 ELSE 0)
                  - (IF ta.close < ta.ema200 THEN 30 ELSE 0)
  IN  global[ta.summary] + averages

scoreMomentum(ta) ==
  LET divergence == ta.macd - ta.signal
      strong == 10 * Distance(divergence, 0) > Distance(ta.macd, 0)
      Signed(condition, n) == IF condition THEN n ELSE -n
  IN  (IF ta.rsi > 70 THEN -20 ELSE IF ta.rsi > 50 THEN 2 * (ta.rsi - 50)
       ELSE IF ta.rsi < 30 THEN -10 ELSE 20)
      + Signed(divergence > 0, 15) + Signed(ta.macd > 0, 15)
      + (IF strong THEN Signed(divergence > 0, 10) ELSE 0)
      + (IF ta.stochK > 80 THEN -10 ELSE IF ta.stochK > 20 THEN 30 ELSE -5)

\* The levels on the right side of the entry that are the nearest to a target; the
\* first of them in the code's order.
Nearest(levels, target) ==
  levels[CHOOSE i \in DOMAIN levels :
    \A j \in DOMAIN levels :
      \/ Distance(levels[i].price, target) < Distance(levels[j].price, target)
      \/ Distance(levels[i].price, target) = Distance(levels[j].price, target) /\ i <= j]

\* Touches, weighed by how near to the target the level is.
Weighed(level, target, weight) ==
  (weight * level.touches * (target - Distance(level.price, target))) \div target

\* A stop loss under a support is well placed.  It is 50 for a position without
\* an entry, which has no support below it.
calculateSLPlacementScore(terms, supports) ==
  LET below == SelectSeq(supports, LAMBDA s : s.price < terms.buy)
      nearest == Nearest(below, terms.sl)
  IN  IF below = <<>> THEN 50
      ELSE IF nearest.price <= 0 THEN 50
      ELSE normalizeScore(IF terms.sl < nearest.price THEN 50 + Weighed(nearest, terms.sl, 20)
                          ELSE 50 - Weighed(nearest, terms.sl, 25))

\* Without a target the distance to a resistance is divided by 0: minus infinity
\* if the resistance was touched, not a number if it was not.
calculateTPReachScore(terms, resistances) ==
  LET up == terms.tp - terms.buy
      down == terms.buy - terms.sl
      ratio == IF up <= 0 \/ down <= 0 THEN 20
               ELSE IF up >= 2 * down THEN 100 ELSE IF 2 * up >= 3 * down THEN 70 ELSE 40
      above == SelectSeq(resistances, LAMBDA r : r.price > terms.buy)
      nearest == Nearest(above, terms.tp)
      Blend(resistance) == (4 * ratio + 6 * normalizeScore(resistance)) \div 10
  IN  IF above = <<>> THEN Blend(50)
      ELSE IF terms.tp = 0 THEN IF nearest.touches = 0 THEN NotANumber ELSE Blend(0)
      ELSE IF terms.tp > nearest.price THEN Blend(50 - Weighed(nearest, terms.tp, 20))
      ELSE Blend(50 + Weighed(nearest, terms.tp, 15))

scorePositionHealth(terms, last, supports, resistances) ==
  LET profit == last - terms.buy
      risk == last - terms.sl
      range == terms.buy - terms.sl
      gained == IF terms.buy = 0 THEN 100   \* a gain of infinitely many percent
                ELSE IF profit > 0 THEN 50 + (200 * profit) \div terms.buy
                ELSE 50 + (500 * profit) \div terms.buy
      health == IF range <= 0 THEN gained
                ELSE IF 4 * risk < range THEN gained - 50
                ELSE IF 2 * risk < range THEN gained - 25 ELSE gained + 20
      reach == calculateTPReachScore(terms, resistances)
  IN  IF reach = NotANumber THEN NotANumber
      ELSE (2 * normalizeScore(health) + reach + calculateSLPlacementScore(terms, supports)) \div 4

scorePriceActionAndVolume(candles) ==
  IF Len(candles) < 2 THEN 50
  ELSE LET last == Back(candles, 0)
           mean == Mean(candles, 20)
       IN  normalizeScore(50
             + (IF isStrongBullishCandle(last) THEN 30
                ELSE IF isBearishEngulfing(last, Back(candles, 1)) THEN -40
                ELSE IF last.close < last.open THEN -15 ELSE 0)
             + (IF mean = 0 THEN 0
                ELSE IF last.volume > 2 * mean THEN IF last.close > last.open THEN 20 ELSE -30
                ELSE IF 10 * last.volume < 7 * mean THEN -10 ELSE 0))

scoreMultiTimeframe(main, secondary) ==
  LET m == MapTradingViewScreenerRecommend(main.summary)
      s == MapTradingViewScreenerRecommend(secondary.summary)
  IN  IF m = "neutral" THEN 50
      ELSE IF s \notin {m, "neutral"} THEN 20
      ELSE IF m = "buy" THEN 100 ELSE 0

\* In hundredths.  The weights add up to 105%.
calculateAdvancedScore(terms, main, secondary, candles, last, supports, resistances) ==
  LET health == scorePositionHealth(terms, last, supports, resistances)
  IN  IF health = NotANumber THEN NotANumber
      ELSE Min({10000, Max({0,
             45 * scoreTrend(main) + 25 * scoreMomentum(main) + 10 * health
               + 15 * scorePriceActionAndVolume(candles)
               + (IF secondary = <<>> THEN 0
                  ELSE 10 * scoreMultiTimeframe(main, secondary[1]))})})
------------------------------------------------------------------------------
\* Summaries weighed by their timeframes, from 0 to 100 when each timeframe is
\* there once.
CalculateSummary(analyses, weight) ==
  LET total == SumFunction(weight)
      known == SelectSeq(analyses, LAMBDA a : a.timeframe \in DOMAIN weight)
      sum == SumFunction([i \in DOMAIN known |-> weight[known[i].timeframe] * known[i].ta.summary])
  IN  (25 * (sum + 2 * total)) \div total
==============================================================================
