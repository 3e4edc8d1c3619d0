----------------------------- MODULE SmartEntry -----------------------------
(***************************************************************************)
(* calculateSmartEntry (internal/service/trading_calculate.go): the price  *)
(* a plan proposes to buy at.  Scores that compare options are in          *)
(* thousandths, those of volume and of candlesticks in tenths.             *)
(***************************************************************************)
EXTENDS Levels

Sign(condition) == IF condition THEN 1 ELSE -1
Absolute(n) == Distance(n, 0)

calculateTrendScore(ta) ==
  3 * ta.summary + 2 * ta.ma + ta.osc + Sign(ta.macd > ta.signal)
    + (IF ta.rsi > 70 THEN -2 ELSE IF ta.rsi < 30 THEN 1 ELSE 0)

\* The last two candles confirm the trend, by their range and by their volume.
EnhancedTrendScore(ta, candles) ==
  calculateTrendScore(ta)
    + (IF Len(candles) < 3 THEN 0
       ELSE LET last == Back(candles, 0)
                prev == Back(candles, 1)
            IN  IF last.high > prev.high /\ last.low > prev.low THEN 1
                ELSE IF last.high < prev.high /\ last.low < prev.low THEN -1 ELSE 0)
    + (IF Len(candles) < 2 \/ Back(candles, 0).volume <= Back(candles, 1).volume THEN 0
       ELSE Sign(Back(candles, 0).close > Back(candles, 1).close))

\* The latest volume against the mean of the recent ones.
VolumeConfirmation(candles) ==
  IF Len(candles) < Recent THEN 5
  ELSE LET latest == 10 * Recent * Back(candles, 0).volume
           sum == SumFunction([i \in 1 .. Recent |-> Back(candles, i - 1).volume])
       IN  IF latest > 15 * sum THEN 9
           ELSE IF latest > 12 * sum THEN 7
           ELSE IF latest > 8 * sum THEN 5 ELSE 3

\* Hammer, doji, engulfing and three in a row.
CandlestickPatterns(candles) ==
  IF Len(candles) < 3 THEN 0
  ELSE LET last == Back(candles, 0)
           prev == Back(candles, 1)
           body == Distance(last.close, last.open)
           lower == Min({last.open, last.close}) - last.low
           upper == last.high - Max({last.open, last.close})
           engulfs == 10 * body > 12 * Distance(prev.close, prev.open)
       IN  (IF lower > 2 * body /\ 2 * upper < body THEN 3 ELSE 0)
           + (IF 10 * body < last.high - last.low THEN 1 ELSE 0)
           + (IF ~engulfs THEN 0
              ELSE IF last.close > last.open /\ prev.close < prev.open THEN 4
              ELSE IF last.close < last.open /\ prev.close > prev.open THEN -4 ELSE 0)
           + (IF last.close > prev.close /\ prev.close > Back(candles, 2).close THEN 2
              ELSE IF last.close < prev.close /\ prev.close < Back(candles, 2).close THEN -2
              ELSE 0)

\* At most 5, so that the code's bonus for a score above 5 is never given.
MomentumScore(ta) ==
  (IF 50 < ta.rsi /\ ta.rsi < 70 THEN 2 ELSE IF ta.rsi > 70 THEN 1
   ELSE IF 30 < ta.rsi /\ ta.rsi < 50 THEN -1 ELSE IF ta.rsi < 30 THEN 1 ELSE 0)
  + (IF ta.macd > ta.signal THEN 2 ELSE -1)
  + (IF 50 < ta.stochK /\ ta.stochK < 80 THEN 1 ELSE IF ta.stochK < 50 THEN -1 ELSE 0)
------------------------------------------------------------------------------
\* The market itself, supports up to 5% and averages up to 3% below it, half an ATR.
BullishEntryOptions(current, supports, emas, atr) ==
  LET Near(price, percent) == price < current /\ 100 * price > (100 - percent) * current
      Option(price, score) == <<[price |-> price, score |-> score]>>
      OfSupport(s) == IF Near(s.price, 5)
                      THEN Option(s.price, 2000 * s.touches + (5000 * s.price) \div current)
                      ELSE <<>>
      OfAverage(price) == IF price > 0 /\ Near(price, 3)
                          THEN Option(price, 6000 + (4000 * price) \div current) ELSE <<>>
      pullback == current - atr \div 2
  IN  Option(current, 5000)
        \o FlattenSeq([i \in DOMAIN supports |-> OfSupport(supports[i])])
        \o FlattenSeq([i \in DOMAIN emas |-> OfAverage(emas[i].ema20) \o OfAverage(emas[i].ema50)])
        \o (IF 100 * pullback > 97 * current THEN Option(pullback, 4000) ELSE <<>>)

\* What is added to every option's score.  No summary is beyond 2, so that the
\* market never counts as bullish or bearish here.
Bonus(ta, candles) ==
  LET pattern == CandlestickPatterns(candles)
      momentum == MomentumScore(ta)
      volatility == Volatility(candles)
  IN  (IF pattern > 0 THEN 200 * pattern ELSE 100 * pattern)
      + (IF momentum > 0 THEN 500 * momentum ELSE 300 * momentum)
      + (IF volatility > 700 THEN -1000 ELSE IF volatility < 300 THEN 500 ELSE 0)

\* The first of the options with the best score, if that is above 0 at all.
BestEntry(options, volume, bonus) ==
  LET best == CHOOSE i \in DOMAIN options :
                /\ \A j \in DOMAIN options : options[j].score <= options[i].score
                /\ \A j \in 1 .. i - 1 : options[j].score < options[i].score
  IN  IF (options[best].score * volume) \div 10 + bonus > 0 THEN options[best] ELSE options[1]

\* In hundred thousandths of the price, 2% at most; the code takes a price of 100
\* for granted.
VolatilityAdjustment(atr, volatility) == Min({2000, (atr * volatility) \div 10000})

BullishEntry(current, supports, emas, ta, candles, atr) ==
  LET best == BestEntry(BullishEntryOptions(current, supports, emas, atr),
                        VolumeConfirmation(candles), Bonus(ta, candles))
      adjusted == best.price
                    - (best.price * VolatilityAdjustment(atr, Volatility(candles))) \div 100000
  IN  IF 100 * (current - adjusted) <= 4 * current THEN adjusted ELSE (98 * current) \div 100

\* The first resistance up to 3% above, else 30% of an ATR below.
BearishEntry(current, resistances, atr, trend) ==
  LET near == {i \in DOMAIN resistances :
                 resistances[i].price > current /\ 100 * resistances[i].price < 103 * current}
      below == current - (3 * atr) \div 10
  IN  IF near # {} THEN (998 * resistances[Min(near)].price) \div 1000
      ELSE IF below > 0 THEN below
      ELSE (current * (1000 - Min({15, 2 * Absolute(trend)}))) \div 1000

\* Just above the nearest support, if the nearest resistance is further away; 0 if not.
RangeBasedEntry(current, supports, resistances) ==
  LET below == {p \in {supports[i].price : i \in DOMAIN supports} : 0 < p /\ p < current}
      above == {p \in {resistances[i].price : i \in DOMAIN resistances} : p > current}
  IN  IF below # {} /\ above # {} /\ current - Max(below) < Min(above) - current
      THEN (1005 * Max(below)) \div 1000 ELSE 0

\* Within 5% of the market, 3% in a volatile one, rounded towards it; half way back
\* to it when the volume is low.
FinalEntryAdjustments(entry, current, volatility, volume) ==
  LET percent == IF volatility > 700 THEN 3 ELSE 5
      kept == IF 100 * Distance(entry, current) <= percent * current THEN entry
              ELSE IF entry < current THEN current - (percent * current) \div 100
              ELSE current + (percent * current) \div 100
      careful == IF volume < 4 /\ kept < current THEN (kept + current) \div 2 ELSE kept
  IN  IF careful <= 0 THEN current ELSE careful

calculateSmartEntry(current, ta, candles, supports, resistances, emas) ==
  LET atr == calculateATR(candles)
      trend == EnhancedTrendScore(ta, candles)
      range == RangeBasedEntry(current, supports, resistances)
      entry == IF Absolute(trend) <= 2 /\ range > 0 THEN range
               ELSE IF trend > 0 THEN BullishEntry(current, supports, emas, ta, candles, atr)
               ELSE IF trend < 0 THEN BearishEntry(current, resistances, atr, trend)
               ELSE current
  IN  IF candles = <<>> THEN current
      ELSE FinalEntryAdjustments(entry, current, Volatility(candles), VolumeConfirmation(candles))
==============================================================================
