------------------------------- MODULE Levels -------------------------------
(***************************************************************************)
(* What the trade plans read off the candles of a timeframe and its        *)
(* technical analysis (internal/service/trading.go): volatility, support   *)
(* and resistance levels, price buckets.                                   *)
(*                                                                         *)
(* Prices are integers, a cent to the unit; percentages are compared by    *)
(* cross multiplication, and products are rounded down.                    *)
(***************************************************************************)
EXTENDS Integers, SequencesExt, FiniteSetsExt

CONSTANTS
  Period,    \* candles an average true range smooths over: 14
  Recent     \* candles that volatility and volume look back on: 10

ASSUME LevelsAssumption == Period \in Nat \ {0} /\ Recent \in Nat \ {0, 1}

\* open, high, low, close, volume; oldest first.
Distance(a, b) == IF a > b THEN a - b ELSE b - a
Back(candles, n) == candles[Len(candles) - n]
------------------------------------------------------------------------------
TrueRange(candle, before) ==
  Max({candle.high - candle.low, Distance(candle.high, before.close),
       Distance(candle.low, before.close)})

\* Wilder's smoothing; 0 without enough candles.
calculateATR(candles) ==
  IF Len(candles) <= Period THEN 0
  ELSE LET range == [i \in 1 .. Len(candles) - 1 |-> TrueRange(candles[i + 1], candles[i])]
       IN  FoldLeft(LAMBDA atr, r : (atr * (Period - 1) + r) \div Period,
                    SumFunction(SubSeq(range, 1, Period)) \div Period,
                    SubSeq(range, Period + 1, Len(range)))

\* The stop's distance in ATRs, in thousandths: 1.25 in a strong trend to 2.25 in
\* a weak one, an extreme RSI widening it.
ATRMultiplierForSL(ta) ==
  LET calm == 30 <= ta.rsi /\ ta.rsi <= 70
  IN  IF ta.adx > 25 THEN IF calm THEN 1250 ELSE 1625
      ELSE IF calm THEN 1875 ELSE 2250

\* Candles that touch a support, or reach across a resistance, half a percent
\* either way.
countTouches(candles, price, isSupport) ==
  Cardinality({i \in DOMAIN candles :
    IF isSupport
    THEN 1000 * candles[i].low <= 1005 * price /\ 1000 * candles[i].high >= 995 * price
    ELSE 1000 * candles[i].high >= 1005 * price /\ 1000 * candles[i].low <= 995 * price})

\* S1 to S3, or R1 to R3, the classic ones before the Fibonacci ones.
buildPivots(ta, candles, isSupport) ==
  LET prices == IF isSupport THEN ta.classicS \o ta.fibonacciS ELSE ta.classicR \o ta.fibonacciR
  IN  [i \in DOMAIN prices |->
         [price |-> prices[i], touches |-> countTouches(candles, prices[i], isSupport)]]

\* How often the candles closed in each bucket, a third of their mean range wide
\* and no narrower than 0.1.  The order of a Go map is left open.
ClosePriceBuckets(candles) ==
  LET size == Max({SumFunction([i \in DOMAIN candles |-> candles[i].high - candles[i].low])
                     \div (3 * Len(candles)), 10})
      Bucket(i) == ((2 * candles[i].close + size) \div (2 * size)) * size
  IN  {[price |-> b, count |-> Cardinality({i \in DOMAIN candles : Bucket(i) = b})] :
         b \in {Bucket(i) : i \in DOMAIN candles}}
------------------------------------------------------------------------------
Mean(candles, n) ==
  LET k == Min({n, Len(candles)})
  IN  IF k = 0 THEN 0
      ELSE SumFunction([i \in 1 .. k |-> Back(candles, i - 1).volume]) \div k

isBearishEngulfing(last, prev) ==
  /\ last.close < last.open /\ prev.close > prev.open
  /\ last.open > prev.close /\ last.close < prev.open

\* A green body of more than 70% of the range.
isStrongBullishCandle(c) ==
  /\ c.close > c.open
  /\ c.high = c.low \/ 10 * (c.close - c.open) > 7 * (c.high - c.low)

\* Mean change of the last closes, in thousandths of the 2% that count as 1.
Volatility(candles) ==
  IF Len(candles) < Recent THEN 0
  ELSE LET Change(i) == (Distance(Back(candles, i - 1).close, Back(candles, i).close) * 100000)
                          \div Back(candles, i).close
       IN  Min({1000, SumFunction([i \in 1 .. Recent - 1 |-> Change(i)]) \div (2 * (Recent - 1))})
==============================================================================
