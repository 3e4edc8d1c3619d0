---------------------------- MODULE MCBacktest ----------------------------
(* Days of five prices, or none at all, five courses of the candles and three   *)
(* verdicts of the technical analysis, with levels near the price or out of     *)
(* reach.                                                                       *)
EXTENDS Backtest

MCWeight == [t \in {"1d", "4h"} |-> IF t = "1d" THEN 3 ELSE 2]
Candle(open, close, volume) ==
  [open |-> open, high |-> Max({open, close}) + 40, low |-> Min({open, close}) - 40,
   close |-> close, volume |-> volume]

\* The last candles before a price, oldest first.
Course(name, p) ==
  CASE name = "rising" -> <<Candle(p - 400, p - 280, 5), Candle(p - 280, p - 200, 5),
                            Candle(p - 200, p - 120, 6), Candle(p - 120, p, 8)>>
    [] name = "breakout" -> <<Candle(p - 500, p - 460, 3), Candle(p - 460, p - 440, 3),
                              Candle(p - 440, p - 400, 3), Candle(p - 400, p, 20)>>
    [] name = "falling" -> <<Candle(p + 300, p + 200, 5), Candle(p + 200, p + 120, 5),
                             Candle(p + 60, p + 140, 4), Candle(p + 160, p, 9)>>
    [] name = "flat" -> <<Candle(p, p + 10, 5), Candle(p - 10, p + 10, 5), Candle(p + 10, p - 10, 4),
                          Candle(p - 40, p, 9)>>
    [] name = "short" -> <<Candle(p - 60, p - 20, 5), Candle(p - 20, p, 5)>>

Analysis(timeframe, p, course, summary, reach) ==
  [timeframe |-> timeframe, price |-> p, candles |-> Course(course, p),
   ta |-> [summary |-> summary, ma |-> summary, osc |-> 0, macd |-> 10 * summary, signal |-> 4,
           rsi |-> 50 + 12 * summary, stochK |-> 60, adx |-> 30, close |-> p,
           ema10 |-> p - 100, ema20 |-> p - 150, ema50 |-> p - 250, ema100 |-> p - 300,
           ema200 |-> p - 400,
           classicS |-> <<p - reach, p - 2 * reach, p - 3 * reach>>,
           fibonacciS |-> <<p - reach \div 2, p - reach, p - 2 * reach>>,
           classicR |-> <<p + reach, p + 2 * reach, p + 3 * reach>>,
           fibonacciR |-> <<p + reach \div 2, p + reach, p + 2 * reach>>]]

\* A buy on falling averages: the entry is at the resistance above the market.
Torn(p) ==
  [Analysis("1d", p, "flat", 1, 290) EXCEPT
     !.ta.ma = -2, !.ta.osc = -2, !.ta.ema10 = p + 60, !.ta.ema20 = p + 60, !.ta.ema50 = p + 60,
     !.ta.classicS = <<p - 400, p - 600, p - 900>>, !.ta.fibonacciS = <<p - 400, p - 600, p - 900>>,
     !.ta.fibonacciR = <<p + 290, p + 580, p + 870>>]

MCSnapshots ==
  {<<Analysis("4h", p, course[1], 1, 200), Analysis("1d", p, course[1], course[2], 200)>> :
     p \in {9000, 10000, 10300, 11000},
     course \in {<<"rising", 2>>, <<"rising", -1>>, <<"breakout", 2>>, <<"falling", -1>>}}
  \cup {<<Analysis("1d", p, course, summary, 3000)>> :
          p \in {9700, 10000}, course \in {"falling", "short"}, summary \in {0, 2}}
  \cup {<<Analysis("4h", 10000, "rising", 1, 200)>>}
  \cup {<<Analysis("4h", 10000, "rising", 2, 1000), Torn(10000)>>}
  \cup {<<[Analysis("1d", 10000, course, 2, 200) EXCEPT !.price = 0]>> :
          course \in {"rising", "short"}}
============================================================================
