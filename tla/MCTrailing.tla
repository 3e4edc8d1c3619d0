----------------------------- MODULE MCTrailing -----------------------------
(* Five prices and every kind of market; a trigger is one tick below its peak. *)
EXTENDS Trailing

MCPrice == 1 .. 5
MCEntries == [buy : 1 .. 3, tp : {0} \cup 2 .. 4, sl : 0 .. 3]
MCMarkets ==
  {m \in [last : MCPrice, candle : {"breakout", "engulfing", "other"}, target : {0, 3, 5},
          tech : {"buy", "neutral", "sell"}, r1 : {0, 2, 3, 4}, low : {0, 2, 4, 5},
          score : {"low", "high"}] :
    m.candle # "breakout" => m.target = 0}
==============================================================================
