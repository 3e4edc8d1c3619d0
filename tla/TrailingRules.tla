---------------------------- MODULE TrailingRules ----------------------------
(***************************************************************************)
(* How a monitored position is judged: EvaluatePositionMonitoring and the  *)
(* rules it is made of (internal/service/trading_position.go), and what    *)
(* the monitoring strategy and the repository make of its verdict          *)
(* (internal/strategy/stock_position_monitoring.go,                        *)
(* internal/repository/stock_positions_repo.go).                           *)
(*                                                                         *)
(* Prices are natural numbers, 0 standing for a price that is not there,   *)
(* which is how the code writes it.  The texts of the insights are left    *)
(* out, and the score is the band determineFinalStatus sorts it into.      *)
(***************************************************************************)
EXTENDS Integers

CONSTANT Price   \* the prices, 0 aside
ASSUME PriceAssumption == Price \subseteq Nat \ {0}

MaybePrice == Price \cup {0}
\* Prices the rules compute: the trigger is a fraction of a price.
Level == Nat

\* What the user entered.
Terms == [buy : MaybePrice, tp : MaybePrice, sl : MaybePrice]
\* What monitoring keeps: trailing_profit_price, highest_price_since_ttp and
\* trailing_stop_price.
Position == [terms : Terms, trail : Level, highest : Level, stop : Level]

\* What an evaluation sees of the market.  candle is the last one of the main
\* timeframe: a strong bullish body on high volume with an RSI below 85, one
\* that engulfs the candle before it, or any other; the first two exclude each
\* other.  target, r1 and low are the R2 pivot of the main timeframe, the R1
\* pivot of the secondary one and the low of the candle before the last.
MarketState ==
  [last : MaybePrice, candle : {"breakout", "engulfing", "other"}, target : MaybePrice,
   tech : {"buy", "neutral", "sell"}, r1 : MaybePrice, low : MaybePrice,
   score : {"low", "middle", "high"}]

Higher(a, b) == IF a > b THEN a ELSE b
------------------------------------------------------------------------------
\* The targets in force: a trailing level replaces the user's once it is beyond it.
EffectiveTP(pos) == Higher(pos.terms.tp, pos.trail)
EffectiveSL(pos) == Higher(pos.terms.sl, pos.stop)

\* evaluatePotentialAtTakeProfit
CanGoHigher(m) == m.candle = "breakout"
NextTarget(m) == IF CanGoHigher(m) THEN m.target ELSE 0

\* The trigger hangs 3% below the peak.
Trigger(peak) == (97 * peak) \div 100

\* evaluateTrailingTakeProfit: the mode is on when the position has a trigger.
Activates(pos, m) == pos.trail = 0 /\ m.last >= pos.terms.tp
GoesOn(pos, m) == CanGoHigher(m) /\ NextTarget(m) > EffectiveTP(pos)

\* HighestPriceSinceTTP of the result.
Peak(pos, m) ==
  IF pos.trail > 0 THEN Higher(m.last, pos.highest)
  ELSE IF Activates(pos, m) /\ GoesOn(pos, m) THEN m.last ELSE pos.highest

\* Mutant: the trigger is moved to 3% below the peak, be it lower than before.
TrailFollows(pos, m) ==
  IF pos.trail > 0 THEN Trigger(Peak(pos, m))
  ELSE IF Activates(pos, m) /\ GoesOn(pos, m) THEN EffectiveTP(pos) ELSE 0

\* Mutant: the first trigger hangs below the peak as all later ones do.
TrailFromPeak(pos, m) ==
  IF pos.trail > 0 THEN Higher(pos.trail, Trigger(Peak(pos, m)))
  ELSE IF Activates(pos, m) /\ GoesOn(pos, m) THEN Trigger(Peak(pos, m)) ELSE 0

\* TrailingProfitPrice of the result.
Trail(pos, m) ==
  IF pos.trail > 0 THEN Higher(pos.trail, Trigger(Peak(pos, m)))
  ELSE IF Activates(pos, m) /\ GoesOn(pos, m) THEN EffectiveTP(pos) ELSE 0

ProfitSignal(pos, m) ==
  IF pos.trail > 0 THEN
    IF ~CanGoHigher(m) \/ m.last <= Trail(pos, m) \/ m.candle = "engulfing" \/ m.tech = "sell"
    THEN "take_profit" ELSE "trailing_profit"
  ELSE IF Activates(pos, m)
       THEN IF GoesOn(pos, m) THEN "trailing_profit" ELSE "take_profit"
       ELSE ""

\* evaluateTrailingStop: after 60% of the way to the target on a buy signal, or
\* beyond the resistance of the secondary timeframe, the stop is raised to the
\* highest of entry, resistance and the last low, if that raises it at all.
MostOfTheWay(pos, m) ==
  /\ m.tech = "buy"
  /\ EffectiveTP(pos) > pos.terms.buy
  /\ 10 * (m.last - pos.terms.buy) > 6 * (EffectiveTP(pos) - pos.terms.buy)
\* Mutant: the resistance counts although the price is still below it.
BreakoutAhead(pos, m) ==
  m.last > pos.terms.buy /\ 100 * m.r1 > 101 * pos.terms.buy

Breakout(pos, m) ==
  m.last > pos.terms.buy /\ m.last > m.r1 /\ 100 * m.r1 > 101 * pos.terms.buy

ProposedStop(pos, m) ==
  Higher(Higher(pos.terms.buy, m.low), IF Breakout(pos, m) THEN m.r1 ELSE 0)

\* TrailingStopPrice of the result; 0 when the stop stays where it is.
Stop(pos, m) ==
  IF (MostOfTheWay(pos, m) \/ Breakout(pos, m)) /\ ProposedStop(pos, m) > EffectiveSL(pos)
  THEN ProposedStop(pos, m) ELSE 0

\* Mutant: the user's stop loss alone is looked at.
SignalAtEntryStop(pos, m) ==
  IF ProfitSignal(pos, m) = "take_profit" THEN "take_profit"
  ELSE IF m.last <= pos.terms.sl THEN "cut_loss"
  ELSE IF ProfitSignal(pos, m) # "" THEN ProfitSignal(pos, m)
  ELSE IF Stop(pos, m) > 0 THEN "trailing_stop" ELSE "hold"

\* The final signal: a take profit overrides a cut loss.
Signal(pos, m) ==
  IF ProfitSignal(pos, m) = "take_profit" THEN "take_profit"
  ELSE IF m.last <= EffectiveSL(pos) THEN "cut_loss"
  ELSE IF ProfitSignal(pos, m) # "" THEN ProfitSignal(pos, m)
  ELSE IF Stop(pos, m) > 0 THEN "trailing_stop" ELSE "hold"

\* Mutant: the verdict of the cut loss is not kept.
StatusByScore(pos, m) ==
  LET sl == EffectiveSL(pos) IN
  IF \/ pos.terms.buy > sl /\ 4 * (m.last - sl) < pos.terms.buy - sl
     \/ m.score = "low"
  THEN "dangerous"
  ELSE IF m.score = "high" THEN "safe" ELSE "warning"

\* determineFinalStatus: a take profit has taken back the cut loss's verdict.
Status(pos, m) ==
  LET sl == EffectiveSL(pos) IN
  IF \/ pos.terms.buy > sl /\ 4 * (m.last - sl) < pos.terms.buy - sl
     \/ m.last <= sl /\ ProfitSignal(pos, m) # "take_profit"
     \/ m.score = "low"
  THEN "dangerous"
  ELSE IF m.score = "high" THEN "safe" ELSE "warning"
------------------------------------------------------------------------------
\* Mutant: a stop that is not raised is written as -1.
JudgedStopMissing(pos, m) ==
  [terms |-> pos.terms, trail |-> Trail(pos, m), highest |-> Higher(Peak(pos, m), pos.highest),
   stop |-> IF Stop(pos, m) = 0 THEN -1 ELSE Stop(pos, m)]

\* The copy of the position the strategy hands to Update.
Judged(pos, m) ==
  [terms |-> pos.terms, trail |-> Trail(pos, m), highest |-> Higher(Peak(pos, m), pos.highest),
   stop |-> Stop(pos, m)]

NonZero(new, old) == IF new = 0 THEN old ELSE new

\* Mutant: the peak is missing from the list of columns to write.
SavedWithoutPeak(row, copy) ==
  [terms |-> row.terms, trail |-> NonZero(copy.trail, row.trail), highest |-> row.highest,
   stop |-> NonZero(copy.stop, row.stop)]

\* Repository Update: gorm's Updates of a struct writes the fields that are not
\* zero, all of them, and leaves the other columns as they are.
Saved(row, copy) ==
  [terms |-> row.terms, trail |-> NonZero(copy.trail, row.trail),
   highest |-> NonZero(copy.highest, row.highest), stop |-> NonZero(copy.stop, row.stop)]
------------------------------------------------------------------------------
\* A trigger lies between the target it replaced and the peak it hangs from; a
\* raised stop gives away neither the entry nor what the user was ready to lose.
SoundLevels(pos) ==
  /\ pos.trail # 0 => pos.terms.tp <= pos.trail /\ pos.trail <= pos.highest
  /\ pos.stop # 0 => pos.terms.buy <= pos.stop /\ pos.terms.sl < pos.stop
==============================================================================
