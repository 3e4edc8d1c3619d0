------------------------------ MODULE Backtest ------------------------------
(***************************************************************************)
(* RunBacktest (internal/service/backtest_service.go): the analyses of a   *)
(* stock are gone through day by day.  Without a position a plan is made   *)
(* and, when good enough, bought; an open position is closed at its stop,  *)
(* at its target or on a signal, and its stop may be raised.               *)
(*                                                                         *)
(* A day is one step.  What the day's analyses were is chosen when the day *)
(* comes, and so is what the running program has cached as the last price  *)
(* of the stock, which plans and evaluations read although the day is in   *)
(* the past.                                                               *)
(***************************************************************************)
EXTENDS TradePlans

CONSTANTS
  Snapshots,    \* the analyses of a day, in the order of their timestamps
  LivePrices,   \* what may be cached; 0 stands for nothing
  MaxDays       \* bound: days of history

ASSUME BacktestAssumption ==
  /\ Snapshots \subseteq Seq(StockAnalysis) \ {<<>>}
  /\ LivePrices \subseteq Nat /\ 0 \in LivePrices
  /\ MaxDays \in Nat

VARIABLES
  day,        \* days gone through
  today,      \* the market price of the last of them and the price cached then
  plan,       \* tradePlan: the plan made that day, if any
  position,   \* currentPosition, as a sequence of at most one
  trades,     \* tradeLogs
  result      \* of calculateBacktestResult, at the end

vars == <<day, today, plan, position, trades, result>>

\* Made once for each day and each cached price.
Plans == [s \in Snapshots |-> [live \in LivePrices |-> CreateTradePlan(s, live)]]

EntryThreshold == 50000
Reasons == {"Stop Loss Hit", "Take Profit Hit", "cut_loss", "take_profit"}
------------------------------------------------------------------------------
Init ==
  /\ day = 0
  /\ today = [market |-> 0, live |-> 0]
  /\ plan = {}
  /\ position = <<>>
  /\ trades = <<>>
  /\ result = <<>>

\* The next day of a history that has not been gone through.
Day(snapshot, live) ==
  /\ result = <<>> /\ day < MaxDays
  /\ day' = day + 1
  /\ today' = [market |-> Last(snapshot).price, live |-> live]
  /\ UNCHANGED result

\* Mutant: the position is still there the day after.
CloseKeepsPosition(reason) ==
  /\ trades' = Append(trades,
       [from |-> position[1].day, to |-> day', entry |-> position[1].terms.buy,
        exit |-> today'.market, reason |-> reason,
        profit |-> today'.market - position[1].terms.buy, held |-> day' - position[1].day])
  /\ UNCHANGED position /\ plan' = {}

\* closePosition, at the market price of the day.
Close(reason) ==
  LET pos == position[1]
  IN  /\ trades' = Append(trades,
           [from |-> pos.day, to |-> day', entry |-> pos.terms.buy, exit |-> today'.market,
            reason |-> reason, profit |-> today'.market - pos.terms.buy,
            held |-> Max({1, day' - pos.day})])
      /\ position' = <<>> /\ plan' = {}

HitsStop == position # <<>> /\ today'.market <= position[1].terms.sl

\* Mutant: the target is left to the evaluation.
HitsTargetNever == FALSE

HitsTarget == position # <<>> /\ ~HitsStop /\ today'.market >= position[1].terms.tp

StopLossHit(snapshot, live) ==
  Day(snapshot, live) /\ HitsStop /\ Close("Stop Loss Hit")

TakeProfitHit(snapshot, live) ==
  Day(snapshot, live) /\ HitsTarget /\ Close("Take Profit Hit")

\* The position, neither stopped nor at its target, as the rules judge it.
Judged(snapshot, live) ==
  LET levels == CalculateSupportResistance(snapshot)
  IN  Evaluate(position[1].terms, snapshot, levels.supports, levels.resistances, live)

Judges(snapshot) ==
  position # <<>> /\ ~HitsStop /\ ~HitsTarget /\ CanBeJudged(snapshot)

\* A day that cannot be judged, or whose reading of the parameters fails, is
\* skipped.
SkipDay(snapshot, live) ==
  /\ Day(snapshot, live)
  /\ position # <<>> => ~HitsStop /\ ~HitsTarget
  /\ plan' = {}
  /\ UNCHANGED <<position, trades>>

ExitOnSignal(snapshot, live) ==
  /\ Day(snapshot, live)
  /\ Judges(snapshot)
  /\ LET signal == Judged(snapshot, live).signal
     IN  signal \in {"cut_loss", "take_profit"} /\ Close(signal)

\* Mutant: the stop of the evaluation is taken as it is.
RaisedAlways(stop, verdict) == verdict.stop

Raised(stop, verdict) ==
  IF verdict.signal = "trailing_stop" /\ verdict.stop > stop THEN verdict.stop ELSE stop

Hold(snapshot, live) ==
  /\ Day(snapshot, live)
  /\ Judges(snapshot)
  /\ LET verdict == Judged(snapshot, live)
     IN  /\ verdict.signal \notin {"cut_loss", "take_profit"}
         /\ position' = [position EXCEPT ![1].terms.sl = Raised(@, verdict)]
  /\ plan' = {}
  /\ UNCHANGED trades

\* A plan without an entry, stop or target is bought like any other.
BuyOrPass(snapshot, live) ==
  /\ Day(snapshot, live)
  /\ position = <<>>
  /\ \E p \in Plans[snapshot][live] :
       /\ plan' = {p}
       /\ position' = IF p.isBuySignal /\ p.score >= EntryThreshold
                      THEN <<[day |-> day', terms |-> [buy |-> p.plan.entry, tp |-> p.plan.tp,
                                                       sl |-> p.plan.sl]]>>
                      ELSE <<>>
  /\ UNCHANGED trades

\* A position that is still open is not counted; a trade without a gain is lost.
calculateBacktestResult ==
  LET won == SelectSeq(trades, LAMBDA t : t.profit > 0)
      lost == SelectSeq(trades, LAMBDA t : t.profit <= 0)
      Sum(ts) == SumFunction([i \in DOMAIN ts |-> ts[i].profit])
  IN  [trades |-> Len(trades), winning |-> Len(won), losing |-> Len(lost),
       profit |-> Sum(won), loss |-> Sum(lost)]

Finish ==
  /\ result = <<>>
  /\ result' = <<calculateBacktestResult>>
  /\ UNCHANGED <<day, today, plan, position, trades>>

Next ==
  \/ \E s \in Snapshots, live \in LivePrices :
       \/ StopLossHit(s, live) \/ TakeProfitHit(s, live)
       \/ ExitOnSignal(s, live) \/ Hold(s, live)
       \/ BuyOrPass(s, live) \/ SkipDay(s, live)
  \/ Finish

Spec == Init /\ [][Next]_vars
------------------------------------------------------------------------------
TypeOK ==
  /\ day \in 0 .. MaxDays
  /\ today \in [market : Nat, live : LivePrices]
  /\ Cardinality(plan) <= 1
  /\ Len(position) <= 1
  /\ \A i \in DOMAIN position :
       position[i].day \in 1 .. day /\ position[i].terms \in [buy : Nat, tp : Nat, sl : Int]
  /\ \A i \in DOMAIN trades :
       /\ trades[i].from < trades[i].to /\ trades[i].to <= day
       /\ trades[i].held = trades[i].to - trades[i].from
       /\ trades[i].reason \in Reasons
       /\ i > 1 => trades[i].from > trades[i - 1].to

\* A plan, whichever way it was found, buys within 5% of the market with its stop
\* below and its target above, at least as far away; from levels, the stop is at
\* least 1% away.  What is not such a plan has no price at all.
PlansAreSound ==
  \A p \in plan :
    LET risk == p.plan.entry - p.plan.sl
        reward == p.plan.tp - p.plan.entry
    IN  \/ p.plan = NoPlan
        \/ /\ 0 < risk /\ risk <= reward
           /\ 100 * Distance(p.plan.entry, p.market) <= 5 * p.market
           /\ p.plan.kind # "atr" => 100 * risk >= p.plan.entry

\* A plan, unless it has no price at all, is called safe only while the market keeps
\* a quarter of the plan's risk away from its stop, be it proposed far from the market.
SafePlansAreLive ==
  \A p \in plan :
    p.status = "safe" /\ p.plan # NoPlan =>
      p.plan.sl < p.market /\ 4 * (p.market - p.plan.sl) >= p.plan.entry - p.plan.sl

\* A target gains, an original stop loses; and only a price cached by the running
\* program, or a day without a price, makes the evaluation close what the day's own
\* price does not.
ExitsMatchReasons ==
  [][Len(trades') > Len(trades) =>
       LET t == Last(trades')
       IN  /\ t.reason = "Take Profit Hit" => t.profit > 0
           /\ t.reason = "Stop Loss Hit" /\ position[1].terms.sl < t.entry => t.profit < 0
           /\ t.reason \in {"cut_loss", "take_profit"} => today'.live # 0 \/ today'.market = 0]_vars

\* While a position is held its terms stay, but for a stop that is raised, and then
\* at least to the entry.
StopOnlyRises ==
  [][position # <<>> /\ position' # <<>> =>
       LET old == position[1].terms
           new == position'[1].terms
       IN  /\ new = [old EXCEPT !.sl = new.sl]
           /\ new.sl # old.sl => new.sl > old.sl /\ new.sl >= old.buy]_vars
==============================================================================
