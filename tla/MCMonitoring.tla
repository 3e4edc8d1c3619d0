---------------------------- MODULE MCMonitoring ----------------------------
(* A position with and one without a target, two workers; a trigger and a stop  *)
(* raised, in one evaluation or in two, and scores below and within the warning. *)
EXTENDS Monitoring, TLC

MCPrice == 1 .. 4
MCEntries == {[buy |-> 1, tp |-> 2, sl |-> 0], [buy |-> 1, tp |-> 0, sl |-> 0]}
Quiet == [last |-> 2, candle |-> "other", target |-> 0, tech |-> "neutral", r1 |-> 0,
          low |-> 0, score |-> "middle"]
MCMarkets ==
  {[Quiet EXCEPT !.last = 1, !.score = "low"],
   [Quiet EXCEPT !.last = 4, !.candle = "breakout", !.target = 4, !.tech = "buy", !.low = 2],
   [Quiet EXCEPT !.tech = "buy"]}
MCScores == {0, 20, 60}
Symmetry == Permutations(Worker)
==============================================================================
