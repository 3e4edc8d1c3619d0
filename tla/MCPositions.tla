----------------------------- MODULE MCPositions -----------------------------
(* Two rows of one key, two workers; a rise in two steps and a stop raised twice. *)
EXTENDS Positions, TLC

MCPrice == 1 .. 4
MCEntries == {[buy |-> 1, tp |-> 2, sl |-> 0]}
Quiet == [last |-> 1, candle |-> "other", target |-> 0, tech |-> "neutral", r1 |-> 0,
          low |-> 0, score |-> "middle"]
MCMarkets ==
  {[Quiet EXCEPT !.last = 2, !.candle = "breakout", !.target = 4],
   [Quiet EXCEPT !.last = 4, !.candle = "breakout", !.target = 4, !.tech = "buy", !.low = 2],
   [Quiet EXCEPT !.last = 2, !.tech = "buy"]}
Symmetry == Permutations(Worker)
==============================================================================
