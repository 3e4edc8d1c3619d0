------------------------------ MODULE Trailing ------------------------------
(***************************************************************************)
(* One position under one monitor: each evaluation reads the row, judges   *)
(* it by TrailingRules in whatever market there is and saves what it       *)
(* found.  What the rules promise is stated here, where nobody else writes *)
(* the row; Positions.tla has the other writers.                           *)
(***************************************************************************)
EXTENDS TrailingRules

CONSTANTS Markets,   \* the market states evaluations meet
          Entries    \* the terms positions are opened with
ASSUME MarketAssumption == Markets \subseteq MarketState /\ Entries \subseteq Terms

VARIABLE position

Open(terms) == [terms |-> terms, trail |-> 0, highest |-> 0, stop |-> 0]

Init == position \in {Open(terms) : terms \in Entries}

Monitor == \E m \in Markets : position' = Saved(position, Judged(position, m))

Spec == Init /\ [][Monitor]_position
------------------------------------------------------------------------------
TypeOK == position \in Position

LevelsAreSound == SoundLevels(position)

\* No evaluation takes back protection it has given: trigger, peak and stop
\* never fall, although every one of them is computed afresh each time.
LevelsOnlyRise ==
  [][/\ position'.trail >= position.trail
     /\ position'.highest >= position.highest
     /\ position'.stop >= position.stop]_position

\* Once the price is at the stop or the trigger in force the verdict is to get
\* out, whatever the candles, the signals and the score say.
ExitsAreSignalled ==
  \A m \in Markets :
    \/ m.last <= EffectiveSL(position)
    \/ position.trail # 0 /\ m.last <= position.trail
    => Signal(position, m) \in {"cut_loss", "take_profit"}

\* A stop is put at or above the market only under the low of the last candle,
\* after a gap; the resistance it is raised to has been broken.
StopsBelowMarket ==
  \A m \in Markets : Stop(position, m) >= m.last /\ Stop(position, m) > 0 => m.low >= m.last

\* A cut loss makes the position dangerous, which is what gets the user told:
\* neither a good score nor a raised stop hides it.
CutLossIsDangerous ==
  \A m \in Markets : Signal(position, m) = "cut_loss" => Status(position, m) = "dangerous"
==============================================================================
