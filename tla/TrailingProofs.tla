--------------------------- MODULE TrailingProofs ---------------------------
(***************************************************************************)
(* What Trailing.tla states, for any prices, any terms a user may enter    *)
(* and any markets: a save of what the rules compute keeps SoundLevels and *)
(* lowers no level, and the verdicts never hide a cut loss.                *)
(***************************************************************************)
EXTENDS Trailing, TLAPS

TrailingInv == TypeOK /\ LevelsAreSound
------------------------------------------------------------------------------
LEMMA Prices == MaybePrice \subseteq Nat
BY PriceAssumption DEF MaybePrice

\* The fields of a position and of a market are prices.
LEMMA Fields ==
  ASSUME NEW pos \in Position
  PROVE  /\ pos.terms \in Terms
         /\ pos.terms.buy \in Nat /\ pos.terms.tp \in Nat /\ pos.terms.sl \in Nat
         /\ pos.trail \in Nat /\ pos.highest \in Nat /\ pos.stop \in Nat
BY Prices DEF Position, Terms, Level

LEMMA MarketsArePriced ==
  ASSUME NEW m \in MarketState
  PROVE  m.last \in Nat /\ m.target \in Nat /\ m.r1 \in Nat /\ m.low \in Nat
BY Prices DEF MarketState

LEMMA TriggerBelowPeak ==
  ASSUME NEW peak \in Nat
  PROVE  Trigger(peak) \in Nat /\ Trigger(peak) <= peak
BY DEF Trigger

\* The peak is the market's price or the one remembered.
LEMMA PeakLevel ==
  ASSUME NEW pos \in Position, NEW m \in MarketState
  PROVE  /\ Peak(pos, m) \in Nat
         /\ pos.trail > 0 => Peak(pos, m) >= pos.highest
         /\ Activates(pos, m) /\ GoesOn(pos, m) => Peak(pos, m) >= pos.terms.tp
BY Fields, MarketsArePriced DEF Peak, Activates, Higher

\* The trigger never falls, and stays between the target and the peak.
LEMMA TrailLevel ==
  ASSUME NEW pos \in Position, NEW m \in MarketState, SoundLevels(pos)
  PROVE  /\ Trail(pos, m) \in Nat
         /\ Trail(pos, m) >= pos.trail
         /\ Trail(pos, m) # 0 => /\ pos.terms.tp <= Trail(pos, m)
                                 /\ Trail(pos, m) <= Peak(pos, m)
BY Fields, PeakLevel, TriggerBelowPeak DEF Trail, EffectiveTP, Higher, SoundLevels

\* A stop is raised above the ones in force and not below the entry.
LEMMA StopLevel ==
  ASSUME NEW pos \in Position, NEW m \in MarketState
  PROVE  /\ Stop(pos, m) \in Nat
         /\ Stop(pos, m) # 0 => /\ Stop(pos, m) = ProposedStop(pos, m)
                                /\ Stop(pos, m) > pos.stop
                                /\ Stop(pos, m) > pos.terms.sl
                                /\ Stop(pos, m) >= pos.terms.buy
BY Fields, MarketsArePriced DEF Stop, ProposedStop, EffectiveSL, Higher

\* The highest price handed to Update.
LEMMA JudgedPeak ==
  ASSUME NEW pos \in Position, NEW m \in MarketState
  PROVE  /\ Judged(pos, m).highest \in Nat
         /\ Judged(pos, m).highest >= pos.highest /\ Judged(pos, m).highest >= Peak(pos, m)
BY Fields, PeakLevel DEF Judged, Higher

\* An evaluation of sound levels gives sound levels.
LEMMA JudgedIsSound ==
  ASSUME NEW pos \in Position, NEW m \in MarketState, SoundLevels(pos)
  PROVE  Judged(pos, m) \in Position /\ SoundLevels(Judged(pos, m))
<1>1. Judged(pos, m) \in Position
  BY Fields, TrailLevel, StopLevel, JudgedPeak DEF Judged, Position, Level
<1>2. SoundLevels(Judged(pos, m))
  BY Fields, PeakLevel, TrailLevel, StopLevel, JudgedPeak DEF Judged, SoundLevels
<1> QED BY <1>1, <1>2

LEMMA SaveKeepsPosition ==
  ASSUME NEW row \in Position, NEW copy \in Position
  PROVE  Saved(row, copy) \in Position
BY Fields DEF Saved, Position, Level, NonZero
------------------------------------------------------------------------------

LEMMA InitialPosition == Init => TrailingInv
<1> SUFFICES ASSUME NEW terms \in Entries, position = Open(terms) PROVE TrailingInv
  BY DEF Init
<1>1. terms \in Terms
  BY MarketAssumption
<1> QED BY <1>1 DEF TrailingInv, TypeOK, LevelsAreSound, SoundLevels, Open, Position, Level

\* One evaluation: the position stays sound and no level falls.
LEMMA MonitorStep ==
  ASSUME TrailingInv, NEW m \in MarketState, position' = Saved(position, Judged(position, m))
  PROVE  /\ TrailingInv'
         /\ position'.trail >= position.trail
         /\ position'.highest >= position.highest
         /\ position'.stop >= position.stop
<1> DEFINE copy == Judged(position, m)
<1>1. position \in Position /\ SoundLevels(position)
  BY DEF TrailingInv, TypeOK, LevelsAreSound
<1>2. copy \in Position /\ SoundLevels(copy)
  BY <1>1, JudgedIsSound
<1>3. position' \in Position
  BY <1>1, <1>2, SaveKeepsPosition
<1>4. /\ position'.terms = position.terms
      /\ position'.trail = NonZero(copy.trail, position.trail)
      /\ position'.highest = NonZero(copy.highest, position.highest)
      /\ position'.stop = NonZero(copy.stop, position.stop)
  BY DEF Saved
<1>5. /\ copy.terms = position.terms
      /\ copy.trail >= position.trail
      /\ copy.highest >= position.highest
      /\ copy.stop # 0 => copy.stop > position.stop
  BY <1>1, JudgedPeak, TrailLevel, StopLevel DEF Judged
<1>6. /\ position'.trail >= position.trail
      /\ position'.highest >= position.highest
      /\ position'.stop >= position.stop
  BY <1>1, <1>2, <1>4, <1>5, Fields DEF NonZero
<1>7. SoundLevels(position')
  <2>1. /\ position.trail \in Nat /\ position.highest \in Nat /\ position.stop \in Nat
        /\ copy.trail \in Nat /\ copy.highest \in Nat /\ copy.stop \in Nat
        /\ position.terms.tp \in Nat /\ position.terms.buy \in Nat /\ position.terms.sl \in Nat
    BY <1>1, <1>2, Fields
  <2>2. position'.trail # 0 => /\ position'.terms.tp <= position'.trail
                               /\ position'.trail <= position'.highest
    BY <1>1, <1>2, <1>4, <1>5, <2>1 DEF NonZero, SoundLevels
  <2>3. position'.stop # 0 => /\ position'.terms.buy <= position'.stop
                              /\ position'.terms.sl < position'.stop
    BY <1>1, <1>2, <1>4, <1>5, <2>1 DEF NonZero, SoundLevels
  <2> QED BY <2>2, <2>3 DEF SoundLevels
<1> QED BY <1>3, <1>6, <1>7 DEF TrailingInv, TypeOK, LevelsAreSound

\* The position is typed and its levels are sound: a trigger between the target
\* and the peak (evaluateTrailingTakeProfit), a stop neither below the entry nor
\* the user's own (evaluateTrailingStop).
THEOREM Sound == Spec => [](TypeOK /\ LevelsAreSound)
<1>1. TrailingInv /\ [Monitor]_position => TrailingInv'
  <2>1. CASE Monitor
    BY <2>1, MonitorStep, MarketAssumption DEF Monitor
  <2>2. CASE UNCHANGED position
    BY <2>2 DEF TrailingInv, TypeOK, LevelsAreSound
  <2> QED BY <2>1, <2>2
<1>2. TrailingInv => TypeOK /\ LevelsAreSound
  BY DEF TrailingInv
<1> QED BY InitialPosition, <1>1, <1>2, PTL DEF Spec

\* What the rules compute and gorm merges into the row is a position again, with a
\* price or 0 in each level: Judged and Saved have no case without a value.
THEOREM Typed == Spec => []TypeOK
<1> QED BY Sound, PTL

\* No evaluation takes back protection that was given.
THEOREM OnlyRise == Spec => LevelsOnlyRise
<1>1. TrailingInv /\ [Monitor]_position
        => [/\ position'.trail >= position.trail
            /\ position'.highest >= position.highest
            /\ position'.stop >= position.stop]_position
  <2>1. ASSUME TrailingInv, Monitor
        PROVE  /\ position'.trail >= position.trail
               /\ position'.highest >= position.highest
               /\ position'.stop >= position.stop
    BY <2>1, MonitorStep, MarketAssumption DEF Monitor
  <2> QED BY <2>1
<1>2. Spec => []TrailingInv
  BY Sound, PTL DEF TrailingInv
<1> QED BY <1>1, <1>2, PTL DEF Spec, LevelsOnlyRise
------------------------------------------------------------------------------
\* At the stop or the trigger in force the verdict is to get out: the signals of
\* evaluateTrailingTakeProfit can replace a cut loss by a take profit only.
THEOREM ExitSignal == Spec => []ExitsAreSignalled
<1>1. TypeOK => ExitsAreSignalled
  <2> SUFFICES ASSUME position \in Position, NEW m \in Markets,
                      \/ m.last <= EffectiveSL(position)
                      \/ position.trail # 0 /\ m.last <= position.trail
               PROVE  Signal(position, m) \in {"cut_loss", "take_profit"}
    BY DEF TypeOK, ExitsAreSignalled
  <2>1. CASE m.last <= EffectiveSL(position)
    BY <2>1 DEF Signal
  <2>2. CASE position.trail # 0 /\ m.last <= position.trail
    <3>1. position.trail \in Nat /\ m.last \in Nat /\ Trigger(Peak(position, m)) \in Nat
      BY MarketAssumption, Fields, MarketsArePriced, PeakLevel, TriggerBelowPeak
    <3>2. position.trail > 0
      BY <2>2, <3>1
    <3>3. Trail(position, m) = Higher(position.trail, Trigger(Peak(position, m)))
      BY <3>2 DEF Trail
    <3>4. m.last <= Trail(position, m)
      BY <2>2, <3>1, <3>3 DEF Higher
    <3>5. ProfitSignal(position, m) = "take_profit"
      BY <3>2, <3>4 DEF ProfitSignal
    <3> QED BY <3>5 DEF Signal
  <2> QED BY <2>1, <2>2
<1> QED BY Sound, <1>1, PTL

\* A raised stop is not at or above the market unless the last low is.
THEOREM StopBelow == Spec => []StopsBelowMarket
<1>1. TypeOK => StopsBelowMarket
  <2> SUFFICES ASSUME position \in Position, NEW m \in Markets,
                      Stop(position, m) >= m.last, Stop(position, m) > 0
               PROVE  m.low >= m.last
    BY DEF TypeOK, StopsBelowMarket
  <2>1. /\ position.terms.buy \in Nat /\ position.terms.tp \in Nat /\ position.trail \in Nat
        /\ m.last \in Nat /\ m.r1 \in Nat /\ m.low \in Nat
    BY MarketAssumption, Fields, MarketsArePriced
  <2>2. Stop(position, m) = ProposedStop(position, m)
    BY DEF Stop
  <2>3. MostOfTheWay(position, m) \/ Breakout(position, m)
    BY DEF Stop
  <2>4. m.last > position.terms.buy
    BY <2>1, <2>3 DEF MostOfTheWay, Breakout, EffectiveTP, Higher
  <2>5. Breakout(position, m) => m.last > m.r1
    BY DEF Breakout
  <2> QED BY <2>1, <2>2, <2>4, <2>5 DEF ProposedStop, Higher
<1> QED BY Sound, <1>1, PTL

\* A cut loss is dangerous, whatever determineFinalStatus makes of the score.
THEOREM CutLossTold == Spec => []CutLossIsDangerous
<1>1. CutLossIsDangerous
  <2> SUFFICES ASSUME NEW m \in Markets, Signal(position, m) = "cut_loss"
               PROVE  Status(position, m) = "dangerous"
    BY DEF CutLossIsDangerous
  <2>1. ProfitSignal(position, m) # "cut_loss"
    BY DEF ProfitSignal
  <2>2. m.last <= EffectiveSL(position) /\ ProfitSignal(position, m) # "take_profit"
    BY <2>1 DEF Signal
  <2> QED BY <2>2 DEF Status
<1> QED BY <1>1, PTL
=============================================================================
