--------------------------- MODULE PositionsProofs ---------------------------
(***************************************************************************)
(* The safety properties of Positions.tla, for any workers, keys, prices,  *)
(* terms and markets and any number of rows.  The invariant says of each   *)
(* copy in a worker's hand what it says of the rows, that a copy nobody    *)
(* overtook is the row, and that a key with two rows, or with a row and a  *)
(* check of it under way, has been marked as raced.                        *)
(***************************************************************************)
EXTENDS Positions, FiniteSetTheorems, TLAPS

\* A position that never went into trailing profit has no peak to remember.
Unpeaked(levels) ==
  /\ levels.terms.tp = 0 => levels.trail = 0
  /\ levels.trail = 0 => levels.highest = 0 \/ levels.terms.tp = 0

Sound(levels) == SoundLevels(levels) /\ Unpeaked(levels)

RowsAreSound == \A i \in Id : Sound(row[i].levels)

InHand(w) ==
  /\ work[w].id \in Id
  /\ row[work[w].id].is # "none"
  /\ Sound(work[w].copy.levels)
  /\ row[work[w].id].is = "present" => work[w].copy.levels.terms = row[work[w].id].levels.terms

CopiesAreSound == \A w \in Worker : work[w].job \in Job => InHand(w)

FreshCopies ==
  \A w \in Worker :
    /\ work[w].job \in Job /\ w \notin stale
    /\ row[work[w].id].is = "present"
    => work[w].copy = row[work[w].id]

OpenRow(i, key) == row[i].is = "present" /\ row[i].active /\ row[i].key = key
Setting(w, key) == work[w].job = "set" /\ work[w].key = key

DuplicatesRaced ==
  \A key \in Key :
    /\ \A i, j \in Id : i # j /\ OpenRow(i, key) /\ OpenRow(j, key) => key \in raced
    /\ \A w \in Worker, i \in Id : Setting(w, key) /\ OpenRow(i, key) => key \in raced
    /\ \A w, v \in Worker : w # v /\ Setting(w, key) /\ Setting(v, key) => key \in raced

\* Rows and checks have a key; a row that is not there has no exit price.
Keyed ==
  /\ \A i \in Id : row[i].is = "none" => row[i].exit = "null"
  /\ \A i \in Id : row[i].is = "present" => row[i].key \in Key
  /\ \A w \in Worker : work[w].job = "set" => work[w].key \in Key

PositionsInv ==
  /\ TypeOK
  /\ Keyed
  /\ RowsAreSound
  /\ CopiesAreSound
  /\ FreshCopies
  /\ DuplicatesRaced
------------------------------------------------------------------------------
\* What the rules compute, one lemma per level.
LEMMA Prices == MaybePrice \subseteq Nat
BY PriceAssumption DEF MaybePrice

\* The fields of a position and of a market are prices.
LEMMA Fields ==
  ASSUME NEW pos \in Position
  PROVE  /\ pos.terms \in Terms
         /\ pos.terms.buy \in Nat /\ pos.terms.tp \in Nat /\ pos.terms.sl \in Nat
         /\ pos.trail \in Nat /\ pos.highest \in Nat /\ pos.stop \in Nat
BY Prices DEF Position, Terms, Level

LEMMA MarketsArePriced ==
  ASSUME NEW m \in MarketState
  PROVE  m.last \in Nat /\ m.target \in Nat /\ m.r1 \in Nat /\ m.low \in Nat
BY Prices DEF MarketState

LEMMA TriggerBelowPeak ==
  ASSUME NEW peak \in Nat
  PROVE  Trigger(peak) \in Nat /\ Trigger(peak) <= peak
BY DEF Trigger

\* The peak is the market's price or the one remembered.
LEMMA PeakLevel ==
  ASSUME NEW pos \in Position, NEW m \in MarketState
  PROVE  /\ Peak(pos, m) \in Nat
         /\ pos.trail > 0 => Peak(pos, m) >= pos.highest
         /\ Activates(pos, m) /\ GoesOn(pos, m) => Peak(pos, m) >= pos.terms.tp
BY Fields, MarketsArePriced DEF Peak, Activates, Higher

\* The trigger never falls, and stays between the target and the peak.
LEMMA TrailLevel ==
  ASSUME NEW pos \in Position, NEW m \in MarketState, SoundLevels(pos)
  PROVE  /\ Trail(pos, m) \in Nat
         /\ Trail(pos, m) >= pos.trail
         /\ Trail(pos, m) # 0 => /\ pos.terms.tp <= Trail(pos, m)
                                 /\ Trail(pos, m) <= Peak(pos, m)
BY Fields, PeakLevel, TriggerBelowPeak DEF Trail, EffectiveTP, Higher, SoundLevels

\* A stop is raised above the ones in force and not below the entry.
LEMMA StopLevel ==
  ASSUME NEW pos \in Position, NEW m \in MarketState
  PROVE  /\ Stop(pos, m) \in Nat
         /\ Stop(pos, m) # 0 => /\ Stop(pos, m) = ProposedStop(pos, m)
                                /\ Stop(pos, m) > pos.stop
                                /\ Stop(pos, m) > pos.terms.sl
                                /\ Stop(pos, m) >= pos.terms.buy
BY Fields, MarketsArePriced DEF Stop, ProposedStop, EffectiveSL, Higher

\* The highest price handed to Update.
LEMMA JudgedPeak ==
  ASSUME NEW pos \in Position, NEW m \in MarketState
  PROVE  /\ Judged(pos, m).highest \in Nat
         /\ Judged(pos, m).highest >= pos.highest /\ Judged(pos, m).highest >= Peak(pos, m)
BY Fields, PeakLevel DEF Judged, Higher

\* An evaluation of sound levels gives sound levels.
LEMMA JudgedIsSound ==
  ASSUME NEW pos \in Position, NEW m \in MarketState, SoundLevels(pos)
  PROVE  Judged(pos, m) \in Position /\ SoundLevels(Judged(pos, m))
<1>1. Judged(pos, m) \in Position
  BY Fields, TrailLevel, StopLevel, JudgedPeak DEF Judged, Position, Level
<1>2. SoundLevels(Judged(pos, m))
  BY Fields, PeakLevel, TrailLevel, StopLevel, JudgedPeak DEF Judged, SoundLevels
<1> QED BY <1>1, <1>2

LEMMA SaveKeepsPosition ==
  ASSUME NEW old \in Position, NEW copy \in Position
  PROVE  Saved(old, copy) \in Position
BY Fields DEF Saved, Position, Level, NonZero
------------------------------------------------------------------------------
LEMMA EmptyLevels == NoLevels \in Position /\ Sound(NoLevels) /\ NoRow \in Row
<1>1. NoTerms \in Terms
  BY DEF NoTerms, Terms, MaybePrice
<1>2. NoLevels \in Position
  BY <1>1 DEF NoLevels, Position, Level
<1>3. Sound(NoLevels)
  BY DEF NoLevels, Sound, SoundLevels, Unpeaked
<1>4. NoRow \in Row
  BY <1>2 DEF NoRow, Row
<1> QED BY <1>2, <1>3, <1>4

\* An evaluation keeps what Unpeaked says: the first trigger comes with the peak.
LEMMA JudgedIsUnpeaked ==
  ASSUME NEW pos \in Position, NEW m \in MarketState, Sound(pos)
  PROVE  /\ Judged(pos, m) \in Position
         /\ Sound(Judged(pos, m))
         /\ Judged(pos, m).terms = pos.terms
<1>1. SoundLevels(pos) /\ Unpeaked(pos)
  BY DEF Sound
<1>2. /\ pos.trail \in Nat /\ pos.highest \in Nat /\ pos.terms.tp \in Nat /\ m.last \in Nat
      /\ Trail(pos, m) \in Nat /\ Peak(pos, m) \in Nat
  BY <1>1, Fields, MarketsArePriced, TrailLevel, PeakLevel
<1>3. /\ Judged(pos, m).terms = pos.terms
      /\ Judged(pos, m).trail = Trail(pos, m)
      /\ Judged(pos, m).highest = Higher(Peak(pos, m), pos.highest)
  BY DEF Judged
<1>4. pos.terms.tp = 0 => Trail(pos, m) = 0
  <2> SUFFICES ASSUME pos.terms.tp = 0 PROVE Trail(pos, m) = 0
    OBVIOUS
  <2>1. pos.trail = 0
    BY <1>1 DEF Unpeaked
  <2>2. EffectiveTP(pos) = 0
    BY <2>1 DEF EffectiveTP, Higher
  <2> QED BY <2>1, <2>2 DEF Trail
<1>5. Trail(pos, m) = 0 => Higher(Peak(pos, m), pos.highest) = 0 \/ pos.terms.tp = 0
  <2> SUFFICES ASSUME Trail(pos, m) = 0, pos.terms.tp # 0
               PROVE  Higher(Peak(pos, m), pos.highest) = 0
    OBVIOUS
  <2>1. pos.trail = 0
    BY <1>1, <1>2, TrailLevel
  <2>2. pos.highest = 0
    BY <1>1, <2>1 DEF Unpeaked
  <2>3. ~(Activates(pos, m) /\ GoesOn(pos, m))
    <3>1. SUFFICES ASSUME Activates(pos, m), GoesOn(pos, m) PROVE FALSE
      OBVIOUS
    <3>2. Trail(pos, m) = Higher(pos.terms.tp, 0)
      BY <2>1, <3>1 DEF Trail, EffectiveTP
    <3> QED BY <1>2, <3>2 DEF Higher
  <2>4. Peak(pos, m) = 0
    BY <2>1, <2>2, <2>3 DEF Peak
  <2> QED BY <2>2, <2>4 DEF Higher
<1>6. Unpeaked(Judged(pos, m))
  BY <1>3, <1>4, <1>5 DEF Unpeaked
<1> QED BY <1>1, <1>3, <1>6, JudgedIsSound DEF Sound

\* Whatever copy is saved over whatever row of the same position, the levels are
\* sound: a trigger is never written without its peak.
LEMMA SavedIsSound ==
  ASSUME NEW old \in Position, NEW copy \in Position, Sound(old), Sound(copy),
         copy.terms = old.terms
  PROVE  Saved(old, copy) \in Position /\ Sound(Saved(old, copy))
<1>1. /\ old.trail \in Nat /\ old.highest \in Nat /\ old.stop \in Nat
      /\ copy.trail \in Nat /\ copy.highest \in Nat /\ copy.stop \in Nat
      /\ old.terms.tp \in Nat /\ old.terms.buy \in Nat /\ old.terms.sl \in Nat
  BY Fields
<1>2. PICK new : new = Saved(old, copy)
  OBVIOUS
<1>3. /\ new.terms = old.terms
      /\ new.trail = NonZero(copy.trail, old.trail)
      /\ new.highest = NonZero(copy.highest, old.highest)
      /\ new.stop = NonZero(copy.stop, old.stop)
  BY <1>2 DEF Saved
<1>4. /\ SoundLevels(old) /\ SoundLevels(copy)
      /\ Unpeaked(old) /\ Unpeaked(copy)
  BY DEF Sound
<1>5. new.trail # 0 => new.terms.tp <= new.trail /\ new.trail <= new.highest
  <2>1. CASE copy.trail # 0
    BY <1>1, <1>3, <1>4, <2>1 DEF SoundLevels, NonZero
  <2>2. CASE copy.trail = 0
    <3>1. new.trail = old.trail
      BY <1>3, <2>2 DEF NonZero
    <3>2. old.trail # 0 => copy.highest = 0
      BY <1>4, <2>2 DEF Unpeaked
    <3>3. old.trail # 0 => new.highest = old.highest
      BY <1>3, <3>2 DEF NonZero
    <3> QED BY <1>3, <1>4, <3>1, <3>3 DEF SoundLevels
  <2> QED BY <2>1, <2>2
<1>6. new.stop # 0 => new.terms.buy <= new.stop /\ new.terms.sl < new.stop
  BY <1>1, <1>3, <1>4 DEF SoundLevels, NonZero
<1>7. Unpeaked(new)
  BY <1>1, <1>3, <1>4 DEF Unpeaked, NonZero
<1>8. Sound(new)
  BY <1>5, <1>6, <1>7 DEF Sound, SoundLevels
<1> QED BY <1>2, <1>8, SaveKeepsPosition
------------------------------------------------------------------------------
LEMMA RowFields ==
  ASSUME NEW r \in Row
  PROVE  /\ r.is \in {"none", "present", "deleted"} /\ r.key \in Key \cup {"-"}
         /\ r.active \in BOOLEAN /\ r.exit \in {"null", "price"} /\ r.levels \in Position
         /\ r = [is |-> r.is, key |-> r.key, active |-> r.active, exit |-> r.exit,
                 levels |-> r.levels]
BY DEF Row

\* What an update makes of a present row.
LEMMA MergedRow ==
  ASSUME NEW old \in Row, NEW copy \in Row, Sound(old.levels), Sound(copy.levels),
         copy.levels.terms = old.levels.terms
  PROVE  /\ Merged(old, copy) \in Row
         /\ Merged(old, copy).is = old.is /\ Merged(old, copy).key = old.key
         /\ Merged(old, copy).active <=> copy.active
         /\ Merged(old, copy).exit = NonNull(copy.exit, old.exit)
         /\ Merged(old, copy).levels = Saved(old.levels, copy.levels)
         /\ Sound(Merged(old, copy).levels)
         /\ Merged(old, copy).levels.terms = old.levels.terms
<1>1. old.levels \in Position /\ copy.levels \in Position
  BY RowFields
<1>2. PICK levels : levels = Saved(old.levels, copy.levels)
  OBVIOUS
<1>3. levels \in Position /\ Sound(levels)
  BY <1>1, <1>2, SavedIsSound
<1>4. levels.terms = old.levels.terms
  BY <1>2 DEF Saved
<1>5. PICK exit : exit = NonNull(copy.exit, old.exit)
  OBVIOUS
<1>6. Merged(old, copy) = [is |-> old.is, key |-> old.key, active |-> copy.active,
                           exit |-> exit, levels |-> levels]
  <2>1. PICK active : active = copy.active
    OBVIOUS
  <2>2. PICK r1 : r1 = [old EXCEPT !.active = active]
    OBVIOUS
  <2>3. r1 = [is |-> old.is, key |-> old.key, active |-> active, exit |-> old.exit,
              levels |-> old.levels]
    BY <2>2, RowFields
  <2>4. PICK r2 : r2 = [r1 EXCEPT !.exit = exit]
    OBVIOUS
  <2>5. r2 = [is |-> old.is, key |-> old.key, active |-> active, exit |-> exit,
              levels |-> old.levels]
    BY <2>3, <2>4
  <2>6. [r2 EXCEPT !.levels = levels]
          = [is |-> old.is, key |-> old.key, active |-> active, exit |-> exit,
             levels |-> levels]
    BY <2>5
  <2>7. Merged(old, copy) =
          [[[old EXCEPT !.active = active] EXCEPT !.exit = exit] EXCEPT !.levels = levels]
    BY <1>2, <1>5, <2>1, Zenon DEF Merged
  <2> QED BY <2>1, <2>2, <2>4, <2>6, <2>7, Zenon
<1>7. exit \in {"null", "price"}
  BY <1>5, RowFields DEF NonNull
<1>8. Merged(old, copy) \in Row
  BY <1>3, <1>6, <1>7, RowFields DEF Row
<1>9. PICK new : new = Merged(old, copy)
  OBVIOUS
<1>10. /\ new.is = old.is /\ new.key = old.key /\ new.active = copy.active
       /\ new.exit = exit /\ new.levels = levels
  BY <1>6, <1>9
<1> QED BY <1>2, <1>3, <1>4, <1>5, <1>8, <1>9, <1>10

\* Nothing but a new check or a new open row can make a key's race unmarked.
LEMMA RacesStayMarked ==
  ASSUME DuplicatesRaced, raced \subseteq raced',
         \A key \in Key, i \in Id : OpenRow(i, key)' => OpenRow(i, key) \/ key \in raced',
         \A key \in Key, w \in Worker : Setting(w, key)' => Setting(w, key)
  PROVE  DuplicatesRaced'
<1> USE DEF DuplicatesRaced
<1> SUFFICES ASSUME NEW key \in Key, key \notin raced'
             PROVE  /\ \A i, j \in Id : i # j => ~(OpenRow(i, key)' /\ OpenRow(j, key)')
                    /\ \A w \in Worker, i \in Id : ~(Setting(w, key)' /\ OpenRow(i, key)')
                    /\ \A w, v \in Worker : w # v => ~(Setting(w, key)' /\ Setting(v, key)')
  OBVIOUS
<1>1. key \notin raced
  OBVIOUS
<1> QED BY <1>1

LEMMA RowExcept ==
  ASSUME TypeOK, NEW i \in Id, NEW r \in Row, row' = [row EXCEPT ![i] = r]
  PROVE  /\ row' \in [Id -> Row] /\ row'[i] = r
         /\ \A j \in Id : j # i => row'[j] = row[j]
BY DEF TypeOK

LEMMA WorkExcept ==
  ASSUME TypeOK, NEW w \in Worker, NEW x \in Work, work' = [work EXCEPT ![w] = x]
  PROVE  /\ work' \in [Worker -> Work] /\ work'[w] = x
         /\ \A v \in Worker : v # w => work'[v] = work[v]
BY DEF TypeOK

LEMMA IdleWork == Idle \in Work /\ Idle.job = "idle" /\ Idle.id = 0
<1>1. 0 \in 0 .. MaxPositions
  BY PositionsAssumption
<1> QED BY <1>1, EmptyLevels DEF Idle, Work

LEMMA Finished ==
  ASSUME TypeOK, NEW w \in Worker, Finish(w)
  PROVE  /\ work' \in [Worker -> Work] /\ work'[w].job = "idle"
         /\ \A v \in Worker : v # w => work'[v] = work[v]
<1>1. PICK x : x = Idle
  OBVIOUS
<1>2. x \in Work /\ x.job = "idle"
  BY <1>1, IdleWork
<1>3. work' = [work EXCEPT ![w] = x]
  BY <1>1 DEF Finish
<1> QED BY <1>2, <1>3, WorkExcept

\* A worker lets go of what it has: nothing is left to say of it.
LEMMA FinishStep ==
  ASSUME PositionsInv, NEW w \in Worker, Finish(w), stale' = stale \ {w},
         UNCHANGED <<row, raced>>
  PROVE  PositionsInv'
<1> USE DEF PositionsInv
<1>1. /\ work' \in [Worker -> Work] /\ work'[w].job = "idle"
      /\ \A v \in Worker : v # w => work'[v] = work[v]
  BY Finished
<1>2. TypeOK' /\ RowsAreSound'
  BY <1>1 DEF TypeOK, RowsAreSound
<1>3. Keyed'
  BY <1>1 DEF Keyed
<1>4. CopiesAreSound'
  BY <1>1 DEF CopiesAreSound, InHand, Job
<1>5. FreshCopies'
  BY <1>1 DEF FreshCopies, Job
<1>6. DuplicatesRaced'
  <2>1. \A key \in Key, v \in Worker : Setting(v, key)' => Setting(v, key)
    BY <1>1 DEF Setting
  <2>2. \A key \in Key, i \in Id : OpenRow(i, key)' => OpenRow(i, key)
    BY DEF OpenRow
  <2> QED BY <2>1, <2>2, RacesStayMarked
<1> QED BY <1>2, <1>3, <1>4, <1>5, <1>6

\* A worker takes a row: its copy is the row.
LEMMA TakeStep ==
  ASSUME PositionsInv, NEW w \in Worker, NEW job \in Job, NEW i \in Present,
         Take(w, job, i), UNCHANGED <<row, stale, raced>>
  PROVE  PositionsInv'
<1> USE DEF PositionsInv
<1>1. /\ i \in Id /\ row[i] \in Row /\ row[i].is = "present" /\ Sound(row[i].levels)
  BY DEF Present, TypeOK, RowsAreSound
<1>2. PICK x : x = [job |-> job, id |-> i, copy |-> row[i], key |-> "-"]
  OBVIOUS
<1>3. /\ x \in Work /\ x.job = job /\ x.id = i /\ x.copy = row[i]
  BY <1>1, <1>2, PositionsAssumption DEF Work, Id
<1>4. /\ work' \in [Worker -> Work] /\ work'[w] = x
      /\ \A v \in Worker : v # w => work'[v] = work[v]
  BY <1>2, <1>3, WorkExcept DEF Take
<1>5. TypeOK' /\ RowsAreSound'
  BY <1>4 DEF TypeOK, RowsAreSound
<1>6. Keyed'
  BY <1>3, <1>4 DEF Keyed, Job
<1>7. CopiesAreSound'
  BY <1>1, <1>3, <1>4 DEF CopiesAreSound, InHand
<1>8. FreshCopies'
  BY <1>1, <1>3, <1>4 DEF FreshCopies
<1>9. DuplicatesRaced'
  <2>1. \A key \in Key, v \in Worker : Setting(v, key)' => Setting(v, key)
    BY <1>3, <1>4 DEF Setting, Job
  <2>2. \A key \in Key, j \in Id : OpenRow(j, key)' => OpenRow(j, key)
    BY DEF OpenRow
  <2> QED BY <2>1, <2>2, RacesStayMarked
<1> QED BY <1>5, <1>6, <1>7, <1>8, <1>9

\* A worker updates the row it took and is done.
LEMMA WriteStep ==
  ASSUME PositionsInv, NEW w \in Worker, work[w].job \in Job, NEW copy \in Row,
         Sound(copy.levels), copy.levels.terms = work[w].copy.levels.terms,
         Update(w, work[w].id, copy), Finish(w)
  PROVE  /\ PositionsInv'
         /\ \A j \in Id \ {work[w].id} : row'[j] = row[j]
         /\ row[work[w].id].is = "present" => row'[work[w].id] = Merged(row[work[w].id], copy)
         /\ row[work[w].id].is # "present" => row' = row
<1> USE DEF PositionsInv
<1>1. PICK i : i = work[w].id
  OBVIOUS
<1>2. InHand(w)
  BY DEF CopiesAreSound
<1>3. i \in Id /\ row[i] \in Row /\ Sound(row[i].levels)
  BY <1>1, <1>2 DEF InHand, TypeOK, RowsAreSound
<1>4. CASE i \notin Present
  <2>1. stale' = stale \ {w} /\ UNCHANGED <<row, raced>>
    BY <1>1, <1>4 DEF Update
  <2> QED BY <1>1, <1>3, <1>4, <2>1, FinishStep DEF Present
<1>5. CASE i \in Present
  <2>1. PICK new : new = Merged(row[i], copy)
    OBVIOUS
  <2>2. row[i].is = "present" /\ copy.levels.terms = row[i].levels.terms
    BY <1>1, <1>2, <1>5 DEF InHand, Present
  <2>3. /\ new \in Row /\ new.is = "present" /\ new.key = row[i].key
        /\ new.active <=> copy.active
        /\ Sound(new.levels) /\ new.levels.terms = row[i].levels.terms
    BY <1>3, <2>1, <2>2, MergedRow
  <2>4. /\ row' = [row EXCEPT ![i] = new]
        /\ stale' = (stale \cup Holding(i)) \ {w}
        /\ raced' = raced \cup (IF copy.active /\ ~row[i].active THEN {row[i].key} ELSE {})
    BY <1>1, <1>5, <2>1 DEF Update
  <2>5. /\ row' \in [Id -> Row] /\ row'[i] = new
        /\ \A j \in Id : j # i => row'[j] = row[j]
    BY <1>3, <2>3, <2>4, RowExcept
  <2>6. /\ work' \in [Worker -> Work] /\ work'[w].job = "idle"
        /\ \A v \in Worker : v # w => work'[v] = work[v]
    BY Finished
  <2>7. TypeOK'
    <3>1. row[i].key \in Key
      BY <1>3, <2>2 DEF Keyed
    <3>2. raced' \subseteq Key
      BY <2>4, <3>1 DEF TypeOK
    <3>3. stale' \subseteq Worker
      BY <2>4 DEF TypeOK, Holding
    <3> QED BY <2>5, <2>6, <3>2, <3>3 DEF TypeOK
  <2>8. RowsAreSound'
    BY <2>3, <2>5 DEF RowsAreSound
  <2>9. Keyed'
    BY <2>2, <2>3, <2>5, <2>6 DEF Keyed
  <2>10. CopiesAreSound'
    <3> SUFFICES ASSUME NEW v \in Worker, work'[v].job \in Job PROVE InHand(v)'
      BY DEF CopiesAreSound
    <3>1. v # w /\ work'[v] = work[v]
      BY <2>6 DEF Job
    <3>2. InHand(v)
      BY <3>1 DEF CopiesAreSound
    <3> QED BY <2>2, <2>3, <2>5, <3>1, <3>2 DEF InHand
  <2>11. FreshCopies'
    <3> SUFFICES ASSUME NEW v \in Worker, work'[v].job \in Job, v \notin stale',
                        row'[work'[v].id].is = "present"
                 PROVE  work'[v].copy = row'[work'[v].id]
      BY DEF FreshCopies
    <3>1. v # w /\ work'[v] = work[v]
      BY <2>6 DEF Job
    <3>2. v \notin stale /\ work[v].id # i /\ work[v].id \in Id
      BY <2>4, <3>1 DEF Holding, CopiesAreSound, InHand
    <3>3. row'[work[v].id] = row[work[v].id]
      BY <2>5, <3>2
    <3> QED BY <3>1, <3>2, <3>3 DEF FreshCopies
  <2>12. DuplicatesRaced'
    <3>1. raced \subseteq raced'
      BY <2>4
    <3>2. \A key \in Key, v \in Worker : Setting(v, key)' => Setting(v, key)
      BY <2>6 DEF Setting
    <3>3. ASSUME NEW key \in Key, NEW j \in Id, OpenRow(j, key)'
          PROVE  OpenRow(j, key) \/ key \in raced'
      <4>1. CASE j # i
        BY <2>5, <3>3, <4>1 DEF OpenRow
      <4>2. CASE j = i
        BY <2>2, <2>3, <2>4, <2>5, <3>3, <4>2 DEF OpenRow
      <4> QED BY <4>1, <4>2
    <3> QED BY <3>1, <3>2, <3>3, RacesStayMarked
  <2>13. PositionsInv'
    BY <2>7, <2>8, <2>9, <2>10, <2>11, <2>12
  <2> QED BY <1>1, <2>1, <2>2, <2>5, <2>13
<1> QED BY <1>4, <1>5
------------------------------------------------------------------------------
\* What NothingIsForgotten and OnlyStaleCopiesUndo say of a step.
Keeps ==
  \A i \in Id :
    /\ row[i].exit = "price" => row'[i].exit = "price" \/ row'[i].is = "deleted"
    /\ row[i].is = "deleted" => row'[i].is = "deleted"

UndoesOnlyByStale ==
  \A i \in Id :
    row[i].is = "present" /\ row'[i].is = "present" /\ Undone(row[i], row'[i])
      => \E w \in stale : work[w].id = i /\ work'[w] # work[w]

\* A copy that is not behind its row in anything.
Ahead(old, copy) ==
  /\ copy.levels.trail >= old.levels.trail
  /\ copy.levels.highest >= old.levels.highest
  /\ copy.levels.stop # 0 => copy.levels.stop >= old.levels.stop
  /\ copy.active => old.active

LEMMA SameRow == row' = row /\ TypeOK => Keeps /\ UndoesOnlyByStale
<1> SUFFICES ASSUME row' = row, TypeOK PROVE Keeps /\ UndoesOnlyByStale
  OBVIOUS
<1>1. \A i \in Id : ~Undone(row[i], row[i])
  <2> SUFFICES ASSUME NEW i \in Id PROVE ~Undone(row[i], row[i])
    OBVIOUS
  <2>1. row[i].levels \in Position
    BY RowFields DEF TypeOK
  <2> QED BY <2>1, Fields DEF Undone
<1> QED BY <1>1 DEF Keeps, UndoesOnlyByStale

LEMMA AheadUndoesNothing ==
  ASSUME NEW old \in Row, NEW copy \in Row, Sound(old.levels), Sound(copy.levels),
         copy.levels.terms = old.levels.terms, Ahead(old, copy)
  PROVE  ~Undone(old, Merged(old, copy))
<1>1. PICK new : new = Merged(old, copy)
  OBVIOUS
<1>2. /\ new.active <=> copy.active
      /\ new.levels = Saved(old.levels, copy.levels)
  BY <1>1, MergedRow
<1>3. PICK o, c : o = old.levels /\ c = copy.levels
  OBVIOUS
<1>4. /\ o \in Position /\ c \in Position
      /\ o.trail \in Nat /\ o.highest \in Nat /\ o.stop \in Nat
      /\ c.trail \in Nat /\ c.highest \in Nat /\ c.stop \in Nat
  BY <1>3, RowFields, Fields
<1>5. /\ new.levels.trail = NonZero(c.trail, o.trail)
      /\ new.levels.highest = NonZero(c.highest, o.highest)
      /\ new.levels.stop = NonZero(c.stop, o.stop)
  BY <1>2, <1>3 DEF Saved
<1>6. /\ new.levels.trail >= o.trail /\ new.levels.highest >= o.highest
      /\ new.levels.stop >= o.stop
  BY <1>3, <1>4, <1>5 DEF Ahead, NonZero
<1>7. /\ new.levels.trail \in Nat /\ new.levels.highest \in Nat /\ new.levels.stop \in Nat
  BY <1>4, <1>5 DEF NonZero
<1>8. new.active => old.active
  BY <1>2 DEF Ahead
<1> QED BY <1>1, <1>3, <1>4, <1>6, <1>7, <1>8 DEF Undone

\* What an update does, given that a copy nobody overtook is not behind its row.
LEMMA UpdateEffects ==
  ASSUME PositionsInv, NEW w \in Worker, work[w].job \in Job, NEW copy \in Row,
         Sound(copy.levels), copy.levels.terms = work[w].copy.levels.terms,
         Update(w, work[w].id, copy), Finish(w),
         Ahead(work[w].copy, copy)
  PROVE  PositionsInv' /\ Keeps /\ UndoesOnlyByStale
<1> USE DEF PositionsInv
<1>1. PICK i : i = work[w].id
  OBVIOUS
<1>2. /\ PositionsInv'
      /\ \A j \in Id \ {i} : row'[j] = row[j]
      /\ row[i].is = "present" => row'[i] = Merged(row[i], copy)
      /\ row[i].is # "present" => row' = row
  BY <1>1, WriteStep
<1>3. CASE row[i].is # "present"
  BY <1>2, <1>3, SameRow
<1>4. CASE row[i].is = "present"
  <2>1. /\ i \in Id /\ row[i] \in Row /\ Sound(row[i].levels)
        /\ copy.levels.terms = row[i].levels.terms
    BY <1>1, <1>4 DEF CopiesAreSound, InHand, TypeOK, RowsAreSound
  <2>2. PICK new : new = Merged(row[i], copy)
    OBVIOUS
  <2>3. /\ row'[i] = new /\ new.is = "present"
        /\ row[i].exit = "price" => new.exit = "price"
    <3>1. new.exit = NonNull(copy.exit, row[i].exit) /\ new.is = "present"
      BY <1>4, <2>1, <2>2, MergedRow
    <3>2. copy.exit \in {"null", "price"}
      BY RowFields
    <3> QED BY <1>2, <1>4, <2>2, <3>1, <3>2 DEF NonNull
  <2>4. Keeps
    BY <1>2, <1>4, <2>3 DEF Keeps
  <2>5. UndoesOnlyByStale
    <3> SUFFICES ASSUME NEW j \in Id, Undone(row[j], row'[j])
                 PROVE  \E v \in stale : work[v].id = j /\ work'[v] # work[v]
      BY DEF UndoesOnlyByStale
    <3>1. j = i
      <4>1. SUFFICES ASSUME j # i PROVE FALSE
        OBVIOUS
      <4>2. row'[j] = row[j] /\ row[j] \in Row
        BY <1>2, <4>1 DEF TypeOK
      <4>3. row[j].levels \in Position
        BY <4>2, RowFields
      <4> QED BY <4>2, <4>3, Fields DEF Undone
    <3>2. w \in stale
      <4>1. SUFFICES ASSUME w \notin stale PROVE FALSE
        OBVIOUS
      <4>2. work[w].copy = row[i]
        BY <1>1, <1>4, <4>1 DEF FreshCopies
      <4>3. Ahead(row[i], copy)
        BY <4>2
      <4>4. ~Undone(row[i], new)
        BY <2>1, <2>2, <4>3, AheadUndoesNothing
      <4> QED BY <2>3, <3>1, <4>4
    <3>3. work'[w] # work[w]
      BY Finished DEF Job
    <3> QED BY <1>1, <3>1, <3>2, <3>3
  <2> QED BY <1>2, <2>4, <2>5
<1> QED BY <1>3, <1>4

LEMMA CopyInHand ==
  ASSUME PositionsInv, NEW w \in Worker, work[w].job \in Job
  PROVE  /\ work[w].copy \in Row
         /\ work[w].copy.levels \in Position
         /\ Sound(work[w].copy.levels)
<1>1. work[w] \in Work
  BY DEF PositionsInv, TypeOK
<1>2. work[w].copy \in Row
  BY <1>1 DEF Work
<1> QED BY <1>2, RowFields DEF PositionsInv, CopiesAreSound, InHand

LEMMA EvaluateStep ==
  ASSUME PositionsInv, NEW w \in Worker, Evaluate(w)
  PROVE  PositionsInv' /\ Keeps /\ UndoesOnlyByStale
<1>1. PICK c : c = work[w].copy
  OBVIOUS
<1>2. work[w].job \in Job /\ Finish(w)
  BY DEF Evaluate, Job
<1>3. PICK m \in Markets : Update(w, work[w].id, [c EXCEPT !.levels = Judged(c.levels, m)])
  BY <1>1 DEF Evaluate
<1>4. PICK levels : levels = Judged(c.levels, m)
  OBVIOUS
<1>5. PICK copy : copy = [c EXCEPT !.levels = levels]
  OBVIOUS
<1>6. c \in Row /\ c.levels \in Position /\ Sound(c.levels) /\ m \in MarketState
  BY <1>1, <1>2, CopyInHand, PositionsAssumption
<1>7. levels \in Position /\ Sound(levels) /\ levels.terms = c.levels.terms
  BY <1>4, <1>6, JudgedIsUnpeaked
<1>8. /\ copy \in Row /\ copy.levels = levels
      /\ copy.active = c.active
  <2>1. copy = [is |-> c.is, key |-> c.key, active |-> c.active, exit |-> c.exit,
                levels |-> levels]
    BY <1>5, <1>6, RowFields
  <2> QED BY <1>6, <1>7, <2>1, RowFields DEF Row
<1>9. Ahead(c, copy)
  <2>1. /\ levels.trail = Trail(c.levels, m)
        /\ levels.highest = Higher(Peak(c.levels, m), c.levels.highest)
        /\ levels.stop = Stop(c.levels, m)
    BY <1>4, <1>6 DEF Judged
  <2>2. SoundLevels(c.levels)
    BY <1>6 DEF Sound
  <2>3. /\ levels.trail >= c.levels.trail
        /\ levels.highest >= c.levels.highest
        /\ levels.stop # 0 => levels.stop > c.levels.stop
    BY <1>4, <1>6, <2>1, <2>2, TrailLevel, JudgedPeak, StopLevel
  <2>4. levels.stop \in Nat /\ c.levels.stop \in Nat
    BY <1>6, <1>7, Fields
  <2> QED BY <1>8, <2>3, <2>4 DEF Ahead
<1>10. Update(w, work[w].id, copy)
  BY <1>3, <1>4, <1>5
<1> QED BY <1>1, <1>2, <1>7, <1>8, <1>9, <1>10, UpdateEffects

LEMMA AlertStep ==
  ASSUME PositionsInv, NEW w \in Worker, Alert(w)
  PROVE  PositionsInv' /\ Keeps /\ UndoesOnlyByStale
<1>1. work[w].job \in Job /\ Finish(w)
  BY DEF Alert, Job
<1>2. PICK c : c = work[w].copy
  OBVIOUS
<1>3. \/ Update(w, work[w].id, c)
      \/ stale' = stale \ {w} /\ UNCHANGED <<row, raced>>
  <2>1. PICK price \in MaybePrice :
          IF AlertDue(work[w].copy.levels, price)
          THEN Update(w, work[w].id, work[w].copy)
          ELSE stale' = stale \ {w} /\ UNCHANGED <<row, raced>>
    BY Zenon DEF Alert
  <2> QED BY <1>2, <2>1, Zenon
<1>4. CASE Update(w, work[w].id, c)
  <2>1. c \in Row /\ c.levels \in Position /\ Sound(c.levels)
    BY <1>1, <1>2, CopyInHand
  <2>2. Ahead(c, c)
    BY <2>1, Fields DEF Ahead
  <2> QED BY <1>1, <1>2, <1>4, <2>1, <2>2, UpdateEffects
<1>5. CASE stale' = stale \ {w} /\ UNCHANGED <<row, raced>>
  BY <1>1, <1>5, FinishStep, SameRow DEF PositionsInv
<1> QED BY <1>3, <1>4, <1>5

LEMMA ExitStep ==
  ASSUME PositionsInv, NEW w \in Worker, Exit(w)
  PROVE  PositionsInv' /\ Keeps /\ UndoesOnlyByStale
<1>1. PICK c : c = work[w].copy
  OBVIOUS
<1>2. work[w].job \in Job /\ Finish(w)
  BY DEF Exit, Job
<1>3. PICK price \in {"null", "price"} :
        Update(w, work[w].id,
               [[c EXCEPT !.active = FALSE] EXCEPT !.exit = NonNull(price, c.exit)])
  BY <1>1, Zenon DEF Exit
<1>4. PICK exit : exit = NonNull(price, c.exit)
  OBVIOUS
<1>5. PICK c1 : c1 = [c EXCEPT !.active = FALSE]
  OBVIOUS
<1>6. PICK copy : copy = [c1 EXCEPT !.exit = exit]
  OBVIOUS
<1>7. c \in Row /\ c.levels \in Position /\ Sound(c.levels)
  BY <1>1, <1>2, CopyInHand
<1>8. exit \in {"null", "price"}
  BY <1>4, <1>7, RowFields DEF NonNull
<1>9. PICK no : no = FALSE
  OBVIOUS
<1>10. copy = [is |-> c.is, key |-> c.key, active |-> no, exit |-> exit, levels |-> c.levels]
  <2>1. c1 = [c EXCEPT !.active = no]
    BY <1>5, <1>9, Zenon
  <2>2. c1 = [is |-> c.is, key |-> c.key, active |-> no, exit |-> c.exit, levels |-> c.levels]
    BY <1>7, <2>1, RowFields
  <2> QED BY <1>6, <2>2
<1>11. copy \in Row /\ copy.levels = c.levels /\ ~copy.active
  BY <1>7, <1>8, <1>9, <1>10, RowFields DEF Row
<1>12. Ahead(c, copy)
  BY <1>7, <1>11, Fields DEF Ahead
<1>13. Update(w, work[w].id, copy)
  BY <1>3, <1>4, <1>5, <1>6
<1> QED BY <1>1, <1>2, <1>7, <1>11, <1>12, <1>13, UpdateEffects

LEMMA DeleteStep ==
  ASSUME PositionsInv, NEW w \in Worker, Delete(w)
  PROVE  PositionsInv' /\ Keeps /\ UndoesOnlyByStale
<1> USE DEF PositionsInv
<1>1. PICK i \in Present :
        /\ row' = [row EXCEPT ![i] = [NoRow EXCEPT !.is = "deleted"]]
        /\ stale' = stale \cup Holding(i)
  BY DEF Delete
<1>2. PICK new : new = [NoRow EXCEPT !.is = "deleted"]
  OBVIOUS
<1>3. /\ new \in Row /\ new.is = "deleted" /\ Sound(new.levels)
  <2>1. new = [is |-> "deleted", key |-> "-", active |-> FALSE, exit |-> "null",
               levels |-> NoLevels]
    BY <1>2 DEF NoRow
  <2> QED BY <2>1, EmptyLevels DEF Row
<1>4. i \in Id /\ row[i].is = "present"
  BY DEF Present
<1>5. /\ row' \in [Id -> Row] /\ row'[i] = new
      /\ \A j \in Id : j # i => row'[j] = row[j]
  BY <1>1, <1>2, <1>3, <1>4, RowExcept
<1>6. work' = work /\ raced' = raced
  BY DEF Delete
<1>7. TypeOK' /\ RowsAreSound' /\ Keyed'
  BY <1>1, <1>3, <1>5, <1>6 DEF TypeOK, RowsAreSound, Keyed, Holding
<1>8. CopiesAreSound'
  BY <1>3, <1>5, <1>6 DEF CopiesAreSound, InHand
<1>9. FreshCopies'
  BY <1>1, <1>3, <1>5, <1>6 DEF FreshCopies, CopiesAreSound, InHand, Holding
<1>10. DuplicatesRaced'
  <2>1. \A key \in Key, v \in Worker : Setting(v, key)' => Setting(v, key)
    BY <1>6 DEF Setting
  <2>2. \A key \in Key, j \in Id : OpenRow(j, key)' => OpenRow(j, key)
    BY <1>3, <1>5 DEF OpenRow
  <2> QED BY <1>6, <2>1, <2>2, RacesStayMarked
<1>11. Keeps
  BY <1>3, <1>5 DEF Keeps
<1>12. UndoesOnlyByStale
  <2> SUFFICES ASSUME NEW j \in Id, row'[j].is = "present", Undone(row[j], row'[j]) PROVE FALSE
    BY DEF UndoesOnlyByStale
  <2>1. row'[j] = row[j] /\ row[j] \in Row
    BY <1>3, <1>5 DEF TypeOK
  <2>2. row[j].levels \in Position
    BY <2>1, RowFields
  <2> QED BY <2>1, <2>2, Fields DEF Undone
<1> QED BY <1>7, <1>8, <1>9, <1>10, <1>11, <1>12

LEMMA CheckStep ==
  ASSUME PositionsInv, NEW w \in Worker, CheckExisting(w)
  PROVE  PositionsInv' /\ Keeps /\ UndoesOnlyByStale
<1> USE DEF PositionsInv
<1>1. PICK key \in Key :
        /\ Active(key) = {}
        /\ work' = [work EXCEPT ![w] = [Idle EXCEPT !.job = "set", !.key = key]]
        /\ raced' = raced \cup {k \in {key} : \E v \in Worker : work[v].key = k}
  BY DEF CheckExisting
<1>2. work[w].job = "idle" /\ UNCHANGED <<row, stale>>
  BY DEF CheckExisting
<1>3. PICK y : y = [Idle EXCEPT !.job = "set"]
  OBVIOUS
<1>4. y = [job |-> "set", id |-> 0, copy |-> NoRow, key |-> "-"]
  BY <1>3 DEF Idle
<1>5. PICK x : x = [y EXCEPT !.key = key]
  OBVIOUS
<1>6. x = [job |-> "set", id |-> 0, copy |-> NoRow, key |-> key]
  BY <1>4, <1>5
<1>7. 0 \in 0 .. MaxPositions
  BY PositionsAssumption
<1>8. x \in Work /\ x.job = "set" /\ x.key = key
  BY <1>6, <1>7, EmptyLevels DEF Work
<1>9. work' = [work EXCEPT ![w] = x]
  BY <1>1, <1>3, <1>5, Zenon
<1>10. /\ work' \in [Worker -> Work] /\ work'[w] = x
       /\ \A v \in Worker : v # w => work'[v] = work[v]
  BY <1>8, <1>9, WorkExcept
<1>11. TypeOK' /\ RowsAreSound'
  BY <1>1, <1>2, <1>10 DEF TypeOK, RowsAreSound
<1>12. Keyed'
  BY <1>2, <1>8, <1>10 DEF Keyed
<1>13. CopiesAreSound'
  BY <1>2, <1>8, <1>10 DEF CopiesAreSound, InHand, Job
<1>14. FreshCopies'
  BY <1>2, <1>8, <1>10 DEF FreshCopies, Job
<1>15. DuplicatesRaced'
  <2> SUFFICES ASSUME NEW k \in Key, k \notin raced'
               PROVE  /\ \A i, j \in Id : i # j => ~(OpenRow(i, k)' /\ OpenRow(j, k)')
                      /\ \A v \in Worker, i \in Id : ~(Setting(v, k)' /\ OpenRow(i, k)')
                      /\ \A u, v \in Worker : u # v => ~(Setting(u, k)' /\ Setting(v, k)')
    BY DEF DuplicatesRaced
  <2>1. k \notin raced
    BY <1>1
  <2>2. \A i \in Id : OpenRow(i, k)' <=> OpenRow(i, k)
    BY <1>2 DEF OpenRow
  <2>3. \A v \in Worker : v # w => (Setting(v, k)' <=> Setting(v, k))
    BY <1>10 DEF Setting
  <2>4. Setting(w, k)' => k = key
    BY <1>8, <1>10 DEF Setting
  <2>5. \A i \in Id : ~OpenRow(i, key)
    BY <1>1 DEF Active, Present, OpenRow
  <2>6. k = key => \A v \in Worker : ~Setting(v, k)
    BY <1>1 DEF Setting
  <2> QED BY <2>1, <2>2, <2>3, <2>4, <2>5, <2>6 DEF DuplicatesRaced
<1>16. Keeps /\ UndoesOnlyByStale
  BY <1>2, SameRow
<1> QED BY <1>11, <1>12, <1>13, <1>14, <1>15, <1>16

LEMMA CreateStep ==
  ASSUME PositionsInv, NEW w \in Worker, Create(w)
  PROVE  PositionsInv' /\ Keeps /\ UndoesOnlyByStale
<1> USE DEF PositionsInv
<1>1. PICK i \in Id, terms \in Entries :
        /\ row[i].is = "none"
        /\ row' = [row EXCEPT ![i] = [is |-> "present", key |-> work[w].key, active |-> TRUE,
                                      exit |-> "null",
                                      levels |-> [NoLevels EXCEPT !.terms = terms]]]
  BY Zenon DEF Create
<1>2. work[w].job = "set" /\ Finish(w) /\ UNCHANGED <<stale, raced>>
  BY DEF Create
<1>3. PICK levels : levels = [NoLevels EXCEPT !.terms = terms]
  OBVIOUS
<1>4. levels \in Position /\ Sound(levels)
  <2>1. terms \in Terms
    BY PositionsAssumption
  <2>2. levels = [terms |-> terms, trail |-> 0, highest |-> 0, stop |-> 0]
    BY <1>3 DEF NoLevels
  <2>3. levels \in Position
    BY <2>1, <2>2 DEF Position, Level
  <2> QED BY <2>2, <2>3 DEF Sound, SoundLevels, Unpeaked
<1>5. work[w].key \in Key
  BY <1>2 DEF Keyed
<1>6. PICK new : new = [is |-> "present", key |-> work[w].key, active |-> TRUE,
                        exit |-> "null", levels |-> levels]
  OBVIOUS
<1>7. /\ new \in Row /\ new.is = "present" /\ new.key = work[w].key
      /\ Sound(new.levels)
  BY <1>4, <1>5, <1>6 DEF Row
<1>8. row' = [row EXCEPT ![i] = new]
  BY <1>1, <1>3, <1>6, Zenon
<1>9. /\ row' \in [Id -> Row] /\ row'[i] = new
      /\ \A j \in Id : j # i => row'[j] = row[j]
  BY <1>7, <1>8, RowExcept
<1>10. /\ work' \in [Worker -> Work] /\ work'[w].job = "idle"
       /\ \A v \in Worker : v # w => work'[v] = work[v]
  BY <1>2, Finished
<1>11. TypeOK' /\ RowsAreSound'
  BY <1>2, <1>7, <1>9, <1>10 DEF TypeOK, RowsAreSound
<1>12. Keyed'
  BY <1>5, <1>7, <1>9, <1>10 DEF Keyed
<1>13. CopiesAreSound'
  <2> SUFFICES ASSUME NEW v \in Worker, work'[v].job \in Job PROVE InHand(v)'
    BY DEF CopiesAreSound
  <2>1. work'[v] = work[v] /\ InHand(v)
    BY <1>10 DEF Job, CopiesAreSound
  <2> QED BY <1>1, <1>9, <2>1 DEF InHand
<1>14. FreshCopies'
  <2> SUFFICES ASSUME NEW v \in Worker, work'[v].job \in Job, v \notin stale,
                      row'[work'[v].id].is = "present"
               PROVE  work'[v].copy = row'[work'[v].id]
    BY <1>2 DEF FreshCopies
  <2>1. work'[v] = work[v] /\ InHand(v)
    BY <1>10 DEF Job, CopiesAreSound
  <2>2. work[v].id \in Id /\ row'[work[v].id] = row[work[v].id]
    BY <1>1, <1>9, <2>1 DEF InHand
  <2> QED BY <2>1, <2>2 DEF FreshCopies
<1>15. DuplicatesRaced'
  <2> SUFFICES ASSUME NEW k \in Key, k \notin raced
               PROVE  /\ \A a, b \in Id : a # b => ~(OpenRow(a, k)' /\ OpenRow(b, k)')
                      /\ \A v \in Worker, a \in Id : ~(Setting(v, k)' /\ OpenRow(a, k)')
                      /\ \A u, v \in Worker : u # v => ~(Setting(u, k)' /\ Setting(v, k)')
    BY <1>2 DEF DuplicatesRaced
  <2>1. \A a \in Id : a # i => (OpenRow(a, k)' <=> OpenRow(a, k))
    BY <1>9 DEF OpenRow
  <2>2. OpenRow(i, k)' => Setting(w, k)
    BY <1>2, <1>7, <1>9 DEF OpenRow, Setting
  <2>3. \A v \in Worker : Setting(v, k)' => v # w /\ Setting(v, k)
    BY <1>10 DEF Setting
  <2> QED BY <2>1, <2>2, <2>3 DEF DuplicatesRaced
<1>16. Keeps
  <2>1. row[i].exit = "price" => new.exit = "price" \/ new.is = "deleted"
    <3>1. row[i].exit = "null"
      BY <1>1 DEF Keyed
    <3> QED BY <3>1
  <2> QED BY <1>1, <1>9, <2>1 DEF Keeps
<1>17. UndoesOnlyByStale
  <2> SUFFICES ASSUME NEW j \in Id, row[j].is = "present", Undone(row[j], row'[j]) PROVE FALSE
    BY DEF UndoesOnlyByStale
  <2>1. row'[j] = row[j] /\ row[j] \in Row
    BY <1>1, <1>9 DEF TypeOK
  <2>2. row[j].levels \in Position
    BY <2>1, RowFields
  <2> QED BY <2>1, <2>2, Fields DEF Undone
<1> QED BY <1>11, <1>12, <1>13, <1>14, <1>15, <1>16, <1>17
------------------------------------------------------------------------------
LEMMA ReadStep ==
  ASSUME PositionsInv, NEW w \in Worker,
         ReadToMonitor(w) \/ ReadToAlert(w) \/ ReadToExit(w)
  PROVE  PositionsInv' /\ Keeps /\ UndoesOnlyByStale
<1>1. UNCHANGED <<row, stale, raced>>
  BY DEF ReadToMonitor, ReadToAlert, ReadToExit
<1>2. PICK job \in Job, i \in Present : Take(w, job, i)
  BY DEF ReadToMonitor, ReadToAlert, ReadToExit, Job
<1>3. PositionsInv'
  BY <1>1, <1>2, TakeStep
<1> QED BY <1>1, <1>3, SameRow DEF PositionsInv

LEMMA GiveUpStep ==
  ASSUME PositionsInv, NEW w \in Worker, GiveUp(w)
  PROVE  PositionsInv' /\ Keeps /\ UndoesOnlyByStale
<1>1. Finish(w) /\ stale' = stale \ {w} /\ UNCHANGED <<row, raced>>
  BY DEF GiveUp
<1> QED BY <1>1, FinishStep, SameRow DEF PositionsInv

LEMMA StepEffects ==
  ASSUME PositionsInv, Next
  PROVE  PositionsInv' /\ Keeps /\ UndoesOnlyByStale
<1>1. PICK w \in Worker :
        \/ ReadToMonitor(w) \/ Evaluate(w)
        \/ ReadToAlert(w) \/ Alert(w)
        \/ ReadToExit(w) \/ Exit(w)
        \/ Delete(w)
        \/ CheckExisting(w) \/ Create(w)
        \/ GiveUp(w)
  BY DEF Next
<1>2. CASE ReadToMonitor(w) \/ ReadToAlert(w) \/ ReadToExit(w)
  BY <1>2, ReadStep
<1>3. CASE Evaluate(w)
  BY <1>3, EvaluateStep
<1>4. CASE Alert(w)
  BY <1>4, AlertStep
<1>5. CASE Exit(w)
  BY <1>5, ExitStep
<1>6. CASE Delete(w)
  BY <1>6, DeleteStep
<1>7. CASE CheckExisting(w)
  BY <1>7, CheckStep
<1>8. CASE Create(w)
  BY <1>8, CreateStep
<1>9. CASE GiveUp(w)
  BY <1>9, GiveUpStep
<1> QED BY <1>1, <1>2, <1>3, <1>4, <1>5, <1>6, <1>7, <1>8, <1>9

LEMMA InitialPositions == Init => PositionsInv
<1> SUFFICES ASSUME Init PROVE PositionsInv
  OBVIOUS
<1>1. PICK none : none = NoRow
  OBVIOUS
<1>2. none \in Row /\ none.is = "none" /\ none.exit = "null" /\ Sound(none.levels)
  BY <1>1, EmptyLevels DEF NoRow
<1>3. PICK idle : idle = Idle
  OBVIOUS
<1>4. idle \in Work /\ idle.job = "idle"
  BY <1>3, IdleWork
<1>5. /\ row = [i \in Id |-> none] /\ work = [w \in Worker |-> idle]
      /\ stale = {} /\ raced = {}
  BY <1>1, <1>3 DEF Init
<1>6. TypeOK
  BY <1>2, <1>4, <1>5 DEF TypeOK
<1>7. Keyed /\ RowsAreSound
  BY <1>2, <1>4, <1>5 DEF Keyed, RowsAreSound
<1>8. CopiesAreSound /\ FreshCopies
  BY <1>4, <1>5 DEF CopiesAreSound, FreshCopies, Job
<1>9. DuplicatesRaced
  BY <1>2, <1>4, <1>5 DEF DuplicatesRaced, OpenRow, Setting
<1> QED BY <1>6, <1>7, <1>8, <1>9 DEF PositionsInv

LEMMA PositionsInvariance == Spec => []PositionsInv
<1>1. PositionsInv /\ [Next]_vars => PositionsInv'
  <2>1. CASE Next
    BY <2>1, StepEffects
  <2>2. CASE UNCHANGED vars
    BY <2>2 DEF vars, PositionsInv, TypeOK, Keyed, RowsAreSound, CopiesAreSound, InHand,
                FreshCopies, DuplicatesRaced, OpenRow, Setting, Present
  <2> QED BY <2>1, <2>2
<1> QED BY InitialPositions, <1>1, PTL DEF Spec

\* Rows, copies and marks have their types.
THEOREM PositionsTyped == Spec => []TypeOK
<1>1. PositionsInv => TypeOK
  BY DEF PositionsInv
<1> QED BY PositionsInvariance, <1>1, PTL

\* However stale the copies are that Update writes over each other, the levels of
\* a row are levels an evaluation could have given.
THEOREM LevelsStaySound == Spec => []LevelsAreSound
<1>1. PositionsInv => LevelsAreSound
  BY DEF PositionsInv, RowsAreSound, Sound, LevelsAreSound
<1> QED BY PositionsInvariance, <1>1, PTL

\* The check of SetStockPosition keeps a key to one active position whenever it
\* was not overtaken.
THEOREM OneActive == Spec => []OneActivePerKey
<1>1. PositionsInv => OneActivePerKey
  <2> SUFFICES ASSUME PositionsInv, NEW key \in Key, key \notin raced
               PROVE  ~(Cardinality(Active(key)) > 1)
    BY DEF OneActivePerKey
  <2>1. \A i, j \in Active(key) : i = j
    BY DEF PositionsInv, DuplicatesRaced, OpenRow, Active, Present
  <2>2. CASE Active(key) = {}
    <3>1. Cardinality(Active(key)) = 0
      BY <2>2, FS_EmptySet
    <3> QED BY <3>1
  <2>3. CASE Active(key) # {}
    <3>1. PICK i : i \in Active(key)
      BY <2>3
    <3>2. Active(key) = {i}
      BY <2>1, <3>1
    <3>3. Cardinality(Active(key)) = 1
      BY <3>2, FS_Singleton
    <3> QED BY <3>3
  <2> QED BY <2>2, <2>3
<1> QED BY PositionsInvariance, <1>1, PTL

\* No update takes an exit price away or brings a deleted row back.
THEOREM Remembered == Spec => NothingIsForgotten
<1>1. PositionsInv /\ [Next]_vars => [Keeps]_vars
  BY StepEffects
<1> QED BY PositionsInvariance, <1>1, PTL DEF Spec, NothingIsForgotten, Keeps

\* Only the update of a worker whose row was written since it read it lowers a
\* level or makes an exited position active.
THEOREM StaleUndoes == Spec => OnlyStaleCopiesUndo
<1>1. PositionsInv /\ [Next]_vars => [UndoesOnlyByStale]_vars
  BY StepEffects
<1> QED BY PositionsInvariance, <1>1, PTL DEF Spec, OnlyStaleCopiesUndo, UndoesOnlyByStale
==============================================================================
