CONSTANTS
  Price <- MCPrice
  Markets <- MCMarkets
  Entries <- MCEntries
  Key = {k1}
  Worker = {w1, w2}
  MaxPositions = 2
SPECIFICATION Spec
SYMMETRY Symmetry
INVARIANTS
  TypeOK
  LevelsAreSound
  OneActivePerKey
PROPERTIES
  NothingIsForgotten
  OnlyStaleCopiesUndo
