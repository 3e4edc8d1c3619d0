CONSTANTS
  Price <- MCPrice
  Markets <- MCMarkets
  Entries <- MCEntries
SPECIFICATION Spec
INVARIANTS
  TypeOK
  LevelsAreSound
  ExitsAreSignalled
  StopsBelowMarket
  CutLossIsDangerous
PROPERTY LevelsOnlyRise
