CONSTANTS
  Price <- MCPrice
  Markets <- MCMarkets
  Entries <- MCEntries
  Key = {k1}
  Worker = {w1, w2}
  MaxPositions = 1
SPECIFICATION Spec
INVARIANT ExitSticks
