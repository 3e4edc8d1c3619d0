CONSTANTS
  Price <- MCPrice
  Markets <- MCMarkets
  Entries <- MCEntries
  Scores <- MCScores
  Worker = {w1, w2}
  MaxMissed = 1
SPECIFICATION Spec
SYMMETRY Symmetry
INVARIANTS
  TypeOK
  NewsIsTold
  ScoresAgree
PROPERTY InitialScoreStays
