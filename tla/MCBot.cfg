SPECIFICATION Spec
CONSTANTS
  h1 = h1
  h2 = h2
  e1 = e1
  e2 = e2
  Handler = {h1, h2}
  Errand = {e1, e2}
  MaxDrafts = 2
  Capacity = 4
  Prompts <- MCPrompts
  MaxBatches = 2
  MaxAnswers = 2
  Menus <- MCMenus
SYMMETRY Symmetry
CHECK_DEADLOCK FALSE
INVARIANTS
  TypeOK
  RecordsAreComplete
  ProcessLives
  AnswersAreKept
