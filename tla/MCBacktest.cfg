CONSTANTS
  Period = 2
  Recent = 3
  Weight <- MCWeight
  IsMain = {"1d"}
  Snapshots <- MCSnapshots
  LivePrices = {0, 9500}
  MaxDays = 4
SPECIFICATION Spec
INVARIANTS
  TypeOK
  PlansAreSound
  SafePlansAreLive
PROPERTIES
  ExitsMatchReasons
  StopOnlyRises
CHECK_DEADLOCK FALSE
