CONSTANTS
  Schedule = {s1, s2}
  Active = {s1}
  BadCron = {s2}
  UnknownType = {s2}
  CleanUp = {s1}
  CronNext <- MCCronNext
  Retention = 0
  HttpCaller = {c1, c2}
  BotCaller = {b1}
  MaxConcurrency = 1
  MaxHistories = 2
  MaxClock = 2
SPECIFICATION Spec
SYMMETRY Symmetry
INVARIANTS
  TypeOK
  SlotPerTask
  RunningIsOwned
  OncePerSlot
PROPERTY LedgerSpec
