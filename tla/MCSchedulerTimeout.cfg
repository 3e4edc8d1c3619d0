CONSTANTS
  Schedule = {s1}
  Active = {s1}
  BadCron = {}
  UnknownType = {}
  CleanUp = {}
  CronNext <- MCCronNext
  Retention = 0
  HttpCaller = {c1}
  BotCaller = {}
  MaxConcurrency = 1
  MaxHistories = 2
  MaxClock = 2
SPECIFICATION Spec
INVARIANT TimeoutIsReported
