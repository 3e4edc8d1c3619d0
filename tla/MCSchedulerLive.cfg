CONSTANTS
  Schedule = {s1, s2}
  Active = {s1}
  BadCron = {s2}
  UnknownType = {}
  CleanUp = {s2}
  CronNext <- MCCronNext
  Retention = 0
  HttpCaller = {c1}
  BotCaller = {b1}
  MaxConcurrency = 1
  MaxHistories = 2
  MaxClock = 1
SPECIFICATION FairSpec
PROPERTY CallsReturn
