\* A device whose name is part of the name of another: failing calls, restarts, an operator.
SPECIFICATION FairSpec
CONSTANTS
  d1 = d1
  d2 = d2
  t1 = t1
  t2 = t2
  NoAlarm = NoAlarm
  NoItem = NoItem
  NoDevice = NoDevice
  Devices = {d1, d2}
  Types = {t1, t2}
  Keys <- MCKeys
  Matches <- MCMatches
  Ids <- MCIds
  CallsFail = TRUE
  OperatorClears = TRUE
  PagedAnswer = FALSE
INVARIANTS AlarmFollowsUnlessBroken CacheIsTrue
PROPERTIES AlarmsAreSeparate AutoClears
