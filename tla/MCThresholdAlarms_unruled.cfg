\* The status of a metric without a rule clears the alarm of one that has one.
SPECIFICATION FairSpecComposite
CONSTANTS
  d1 = d1
  HIGH_MEMORY = HIGH_MEMORY
  Keys <- TheKeys
  Devices = {d1}
  Matches <- TheMatch
  NoDevice = NoDevice
  Types = {HIGH_MEMORY}
  Ids <- TheIds
  NoAlarm = NoAlarm
  NoItem = NoItem
  NoLimit = NoLimit
  CallsFail = FALSE
  OperatorClears = FALSE
  PagedAnswer = FALSE
  Rules <- TheRules
  Reported <- TheReport
  Values <- TheValues
  metricToAlarmType <- TypeOf
PROPERTIES ClearedByItsRule
