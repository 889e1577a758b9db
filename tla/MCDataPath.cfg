\* Cycles on either side of midnight, with the zone set back then; the policy
\* is one or two of the six-second hours.
SPECIFICATION Spec
CONSTANTS
  LaunchSoon = 6
  LaunchImminent = 2
  CorrectionTimeShift = 6
  ScheduleLookahead = 12
  Retention = 12
  HourWindow = 6
  NoTime = NoTime
  NoRecord = NoRecord
  HoursPerDay = 4
  MinutesPerHour = 3
  SecondsPerMinute = 2
  Garbled = Garbled
  ZoneInfo <- SetBack
  Null = Null
  Unreadable = Unreadable
  NetText <- NetTexts
  Reading <- Readings
  MaxAlerts = 3
  NoMessage = NoMessage
  NotSaid = NotSaid
  Throws = Throws
INVARIANTS LoadReturnsSaved TimeMeansWhatWasSent EveryAlertRenders ChangeIsVisible
PROPERTY WasIsWhatWasShown
CHECK_DEADLOCK FALSE
