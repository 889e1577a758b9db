\* A launch people were alerted of stops being relevant.
SPECIFICATION Spec
CONSTANTS
  LaunchSoon = 2
  LaunchImminent = 1
  CorrectionTimeShift = 2
  ScheduleLookahead = 3
  Retention = 4
  HourWindow = 1
  NoTime = NoTime
  NoRecord = NoRecord
  NotListed = NotListed
  Key = {k1}
  LaunchTimes = {3, 5}
  Recipients <- OneRecipient
  WatchProc = {w}
  OnceProc = {}
  DryProc = {}
  SourceLaunches <- FullSource
  MaxStepBack = 1
  MaxTime = 6
INVARIANT
  RelevanceLossCorrected
