\* A cycle may fail once in a row; Reaction + MaxCycle = 5 is just what the
\* window allows.
SPECIFICATION Spec
CONSTANTS
  LaunchSoon = 6
  LaunchImminent = 5
  CorrectionTimeShift = 2
  ScheduleLookahead = 7
  Retention = 6
  HourWindow = 1
  NoTime = NoTime
  NoRecord = NoRecord
  Interval = 1
  MaxCycle = 1
  MaxFailures = 1
  SourceLaunch <- Source
  MaxTime = 14
INVARIANTS IInv ToldInTime
CHECK_DEADLOCK FALSE
