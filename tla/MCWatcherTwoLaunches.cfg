\* Two launches and two recipients, so that a cycle sends several alerts to
\* several people; a once run again and again beside a dry run of the same
\* file; the processes' steps are fair.
SPECIFICATION FairSpec
CONSTANTS
  LaunchSoon = 2
  LaunchImminent = 1
  CorrectionTimeShift = 2
  ScheduleLookahead = 3
  Retention = 2
  HourWindow = 1
  NoTime = NoTime
  NoRecord = NoRecord
  NotListed = NotListed
  Key = {k1, k2}
  LaunchTimes = {1}
  Recipients <- TwoRecipients
  WatchProc = {}
  OnceProc = {o}
  DryProc = {d}
  SourceLaunches <- GoSource
  MaxStepBack = 0
  MaxTime = 1
INVARIANTS EveryoneAttempted CycleInv
PROPERTIES RefinesAtomicCycle DryRunIsPure DeliveriesComplete
