SPECIFICATION FairLifecycleSpec
CONSTANTS
  Locations = {1}
  Results <- AnswerOrThrottle
  Confirmations = 1
  Cooldown = 0
  Backoff = 1
  Idle = 1
  Delay = 1
  Interval = 1
  Jitter = 1
  MaxCrashes = 2
CHECK_DEADLOCK FALSE
INVARIANTS StoppedInOrder ReadyBeforeMonitoring NoFalseAlarm
PROPERTIES MonitoringAsSpecified ShutdownCompletes ShutdownDescends StallIsReported
