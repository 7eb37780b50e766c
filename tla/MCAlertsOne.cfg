SPECIFICATION AlertsSpec
CONSTANTS
  Locations = {1}
  Results <- EveryBranch
  Confirmations = 2
  Cooldown = 1
  Backoff = 1
  Idle = 1
  Delay = 1
  Interval = 1
  Jitter = 0
  MaxCrashes = 1
INVARIANTS AlertIsConfirmed StatusIsLastEvidence
PROPERTIES OneAlertPerNoSlots EveryOpeningIsTold
