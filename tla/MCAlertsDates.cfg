SPECIFICATION AlertsSpec
CONSTANTS
  Locations = {1}
  Results <- DatesOrNot
  Confirmations = 1
  Cooldown = 1
  Backoff = 1
  Idle = 1
  Delay = 1
  Interval = 1
  Jitter = 0
  MaxCrashes = 0
INVARIANT AnnouncedDatesAreLatest
