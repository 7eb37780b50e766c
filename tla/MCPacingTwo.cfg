SPECIFICATION PacingFairSpec
CONSTANTS
  Locations = {1, 2}
  Results <- AnswerOrThrottle
  Confirmations = 1
  Cooldown = 0
  Backoff = 2
  Idle = 2
  Delay = 1
  Interval = 1
  Jitter = 0
  MaxCrashes = 0
PROPERTIES RateLimitHonoured EveryLocationRefreshed
