SPECIFICATION PacingTaskSpec
CONSTANTS
  Locations = {1}
  Results <- EveryBranch
  Confirmations = 1
  Cooldown = 5
  Backoff = 3
  Idle = 3
  Delay = 1
  Interval = 2
  Jitter = 0
  MaxCrashes = 1
PROPERTIES ThrottledLeftAlone AskedOncePerInterval IdleProbesSpaced CooldownWithinProcess CyclesGoOn
