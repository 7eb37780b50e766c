SPECIFICATION DeliverySpec
CONSTANTS
  Users = {u1}
  Locations = {1}
  Tasks = {t1}
  Admins = {a1}
  Results <- ComeAndGo
  Confirmations = 1
  Cooldown = 1
  Backoff = 0
  Idle = 0
  Delay = 0
  Interval = 1
  Jitter = 0
  MaxCrashes = 1
PROPERTIES MonitorRefined AlertsReachSubscribers EverySubscriberTold NobodyElseTold
