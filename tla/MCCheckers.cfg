SPECIFICATION FairSpec
CONSTANTS
  Confirmations = 1
  Pages <- SomePages
  Statuses = {0, 200, 403, 429, 503}
  MaxDeaths = 1
  MaxSlips = 1
CHECK_DEADLOCK FALSE
INVARIANTS AvailabilityIsShown DriversAccountedFor ContextsAccountedFor
PROPERTIES CallDescends ChecksEnd LostBrowserReplaced
