SPECIFICATION FairSpec
CONSTANTS
  t1 = t1
  t2 = t2
  Tasks = {t1}
  NoTask = none
  Workers = {w1}
  Clients = {c1}
  Ticker = tick
  Renewer = renew
  Plan <- WorkThenEvent
  Verified = {t1}
  MaxAttempts = 2
  StepMax = 1
  QueueSize = 1
  LeaseOutlivesSteps = FALSE
  CrashMidUpdate = TRUE
  MaxRequests = 1
  MaxCrashes = 1
PROPERTY NoTaskIsStuck
CHECK_DEADLOCK FALSE
