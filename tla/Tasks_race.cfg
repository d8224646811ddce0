SPECIFICATION Spec
CONSTANTS
  t1 = t1
  t2 = t2
  Tasks = {t1}
  NoTask = none
  Workers = {w1}
  Clients = {c1}
  Ticker = tick
  Renewer = renew
  Plan <- WorkThenEvent
  Verified = {}
  MaxAttempts = 2
  StepMax = 1
  QueueSize = 1
  LeaseOutlivesSteps = TRUE
  CrashMidUpdate = FALSE
  MaxRequests = 1
  MaxCrashes = 0
PROPERTY LegalLifecycle
CHECK_DEADLOCK FALSE
