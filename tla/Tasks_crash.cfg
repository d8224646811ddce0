SPECIFICATION Spec
CONSTANTS
  t1 = t1
  t2 = t2
  Tasks = {t1}
  NoTask = none
  Workers = {w1, w2}
  Clients = {}
  Ticker = tick
  Renewer = renew
  Plan <- WorkPauseEvent
  Verified = {t1}
  MaxAttempts = 3
  StepMax = 2
  QueueSize = 1
  LeaseOutlivesSteps = TRUE
  CrashMidUpdate = FALSE
  MaxRequests = 0
  MaxCrashes = 2
INVARIANT RetryBudget
PROPERTIES LegalLifecycle ProgressIsKept
CHECK_DEADLOCK FALSE
