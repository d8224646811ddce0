SPECIFICATION Spec
CONSTANTS
  t1 = t1
  t2 = t2
  Tasks = {t1, t2}
  NoTask = none
  Workers = {w1, w2}
  Clients = {}
  Ticker = tick
  Renewer = renew
  Plan <- TwoWorks
  Verified = {}
  MaxAttempts = 2
  StepMax = 1
  QueueSize = 1
  LeaseOutlivesSteps = FALSE
  CrashMidUpdate = FALSE
  MaxRequests = 0
  MaxCrashes = 0
INVARIANTS SingleExecution MarksAreOwned
SYMMETRY Interchangeable
CHECK_DEADLOCK FALSE
