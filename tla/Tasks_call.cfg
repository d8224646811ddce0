SPECIFICATION Spec
CONSTANTS
  t1 = t1
  t2 = t2
  Tasks = {t1, t2}
  NoTask = none
  Workers = {w1}
  Clients = {c1}
  Ticker = tick
  Renewer = renew
  Plan <- WorkOrApproval
  Verified = {t1, t2}
  MaxAttempts = 2
  StepMax = 1
  QueueSize = 1
  LeaseOutlivesSteps = TRUE
  CrashMidUpdate = FALSE
  MaxRequests = 2
  MaxCrashes = 1
CONSTRAINT OneOfThem
INVARIANTS TypeOK StepsAreTaken Recoverable
PROPERTY OnlyApprovalPasses
CHECK_DEADLOCK FALSE
