SPECIFICATION LiveSpec
CONSTANTS
  Need = {"read", "secret"}
  Sensitive = {"secret"}
  Broad = {"read"}
  Shared = {}
  MaxId = 3
  MaxGen = 2
  MaxCalls = 2
  MaxGrants = 1
  MaxProcesses = 1
  Caller = {"c1", "c2"}
  MaxSpawns = 2
  MaxProcCalls = 2
  SynthesisLimit = 1
  MaxSegments = 2
  MaxSessions = 2
  MaxStops = 1
  MaxInputs = 3
  MaxCancels = 1
  MaxEarly = 1
  WebTask = {"w1", "w2"}
  WebPlan <- Plan
  WebVerify <- Verify
  MaxSubmits = 1
  WebStepAttempts = 2
  WebTaskAttempts = 1
  MaxReloads = 1
  MaxOrders = 1
  MaxBeats = 1
INVARIANTS LiveTypeOK SpeechIsHonest
INVARIANTS InputsAreSettled EffectsAreAccounted
PROPERTIES HandleFollowsTurn OneUseServesOnce
PROPERTIES WorkEnds
CHECK_DEADLOCK FALSE
