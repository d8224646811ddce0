SPECIFICATION HostSpec
CONSTANTS
  Need = {"read", "screen"}
  Sensitive = {"screen"}
  Broad = {"read"}
  Shared = {"screen"}
  MaxId = 3
  MaxShares = 2
  MaxAsks = 1
  MaxHostCalls = 4
  ToolCall = {"observe", "click", "drag", "write"}
  Effectful = {"click", "drag", "write"}
  Control = {"click", "drag"}
  Observation = {"observe"}
  FollowUp = {"observe"}
  Blockable = {"write"}
  MaxToolCalls = 4
  MaxIterations = 4
  MaxProviderRetries = 1
  MaxBatch = 2
  MaxResumes = 1
  MaxGen = 3
  MaxCalls = 1
  MaxGrants = 0
  StepNeed = {"file", "mail"}
  Reviewer = {"r1", "r2"}
  TaskAttempts = 3
  MaxReviews = 3
  MaxStepCalls = 2
  ToolMic = {"m1", "m2"}
  RecordMic = {"r1"}
  HostMic = {"h1"}
  Camera = {"c1"}
  Photo = {"p1"}
  MaxCaptures = 2
  MaxCameraCalls = 2
  Artifact = {"a1", "a2", "a3", "a4"}
  Size = {1, 2, 3}
  Ttl = {1, 3}
  Owner = {"s1"}
  MaxArtifacts = 2
  MaxBytes = 4
  MaxArtifactBytes = 3
  MaxTime = 3
  Server = {"s1"}
  Config = {"A", "B", "off"}
  Disabled = {"off"}
  Registrar = {"turn", "connect"}
  MaxSaves = 2
  MaxRegistrations = 3
  Tab = {"t1"}
  Node = {"n1", "n2"}
  Content = {"x", "y"}
  MaxSnapshots = 3
  MaxProcesses = 2
  Caller = {"c1", "c2"}
  MaxSpawns = 3
  MaxProcCalls = 2
  Version = {"v1"}
  Turner = {"t1", "t2"}
  MaxOps = 2
  MaxEdits = 1
  MaxTurnsBegun = 2
  MaxGuestCalls = 2
  PipeSize = 2
  MaxOutput = 4
  Limit = 3
  Service = {"p", "q"}
  Keyed = {"p"}
  ApiKey = {"k", "l"}
  Asker = {"t1", "t2"}
  CatalogTtl = 1
  RefusalTtl = 2
  MaxForms = 1
  MaxSetups = 3
  MaxFaults = 1
  MaxOffers = 1
  MaxClock = 3
  Element = {"n1", "n2"}
  Secret = {"n2"}
  Value = {"x", "y"}
  Reader = {"r1", "r2"}
  MaxReads = 3
  MaxChanges = 1
  MaxRestarts = 1
INVARIANTS HostTypeOK ShareIsWhole
INVARIANTS CallsAreSettled
INVARIANTS ReviewsAreHonest CaptureIsShown CachesAgree
INVARIANTS PluginsAreHonest
INVARIANTS ChildrenAreAccounted HelpersAreReaped TreeIsTold
PROPERTIES NoBlindControl ApprovalDiesWithItsTask
CHECK_DEADLOCK FALSE
