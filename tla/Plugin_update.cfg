SPECIFICATION PluginSpec
CONSTANTS
  Version = {"v1"}
  Turner = {"t1"}
  MaxOps = 3
  MaxEdits = 2
  MaxTurnsBegun = 1
  MaxGuestCalls = 0
INVARIANT NeverUnserved
CHECK_DEADLOCK FALSE
