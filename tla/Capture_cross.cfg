SPECIFICATION CaptureSpec
CONSTANTS
  ToolMic = {"m1"}
  RecordMic = {"r1"}
  HostMic = {"h1"}
  Camera = {"c1"}
  Photo = {"p1"}
  MaxCaptures = 2
  MaxCameraCalls = 0
INVARIANT OpenMicIsShown
CHECK_DEADLOCK FALSE
