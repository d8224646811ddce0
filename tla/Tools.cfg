SPECIFICATION ToolsSpec
CONSTANTS
  Media = {"image", "audio"}
  Index = {0, 1}
  MaxRetries = 1
  MaxEvents = 3
  MaxText = 1
  StallAfter = 1
  MaxLines = 4
  File = {"f", "g"}
  Semantic = {"f", "g"}
  Text = {"t"}
  MaxBlocks = 2
  MaxEditCalls = 3
  MaxEditBatch = 2
  MaxSaves = 1
  Actor = {"a1", "a2"}
  Modifier = "shift"
  Button = "left"
  Letter = "x"
  MaxInputCalls = 2
  MaxUserActs = 1
  Picture = {"a", "b"}
  Observer = {"o1", "o2"}
  MaxFrames = 3
  MaxStarts = 2
  MaxObservations = 3
  Subject = {"s", "t"}
  None = None
  Wrong = Wrong
  MaxMoves = 1
  MaxReviews = 2
  Url <- Addresses
  Start <- HomePage
  Method = {"GET", "HEAD", "POST"}
  Status = {301, 303, 307}
  MaxRedirects = 2
  Cap = 1
  MaxBody = 2
  Name = {"f", "g"}
  MaxEntry = 2
  MaxTotal = 3
  MaxEntries = 2
  MaxSize = 3
  MaxLength = 3
  Volumes <- Arrangements
  GivenPath <- NamedPaths
  UserRoot <- Directories
  MaxLinks = 2
  MaxShifts = 1
  Usual <- UsualNames
  DefaultName = "n"
  Houses <- Homes
  Saying <- Sayings
  MaxSayings = 2
INVARIANTS ToolsTypeOK TurnsAreHeard FilesStayTrue InputIsBounded
INVARIANTS ScreenIsHonest GrantSuffices CallsStayGranted
CHECK_DEADLOCK FALSE
