------------------------------- MODULE MCHost -------------------------------
(* Instances of the components of the desktop host that keep no state in   *)
(* common.  One run checks them all: "part" is the one that moves, the     *)
(* others rest in one of their initial states.                             *)
EXTENDS ScreenShare, AgentLoop, AgentSession, StepReviews, CaptureActivity,
        ProcessTable, ArtifactStore, McpServers, BrowserTabs, PluginHost, HelperRuns,
        ModelSetup, DesktopTree

VARIABLE part

SetupRests ==
  /\ rows = <<>> /\ keychain = NoKey /\ form = <<>> /\ asks = <<>> /\ tableLock = "free"
  /\ catalog = <<>> /\ refusals = <<>> /\ offer = <<>> /\ world = <<>>

(* Values are alike: a window shows "y" only beside an "x".                *)
FirstValues == \A n \in DOMAIN window : window[n] = "y" => "n1" \in DOMAIN window /\ window["n1"] = "x"

HostInit ==
  /\ part \in {"share", "loop", "session", "review", "microphone", "camera", "process",
               "store", "mcp", "browser", "plugin", "helper", "setup", "tree"}
  /\ ShareInit /\ LoopInit /\ SessionInit /\ ReviewInit /\ CaptureInit
  /\ ProcessInit /\ StoreInit /\ McpInit /\ BrowserInit /\ PluginInit /\ HelperInit
  /\ part # "review" => step.kind = "agent"
  /\ part # "plugin" => plugin = NoRecord
  /\ part # "helper" => helper.program = "ffmpeg"
  /\ IF part = "setup" THEN SetupInit ELSE SetupRests
  /\ TreeInit /\ IF part = "tree" THEN FirstValues ELSE window = NoNodes /\ probe = "unknown"

Core == <<shareVars, loopVars, sessionVars, reviewVars, captureVars>>
Guests == <<mcpVars, pluginVars, helperVars, setupVars, treeVars>>
Caches == <<processVars, storeVars, browserVars, Guests>>
OnlyShare == UNCHANGED <<Caches, loopVars, sessionVars, reviewVars, captureVars>>
OnlyLoop == UNCHANGED <<Caches, shareVars, sessionVars, reviewVars, captureVars>>
OnlySession == UNCHANGED <<Caches, shareVars, loopVars, reviewVars, captureVars>>
OnlyReview == UNCHANGED <<Caches, shareVars, loopVars, sessionVars, captureVars>>
OnlyCapture == UNCHANGED <<Caches, shareVars, loopVars, sessionVars, reviewVars>>
OnlyProcess == UNCHANGED <<Core, Guests, storeVars, browserVars>>
OnlyStore == UNCHANGED <<Core, Guests, processVars, browserVars>>
OnlyMcp == UNCHANGED <<Core, processVars, storeVars, browserVars, pluginVars, helperVars, setupVars, treeVars>>
OnlyBrowser == UNCHANGED <<Core, Guests, processVars, storeVars>>
OnlyPlugin == UNCHANGED <<Core, processVars, storeVars, mcpVars, browserVars, helperVars, setupVars, treeVars>>
OnlyHelper == UNCHANGED <<Core, processVars, storeVars, mcpVars, browserVars, pluginVars, setupVars, treeVars>>
OnlySetup == UNCHANGED <<Core, processVars, storeVars, mcpVars, browserVars, pluginVars, helperVars, treeVars>>
OnlyTree == UNCHANGED <<Core, processVars, storeVars, mcpVars, browserVars, pluginVars, helperVars, setupVars>>

(* Turns are alike, and so are the model's microphone sessions and the     *)
(* readers of a window: the first is "t1", "m1" or "r1".                    *)
FirstTurn == begun <= 1 => at["t2"] = "idle"
FirstReader == reads.calls <= 1 => walking["r2"] = NotWalking
FirstMic == micCall["m1"] = "new" => micCall["m2"] = "new"

(* Bounds taken together: the switch is on in the first two generations    *)
(* only, and the panel, the disk and the guest act three times in all.     *)
BoundedSession == autonomous => state.gen <= 2
BoundedPlugin == ops + edits + calls <= 3

HostNext ==
  /\ UNCHANGED part
  /\ \/ part = "share" /\ ShareNext /\ OnlyShare
     \/ part = "loop" /\ LoopNext /\ OnlyLoop
     \/ part = "session" /\ SessionNext /\ OnlySession /\ BoundedSession'
     \/ part = "review" /\ ReviewNext /\ OnlyReview
     \/ part = "microphone" /\ MicNext /\ OnlyCapture /\ FirstMic'
     \/ part = "camera" /\ CameraNext /\ OnlyCapture
     \/ part = "process" /\ ProcessNext /\ OnlyProcess
     \/ part = "store" /\ StoreNext /\ OnlyStore
     \/ part = "mcp" /\ McpNext /\ OnlyMcp
     \/ part = "browser" /\ BrowserNext /\ OnlyBrowser
     \/ part = "plugin" /\ PluginNext /\ OnlyPlugin /\ FirstTurn' /\ BoundedPlugin'
     \/ part = "helper" /\ HelperNext /\ OnlyHelper
     \/ part = "setup" /\ SetupNext /\ OnlySetup
     \/ part = "tree" /\ TreeNext /\ OnlyTree /\ FirstReader'

HostSpec == HostInit /\ [][HostNext]_<<part, Core, Caches>>

-----------------------------------------------------------------------------
(* The variables of the part that moves keep their types.                  *)
HostTypeOK ==
  /\ part = "share" => ShareTypeOK
  /\ part = "loop" => LoopTypeOK
  /\ part = "review" => ReviewTypeOK
  /\ part \in {"microphone", "camera"} => CaptureTypeOK
  /\ part = "process" => ProcessTypeOK
  /\ part = "store" => StoreTypeOK
  /\ part = "mcp" => McpTypeOK
  /\ part = "browser" => BrowserTypeOK
  /\ part = "plugin" => PluginTypeOK
  /\ part = "helper" => HelperTypeOK
  /\ part = "setup" => SetupTypeOK
  /\ part = "tree" => TreeTypeOK

(* What the host keeps about artifacts, servers and pages agrees with what *)
(* it stands for: the store's count with its entries, a server's entry     *)
(* with the settings, a client with its server's configuration, a reader's *)
(* list with the page it was made from, what a model is taken to be able   *)
(* to do with what its service said, and the keychain with the user's key. *)
CachesAgree ==
  /\ BytesAreCounted /\ TableIsSynced /\ ClientFollowsConfig /\ ReaderFollows
  /\ part = "setup" => ModelIsKnown /\ KeysAreKept
=============================================================================
