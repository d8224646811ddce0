--------------------------- MODULE HostParts_proofs ---------------------------
(***************************************************************************)
(* Eight parts of the host that keep to themselves, proved one by one: the *)
(* privacy indicators, the process table, the plugin, the helper programs, *)
(* the reviews of a step, the MCP servers, the browser's snapshots and the *)
(* model that a turn talks to.  They share no variable, so their           *)
(* invariants are apart.                                                   *)
(*                                                                         *)
(* Indicators.  The registry of the microphone's indicator is written from *)
(* three sides: the calls, the workers' Stopped callbacks, and a refresh   *)
(* that strikes what it did not find alive.  That a refresh strikes        *)
(* nothing open needs two facts: the sessions of the map are those whose   *)
(* call is between its registration and its stop, and every open one of    *)
(* them was found alive, since the lock of the map is held meanwhile.      *)
(* Processes.  The table gives up only handles whose end is recorded, and  *)
(* a recorded end is never rewritten: so no child is lost, and all who     *)
(* learn of an end learn the same.                                         *)
(* Plugin.  Nobody who began unwanted is on the way to the tools, for the  *)
(* record is enabled only while the panel wants it; a refused update loads *)
(* what it kept through one state of the record after the other.           *)
(* Helpers.  A call looks at a child, or joins its readers, only after the *)
(* child's end, and a reader that met the end has taken every block.       *)
(* Reviews.  A ticket is checked in one step and spent in a later one, and *)
(* a review may stash another in between.  So the books count three        *)
(* places: what was served, the ticket in the stash, and the one a worker  *)
(* holds.  And an effect is told from its receipt only between the tool's  *)
(* answer and the record: the invariant says for each place of the worker  *)
(* how many effects the receipts and the unknown outcomes account for.     *)
(* Servers.  A client travels while settings and tokens change; it is the  *)
(* table's own where it is stored, or counts as late.                      *)
(* Snapshots.  A turn's tools run one at a time, so that what a reader     *)
(* asks for is nothing or the list the cache has.                          *)
(* Models.  What the catalog remembers is kept under the model and key it  *)
(* was said of; a warning is of a refusal that stays noted; the one key    *)
(* there is at first is in the table, in the keychain, or in the hand of   *)
(* the turn that moves it.                                                 *)
(***************************************************************************)
EXTENDS CaptureActivity, ProcessTable, PluginHost, HelperRuns, StepReviews, McpServers,
        BrowserTabs, ModelSetup, FiniteSetTheorems, WellFoundedInduction, TLAPS

-----------------------------------------------------------------------------
(* 1. The privacy indicators.                                              *)

StreamAt == {"none", "open", "closed", "told", "sent"}
MicAt == {"new", "open", "opened", "begun", "refresh", "struck", "rest", "stop", "dropped", "over"}
CamAt == {"new", "shoot", "keep", "failed", "stop", "rest", "over"}

MicShape ==
  /\ stream \in [Mic -> StreamAt] /\ micCall \in [Mic -> MicAt]
  /\ micSessions \subseteq ToolMic /\ micActive \subseteq Mic /\ lateBegin \subseteq Mic
  /\ refreshed \in [by : Mic \cup {"nobody"}, live : SUBSET ToolMic]

(* Where the call of a session is, its stream has been opened or not.      *)
StreamInv ==
  \A s \in Mic :
    /\ micCall[s] \in {"new", "open"} => stream[s] = "none"
    /\ micCall[s] \in {"opened", "begun", "refresh", "struck", "rest", "stop"} => stream[s] # "none"
    /\ micCall[s] = "over" => stream[s] \in {"none", "sent"}

(* The sessions of the map, and those a refresh has found alive.           *)
SessionInv ==
  \A s \in ToolMic : s \in micSessions <=> micCall[s] \in {"begun", "refresh", "struck", "rest"}
RefreshInv ==
  refreshed # NoRefresh =>
    \A s \in micSessions : stream[s] = "open" => s \in refreshed.live

(* A one-shot recording is registered before its stream is opened.         *)
RecordInv == \A s \in RecordMic : micCall[s] = "open" => s \in micActive

MicInv ==
  /\ MicShape /\ StreamInv /\ SessionInv /\ RecordInv /\ RefreshInv
  /\ OpenMicIsRegistered /\ EndedMicIsStruck

(* A camera session that is being stopped has left the map.                *)
CameraInv ==
  /\ camCall \in [Shots -> CamAt] /\ camSessions \subseteq Camera /\ camActive \subseteq Shots
  /\ camCalls \in 0 .. MaxCameraCalls
  /\ \A s \in Shots : camCall[s] = "stop" => s \notin camSessions
  /\ CameraIsRegistered

(* While nobody is about to look, every look that none has followed saw    *)
(* the registry as it is; once such a look is written, so does the         *)
(* indicator.                                                              *)
Holds(p) == publishing[p] \in {"on", "off"}
ShowShape ==
  /\ publishing \in [Publisher -> {"none", "look", "on", "off"}]
  /\ behind \subseteq {p \in Publisher : Holds(p)}
  /\ shown \in [Device -> BOOLEAN] /\ stale \subseteq Device
LooksAreNewest(d) ==
  \A p \in Publishers(d) : Holds(p) /\ p \notin behind => (publishing[p] = "on" <=> Registry(d) # {})
ShownIsNewest(d) ==
  d \notin stale /\ (\A p \in Publishers(d) : Holds(p) => p \in behind) => (shown[d] <=> Registry(d) # {})
FollowsInv(d) ==
  (\A p \in Publishers(d) : publishing[p] # "look") => LooksAreNewest(d) /\ ShownIsNewest(d)
ShowInv == ShowShape /\ \A d \in Device : FollowsInv(d)

CaptureInv == MicInv /\ CameraInv /\ ShowInv

-----------------------------------------------------------------------------
(* The kinds of sessions are apart.                                        *)
LEMMA MicKinds ==
  /\ Mic = ToolMic \cup RecordMic \cup HostMic
  /\ ToolMic \cap RecordMic = {} /\ ToolMic \cap HostMic = {} /\ RecordMic \cap HostMic = {}
  /\ "nobody" \notin Mic
<1> QED BY CaptureAssumption DEF Mic

(* A stream ends on its own.                                               *)
LEMMA StreamEndsOK == ASSUME NEW s \in Mic, MicInv, StreamEnds(s) PROVE MicInv'
<1> USE MicKinds DEF MicInv, MicShape, StreamEnds, StreamGoes
<1>1. MicShape' BY DEF StreamAt
<1>2. StreamInv' BY DEF StreamInv
<1>3. SessionInv' BY DEF SessionInv
<1>4. RecordInv' BY DEF RecordInv
<1>5. RefreshInv' BY DEF RefreshInv
<1>6. OpenMicIsRegistered' BY DEF OpenMicIsRegistered
<1>7. EndedMicIsStruck' BY DEF EndedMicIsStruck
<1> QED BY <1>1, <1>2, <1>3, <1>4, <1>5, <1>6, <1>7

(* The worker tells the registry.                                          *)
LEMMA StoppedCallbackOK == ASSUME NEW s \in Mic, MicInv, StoppedCallback(s) PROVE MicInv'
<1> USE MicKinds DEF MicInv, MicShape, StoppedCallback, StreamGoes
<1>1. MicShape' BY DEF StreamAt
<1>2. StreamInv' BY DEF StreamInv
<1>3. SessionInv' BY DEF SessionInv
<1>4. RecordInv' BY DEF StreamInv, RecordInv
<1>5. RefreshInv' BY DEF RefreshInv
<1>6. OpenMicIsRegistered' BY DEF OpenMicIsRegistered
<1>7. EndedMicIsStruck' BY DEF EndedMicIsStruck
<1> QED BY <1>1, <1>2, <1>3, <1>4, <1>5, <1>6, <1>7

(* The worker hands its result over.                                       *)
LEMMA ResultSentOK == ASSUME NEW s \in Mic, MicInv, ResultSent(s) PROVE MicInv'
<1> USE MicKinds DEF MicInv, MicShape, ResultSent, StreamGoes
<1>1. MicShape' BY DEF StreamAt
<1>2. StreamInv' BY DEF StreamInv
<1>3. SessionInv' BY DEF SessionInv
<1>4. RecordInv' BY DEF RecordInv
<1>5. RefreshInv' BY DEF RefreshInv
<1>6. OpenMicIsRegistered' BY DEF OpenMicIsRegistered
<1>7. EndedMicIsStruck' BY DEF EndedMicIsStruck
<1> QED BY <1>1, <1>2, <1>3, <1>4, <1>5, <1>6, <1>7

(* A call comes in.                                                        *)
LEMMA MicStartOK == ASSUME NEW s \in Mic, MicInv, MicStart(s) PROVE MicInv'
<1> USE MicKinds DEF MicInv, MicShape, MicStart, MicGoes, MicBegins
<1>1. MicShape' BY DEF MicAt
<1>2. StreamInv' BY DEF StreamInv
<1>3. SessionInv' BY DEF SessionInv
<1>4. RecordInv' BY DEF RecordInv
<1>5. RefreshInv' BY DEF RefreshInv
<1>6. OpenMicIsRegistered' BY DEF OpenMicIsRegistered
<1>7. EndedMicIsStruck' BY DEF EndedMicIsStruck
<1> QED BY <1>1, <1>2, <1>3, <1>4, <1>5, <1>6, <1>7

(* The stream is opened.                                                   *)
LEMMA OpenMicOK == ASSUME NEW s \in Mic, MicInv, OpenMic(s) PROVE MicInv'
<1> USE MicKinds DEF MicInv, MicShape, OpenMic, MicEnds
<1>1. MicShape' BY DEF StreamAt, MicAt
<1>2. StreamInv' BY DEF StreamInv
<1>3. SessionInv' BY DEF SessionInv
<1>4. RecordInv' BY DEF RecordInv
<1>5. RefreshInv' BY DEF SessionInv, RefreshInv
<1>6. OpenMicIsRegistered' BY DEF StreamInv, RecordInv, OpenMicIsRegistered
<1>7. EndedMicIsStruck' BY DEF EndedMicIsStruck
<1> QED BY <1>1, <1>2, <1>3, <1>4, <1>5, <1>6, <1>7

(* The registry learns of it.                                              *)
LEMMA RegisterMicOK == ASSUME NEW s \in Mic, MicInv, RegisterMic(s) PROVE MicInv'
<1> USE MicKinds DEF MicInv, MicShape, RegisterMic, MicGoes, MicBegins
<1>1. MicShape' BY DEF MicAt
<1>2. StreamInv' BY DEF StreamInv
<1>3. SessionInv' BY DEF SessionInv
<1>4. RecordInv' BY DEF RecordInv
<1>5. RefreshInv' BY DEF RefreshInv
<1>6. OpenMicIsRegistered' BY DEF OpenMicIsRegistered
<1>7. EndedMicIsStruck' BY DEF EndedMicIsStruck
<1> QED BY <1>1, <1>2, <1>3, <1>4, <1>5, <1>6, <1>7

(* The host's call looks for a stream that is open.                        *)
LEMMA CheckHostMicOK == ASSUME NEW s \in Mic, MicInv, CheckHostMic(s) PROVE MicInv'
<1> USE MicKinds DEF MicInv, MicShape, CheckHostMic, MicGoes, MicEnds
<1>1. MicShape' BY DEF MicAt
<1>2. StreamInv' BY DEF StreamInv
<1>3. SessionInv' BY DEF SessionInv
<1>4. RecordInv' BY DEF RecordInv
<1>5. RefreshInv' BY DEF RefreshInv
<1>6. OpenMicIsRegistered' BY DEF OpenMicIsRegistered
<1>7. EndedMicIsStruck' BY DEF EndedMicIsStruck
<1> QED BY <1>1, <1>2, <1>3, <1>4, <1>5, <1>6, <1>7

(* A refresh asks the map which sessions live.                             *)
LEMMA FindLiveOK == ASSUME NEW s \in Mic, MicInv, FindLive(s) PROVE MicInv'
<1> USE MicKinds DEF MicInv, MicShape, FindLive
<1>1. MicShape' BY DEF MicAt
<1>2. StreamInv' BY DEF StreamInv
<1>3. SessionInv' BY DEF SessionInv
<1>4. RecordInv' BY DEF RecordInv
<1>5. RefreshInv' BY DEF RefreshInv
<1>6. OpenMicIsRegistered' BY DEF OpenMicIsRegistered
<1>7. EndedMicIsStruck' BY DEF EndedMicIsStruck
<1> QED BY <1>1, <1>2, <1>3, <1>4, <1>5, <1>6, <1>7

(* The refresh strikes what it did not find: nothing of it is open.        *)
LEMMA ApplyLiveOK == ASSUME NEW s \in Mic, MicInv, ApplyLive(s) PROVE MicInv'
<1> USE MicKinds DEF MicInv, MicShape, ApplyLive, MicGoes, Struck
<1>1. MicShape' BY DEF MicAt
<1>2. StreamInv' BY DEF StreamInv
<1>3. SessionInv' BY DEF SessionInv
<1>4. RecordInv' BY DEF RecordInv
<1>5. RefreshInv' BY DEF RefreshInv
<1>6. OpenMicIsRegistered'
  <2> SUFFICES ASSUME NEW t \in Mic, stream[t] = "open", t \notin micActive'
               PROVE  \/ micCall[t] = "dropped"
                      \/ micCall[t] = "opened" /\ t \notin RecordMic
                      \/ micCall[t] = "stop" /\ t \in ToolMic
    BY DEF OpenMicIsRegistered
  <2>1. CASE t \notin micActive BY <2>1 DEF OpenMicIsRegistered
  <2>2. CASE t \in ToolMic /\ t \notin refreshed.live
    <3>1. t \notin micSessions BY <2>2 DEF RefreshInv, NoRefresh
    <3> QED BY <2>2, <3>1 DEF StreamInv, SessionInv, MicAt
  <2> QED BY <2>1, <2>2
<1>7. EndedMicIsStruck' BY DEF EndedMicIsStruck
<1> QED BY <1>1, <1>2, <1>3, <1>4, <1>5, <1>6, <1>7

(* The refresh lets the lock of the map go.                                *)
LEMMA RefreshEndsOK == ASSUME NEW s \in Mic, MicInv, RefreshEnds(s) PROVE MicInv'
<1> USE MicKinds DEF MicInv, MicShape, RefreshEnds, MicGoes
<1>1. MicShape' BY DEF MicAt, NoRefresh
<1>2. StreamInv' BY DEF StreamInv
<1>3. SessionInv' BY DEF SessionInv
<1>4. RecordInv' BY DEF RecordInv
<1>5. RefreshInv' BY DEF RefreshInv
<1>6. OpenMicIsRegistered' BY DEF OpenMicIsRegistered
<1>7. EndedMicIsStruck' BY DEF EndedMicIsStruck
<1> QED BY <1>1, <1>2, <1>3, <1>4, <1>5, <1>6, <1>7

(* A stop takes the session out of the map.                                *)
LEMMA StopMicOK == ASSUME NEW s \in Mic, MicInv, StopMic(s) PROVE MicInv'
<1> USE MicKinds DEF MicInv, MicShape, StopMic, MayStopMic, MicGoes
<1>1. MicShape' BY DEF MicAt
<1>2. StreamInv' BY DEF StreamInv
<1>3. SessionInv' BY DEF SessionInv
<1>4. RecordInv' BY DEF RecordInv
<1>5. RefreshInv' BY DEF RefreshInv
<1>6. OpenMicIsRegistered' BY DEF OpenMicIsRegistered
<1>7. EndedMicIsStruck' BY DEF EndedMicIsStruck
<1> QED BY <1>1, <1>2, <1>3, <1>4, <1>5, <1>6, <1>7

(* The stop strikes the session from the registry.                         *)
LEMMA StoppedMicOK == ASSUME NEW s \in Mic, MicInv, StoppedMic(s) PROVE MicInv'
<1> USE MicKinds DEF MicInv, MicShape, StoppedMic, MicGoes, MicEnds
<1>1. MicShape' BY DEF MicAt
<1>2. StreamInv' BY DEF StreamInv
<1>3. SessionInv' BY DEF SessionInv
<1>4. RecordInv' BY DEF RecordInv
<1>5. RefreshInv' BY DEF RefreshInv
<1>6. OpenMicIsRegistered' BY DEF OpenMicIsRegistered
<1>7. EndedMicIsStruck' BY DEF EndedMicIsStruck
<1> QED BY <1>1, <1>2, <1>3, <1>4, <1>5, <1>6, <1>7

(* The future of a call is dropped.                                        *)
LEMMA DropMicCallOK == ASSUME NEW s \in Mic, MicInv, DropMicCall(s) PROVE MicInv'
<1> USE MicKinds DEF MicInv, MicShape, DropMicCall, MicGoes
<1>1. MicShape' BY DEF MicAt
<1>2. StreamInv' BY DEF StreamInv
<1>3. SessionInv' BY DEF SessionInv
<1>4. RecordInv' BY DEF RecordInv
<1>5. RefreshInv' BY DEF RefreshInv
<1>6. OpenMicIsRegistered' BY DEF OpenMicIsRegistered
<1>7. EndedMicIsStruck' BY DEF EndedMicIsStruck
<1> QED BY <1>1, <1>2, <1>3, <1>4, <1>5, <1>6, <1>7

-----------------------------------------------------------------------------
(* The camera's calls, one after another.                                  *)
LEMMA CameraStepOK == ASSUME NEW s \in Shots, CameraInv, CameraStep(s) PROVE CameraInv'
<1> USE CaptureAssumption DEF CameraInv, CameraIsRegistered, CamGoes, CamBegins, CamEnds, CamAt, Shots
<1>1. CASE StartCamera(s) BY <1>1 DEF StartCamera
<1>2. CASE StartPhoto(s) BY <1>2 DEF StartPhoto
<1>3. CASE PhotoTaken(s) BY <1>3 DEF PhotoTaken
<1>4. CASE StartFrame(s) BY <1>4 DEF StartFrame
<1>5. CASE FrameTaken(s) BY <1>5 DEF FrameTaken
<1>6. CASE FrameKept(s) BY <1>6 DEF FrameKept
<1>7. CASE FrameFailed(s) BY <1>7 DEF FrameFailed
<1>8. CASE StopCamera(s) BY <1>8 DEF StopCamera
<1>9. CASE StoppedCamera(s) BY <1>9 DEF StoppedCamera
<1>10. CASE DropCameraCall(s) BY <1>10 DEF DropCameraCall
<1> QED BY <1>1, <1>2, <1>3, <1>4, <1>5, <1>6, <1>7, <1>8, <1>9, <1>10 DEF CameraStep

(* Neither side touches what the other one keeps, and a step that is no    *)
(* publication begins one, or leaves registry and indicators alone.        *)
LEMMA MicApart ==
  ASSUME NEW s \in Mic, MicStep(s)
  PROVE  /\ UNCHANGED camVars
         /\ (\E p \in Publishers("mic") : Publishes(p)) \/ UNCHANGED <<micActive, showVars>>
<1>1. <<"call", s>> \in Publishers("mic") /\ <<"worker", s>> \in Publishers("mic") BY DEF Publishers
<1>2. CASE StreamEnds(s) BY <1>2 DEF StreamEnds
<1>3. CASE StoppedCallback(s) BY <1>1, <1>3 DEF StoppedCallback
<1>4. CASE ResultSent(s) BY <1>4 DEF ResultSent
<1>5. CASE MicStart(s) BY <1>1, <1>5 DEF MicStart, MicBegins
<1>6. CASE OpenMic(s) BY <1>1, <1>6 DEF OpenMic, MicEnds
<1>7. CASE RegisterMic(s) BY <1>1, <1>7 DEF RegisterMic, MicBegins
<1>8. CASE CheckHostMic(s) BY <1>1, <1>8 DEF CheckHostMic, MicEnds
<1>9. CASE FindLive(s) BY <1>9 DEF FindLive
<1>10. CASE ApplyLive(s) BY <1>1, <1>10 DEF ApplyLive
<1>11. CASE RefreshEnds(s) BY <1>11 DEF RefreshEnds
<1>12. CASE StopMic(s) BY <1>12 DEF StopMic
<1>13. CASE StoppedMic(s) BY <1>1, <1>13 DEF StoppedMic, MicEnds
<1>14. CASE DropMicCall(s) BY <1>14 DEF DropMicCall
<1> QED
  BY <1>2, <1>3, <1>4, <1>5, <1>6, <1>7, <1>8, <1>9, <1>10, <1>11, <1>12, <1>13, <1>14 DEF MicStep

LEMMA CameraApart ==
  ASSUME NEW s \in Shots, CameraStep(s)
  PROVE  /\ UNCHANGED micVars
         /\ (\E p \in Publishers("cam") : Publishes(p)) \/ UNCHANGED <<camActive, showVars>>
<1>1. <<"shot", s>> \in Publishers("cam") BY DEF Publishers
<1>2. CASE StartCamera(s) BY <1>1, <1>2 DEF StartCamera, CamBegins
<1>3. CASE StartPhoto(s) BY <1>1, <1>3 DEF StartPhoto, CamBegins
<1>4. CASE PhotoTaken(s) BY <1>1, <1>4 DEF PhotoTaken, CamEnds
<1>5. CASE StartFrame(s) BY <1>5 DEF StartFrame
<1>6. CASE FrameTaken(s) BY <1>6 DEF FrameTaken
<1>7. CASE FrameKept(s) BY <1>7 DEF FrameKept
<1>8. CASE FrameFailed(s) BY <1>1, <1>8 DEF FrameFailed, CamEnds
<1>9. CASE StopCamera(s) BY <1>9 DEF StopCamera
<1>10. CASE StoppedCamera(s) BY <1>1, <1>10 DEF StoppedCamera, CamEnds
<1>11. CASE DropCameraCall(s) BY <1>11 DEF DropCameraCall
<1> QED
  BY <1>2, <1>3, <1>4, <1>5, <1>6, <1>7, <1>8, <1>9, <1>10, <1>11 DEF CameraStep

(* Who publishes for which device.                                         *)
LEMMA PublisherKinds ==
  /\ Device = {"mic", "cam"} /\ Publisher = Publishers("mic") \cup Publishers("cam")
  /\ \A d \in Device : \A p \in Publishers(d) : p \in Publisher /\ DeviceOf(p) = d
  /\ \A p \in Publisher : DeviceOf(p) \in Device /\ p \in Publishers(DeviceOf(p))
<1>1. \A p \in Publishers("mic") : DeviceOf(p) = "mic" BY DEF Publishers, DeviceOf
<1>2. \A p \in Publishers("cam") : DeviceOf(p) = "cam" BY DEF Publishers, DeviceOf
<1> QED BY <1>1, <1>2 DEF Device, Publisher

(* Who begins to publish is about to look; the other device is as it was.  *)
LEMMA PublishesOK ==
  ASSUME NEW d \in Device, NEW p \in Publishers(d), ShowInv, Publishes(p),
         \A e \in Device : e # d => UNCHANGED Registry(e)
  PROVE  ShowInv'
<1> USE PublisherKinds DEF ShowInv
<1>1. ShowShape' BY DEF ShowShape, Publishes, Holds, Idle
<1>2. publishing'[p] = "look" BY DEF ShowShape, Publishes
<1>3. ASSUME NEW e \in Device, e # d PROVE FollowsInv(e)'
  <2>1. UNCHANGED <<Registry(e), shown, behind, stale>> BY <1>3 DEF Publishes
  <2>2. \A q \in Publishers(e) : publishing'[q] = publishing[q] BY <1>3 DEF ShowShape, Publishes
  <2>3. FollowsInv(e) OBVIOUS
  <2> HIDE DEF Registry, Publishers
  <2> QED BY <2>1, <2>2, <2>3 DEF FollowsInv, LooksAreNewest, ShownIsNewest, Holds
<1>4. FollowsInv(d)' BY <1>2 DEF FollowsInv
<1> QED BY <1>1, <1>3, <1>4

(* A look sees the registry, and whoever looked before is behind.          *)
LEMMA LooksOK == ASSUME NEW p \in Publisher, ShowInv, Looks(p) PROVE ShowInv'
<1> USE PublisherKinds DEF ShowInv
<1>1. ShowShape' BY DEF ShowShape, Looks, Holds
<1>2. UNCHANGED <<shown, stale>> /\ \A e \in Device : UNCHANGED Registry(e)
  BY DEF Looks, Registry, micVars, camVars
<1>3. publishing'[p] = IF Registry(DeviceOf(p)) = {} THEN "off" ELSE "on" BY DEF ShowShape, Looks
<1>4. \A q \in Publisher : q # p => publishing'[q] = publishing[q] BY DEF ShowShape, Looks
<1>5. behind' = behind \cup {q \in Publishers(DeviceOf(p)) : Holds(q)} BY DEF Looks, Holds
<1>6. p \notin behind' BY <1>5 DEF ShowShape, Looks, Holds
<1> HIDE DEF Registry, Publishers, DeviceOf
<1>7. ASSUME NEW e \in Device, e # DeviceOf(p) PROVE FollowsInv(e)'
  <2>1. \A q \in Publishers(e) : publishing'[q] = publishing[q] /\ (q \in behind' <=> q \in behind)
    BY <1>4, <1>5, <1>7
  <2>2. FollowsInv(e) OBVIOUS
  <2> QED BY <1>2, <2>1, <2>2 DEF FollowsInv, LooksAreNewest, ShownIsNewest, Holds
<1>8. FollowsInv(DeviceOf(p))'
  <2> DEFINE d == DeviceOf(p)
  <2>1. \A q \in Publishers(d) : q # p /\ Holds(q)' => q \in behind' BY <1>4, <1>5 DEF Holds
  <2>2. LooksAreNewest(d)' BY <1>2, <1>3, <2>1 DEF LooksAreNewest
  <2>3. ShownIsNewest(d)' BY <1>3, <1>6 DEF ShownIsNewest, Holds
  <2> QED BY <2>2, <2>3 DEF FollowsInv
<1> QED BY <1>1, <1>7, <1>8

(* What a look saw is written: the newest, or it counts as stale.          *)
LEMMA ShowsOK == ASSUME NEW p \in Publisher, ShowInv, Shows(p) PROVE ShowInv'
<1> USE PublisherKinds DEF ShowInv
<1>1. ShowShape' BY DEF ShowShape, Shows, Holds
<1>2. \A e \in Device : UNCHANGED Registry(e) BY DEF Shows, Registry, micVars, camVars
<1>3. publishing'[p] = "none" /\ Holds(p) BY DEF ShowShape, Shows, Holds
<1>4. \A q \in Publisher : q # p => publishing'[q] = publishing[q] /\ (q \in behind' <=> q \in behind)
  BY DEF ShowShape, Shows
<1>5. /\ shown'[DeviceOf(p)] <=> publishing[p] = "on"
      /\ \A e \in Device : e # DeviceOf(p) => shown'[e] = shown[e] /\ (e \in stale' <=> e \in stale)
      /\ DeviceOf(p) \in stale' <=> p \in behind
  BY DEF ShowShape, Shows
<1> HIDE DEF Registry, Publishers, DeviceOf
<1>6. ASSUME NEW e \in Device PROVE FollowsInv(e)'
  <2>1. FollowsInv(e) OBVIOUS
  <2>2. SUFFICES ASSUME \A q \in Publishers(e) : publishing'[q] # "look"
                 PROVE  LooksAreNewest(e)' /\ ShownIsNewest(e)'
    BY DEF FollowsInv
  <2>3. LooksAreNewest(e) /\ ShownIsNewest(e)
    BY <1>3, <1>4, <2>1, <2>2 DEF FollowsInv, Holds
  <2>4. LooksAreNewest(e)' BY <1>2, <1>3, <1>4, <2>3 DEF LooksAreNewest, Holds
  <2>5. CASE e = DeviceOf(p) BY <1>2, <1>3, <1>5, <2>3, <2>4, <2>5 DEF LooksAreNewest, ShownIsNewest
  <2>6. CASE e # DeviceOf(p)
    <3>1. \A q \in Publishers(e) : q # p BY <2>6
    <3> QED BY <1>2, <1>4, <1>5, <2>3, <2>4, <2>6, <3>1 DEF ShownIsNewest, Holds
  <2> QED BY <2>5, <2>6
<1> QED BY <1>1, <1>6

(* Nobody is about to look, nor has anything to write, where nobody acts.  *)
LEMMA ShowStays ==
  ShowInv /\ UNCHANGED <<micActive, camActive, showVars>> => ShowInv'
<1> SUFFICES ASSUME ShowInv, UNCHANGED <<micActive, camActive, showVars>> PROVE ShowInv' OBVIOUS
<1> QED
  BY DEF ShowInv, ShowShape, FollowsInv, LooksAreNewest, ShownIsNewest, Holds, Registry, showVars

(* Every step of either side keeps the indicators behind their registries. *)
LEMMA ShowStepOK == ASSUME ShowInv, CaptureNext PROVE ShowInv'
<1>1. ASSUME NEW s \in Mic, MicStep(s) PROVE ShowInv'
  <2>1. UNCHANGED camActive BY <1>1, MicApart DEF camVars
  <2>2. CASE \E p \in Publishers("mic") : Publishes(p)
    <3> PICK p \in Publishers("mic") : Publishes(p) BY <2>2
    <3> QED BY <2>1, PublishesOK, PublisherKinds DEF Registry
  <2>3. CASE UNCHANGED <<micActive, showVars>> BY <2>1, <2>3, ShowStays
  <2> QED BY <1>1, <2>2, <2>3, MicApart
<1>2. ASSUME NEW s \in Shots, CameraStep(s) PROVE ShowInv'
  <2>1. UNCHANGED micActive BY <1>2, CameraApart DEF micVars
  <2>2. CASE \E p \in Publishers("cam") : Publishes(p)
    <3> PICK p \in Publishers("cam") : Publishes(p) BY <2>2
    <3> QED BY <2>1, PublishesOK, PublisherKinds DEF Registry
  <2>3. CASE UNCHANGED <<camActive, showVars>> BY <2>1, <2>3, ShowStays
  <2> QED BY <1>2, <2>2, <2>3, CameraApart
<1>3. ASSUME NEW d \in Device, PublishStep(d) PROVE ShowInv'
  BY <1>3, LooksOK, ShowsOK, PublisherKinds DEF PublishStep
<1> QED BY <1>1, <1>2, <1>3, PublisherKinds DEF CaptureNext, MicNext, CameraNext

(* Neither side touches what the other one keeps.                          *)
LEMMA Apart ==
  /\ MicNext => UNCHANGED camVars
  /\ CameraNext => UNCHANGED micVars
  /\ \A d \in Device : PublishStep(d) => UNCHANGED micVars /\ UNCHANGED camVars
<1>1. \A d \in Device : PublishStep(d) => UNCHANGED micVars /\ UNCHANGED camVars
  BY DEF PublishStep, Looks, Shows
<1> QED BY <1>1, MicApart, CameraApart DEF MicNext, CameraNext, Device

(* Nothing is captured at the start.                                       *)
LEMMA CaptureInvInit == CaptureInit => CaptureInv
<1> SUFFICES ASSUME CaptureInit PROVE CaptureInv OBVIOUS
<1> USE CaptureAssumption DEF CaptureInit
<1>1. MicShape BY DEF MicShape, StreamAt, MicAt, NoRefresh
<1>2. StreamInv /\ SessionInv /\ RecordInv /\ RefreshInv
  BY DEF StreamInv, SessionInv, RecordInv, RefreshInv, Mic
<1>3. OpenMicIsRegistered /\ EndedMicIsStruck BY DEF OpenMicIsRegistered, EndedMicIsStruck
<1>4. CameraInv BY DEF CameraInv, CameraIsRegistered, CamAt
<1>5. ShowShape BY DEF ShowShape, Holds
<1>6. ASSUME NEW d \in Device PROVE FollowsInv(d)
  <2>1. \A p \in Publishers(d) : ~Holds(p) BY PublisherKinds DEF Holds
  <2>2. shown[d] = FALSE /\ Registry(d) = {} BY DEF Registry
  <2> QED BY <2>1, <2>2 DEF FollowsInv, LooksAreNewest, ShownIsNewest
<1> QED BY <1>1, <1>2, <1>3, <1>4, <1>5, <1>6 DEF CaptureInv, MicInv, ShowInv

(* Every step keeps the invariant.                                         *)
LEMMA CaptureInvStep == CaptureInv /\ [CaptureNext]_captureVars => CaptureInv'
<1> SUFFICES ASSUME CaptureInv, [CaptureNext]_captureVars PROVE CaptureInv' OBVIOUS
<1>1. ASSUME UNCHANGED micVars PROVE MicInv'
 
    BY <1>1
       DEF micVars, CaptureInv, MicInv, MicShape, StreamInv, SessionInv, RecordInv,
          RefreshInv,
              OpenMicIsRegistered, EndedMicIsStruck
<1>2. ASSUME UNCHANGED camVars PROVE CameraInv'
  BY <1>2 DEF camVars, CaptureInv, CameraInv, CameraIsRegistered
<1>3. ASSUME MicNext PROVE MicInv'
  <2>1. CASE PublishStep("mic") BY <1>1, <2>1, Apart DEF Device
  <2>2. CASE \E s \in Mic : MicStep(s)
    BY <2>2, StreamEndsOK, StoppedCallbackOK, ResultSentOK, MicStartOK, OpenMicOK, RegisterMicOK,
       CheckHostMicOK, FindLiveOK, ApplyLiveOK, RefreshEndsOK, StopMicOK, StoppedMicOK,
       DropMicCallOK
       DEF MicStep, CaptureInv
  <2> QED BY <1>3, <2>1, <2>2 DEF MicNext
<1>4. ASSUME CameraNext PROVE CameraInv'
  <2>1. CASE PublishStep("cam") BY <1>2, <2>1, Apart DEF Device
  <2>2. CASE \E s \in Shots : CameraStep(s) BY <2>2, CameraStepOK DEF CaptureInv
  <2> QED BY <1>4, <2>1, <2>2 DEF CameraNext
<1>5. CASE MicNext BY <1>2, <1>3, <1>5, Apart, ShowStepOK DEF CaptureInv, CaptureNext
<1>6. CASE CameraNext BY <1>1, <1>4, <1>6, Apart, ShowStepOK DEF CaptureInv, CaptureNext
<1>7. CASE UNCHANGED captureVars
  <2>1. UNCHANGED micVars /\ UNCHANGED camVars /\ UNCHANGED <<micActive, camActive, showVars>>
    BY <1>7 DEF captureVars, micVars, camVars
  <2> QED BY <1>1, <1>2, <2>1, ShowStays DEF CaptureInv
<1> QED BY <1>5, <1>6, <1>7 DEF CaptureNext

-----------------------------------------------------------------------------
(* The variables of both indicators keep their types; a session that can be*)
(* found for a stop has a stream.                                          *)
THEOREM CaptureTypeCorrect == CaptureSpec => []CaptureTypeOK
<1>1. CaptureInv => CaptureTypeOK
  BY DEF CaptureInv, MicInv, MicShape, StreamInv, SessionInv, CameraInv, CaptureTypeOK,
         StreamAt, MicAt, CamAt, Mic, ShowInv, ShowShape, Holds
<1> QED BY <1>1, CaptureInvInit, CaptureInvStep, PTL DEF CaptureSpec

(* An open microphone is registered and an ended one is not, a camera that *)
(* can be stopped is registered, and no change of either registry goes     *)
(* unpublished: an indicator at rest that is wrong shows a look that was   *)
(* written after a newer one; whatever calls, callbacks, refreshes and     *)
(* dropped futures overlap.                                                *)
THEOREM IndicatorsAreHonest == CaptureSpec => []CaptureIsShown
<1>1. CaptureInv => IndicatorFollows
  <2> SUFFICES ASSUME CaptureInv, NEW d \in Device,
                      \A p \in Publishers(d) : Idle(p), d \notin stale
               PROVE  shown[d] <=> Registry(d) # {}
    BY DEF IndicatorFollows
  <2>1. \A p \in Publishers(d) : publishing[p] # "look" /\ ~Holds(p) BY DEF Idle, Holds
  <2>2. FollowsInv(d) BY DEF CaptureInv, ShowInv
  <2> QED BY <2>1, <2>2 DEF FollowsInv, ShownIsNewest
<1>2. CaptureInv => CaptureIsShown
  BY <1>1 DEF CaptureInv, MicInv, CameraInv, CaptureIsShown
<1> QED BY <1>2, CaptureInvInit, CaptureInvStep, PTL DEF CaptureSpec

-----------------------------------------------------------------------------
(* 2. The process table.                                                   *)

(* A recorded end is the end of a child that was started; what callers     *)
(* were told of a handle is its reason, which stays after the record.      *)
TableOK ==
  \A h \in Handles :
    /\ child[h] \in {"runs", "signalled", "zombie"} => h \in tracked
    /\ h \in reaped => child[h] = "gone"
    /\ h > spawned => child[h] = "none"
ToldOK ==
  \A h \in Handles : told[h] \subseteq {Lifecycle(h)} /\ (told[h] # {} => h \in reaped)

ProcessInv == ProcessTypeOK /\ TableOK /\ ToldOK

\* The handle a full table gives up is one of those whose end is recorded.
LEMMA EvictedIsReaped ==
  ASSUME tracked \subseteq 1 .. spawned, spawned \in Nat, Full => tracked \cap reaped # {}
  PROVE  /\ Evicted \subseteq tracked \cap reaped
         /\ Full => \E h \in tracked : Evicted = {h}
<1>1. CASE ~Full BY <1>1 DEF Evicted
<1>2. CASE Full
  <2> DEFINE S == tracked \cap reaped
  <2>1. S \in SUBSET Nat /\ S # {}
    <3>1. 1 .. spawned \subseteq Nat OBVIOUS
    <3>2. S # {} BY <1>2
    <3> QED BY <3>1, <3>2
  <2>2. \E m \in S : \A n \in S : m <= n
    <3> DEFINE Less == OpToRel(<, Nat)
    <3> HIDE DEF S
    <3>1. PICK m \in S : \A n \in S : <<n, m>> \notin Less
      BY <2>1, NatLessThanWellFounded, WFMin
    <3>2. \A n \in S : ~(n < m) BY <2>1, <3>1 DEF OpToRel
    <3> QED BY <2>1, <3>2
  <2>3. Min(S) \in S BY <2>2 DEF Min
  <2> QED BY <1>2, <2>3 DEF Evicted
<1> QED BY <1>1, <1>2

\* Giving it up makes room.
LEMMA RoomForOne ==
  ASSUME ProcessTypeOK, Full => tracked \cap reaped # {}, NEW h
  PROVE  Cardinality((tracked \ Evicted) \cup {h}) <= MaxProcesses
<1> DEFINE T == tracked \ Evicted
<1>1. spawned \in Nat BY ProcessAssumption DEF ProcessTypeOK
<1>2. IsFiniteSet(tracked) /\ Cardinality(tracked) \in Nat
  <2>1. IsFiniteSet(1 .. spawned) BY <1>1, FS_Interval
  <2>2. IsFiniteSet(tracked) BY <2>1, FS_Subset DEF ProcessTypeOK
  <2> QED BY <2>2, FS_CardinalityType
<1>3. IsFiniteSet(T) /\ Cardinality(T) \in Nat /\ Cardinality(T) + 1 <= MaxProcesses
  <2>1. CASE ~Full
    <3>1. T = tracked BY <2>1 DEF Evicted
    <3> QED BY <2>1, <3>1, <1>2, ProcessAssumption DEF Full
  <2>2. CASE Full
    <3>1. PICK g \in tracked : Evicted = {g}
      BY <2>2, <1>1, EvictedIsReaped
         DEF ProcessTypeOK
    <3>2. IsFiniteSet(tracked \ {g}) /\ Cardinality(tracked \ {g}) = Cardinality(tracked) - 1
      BY <1>2, FS_RemoveElement
    <3>3. Cardinality(tracked \ {g}) \in Nat BY <3>2, FS_CardinalityType
    <3> QED BY <3>1, <3>2, <3>3, <1>2, ProcessAssumption DEF ProcessTypeOK
  <2> QED BY <2>1, <2>2
<1> HIDE DEF T
<1>4. Cardinality(T \cup {h}) <= Cardinality(T) + 1
  BY <1>3, FS_AddElement
<1>5. Cardinality(T \cup {h}) \in Nat BY <1>3, FS_AddElement, FS_CardinalityType
<1> QED BY <1>3, <1>4, <1>5, ProcessAssumption DEF T

\* At the start nothing has been spawned.
LEMMA ProcessInvInit == ProcessInit => ProcessInv
<1> SUFFICES ASSUME ProcessInit PROVE ProcessInv OBVIOUS
<1>1. Cardinality({}) = 0 BY FS_EmptySet
<1>2. ProcessTypeOK
  BY <1>1, ProcessAssumption
     DEF ProcessInit, ProcessTypeOK, Handles, NoProcCall
<1>3. TableOK /\ ToldOK BY DEF ProcessInit, TableOK, ToldOK
<1> QED BY <1>2, <1>3 DEF ProcessInv

CallAt == {"idle", "status", "kill", "wait"}
ChildAt == {"none", "runs", "signalled", "zombie", "gone"}

\* A poll keeps the types.
LEMMA PolledType ==
  ASSUME ProcessTypeOK, MaxSpawns \in Nat, NEW h, Polled(h)
  PROVE  reaped' \subseteq Handles /\ child' \in [Handles -> ChildAt]
<1>1. 1 .. spawned \subseteq Handles BY DEF ProcessTypeOK, Handles
<1>2. CASE StillRunning(h) /\ child[h] = "zombie"
  <2>1. h \in Handles BY <1>1, <1>2 DEF StillRunning, ProcessTypeOK
  <2> QED BY <1>2, <2>1 DEF Polled, ProcessTypeOK, ChildAt
<1>3. CASE ~(StillRunning(h) /\ child[h] = "zombie")
  BY <1>3 DEF Polled, ProcessTypeOK, ChildAt
<1> QED BY <1>2, <1>3

\* A signal to the child keeps the types.
LEMMA SignalType ==
  ASSUME ProcessTypeOK, NEW h \in Handles, NEW reason \in {"killed", "timed_out"},
         Signal(h, reason)
  PROVE  /\ killed' \in [Handles -> {"no", "killed", "timed_out"}]
         /\ child' \in [Handles -> ChildAt]
<1> QED BY DEF Signal, ProcessTypeOK, ChildAt

\* A step of a caller keeps its place and what it holds.
LEMMA CallGoesType ==
  ASSUME ProcessTypeOK, NEW c \in Caller, NEW place \in CallAt,
         CallGoes(c, place) \/ procCall' = [procCall EXCEPT ![c] = NoProcCall]
  PROVE  procCall' \in [Caller -> [at : CallAt, handle : Handles \cup {0}]]
<1> DEFINE C == [at : CallAt, handle : Handles \cup {0}]
<1>1. procCall \in [Caller -> C] BY DEF ProcessTypeOK, CallAt
<1>2. [procCall[c] EXCEPT !.at = place] \in C /\ NoProcCall \in C
  BY <1>1 DEF NoProcCall, CallAt
<1>3. procCall' = [procCall EXCEPT ![c] = [procCall[c] EXCEPT !.at = place]]
      \/ procCall' = [procCall EXCEPT ![c] = NoProcCall]
  BY DEF CallGoes
<1> HIDE DEF C
<1> QED BY <1>1, <1>2, <1>3 DEF C

\* Every step keeps the types, and the table within its size.
LEMMA ProcessTypeStep == ProcessInv /\ [ProcessNext]_processVars => ProcessTypeOK'
<1> SUFFICES ASSUME ProcessInv, [ProcessNext]_processVars PROVE ProcessTypeOK' OBVIOUS
<1> USE ProcessAssumption DEF ProcessInv, ProcessTypeOK, Handles
<1>1. CASE FailToSpawn
  <2>1. Cardinality(tracked') <= MaxProcesses
    <3>1. IsFiniteSet(tracked) /\ Cardinality(tracked) \in Nat
      <4>1. IsFiniteSet(1 .. spawned) BY FS_Interval
      <4>2. IsFiniteSet(tracked) BY <4>1, FS_Subset
      <4> QED BY <4>2, FS_CardinalityType
    <3>2. tracked' \in SUBSET tracked BY <1>1 DEF FailToSpawn
    <3>3. Cardinality(tracked') <= Cardinality(tracked) /\ Cardinality(tracked') \in Nat
      BY <3>1, <3>2, FS_Subset, FS_CardinalityType
    <3> QED BY <3>1, <3>3
  <2>2. tracked' \subseteq 1 .. spawned' /\ spawned' \in 0 .. MaxSpawns
    <3>1. spawned \in Nat /\ spawned < MaxSpawns /\ spawned' = spawned + 1
      BY <1>1
         DEF FailToSpawn
    <3>2. tracked' \subseteq tracked BY <1>1 DEF FailToSpawn
    <3> QED BY <3>1, <3>2
  <2> QED BY <1>1, <2>1, <2>2 DEF FailToSpawn
<1>2. CASE SpawnChild
  <2>1. Cardinality(tracked') <= MaxProcesses BY <1>2, RoomForOne DEF SpawnChild
  <2>2. spawned + 1 \in Handles /\ spawned' \in 0 .. MaxSpawns
    <3>1. spawned \in Nat /\ spawned < MaxSpawns /\ spawned' = spawned + 1
      BY <1>2
         DEF SpawnChild
    <3> QED BY <3>1
  <2>3. tracked' \subseteq 1 .. spawned'
    <3>1. spawned \in Nat /\ spawned' = spawned + 1 BY <1>2 DEF SpawnChild
    <3>2. tracked' \subseteq tracked \cup {spawned + 1} BY <1>2 DEF SpawnChild
    <3> QED BY <3>1, <3>2
  <2>4. watched' \subseteq Handles /\ late' \subseteq watched'
    BY <1>2, <2>2
       DEF SpawnChild
  <2>5. child' \in [Handles -> ChildAt]
    BY <1>2, <2>2 DEF SpawnChild, ChildAt
  <2> QED BY <1>2, <2>1, <2>2, <2>3, <2>4, <2>5 DEF SpawnChild, ChildAt
<1>3. ASSUME NEW h \in Handles, ChildEnds(h) PROVE ProcessTypeOK'
  BY <1>3 DEF ChildEnds
<1>4. ASSUME NEW h \in Handles, TimePasses(h) PROVE ProcessTypeOK'
  BY <1>4 DEF TimePasses
<1>5. ASSUME NEW h \in Handles, WatchdogEnds(h) PROVE ProcessTypeOK'
  BY <1>5 DEF WatchdogEnds
<1>6. ASSUME NEW h \in Handles, WatchdogFires(h) PROVE ProcessTypeOK'
  BY <1>6 DEF WatchdogFires, Signal, StillRunning
<1>7. ASSUME NEW c \in Caller, NEW h \in Handles, Call(c, h) PROVE ProcessTypeOK'
  <2>1. procCall' \in [Caller -> [at : CallAt, handle : Handles \cup {0}]]
    BY <1>7 DEF Call, CallAt
  <2>2. reaped' \subseteq Handles /\ child' \in [Handles -> ChildAt]
    BY <1>7, PolledType DEF Call
  <2> QED BY <1>7, <2>1, <2>2 DEF Call, CallAt, ChildAt
<1>8. ASSUME NEW c \in Caller, KillChild(c) PROVE ProcessTypeOK'
  <2>1. procCall' \in [Caller -> [at : CallAt, handle : Handles \cup {0}]]
    BY <1>8, CallGoesType DEF KillChild, CallAt
  <2>2. /\ reaped' \subseteq Handles /\ child' \in [Handles -> ChildAt]
        /\ killed' \in [Handles -> {"no", "killed", "timed_out"}]
    <3> DEFINE h == procCall[c].handle
    <3>1. h \in tracked => h \in Handles OBVIOUS
    <3>2. CASE h \notin tracked \/ h \in reaped BY <1>8, <3>2 DEF KillChild, ChildAt
    <3>3. CASE h \in tracked /\ Signal(h, "killed") /\ UNCHANGED reaped
      BY <3>1, <3>3, SignalType
    <3>4. CASE h \in tracked /\ Polled(h) /\ killed' = [killed EXCEPT ![h] = "killed"]
      <4>1. reaped' \subseteq Handles /\ child' \in [Handles -> ChildAt]
        BY <3>4, PolledType
      <4> QED BY <3>4, <4>1
    <3> QED BY <1>8, <3>2, <3>3, <3>4 DEF KillChild
  <2> QED BY <1>8, <2>1, <2>2 DEF KillChild, CallAt, ChildAt
<1>9. ASSUME NEW c \in Caller, PollAgain(c) PROVE ProcessTypeOK'
  <2>1. procCall' \in [Caller -> [at : CallAt, handle : Handles \cup {0}]]
    BY <1>9, CallGoesType DEF PollAgain, CallAt
  <2>2. reaped' \subseteq Handles /\ child' \in [Handles -> ChildAt]
    BY <1>9, PolledType DEF PollAgain
  <2> QED BY <1>9, <2>1, <2>2 DEF PollAgain, CallAt, ChildAt
<1>10. ASSUME NEW c \in Caller, AnswerStatus(c) PROVE ProcessTypeOK'
  <2>1. procCall' \in [Caller -> [at : CallAt, handle : Handles \cup {0}]]
    BY <1>10, CallGoesType DEF AnswerStatus, CallAt
  <2>2. Lifecycle(procCall[c].handle) \in {"exited", "killed", "timed_out"}
        \/ procCall[c].handle \notin tracked
    BY DEF Lifecycle
  <2>3. told' \in [Handles -> SUBSET {"exited", "killed", "timed_out"}]
    BY <1>10, <2>2 DEF AnswerStatus
  <2> QED BY <1>10, <2>1, <2>3 DEF AnswerStatus, CallAt
<1>11. CASE UNCHANGED processVars
  BY <1>11 DEF processVars
<1> QED
  BY <1>1, <1>2, <1>3, <1>4, <1>5, <1>6, <1>7, <1>8, <1>9, <1>10, <1>11
     DEF ProcessNext, WatchdogStep

\* Every step keeps the children in reach.
LEMMA TableStep == ProcessInv /\ [ProcessNext]_processVars => TableOK'
<1> SUFFICES ASSUME ProcessInv, [ProcessNext]_processVars PROVE TableOK' OBVIOUS
<1> USE ProcessAssumption DEF ProcessInv, ProcessTypeOK, TableOK, Handles
<1>1. CASE FailToSpawn
  BY <1>1, EvictedIsReaped DEF FailToSpawn
<1>2. CASE SpawnChild
  <2>1. Evicted \subseteq tracked \cap reaped BY <1>2, EvictedIsReaped DEF SpawnChild
  <2>2. \A h \in Handles : h # spawned + 1 => child'[h] = child[h] BY <1>2 DEF SpawnChild
  <2>3. spawned + 1 \in tracked' /\ spawned + 1 \notin reaped BY <1>2 DEF SpawnChild
  <2>4. \A h \in Handles : h \in tracked /\ child[h] # "gone" => h \in tracked'
    BY <1>2, <2>1 DEF SpawnChild
  <2> QED BY <1>2, <2>2, <2>3, <2>4 DEF SpawnChild
<1>3. ASSUME NEW h \in Handles, ChildEnds(h) PROVE TableOK'
  BY <1>3 DEF ChildEnds
<1>4. ASSUME NEW h \in Handles, TimePasses(h) PROVE TableOK'
  BY <1>4 DEF TimePasses
<1>5. ASSUME NEW h \in Handles, WatchdogEnds(h) PROVE TableOK'
  BY <1>5 DEF WatchdogEnds
<1>6. ASSUME NEW h \in Handles, WatchdogFires(h) PROVE TableOK'
  BY <1>6 DEF WatchdogFires, Signal, StillRunning
<1>7. ASSUME NEW c \in Caller, NEW h \in Handles, Call(c, h) PROVE TableOK'
  BY <1>7 DEF Call, Polled, StillRunning
<1>8. ASSUME NEW c \in Caller, KillChild(c) PROVE TableOK'
  BY <1>8 DEF KillChild, Signal, Polled, StillRunning, CallGoes, NoProcCall
<1>9. ASSUME NEW c \in Caller, PollAgain(c) PROVE TableOK'
  BY <1>9 DEF PollAgain, Polled, StillRunning, CallGoes
<1>10. ASSUME NEW c \in Caller, AnswerStatus(c) PROVE TableOK'
  BY <1>10 DEF AnswerStatus, NoProcCall
<1>11. CASE UNCHANGED processVars
  BY <1>11 DEF processVars
<1> QED
  BY <1>1, <1>2, <1>3, <1>4, <1>5, <1>6, <1>7, <1>8, <1>9, <1>10, <1>11
     DEF ProcessNext, WatchdogStep

\* No reason changes once it has been told.
LEMMA ToldStep == ProcessInv /\ [ProcessNext]_processVars => ToldOK'
<1> SUFFICES ASSUME ProcessInv, [ProcessNext]_processVars PROVE ToldOK' OBVIOUS
<1> USE ProcessAssumption DEF ProcessInv, ProcessTypeOK, TableOK, ToldOK, Lifecycle,
   Handles
<1>1. CASE FailToSpawn
  BY <1>1 DEF FailToSpawn
<1>2. CASE SpawnChild
  BY <1>2 DEF SpawnChild
<1>3. ASSUME NEW h \in Handles, ChildEnds(h) PROVE ToldOK'
  BY <1>3 DEF ChildEnds
<1>4. ASSUME NEW h \in Handles, TimePasses(h) PROVE ToldOK'
  BY <1>4 DEF TimePasses
<1>5. ASSUME NEW h \in Handles, WatchdogEnds(h) PROVE ToldOK'
  BY <1>5 DEF WatchdogEnds
<1>6. ASSUME NEW h \in Handles, WatchdogFires(h) PROVE ToldOK'
  BY <1>6 DEF WatchdogFires, Signal, StillRunning
<1>7. ASSUME NEW c \in Caller, NEW h \in Handles, Call(c, h) PROVE ToldOK'
  BY <1>7 DEF Call, Polled, StillRunning
<1>8. ASSUME NEW c \in Caller, KillChild(c) PROVE ToldOK'
  BY <1>8 DEF KillChild, Signal, Polled, StillRunning, CallGoes, NoProcCall
<1>9. ASSUME NEW c \in Caller, PollAgain(c) PROVE ToldOK'
  BY <1>9 DEF PollAgain, Polled, StillRunning, CallGoes
<1>10. ASSUME NEW c \in Caller, AnswerStatus(c) PROVE ToldOK'
  BY <1>10 DEF AnswerStatus, NoProcCall
<1>11. CASE UNCHANGED processVars
  BY <1>11 DEF processVars
<1> QED
  BY <1>1, <1>2, <1>3, <1>4, <1>5, <1>6, <1>7, <1>8, <1>9, <1>10, <1>11
     DEF ProcessNext, WatchdogStep

\* The invariant holds of every behaviour.
LEMMA ProcessInvHolds == ProcessSpec => []ProcessInv
<1>1. ProcessInv /\ [ProcessNext]_processVars => ProcessInv'
  BY ProcessTypeStep, TableStep, ToldStep DEF ProcessInv
<1> QED BY <1>1, ProcessInvInit, PTL DEF ProcessSpec

\* Type correctness, the size of the table included (ProcessTable::insert).
THEOREM ProcessTypeCorrect == ProcessSpec => []ProcessTypeOK
<1>1. ProcessInv => ProcessTypeOK BY DEF ProcessInv
<1> QED BY <1>1, ProcessInvHolds, PTL

\* No child or zombie is out of reach of status and kill, and callers of a
\* handle are told one final state (ProcessTable, its polls and watchdogs).
THEOREM ChildrenAccounted == ProcessSpec => []ChildrenAreAccounted
<1>1. ASSUME ProcessInv PROVE ChildrenAreAccounted
  <2>1. NoChildOutOfReach BY <1>1 DEF ProcessInv, TableOK, NoChildOutOfReach
  <2>2. ASSUME NEW h \in Handles PROVE Cardinality(told[h]) <= 1
    <3>1. told[h] = {} \/ told[h] = {Lifecycle(h)} BY <1>1 DEF ProcessInv, ToldOK
    <3>2. Cardinality({}) = 0 /\ Cardinality({Lifecycle(h)}) = 1
      BY FS_EmptySet, FS_Singleton
    <3> QED BY <3>1, <3>2
  <2> QED BY <2>1, <2>2 DEF ChildrenAreAccounted, OneFinalState
<1> QED BY <1>1, ProcessInvHolds, PTL

-----------------------------------------------------------------------------
(* 3. The plugin.                                                          *)

(* A plugin is enabled only while the panel wants it, and nobody who began *)
(* unwanted is on the way to its tools.                                    *)
OffOK ==
  /\ plugin.state = "Enabled" => wanted
  /\ was => wanted /\ op = "update"
  /\ at[Manager] \in {"find", "was", "refresh"} => op = "update"
  /\ at[Manager] \in {"forget", "erase"} => op = "remove"
  /\ at[Manager] = "enable" => op = "enable" \/ was
  /\ wanted => quiet = {}
  /\ \A t \in Turner :
       /\ t \in offered => at[t] \in {"ready", "install", "enter", "guest"}
       /\ t \in quiet => t \notin offered /\ at[t] \in {"discover", "note", "list", "ready"}

(* Who is in the guest holds its lock, and the slot's last entry is theirs *)
(* once they have written.                                                 *)
SlotOK ==
  \A t \in Turner :
    /\ at[t] = "guest" <=> running = t
    /\ at[t] \in {"install", "enter", "guest"} => answer[t] = Vacant
    /\ t \in wrote => answer[t] \in {Vacant, t} /\ (at[t] = "guest" => guest.slot = t)
    /\ at[t] \in {"install", "enter"} => t \notin wrote

(* How far a refused update has come with loading what it kept.            *)
Kept(s) == plugin = [state |-> s, package |-> saved]
RestoreOK ==
  /\ at[Manager] \in {"find", "was", "drop", "off", "refresh"} => saved = Vacant
  /\ saved # Vacant => was
  /\ alone /\ was /\ at[Manager] \in {"drop", "off"} => plugin.state = "Enabled"
  /\ alone /\ was /\ at[Manager] = "refresh" => plugin.state = "Disabled"
  /\ saved \in Version /\ alone =>
       /\ at[Manager] \in {"load", "bytes", "manifest", "insert", "mark", "enable", "idle"}
       /\ at[Manager] \in {"load", "bytes"} => Kept("Disabled")
       /\ at[Manager] \in {"manifest", "insert"} => Kept("Validated") /\ holds[Manager] = saved
       /\ at[Manager] = "mark" => Kept("Validated") /\ guest.code = saved
       /\ at[Manager] = "enable" => Kept("Loaded") /\ guest.code = saved
       /\ at[Manager] = "idle" => Kept("Enabled") /\ guest.code = saved

PluginInv == PluginTypeOK /\ OffOK /\ SlotOK /\ RestoreOK

\* A checked transition changes the state of the record and nothing else.
LEMMA Becomes ==
  ASSUME PluginTypeOK, plugin # NoRecord, NEW s \in RecordState, Become(s)
  PROVE  /\ plugin' = [state |-> s, package |-> plugin.package]
         /\ plugin' \in PluginRecord /\ plugin' # NoRecord /\ plugin'.state = s
<1>1. plugin \in PluginRecord BY DEF PluginTypeOK
<1> QED BY <1>1 DEF Become, PluginRecord, NoRecord, RecordState

\* At the start the plugin is unknown, or serves.
LEMMA PluginInvInit == PluginInit => PluginInv
<1> SUFFICES ASSUME PluginInit PROVE PluginInv OBVIOUS
<1> USE PluginAssumption DEF PluginInit, NoRecord, NoGuest, Vacant, Manager, PluginThread
<1>1. PluginTypeOK
  <2>1. package \in Package BY DEF Package, Readable
  <2>2. plugin \in PluginRecord \cup {NoRecord}
    BY DEF PluginRecord, RecordState, Package, Readable
  <2>3. guest \in Guest \cup {NoGuest} BY DEF Guest
  <2>4. wanted \in BOOLEAN BY Zenon
  <2>5. {discovered, homes} \subseteq {"home", "other", Vacant} OBVIOUS
  <2> QED BY <2>1, <2>2, <2>3, <2>4, <2>5 DEF PluginTypeOK, Place
<1>2. OffOK BY DEF OffOK
<1>3. SlotOK BY DEF SlotOK
<1>4. RestoreOK BY DEF RestoreOK, Kept
<1> QED BY <1>1, <1>2, <1>3, <1>4 DEF PluginInv

\* Every step keeps the types.
LEMMA PluginTypeStep == PluginInv /\ [PluginNext]_pluginVars => PluginTypeOK'
<1> SUFFICES ASSUME PluginInv, [PluginNext]_pluginVars PROVE PluginTypeOK' OBVIOUS
<1> USE PluginAssumption DEF PluginInv, PluginTypeOK, PluginThread, Manager, Vacant,
   Place, Package, Readable, PluginRecord, RecordState, NoRecord, Guest, NoGuest
<1>1. ASSUME NEW a \in PluginThread, LoadRuntime(a) PROVE PluginTypeOK'
  BY <1>1 DEF LoadRuntime, GiveUp, Go, Noticed, Ghosts, Files
<1>2. ASSUME NEW a \in PluginThread, LoadBytes(a) PROVE PluginTypeOK'
 
    BY <1>2
       DEF LoadBytes, GiveUp, Go, Carry, Noticed, MayBecome, Become, Ghosts, Files,
          Validatable
<1>3. ASSUME NEW a \in PluginThread, LoadManifest(a) PROVE PluginTypeOK'
  BY <1>3 DEF LoadManifest, GiveUp, Go, Carry, Noticed, Ghosts, Files
<1>4. ASSUME NEW a \in PluginThread, LoadInstance(a) PROVE PluginTypeOK'
  BY <1>4 DEF LoadInstance, Go, Carry, Noticed, Ghosts, Files
<1>5. ASSUME NEW a \in PluginThread, LoadMark(a) PROVE PluginTypeOK'
  BY <1>5 DEF LoadMark, GiveUp, Go, Noticed, MayBecome, Become, Ghosts, Files
<1>6. ASSUME NEW o \in {"enable", "disable", "update", "remove"},
             AskPanel(o) PROVE PluginTypeOK'
  <2>1. /\ at' = [at EXCEPT ![Manager] = at'[Manager]]
        /\ at'[Manager] \in {"enable", "find", "drop"}
    BY <1>6 DEF AskPanel, Go
  <2>2. was' \in BOOLEAN /\ alone' \in BOOLEAN BY <1>6, Zenon DEF AskPanel
  <2> QED BY <1>6, <2>1, <2>2 DEF AskPanel, Files
<1>7. CASE UpdateFinds
  BY <1>7 DEF UpdateFinds, Go, Carry, Panel, InPanel
<1>8. CASE UpdateLooks
  BY <1>8 DEF UpdateLooks, Go, MayBecome, Panel, InPanel
<1>9. CASE DropInstance
  BY <1>9 DEF DropInstance, Go, Panel, InPanel
<1>10. CASE TurnOff
  <2>1. plugin' \in PluginRecord \cup {NoRecord}
    <3>1. CASE plugin # NoRecord /\ Become("Disabled") BY <3>1, Becomes DEF RecordState
    <3>2. CASE plugin' = plugin BY <3>2
    <3> QED BY <1>10, <3>1, <3>2 DEF TurnOff, MayBecome
  <2>2. wanted' \in BOOLEAN BY <1>10, Zenon DEF TurnOff
  <2>3. at' = [at EXCEPT ![Manager] = at'[Manager]] /\ at'[Manager] \in {"refresh", "idle"}
    BY <1>10 DEF TurnOff, Go
  <2> QED BY <1>10, <2>1, <2>2, <2>3 DEF TurnOff, Panel
<1>11. CASE Refresh
  BY <1>11 DEF Refresh, Go, Carry, DirectoryHolds, Panel, InPanel, Readable
<1>12. CASE TurnOn
  <2>1. plugin' \in PluginRecord \cup {NoRecord}
    <3>1. CASE plugin # NoRecord /\ Become("Enabled") BY <3>1, Becomes DEF RecordState
    <3>2. CASE plugin' = plugin BY <3>2
    <3> QED BY <1>12, <3>1, <3>2 DEF TurnOn, MayBecome
  <2>2. wanted' \in BOOLEAN BY <1>12, Zenon DEF TurnOn
  <2> QED BY <1>12, <2>1, <2>2 DEF TurnOn, Panel, Go
<1>13. CASE Forget
  BY <1>13 DEF Forget, Go, Panel, InPanel
<1>14. CASE Erase
  BY <1>14 DEF Erase, Go, Panel, InPanel
<1>15. ASSUME NEW t \in Turner, TurnBegins(t) PROVE PluginTypeOK'
  BY <1>15 DEF TurnBegins, Go, Carry, Noticed, Told
<1>16. ASSUME NEW t \in Turner, Discover(t) PROVE PluginTypeOK'
  BY <1>16 DEF Discover, Go, Carry, Noticed, DirectoryHolds, Ghosts, Files
<1>17. ASSUME NEW t \in Turner, NoteDirectory(t) PROVE PluginTypeOK'
  BY <1>17 DEF NoteDirectory, Go, Carry, Noticed, Ghosts
<1>18. ASSUME NEW t \in Turner, ListEnabled(t) PROVE PluginTypeOK'
  BY <1>18 DEF ListEnabled, Go, Noticed, MayBecome, Ghosts, Files
<1>19. ASSUME NEW t \in Turner, LookForInstance(t) PROVE PluginTypeOK'
  BY <1>19 DEF LookForInstance, Go, Noticed, Ghosts, Files
<1>20. ASSUME NEW t \in Turner, Collect(t) PROVE PluginTypeOK'
  BY <1>20 DEF Collect, Go, Noticed, Files
<1>21. ASSUME NEW t \in Turner, EndTurn(t) PROVE PluginTypeOK'
  BY <1>21 DEF EndTurn, Go, Noticed, Files, Told
<1>22. ASSUME NEW t \in Turner, BeginGuestCall(t) PROVE PluginTypeOK'
  BY <1>22 DEF BeginGuestCall, Go, Noticed, Files, InCall
<1>23. ASSUME NEW t \in Turner, Install(t) PROVE PluginTypeOK'
  BY <1>23 DEF Install, Go, Noticed, Ghosts, Files
<1>24. ASSUME NEW t \in Turner, EnterGuest(t) PROVE PluginTypeOK'
  BY <1>24 DEF EnterGuest, Go, Noticed, Ghosts, Files
<1>25. ASSUME NEW t \in Turner, GuestWrites(t) PROVE PluginTypeOK'
  BY <1>25 DEF GuestWrites, Noticed, Files, InCall
<1>26. ASSUME NEW t \in Turner, GuestReturns(t) PROVE PluginTypeOK'
  BY <1>26 DEF GuestReturns, Go, Noticed, Files, InCall
<1>27. ASSUME NEW t \in Turner, GuestTraps(t) PROVE PluginTypeOK'
  BY <1>27 DEF GuestTraps, Go, Noticed, Ghosts, Files
<1>28. CASE Repackage
  BY <1>28 DEF Repackage
<1>29. CASE NameDirectory
  BY <1>29 DEF NameDirectory
<1>30. CASE UNCHANGED pluginVars
  BY <1>30 DEF pluginVars
<1> QED
  BY <1>1, <1>2, <1>3, <1>4, <1>5, <1>6, <1>7, <1>8, <1>9, <1>10, <1>11, <1>12, <1>13,
     <1>14, <1>15, <1>16, <1>17, <1>18, <1>19, <1>20, <1>21, <1>22, <1>23, <1>24, <1>25,
     <1>26, <1>27, <1>28, <1>29, <1>30
     DEF PluginNext

\* Every step keeps what is unwanted from being offered.
LEMMA OffStep == PluginInv /\ [PluginNext]_pluginVars => OffOK'
<1> SUFFICES ASSUME PluginInv, [PluginNext]_pluginVars PROVE OffOK' OBVIOUS
<1> USE PluginAssumption DEF PluginInv, PluginTypeOK, PluginThread, Manager, Vacant,
   OffOK, NoRecord
<1>1. ASSUME NEW a \in PluginThread, LoadRuntime(a) PROVE OffOK'
  BY <1>1 DEF LoadRuntime, GiveUp, Go, Noticed, Ghosts, Files
<1>2. ASSUME NEW a \in PluginThread, LoadBytes(a) PROVE OffOK'
  <2>1. plugin' = plugin \/ plugin'.state = "Validated"
    BY <1>2, Becomes DEF LoadBytes, MayBecome, RecordState
  <2> QED BY <1>2, <2>1 DEF LoadBytes, GiveUp, Go, Noticed, Ghosts, Files
<1>3. ASSUME NEW a \in PluginThread, LoadManifest(a) PROVE OffOK'
  BY <1>3 DEF LoadManifest, GiveUp, Go, Carry, Noticed, Ghosts, Files
<1>4. ASSUME NEW a \in PluginThread, LoadInstance(a) PROVE OffOK'
  BY <1>4 DEF LoadInstance, Go, Carry, Noticed, Ghosts, Files
<1>5. ASSUME NEW a \in PluginThread, LoadMark(a) PROVE OffOK'
  <2>1. plugin' = plugin \/ plugin'.state = "Loaded"
    BY <1>5, Becomes DEF LoadMark, MayBecome, RecordState
  <2> QED BY <1>5, <2>1 DEF LoadMark, GiveUp, Go, Noticed, Ghosts, Files
<1>6. ASSUME NEW o \in {"enable", "disable", "update", "remove"}, AskPanel(o) PROVE OffOK'
  BY <1>6 DEF AskPanel, Go, Files, InPanel
<1>7. CASE UpdateFinds
  BY <1>7 DEF UpdateFinds, Go, Carry, Panel, InPanel
<1>8. CASE UpdateLooks
  <2>1. was' => plugin.state = "Enabled"
    BY <1>8, Zenon DEF UpdateLooks, MayBecome, NoRecord
  <2> QED BY <1>8, <2>1 DEF UpdateLooks, Go, Panel, InPanel
<1>9. CASE DropInstance
  BY <1>9 DEF DropInstance, Go, Panel, InPanel
<1>10. CASE TurnOff
  <2>1. (plugin' = plugin /\ wanted' = wanted) \/ plugin'.state = "Disabled"
    BY <1>10, Becomes DEF TurnOff, MayBecome, RecordState
  <2>2. CASE plugin'.state = "Disabled"
    BY <1>10, <2>2 DEF TurnOff, Go, Panel, InPanel
  <2>3. CASE plugin' = plugin /\ wanted' = wanted
    BY <1>10, <2>3 DEF TurnOff, Go, Panel, InPanel
  <2> QED BY <2>1, <2>2, <2>3
<1>11. CASE Refresh
  BY <1>11 DEF Refresh, Go, Carry, DirectoryHolds, Panel, InPanel, Readable
<1>12. CASE TurnOn
  <2>1. CASE MayBecome({"Loaded", "Disabled"}) /\ plugin.package # "native"
    <3>1. plugin'.state = "Enabled" /\ wanted'
      <4>1. Become("Enabled") /\ plugin # NoRecord BY <1>12, <2>1 DEF TurnOn, MayBecome
      <4>2. plugin'.state = "Enabled" BY <4>1, Becomes DEF RecordState
      <4>3. wanted \/ op = "enable" BY <1>12 DEF TurnOn, InPanel
      <4>4. wanted' BY <1>12, <2>1, <4>3, Zenon DEF TurnOn
      <4> QED BY <4>2, <4>4
    <3> QED BY <1>12, <2>1, <3>1 DEF TurnOn, Go, Panel, InPanel
  <2>2. CASE UNCHANGED <<plugin, wanted, quiet>>
    BY <1>12, <2>2 DEF TurnOn, Go, Panel, InPanel
  <2> QED BY <1>12, <2>1, <2>2 DEF TurnOn
<1>13. CASE Forget
  BY <1>13 DEF Forget, Go, Panel, InPanel
<1>14. CASE Erase
  BY <1>14 DEF Erase, Go, Panel, InPanel
<1>15. ASSUME NEW t \in Turner, TurnBegins(t) PROVE OffOK'
  BY <1>15 DEF TurnBegins, Go, Carry, Noticed, Told
<1>16. ASSUME NEW t \in Turner, Discover(t) PROVE OffOK'
  BY <1>16 DEF Discover, Go, Carry, Noticed, DirectoryHolds, Ghosts, Files
<1>17. ASSUME NEW t \in Turner, NoteDirectory(t) PROVE OffOK'
  BY <1>17 DEF NoteDirectory, Go, Carry, Noticed, Ghosts
<1>18. ASSUME NEW t \in Turner, ListEnabled(t) PROVE OffOK'
  BY <1>18 DEF ListEnabled, Go, Noticed, MayBecome, Ghosts, Files
<1>19. ASSUME NEW t \in Turner, LookForInstance(t) PROVE OffOK'
  BY <1>19 DEF LookForInstance, Go, Noticed, Ghosts, Files
<1>20. ASSUME NEW t \in Turner, Collect(t) PROVE OffOK'
  BY <1>20 DEF Collect, Go, Noticed, Files
<1>21. ASSUME NEW t \in Turner, EndTurn(t) PROVE OffOK'
  BY <1>21 DEF EndTurn, Go, Noticed, Files, Told
<1>22. ASSUME NEW t \in Turner, BeginGuestCall(t) PROVE OffOK'
  BY <1>22 DEF BeginGuestCall, Go, Noticed, Files, InCall
<1>23. ASSUME NEW t \in Turner, Install(t) PROVE OffOK'
  BY <1>23 DEF Install, Go, Noticed, Ghosts, Files
<1>24. ASSUME NEW t \in Turner, EnterGuest(t) PROVE OffOK'
  BY <1>24 DEF EnterGuest, Go, Noticed, Ghosts, Files
<1>25. ASSUME NEW t \in Turner, GuestWrites(t) PROVE OffOK'
  BY <1>25 DEF GuestWrites, Noticed, Files, InCall
<1>26. ASSUME NEW t \in Turner, GuestReturns(t) PROVE OffOK'
  BY <1>26 DEF GuestReturns, Go, Noticed, Files, InCall
<1>27. ASSUME NEW t \in Turner, GuestTraps(t) PROVE OffOK'
  BY <1>27 DEF GuestTraps, Go, Noticed, Ghosts, Files
<1>28. CASE Repackage
  BY <1>28 DEF Repackage
<1>29. CASE NameDirectory
  BY <1>29 DEF NameDirectory
<1>30. CASE UNCHANGED pluginVars
  BY <1>30 DEF pluginVars
<1> QED
  BY <1>1, <1>2, <1>3, <1>4, <1>5, <1>6, <1>7, <1>8, <1>9, <1>10, <1>11, <1>12, <1>13,
     <1>14, <1>15, <1>16, <1>17, <1>18, <1>19, <1>20, <1>21, <1>22, <1>23, <1>24, <1>25,
     <1>26, <1>27, <1>28, <1>29, <1>30
     DEF PluginNext

\* Every step keeps the slot with whoever is in the guest.
LEMMA SlotStep == PluginInv /\ [PluginNext]_pluginVars => SlotOK'
<1> SUFFICES ASSUME PluginInv, [PluginNext]_pluginVars PROVE SlotOK' OBVIOUS
<1> USE PluginAssumption DEF PluginInv, PluginTypeOK, PluginThread, Manager, Vacant,
   SlotOK, NoGuest
<1>1. ASSUME NEW a \in PluginThread, LoadRuntime(a) PROVE SlotOK'
  BY <1>1 DEF LoadRuntime, GiveUp, Go, Noticed, Ghosts, Files
<1>2. ASSUME NEW a \in PluginThread, LoadBytes(a) PROVE SlotOK'
 
    BY <1>2
       DEF LoadBytes, GiveUp, Go, Carry, Noticed, MayBecome, Become, Ghosts, Files,
          Validatable
<1>3. ASSUME NEW a \in PluginThread, LoadManifest(a) PROVE SlotOK'
  BY <1>3 DEF LoadManifest, GiveUp, Go, Carry, Noticed, Ghosts, Files
<1>4. ASSUME NEW a \in PluginThread, LoadInstance(a) PROVE SlotOK'
  BY <1>4 DEF LoadInstance, Go, Carry, Noticed, Ghosts, Files
<1>5. ASSUME NEW a \in PluginThread, LoadMark(a) PROVE SlotOK'
  BY <1>5 DEF LoadMark, GiveUp, Go, Noticed, MayBecome, Become, Ghosts, Files
<1>6. ASSUME NEW o \in {"enable", "disable", "update", "remove"}, AskPanel(o) PROVE SlotOK'
  BY <1>6 DEF AskPanel, Go, Files, InPanel
<1>7. CASE UpdateFinds
  BY <1>7 DEF UpdateFinds, Go, Carry, Panel, InPanel
<1>8. CASE UpdateLooks
  BY <1>8 DEF UpdateLooks, Go, MayBecome, Panel, InPanel
<1>9. CASE DropInstance
  BY <1>9 DEF DropInstance, Go, Panel, InPanel
<1>10. CASE TurnOff
  BY <1>10 DEF TurnOff, Go, MayBecome, Become, Panel, InPanel
<1>11. CASE Refresh
  BY <1>11 DEF Refresh, Go, Carry, DirectoryHolds, Panel, InPanel, Readable
<1>12. CASE TurnOn
  BY <1>12 DEF TurnOn, Go, MayBecome, Become, Panel, InPanel
<1>13. CASE Forget
  BY <1>13 DEF Forget, Go, Panel, InPanel
<1>14. CASE Erase
  BY <1>14 DEF Erase, Go, Panel, InPanel
<1>15. ASSUME NEW t \in Turner, TurnBegins(t) PROVE SlotOK'
  BY <1>15 DEF TurnBegins, Go, Carry, Noticed, Told
<1>16. ASSUME NEW t \in Turner, Discover(t) PROVE SlotOK'
  BY <1>16 DEF Discover, Go, Carry, Noticed, DirectoryHolds, Ghosts, Files
<1>17. ASSUME NEW t \in Turner, NoteDirectory(t) PROVE SlotOK'
  BY <1>17 DEF NoteDirectory, Go, Carry, Noticed, Ghosts
<1>18. ASSUME NEW t \in Turner, ListEnabled(t) PROVE SlotOK'
  BY <1>18 DEF ListEnabled, Go, Noticed, MayBecome, Ghosts, Files
<1>19. ASSUME NEW t \in Turner, LookForInstance(t) PROVE SlotOK'
  BY <1>19 DEF LookForInstance, Go, Noticed, Ghosts, Files
<1>20. ASSUME NEW t \in Turner, Collect(t) PROVE SlotOK'
  BY <1>20 DEF Collect, Go, Noticed, Files
<1>21. ASSUME NEW t \in Turner, EndTurn(t) PROVE SlotOK'
  BY <1>21 DEF EndTurn, Go, Noticed, Files, Told
<1>22. ASSUME NEW t \in Turner, BeginGuestCall(t) PROVE SlotOK'
  BY <1>22 DEF BeginGuestCall, Go, Noticed, Files, InCall
<1>23. ASSUME NEW t \in Turner, Install(t) PROVE SlotOK'
  BY <1>23 DEF Install, Go, Noticed, Ghosts, Files
<1>24. ASSUME NEW t \in Turner, EnterGuest(t) PROVE SlotOK'
  BY <1>24 DEF EnterGuest, Go, Noticed, Ghosts, Files
<1>25. ASSUME NEW t \in Turner, GuestWrites(t) PROVE SlotOK'
  BY <1>25 DEF GuestWrites, Noticed, Files, InCall
<1>26. ASSUME NEW t \in Turner, GuestReturns(t) PROVE SlotOK'
  BY <1>26 DEF GuestReturns, Go, Noticed, Files, InCall
<1>27. ASSUME NEW t \in Turner, GuestTraps(t) PROVE SlotOK'
  BY <1>27 DEF GuestTraps, Go, Noticed, Ghosts, Files
<1>28. CASE Repackage
  BY <1>28 DEF Repackage
<1>29. CASE NameDirectory
  BY <1>29 DEF NameDirectory
<1>30. CASE UNCHANGED pluginVars
  BY <1>30 DEF pluginVars
<1> QED
  BY <1>1, <1>2, <1>3, <1>4, <1>5, <1>6, <1>7, <1>8, <1>9, <1>10, <1>11, <1>12, <1>13,
     <1>14, <1>15, <1>16, <1>17, <1>18, <1>19, <1>20, <1>21, <1>22, <1>23, <1>24, <1>25,
     <1>26, <1>27, <1>28, <1>29, <1>30
     DEF PluginNext

\* Every step of the panel takes a refused update on.
LEMMA RestoreStep == PluginInv /\ [PluginNext]_pluginVars => RestoreOK'
<1> SUFFICES ASSUME PluginInv, [PluginNext]_pluginVars PROVE RestoreOK' OBVIOUS
<1> USE PluginAssumption DEF PluginInv, PluginTypeOK, PluginThread, Manager, Vacant,
   OffOK, RestoreOK, Kept, NoRecord, NoGuest
<1>1. ASSUME NEW a \in PluginThread, LoadRuntime(a) PROVE RestoreOK'
  BY <1>1 DEF LoadRuntime, GiveUp, Go, Noticed, Ghosts, Files
<1>2. ASSUME NEW a \in PluginThread, LoadBytes(a) PROVE RestoreOK'
  <2>1. CASE a # Manager
    BY <1>2, <2>1 DEF LoadBytes, GiveUp, Go, Noticed, Ghosts, Files
  <2>2. CASE a = Manager
    <3>1. CASE MayBecome(Validatable \cup {"Validated"})
      <4>1. plugin # NoRecord /\ Become("Validated")
        BY <1>2, <3>1
           DEF LoadBytes, MayBecome
      <4>2. plugin' = [state |-> "Validated", package |-> plugin.package]
        BY <4>1, Becomes DEF RecordState
      <4>3. UNCHANGED <<alone, was, saved, guest>>
        BY <1>2, <2>2, Zenon DEF LoadBytes, Noticed, Ghosts
      <4>4. /\ at[Manager] = "bytes" /\ at' = [at EXCEPT ![Manager] = "manifest"]
            /\ holds' = [holds EXCEPT ![Manager] = plugin.package]
        BY <1>2, <2>2, <3>1 DEF LoadBytes, Go, Carry
      <4> QED BY <4>2, <4>3, <4>4
    <3>2. CASE ~MayBecome(Validatable \cup {"Validated"})
     
        BY <1>2, <2>2, <3>2
           DEF LoadBytes, MayBecome, Validatable, GiveUp, Go, Noticed, Ghosts, Files
    <3> QED BY <3>1, <3>2
  <2> QED BY <2>1, <2>2
<1>3. ASSUME NEW a \in PluginThread, LoadManifest(a) PROVE RestoreOK'
  BY <1>3 DEF LoadManifest, GiveUp, Go, Carry, Noticed, Ghosts, Files
<1>4. ASSUME NEW a \in PluginThread, LoadInstance(a) PROVE RestoreOK'
  BY <1>4 DEF LoadInstance, Go, Carry, Noticed, Ghosts, Files
<1>5. ASSUME NEW a \in PluginThread, LoadMark(a) PROVE RestoreOK'
  <2>1. CASE a # Manager
    BY <1>5, <2>1 DEF LoadMark, GiveUp, Go, Noticed, Ghosts, Files
  <2>2. CASE a = Manager
    <3>1. CASE MayBecome({"Validated", "Disabled"})
      <4>1. plugin # NoRecord /\ Become("Loaded") BY <1>5, <3>1 DEF LoadMark, MayBecome
      <4>2. plugin' = [state |-> "Loaded", package |-> plugin.package]
        BY <4>1, Becomes DEF RecordState
      <4>3. UNCHANGED <<alone, was, saved, guest, holds>>
        BY <1>5, <2>2, Zenon DEF LoadMark, Noticed, Ghosts
      <4>4. /\ at[Manager] = "mark"
            /\ at' = [at EXCEPT ![Manager] = IF was THEN "enable" ELSE "idle"]
        BY <1>5, <2>2, <3>1 DEF LoadMark, Go
      <4> QED BY <4>2, <4>3, <4>4
    <3>2. CASE ~MayBecome({"Validated", "Disabled"})
      BY <1>5, <2>2, <3>2 DEF LoadMark, MayBecome, GiveUp, Go, Noticed, Ghosts, Files
    <3> QED BY <3>1, <3>2
  <2> QED BY <2>1, <2>2
<1>6. ASSUME NEW o \in {"enable", "disable", "update", "remove"}, AskPanel(o) PROVE RestoreOK'
  BY <1>6 DEF AskPanel, Go, Files, InPanel
<1>7. CASE UpdateFinds
  BY <1>7 DEF UpdateFinds, Go, Carry, Panel, InPanel
<1>8. CASE UpdateLooks
  BY <1>8 DEF UpdateLooks, Go, MayBecome, Panel, InPanel
<1>9. CASE DropInstance
  BY <1>9 DEF DropInstance, Go, Panel, InPanel
<1>10. CASE TurnOff
  <2>1. CASE MayBecome({"Enabled", "Loaded"})
    <3>1. plugin' = [state |-> "Disabled", package |-> plugin.package]
      BY <1>10, <2>1, Becomes DEF TurnOff, MayBecome, RecordState
    <3> QED BY <1>10, <2>1, <3>1 DEF TurnOff, Go, Panel, InPanel
  <2>2. CASE ~MayBecome({"Enabled", "Loaded"})
    BY <1>10, <2>2 DEF TurnOff, MayBecome, Go, Panel, InPanel
  <2> QED BY <2>1, <2>2
<1>11. CASE Refresh
  <2>1. CASE DirectoryHolds(holds[Manager]) \in Readable
    BY <1>11, <2>1 DEF Refresh, Go, Carry, Panel, InPanel
  <2>2. CASE DirectoryHolds(holds[Manager]) \notin Readable
    <3>1. CASE alone /\ was
      <4>1. plugin \in PluginRecord BY <1>11, <3>1 DEF Refresh, InPanel, PluginRecord
      <4> QED
        BY <1>11, <2>2, <3>1, <4>1
           DEF Refresh, Go, Carry, Panel, InPanel, PluginRecord
    <3>2. CASE ~(alone /\ was)
      BY <1>11, <2>2, <3>2 DEF Refresh, Go, Carry, Panel, InPanel
    <3> QED BY <3>1, <3>2
  <2> QED BY <2>1, <2>2
<1>12. CASE TurnOn
  BY <1>12 DEF TurnOn, Go, MayBecome, Become, Panel, InPanel
<1>13. CASE Forget
  BY <1>13 DEF Forget, Go, Panel, InPanel
<1>14. CASE Erase
  BY <1>14 DEF Erase, Go, Panel, InPanel
<1>15. ASSUME NEW t \in Turner, TurnBegins(t) PROVE RestoreOK'
  BY <1>15 DEF TurnBegins, Go, Carry, Noticed, Told
<1>16. ASSUME NEW t \in Turner, Discover(t) PROVE RestoreOK'
  BY <1>16 DEF Discover, Go, Carry, Noticed, DirectoryHolds, Ghosts, Files
<1>17. ASSUME NEW t \in Turner, NoteDirectory(t) PROVE RestoreOK'
  BY <1>17 DEF NoteDirectory, Go, Carry, Noticed, Ghosts
<1>18. ASSUME NEW t \in Turner, ListEnabled(t) PROVE RestoreOK'
  BY <1>18 DEF ListEnabled, Go, Noticed, MayBecome, Ghosts, Files
<1>19. ASSUME NEW t \in Turner, LookForInstance(t) PROVE RestoreOK'
  BY <1>19 DEF LookForInstance, Go, Noticed, Ghosts, Files
<1>20. ASSUME NEW t \in Turner, Collect(t) PROVE RestoreOK'
  BY <1>20 DEF Collect, Go, Noticed, Files
<1>21. ASSUME NEW t \in Turner, EndTurn(t) PROVE RestoreOK'
  BY <1>21 DEF EndTurn, Go, Noticed, Files, Told
<1>22. ASSUME NEW t \in Turner, BeginGuestCall(t) PROVE RestoreOK'
  BY <1>22 DEF BeginGuestCall, Go, Noticed, Files, InCall
<1>23. ASSUME NEW t \in Turner, Install(t) PROVE RestoreOK'
  <2>1. guest'.code = guest.code
    BY <1>23 DEF Install, Guest
  <2> QED BY <1>23, <2>1 DEF Install, Go, Noticed, Ghosts, Files
<1>24. ASSUME NEW t \in Turner, EnterGuest(t) PROVE RestoreOK'
  BY <1>24 DEF EnterGuest, Go, Noticed, Ghosts, Files
<1>25. ASSUME NEW t \in Turner, GuestWrites(t) PROVE RestoreOK'
  BY <1>25 DEF GuestWrites, Noticed, Files, InCall
<1>26. ASSUME NEW t \in Turner, GuestReturns(t) PROVE RestoreOK'
  BY <1>26 DEF GuestReturns, Go, Noticed, Files, InCall
<1>27. ASSUME NEW t \in Turner, GuestTraps(t) PROVE RestoreOK'
  BY <1>27 DEF GuestTraps, Go, Noticed, Ghosts, Files
<1>28. CASE Repackage
  BY <1>28 DEF Repackage
<1>29. CASE NameDirectory
  BY <1>29 DEF NameDirectory
<1>30. CASE UNCHANGED pluginVars
  BY <1>30 DEF pluginVars
<1> QED
  BY <1>1, <1>2, <1>3, <1>4, <1>5, <1>6, <1>7, <1>8, <1>9, <1>10, <1>11, <1>12, <1>13,
     <1>14, <1>15, <1>16, <1>17, <1>18, <1>19, <1>20, <1>21, <1>22, <1>23, <1>24, <1>25,
     <1>26, <1>27, <1>28, <1>29, <1>30
     DEF PluginNext

\* The invariant holds of every behaviour.
LEMMA PluginInvHolds == PluginSpec => []PluginInv
<1>1. PluginInv /\ [PluginNext]_pluginVars => PluginInv'
  BY PluginTypeStep, OffStep, SlotStep, RestoreStep DEF PluginInv
<1> QED BY <1>1, PluginInvInit, PTL DEF PluginSpec

\* Type correctness of the record, the instance and every thread's place.
THEOREM PluginTypeCorrect == PluginSpec => []PluginTypeOK
<1>1. PluginInv => PluginTypeOK BY DEF PluginInv
<1> QED BY <1>1, PluginInvHolds, PTL

\* A turn that began unwanted is not offered the plugin's tools, however
\* loads, updates and rediscoveries cross (PluginRuntime::register_enabled).
THEOREM OffStaysOff == PluginSpec => []OffMeansOff
<1>1. ASSUME PluginInv PROVE OffMeansOff
  BY <1>1 DEF PluginInv, PluginTypeOK, OffOK, OffMeansOff
<1> QED BY <1>1, PluginInvHolds, PTL

\* A call's evidence is of its own write (PluginRuntime::call).
THEOREM EvidenceStaysOwn == PluginSpec => []EvidenceIsOwn
<1>1. ASSUME PluginInv PROVE EvidenceIsOwn
  BY <1>1 DEF PluginInv, PluginTypeOK, SlotOK, EvidenceIsOwn
<1> QED BY <1>1, PluginInvHolds, PTL

\* A refused update restores what served, when its record's code runs
\* (PluginRuntime::update, PluginRegistry::update).
THEOREM RefusalRestores == PluginSpec => []RefusedUpdateRestores
<1>1. ASSUME PluginInv PROVE RefusedUpdateRestores
  BY <1>1, PluginAssumption
     DEF PluginInv, RestoreOK, Kept, RefusedUpdateRestores, InPanel, NoGuest, Vacant
<1> QED BY <1>1, PluginInvHolds, PTL

\* All three: what a plugin offers, what it reports, and what serves again.
THEOREM PluginsHonest == PluginSpec => []PluginsAreHonest
<1>1. OffMeansOff /\ EvidenceIsOwn /\ RefusedUpdateRestores => PluginsAreHonest
  BY DEF PluginsAreHonest
<1> QED BY <1>1, OffStaysOff, EvidenceStaysOwn, RefusalRestores, PTL

-----------------------------------------------------------------------------
(* 4. The helper program.                                                  *)

(* A call that waits for the readers, or looks at the picture, has a child *)
(* that ended; a reader that met the end has taken everything.             *)
CallOK ==
  /\ helper.at = "new" <=> aide = "none" /\ helper.at # "over"
  /\ helper.at \in {"join", "look"} => aide # "running"
  /\ helper.at = "drain" /\ ~helper.late => aide # "running"
  /\ helper.at \in {"drain", "look"} => helper.program = "pdftoppm"
  /\ helper.at = "join" => helper.program = "ffmpeg"
  /\ helper.at # "over" => helper.said = "none"
  /\ helper.at = "over" => aide # "running" /\ (helper.dir => helper.said = "not_spawned")
ReadersOK ==
  /\ aide = "none" => \A s \in Side : pipe[s].reader = "none"
  /\ \A s \in Side : pipe[s].reader = "finished" =>
       aide \notin {"none", "running"} /\ pipe[s].got = pipe[s].wrote
  /\ helper.said = "ok" =>
       aide = "succeeded" /\ (helper.program = "ffmpeg" => pipe["out"].reader = "finished")

HelperInv == HelperTypeOK /\ CallOK /\ ReadersOK

\* At the start no program has been looked for.
LEMMA HelperInvInit == HelperInit => HelperInv
<1> SUFFICES ASSUME HelperInit PROVE HelperInv OBVIOUS
<1>1. HelperTypeOK
  BY HelperAssumption DEF HelperInit, HelperTypeOK, HelperRecord, Pipe, Fresh
<1>2. CallOK /\ ReadersOK BY DEF HelperInit, CallOK, ReadersOK, Fresh
<1> QED BY <1>1, <1>2 DEF HelperInv

\* Every step keeps the types.
LEMMA HelperTypeStep == HelperInv /\ [HelperNext]_helperVars => HelperTypeOK'
<1> SUFFICES ASSUME HelperInv, [HelperNext]_helperVars PROVE HelperTypeOK' OBVIOUS
<1> USE HelperAssumption DEF HelperInv, HelperTypeOK, HelperRecord, Pipe, Side
<1>1. CASE Missing BY <1>1 DEF Missing, Say
<1>2. CASE StartHelper
  <2>1. \E a, b \in {"none", "later", "reading"} :
          pipe' = [s \in Side |-> [wrote |-> 0, got |-> 0,
                                  reader |-> IF s = "out" THEN a ELSE b]]
    <3>1. CASE helper.program = "ffmpeg" BY <1>2, <3>1 DEF StartHelper, Fresh
    <3>2. CASE helper.program # "ffmpeg" BY <1>2, <3>2 DEF StartHelper, Fresh
    <3> QED BY <3>1, <3>2
  <2>2. /\ aide' = "running" /\ helper.at = "new"
        /\ helper' = [helper EXCEPT !.at = "poll", !.dir = helper.program = "pdftoppm"]
    BY <1>2 DEF StartHelper
  <2>3. (helper.program = "pdftoppm") \in BOOLEAN BY Zenon
  <2>4. helper' \in HelperRecord BY <2>2, <2>3
  <2> QED BY <2>1, <2>2, <2>4
<1>3. CASE SpawnFails BY <1>3 DEF SpawnFails
<1>4. CASE AideEnds BY <1>4 DEF AideEnds
<1>5. CASE SeeEnd BY <1>5 DEF SeeEnd, At, Ended
<1>6. CASE Deadline BY <1>6 DEF Deadline
<1>7. CASE PollFails BY <1>7 DEF PollFails, Say
<1>8. CASE ReadLate BY <1>8 DEF ReadLate, At, Waiting, Accepts, Ended
<1>9. CASE Kill BY <1>9 DEF Kill, At, Say, Stopped
<1>10. CASE JoinReaders BY <1>10 DEF JoinReaders, Say, Joinable
<1>11. CASE TakePicture BY <1>11 DEF TakePicture, Say
<1>12. ASSUME NEW s \in Side, AideWrites(s) PROVE HelperTypeOK'
  BY <1>12 DEF AideWrites, Waiting
<1>13. ASSUME NEW s \in Side, Drain(s) PROVE HelperTypeOK'
  BY <1>13 DEF Drain, Waiting, Accepts, Ended
<1>14. CASE UNCHANGED helperVars BY <1>14 DEF helperVars
<1> QED
  BY <1>1, <1>2, <1>3, <1>4, <1>5, <1>6, <1>7, <1>8, <1>9, <1>10, <1>11, <1>12, <1>13,
     <1>14
     DEF HelperNext

\* Every step keeps the call and its child together.
LEMMA CallStep == HelperInv /\ [HelperNext]_helperVars => CallOK'
<1> SUFFICES ASSUME HelperInv, [HelperNext]_helperVars PROVE CallOK' OBVIOUS
<1> USE HelperAssumption DEF HelperInv, HelperTypeOK, HelperRecord, Pipe, Side, CallOK
<1>1. CASE Missing BY <1>1 DEF Missing, Say
<1>2. CASE StartHelper
  <2>1. \E a, b \in {"none", "later", "reading"} :
          pipe' = [s \in Side |-> [wrote |-> 0, got |-> 0,
                                  reader |-> IF s = "out" THEN a ELSE b]]
    <3>1. CASE helper.program = "ffmpeg" BY <1>2, <3>1 DEF StartHelper, Fresh
    <3>2. CASE helper.program # "ffmpeg" BY <1>2, <3>2 DEF StartHelper, Fresh
    <3> QED BY <3>1, <3>2
  <2>2. /\ aide' = "running" /\ helper.at = "new"
        /\ helper' = [helper EXCEPT !.at = "poll", !.dir = helper.program = "pdftoppm"]
    BY <1>2 DEF StartHelper
  <2> QED BY <2>1, <2>2
<1>3. CASE SpawnFails BY <1>3 DEF SpawnFails
<1>4. CASE AideEnds BY <1>4 DEF AideEnds
<1>5. CASE SeeEnd BY <1>5 DEF SeeEnd, At, Ended
<1>6. CASE Deadline BY <1>6 DEF Deadline
<1>7. CASE PollFails BY <1>7 DEF PollFails, Say
<1>8. CASE ReadLate BY <1>8 DEF ReadLate, At, Waiting, Accepts, Ended
<1>9. CASE Kill BY <1>9 DEF Kill, At, Say, Stopped
<1>10. CASE JoinReaders BY <1>10 DEF JoinReaders, Say, Joinable
<1>11. CASE TakePicture BY <1>11 DEF TakePicture, Say
<1>12. ASSUME NEW s \in Side, AideWrites(s) PROVE CallOK'
  BY <1>12 DEF AideWrites, Waiting
<1>13. ASSUME NEW s \in Side, Drain(s) PROVE CallOK'
  BY <1>13 DEF Drain, Waiting, Accepts, Ended
<1>14. CASE UNCHANGED helperVars BY <1>14 DEF helperVars
<1> QED
  BY <1>1, <1>2, <1>3, <1>4, <1>5, <1>6, <1>7, <1>8, <1>9, <1>10, <1>11, <1>12, <1>13,
     <1>14
     DEF HelperNext

\* Every step keeps what a reader that met the end knows.
LEMMA ReadersStep == HelperInv /\ [HelperNext]_helperVars => ReadersOK'
<1> SUFFICES ASSUME HelperInv, [HelperNext]_helperVars PROVE ReadersOK' OBVIOUS
<1> USE HelperAssumption DEF HelperInv, HelperTypeOK, HelperRecord, Pipe, Side, CallOK,
   ReadersOK
<1>1. CASE Missing BY <1>1 DEF Missing, Say
<1>2. CASE StartHelper
  <2>1. \E a, b \in {"none", "later", "reading"} :
          pipe' = [s \in Side |-> [wrote |-> 0, got |-> 0,
                                  reader |-> IF s = "out" THEN a ELSE b]]
    <3>1. CASE helper.program = "ffmpeg" BY <1>2, <3>1 DEF StartHelper, Fresh
    <3>2. CASE helper.program # "ffmpeg" BY <1>2, <3>2 DEF StartHelper, Fresh
    <3> QED BY <3>1, <3>2
  <2>2. /\ aide' = "running" /\ helper.at = "new"
        /\ helper' = [helper EXCEPT !.at = "poll", !.dir = helper.program = "pdftoppm"]
    BY <1>2 DEF StartHelper
  <2> QED BY <2>1, <2>2
<1>3. CASE SpawnFails BY <1>3 DEF SpawnFails
<1>4. CASE AideEnds BY <1>4 DEF AideEnds
<1>5. CASE SeeEnd BY <1>5 DEF SeeEnd, At, Ended
<1>6. CASE Deadline BY <1>6 DEF Deadline
<1>7. CASE PollFails BY <1>7 DEF PollFails, Say
<1>8. CASE ReadLate BY <1>8 DEF ReadLate, At, Waiting, Accepts, Ended
<1>9. CASE Kill BY <1>9 DEF Kill, At, Say, Stopped
<1>10. CASE JoinReaders BY <1>10 DEF JoinReaders, Say, Joinable
<1>11. CASE TakePicture BY <1>11 DEF TakePicture, Say
<1>12. ASSUME NEW s \in Side, AideWrites(s) PROVE ReadersOK'
  BY <1>12 DEF AideWrites, Waiting
<1>13. ASSUME NEW s \in Side, Drain(s) PROVE ReadersOK'
  <2>1. ASSUME NEW r \in Side, pipe'[r].reader = "finished"
        PROVE  aide \notin {"none", "running"} /\ pipe'[r].got = pipe'[r].wrote
    <3>1. CASE r # s BY <1>13, <2>1, <3>1 DEF Drain
    <3>2. CASE r = s BY <1>13, <2>1, <3>2 DEF Drain, Waiting, Accepts, Ended
    <3> QED BY <3>1, <3>2
  <2>2. pipe["out"].reader = "finished" => pipe'["out"].reader = "finished"
    BY <1>13 DEF Drain
  <2>3. UNCHANGED <<helper, aide>> /\ aide # "none" BY <1>13 DEF Drain
  <2> QED BY <2>1, <2>2, <2>3
<1>14. CASE UNCHANGED helperVars BY <1>14 DEF helperVars
<1> QED
  BY <1>1, <1>2, <1>3, <1>4, <1>5, <1>6, <1>7, <1>8, <1>9, <1>10, <1>11, <1>12, <1>13,
     <1>14
     DEF HelperNext

\* The invariant holds of every behaviour.
LEMMA HelperInvHolds == HelperSpec => []HelperInv
<1>1. HelperInv /\ [HelperNext]_helperVars => HelperInv'
  BY HelperTypeStep, CallStep, ReadersStep DEF HelperInv
<1> QED BY <1>1, HelperInvInit, PTL DEF HelperSpec

\* Type correctness of the call, its child and its pipes.
THEOREM HelperTypeCorrect == HelperSpec => []HelperTypeOK
<1>1. HelperInv => HelperTypeOK BY DEF HelperInv
<1> QED BY <1>1, HelperInvHolds, PTL

\* A call that is over has reaped its child, removed its directory, held no
\* more than the limit and told only of a whole output as good, whatever the
\* sizes of pipes and outputs (run_ffmpeg, run_bounded, render_pdf_page).
THEOREM HelpersReaped == HelperSpec => []HelpersAreReaped
<1>1. ASSUME HelperInv PROVE HelpersAreReaped
  BY <1>1, HelperAssumption
     DEF HelperInv, HelperTypeOK, CallOK, ReadersOK, HelpersAreReaped, Side, Pipe
<1> QED BY <1>1, HelperInvHolds, PTL

-----------------------------------------------------------------------------
(* 5. The reviews of a step.                                               *)
Count(b) == IF b THEN 1 ELSE 0

-----------------------------------------------------------------------------
(* The books of the approvals.                                             *)
Booked(n) ==
  served[n] + Count(Covers(stash, n))
            + Count(stepRun.at = "invoke" /\ Covers(stepRun.ticket, n)) <= approved[n]

LedgerOK ==
  /\ \A n \in StepNeed : Booked(n)
  /\ stepRun.at \in {"commit", "use"} => stepRun.need \in StepNeed
  /\ stepRun.at = "use" => served[stepRun.need] + 1 <= approved[stepRun.need]

(* The books of the effects of a tool step.                                *)
EffectsOK ==
  step.kind = "tool" =>
    /\ stepRun.at \notin {"turn", "commit", "use"}
    /\ stepRun.at \in {"replay", "take", "invoke", "record"} => step.attempts \notin DOMAIN receipts
    /\ stepRun.at \in {"take", "invoke", "record"} => ~SuccessReceipt
    /\ effects <= unknown + Count(SuccessReceipt \/ HadEffect)
    /\ SuccessReceipt \/ stepRun.outcome \in {"success", "late", "replayed"} \/ step.status = "done"
         => effects > 0

(* A worker works on an attempt that was counted, and records what a tool  *)
(* made of its call.                                                       *)
WorkerOK ==
  /\ stepRun.at # "idle" => step.attempts > 0
  /\ stepRun.at = "record" => stepRun.outcome \in {"success", "failed", "late", "unknown"}

ReviewInv == ReviewTypeOK /\ WorkerOK /\ LedgerOK /\ EffectsOK

-----------------------------------------------------------------------------
\* Counting one more keeps counts natural, whether the key is one of theirs or not.
LEMMA OneMore ==
  ASSUME NEW S, NEW f \in [S -> Nat], NEW x
  PROVE  [f EXCEPT ![x] = @ + 1] \in [S -> Nat]
<1>1. ASSUME NEW y \in S PROVE [f EXCEPT ![x] = @ + 1][y] \in Nat
  OBVIOUS
<1> QED BY <1>1

\* The invariant holds of a task whose step nobody has run.
LEMMA ReviewInvInit == ReviewInit => ReviewInv
<1> SUFFICES ASSUME ReviewInit PROVE ReviewInv OBVIOUS
<1> USE DEF ReviewInit, NoRun, NoTicket, StepRecord, RunRecord, TicketRecord, ReviewRecord, StepNeeds
<1>1. ReviewTypeOK BY DEF ReviewTypeOK, NoReview
<1>2. WorkerOK BY DEF WorkerOK
<1>3. LedgerOK BY DEF LedgerOK, Booked, Covers, Count
<1>4. EffectsOK BY DEF EffectsOK, SuccessReceipt, HadEffect, RunIs, Count
<1> QED BY <1>1, <1>2, <1>3, <1>4 DEF ReviewInv

\* Every step keeps the types.
LEMMA TypeStep == ReviewInv /\ [ReviewNext]_reviewVars => ReviewTypeOK'
<1> SUFFICES ASSUME ReviewInv, [ReviewNext]_reviewVars PROVE ReviewTypeOK' OBVIOUS
<1> USE DEF ReviewInv, ReviewTypeOK, WorkerOK
<1>1. CASE ClaimStep
  <2>1. step' \in StepRecord
    <3>1. step' = [step EXCEPT !.status = "running", !.attempts = step.attempts + 1]
      BY <1>1 DEF ClaimStep, CountAttempt
    <3>2. step.attempts + 1 \in Nat BY DEF StepRecord
    <3> QED BY <3>1, <3>2 DEF StepRecord
  <2>2. stepRun' \in RunRecord
    BY <1>1 DEF ClaimStep, NoRun, NoTicket, RunRecord, TicketRecord, StepNeeds
  <2>3. DOMAIN receipts' \subseteq 1 .. step'.attempts
    BY <1>1 DEF ClaimStep, CountAttempt, StepRecord
  <2>4. (stepRun.at = "idle" \/ step.status = "running")'
    BY <1>1 DEF ClaimStep
  <2> QED BY <1>1, <2>1, <2>2, <2>3, <2>4 DEF ClaimStep
<1>2. CASE ReplayOrGoOn
  <2>1. (stepRun.at = "idle" \/ step.status = "running")'
    BY <1>2 DEF ReplayOrGoOn, RunIs
  <2>2. stepRun' \in RunRecord
    BY <1>2 DEF ReplayOrGoOn, RunEnds, RunGoes, RunRecord
  <2> QED BY <1>2, <2>1, <2>2 DEF ReplayOrGoOn
<1>3. CASE TakeTicket
  <2>1. (stepRun.at = "idle" \/ step.status = "running")'
    BY <1>3 DEF TakeTicket, RunIs
  <2>2. stepRun' \in RunRecord
    BY <1>3 DEF TakeTicket, NoTicket, RunRecord, TicketRecord, StepNeeds
  <2>3. stash' \in TicketRecord
    BY <1>3 DEF TakeTicket, StashTaken, NoTicket, TicketRecord, StepNeeds
  <2> QED BY <1>3, <2>1, <2>2, <2>3 DEF TakeTicket
<1>4. CASE InvokeTool
  <2>1. (stepRun.at = "idle" \/ step.status = "running")'
    BY <1>4 DEF InvokeTool, RunIs
  <2>2. stepRun' \in RunRecord
    BY <1>4 DEF InvokeTool, StepRecord, RunRecord
  <2>3. approved' \in [StepNeed -> Nat] /\ served' \in [StepNeed -> Nat]
    BY <1>4 DEF InvokeTool, Passes
  <2>4. effects' \in Nat /\ unknown' \in Nat
    BY <1>4 DEF InvokeTool
  <2> QED BY <1>4, <2>1, <2>2, <2>3, <2>4 DEF InvokeTool
<1>5. CASE RecordReceipt
  <2>1. (stepRun.at = "idle" \/ step.status = "running")'
    BY <1>5 DEF RecordReceipt, RunIs
  <2>2. stepRun' \in RunRecord
    BY <1>5 DEF RecordReceipt, RunGoes, RunRecord
  <2>3. /\ receipts' \in [DOMAIN receipts' -> {"success", "failed", "unknown"}]
       /\ DOMAIN receipts' \subseteq 1 .. step'.attempts
    <3>1. ReceiptOf(stepRun.outcome) \in {"success", "failed", "unknown"}
      BY <1>5 DEF RecordReceipt, RunIs, ReceiptOf
    <3>2. step.attempts \in 1 .. step.attempts
      BY <1>5 DEF RecordReceipt, RunIs, StepRecord
    <3> QED BY <1>5, <3>1, <3>2 DEF RecordReceipt, Recorded
  <2>4. effects' \in Nat /\ unknown' \in Nat
    BY <1>5 DEF RecordReceipt
  <2> QED BY <1>5, <2>1, <2>2, <2>3, <2>4 DEF RecordReceipt
<1>6. CASE AgentTurn
  <2>1. (stepRun.at = "idle" \/ step.status = "running")'
    BY <1>6 DEF AgentTurn, RunIs
  <2>2. stepRun' \in RunRecord
    <3>1. stepRun.calls + 1 \in Nat BY DEF RunRecord
    <3> QED BY <1>6, <3>1 DEF AgentTurn, RunIs, RunEnds, RunRecord, StepNeeds
  <2> QED BY <1>6, <2>1, <2>2 DEF AgentTurn
<1>7. CASE CommitCall
  <2>1. (stepRun.at = "idle" \/ step.status = "running")'
    BY <1>7 DEF CommitCall, RunIs
  <2>2. stepRun' \in RunRecord
    BY <1>7 DEF CommitCall, RunGoes, RunRecord
  <2> QED BY <1>7, <2>1, <2>2 DEF CommitCall
<1>8. CASE UseTicket
  <2>1. (stepRun.at = "idle" \/ step.status = "running")'
    BY <1>8 DEF UseTicket, RunIs
  <2>2. stepRun' \in RunRecord
    BY <1>8 DEF UseTicket, RunGoes, RunRecord
  <2>3. stash' \in TicketRecord
    BY <1>8 DEF UseTicket, StashTaken, NoTicket, TicketRecord, StepNeeds
  <2>4. approved' \in [StepNeed -> Nat] /\ served' \in [StepNeed -> Nat]
    BY <1>8, OneMore DEF UseTicket
  <2> QED BY <1>8, <2>1, <2>2, <2>3, <2>4 DEF UseTicket
<1>9. CASE StoreOutcome
  <2>1. (stepRun.at = "idle" \/ step.status = "running")'
    BY <1>9 DEF StoreOutcome, NoRun
  <2>2. step' \in StepRecord
    BY <1>9 DEF StoreOutcome, AfterFailure, StepRecord, RunRecord
  <2>3. stepRun' \in RunRecord
    BY <1>9 DEF StoreOutcome, NoRun, NoTicket, RunRecord, TicketRecord, StepNeeds
  <2>4. /\ receipts' \in [DOMAIN receipts' -> {"success", "failed", "unknown"}]
       /\ DOMAIN receipts' \subseteq 1 .. step'.attempts
    BY <1>9 DEF StoreOutcome, StepRecord
  <2> QED BY <1>9, <2>1, <2>2, <2>3, <2>4 DEF StoreOutcome
<1>10. CASE StepTimesOut
  <2>1. (stepRun.at = "idle" \/ step.status = "running")'
    BY <1>10 DEF StepTimesOut
  <2>2. stepRun' \in RunRecord
    BY <1>10 DEF StepTimesOut, RunEnds, RunRecord
  <2>3. approved' \in [StepNeed -> Nat] /\ served' \in [StepNeed -> Nat]
    BY <1>10 DEF StepTimesOut, Passes
  <2>4. effects' \in Nat /\ unknown' \in Nat
    BY <1>10 DEF StepTimesOut
  <2> QED BY <1>10, <2>1, <2>2, <2>3, <2>4 DEF StepTimesOut
<1>11. CASE HostDies
  <2>1. (stepRun.at = "idle" \/ step.status = "running")'
    BY <1>11 DEF HostDies, NoRun
  <2>2. step' \in StepRecord
    BY <1>11 DEF HostDies, Recovers, AfterFailure, StepRecord
  <2>3. stepRun' \in RunRecord
    BY <1>11 DEF HostDies, NoRun, NoTicket, RunRecord, TicketRecord, StepNeeds
  <2>4. stash' \in TicketRecord
    BY <1>11 DEF HostDies, NoTicket, TicketRecord, StepNeeds
  <2>5. /\ receipts' \in [DOMAIN receipts' -> {"success", "failed", "unknown"}]
       /\ DOMAIN receipts' \subseteq 1 .. step'.attempts
    BY <1>11 DEF HostDies
  <2>6. review' \in [Reviewer -> ReviewRecord]
    BY <1>11 DEF HostDies, NoReview, StepNeeds, ReviewRecord
  <2>7. effects' \in Nat /\ unknown' \in Nat
    BY <1>11 DEF HostDies
  <2> QED BY <1>11, <2>1, <2>2, <2>3, <2>4, <2>5, <2>6, <2>7 DEF HostDies
<1>12. CASE TicketExpires
  <2>1. stash' \in TicketRecord
    BY <1>12 DEF TicketExpires, TicketRecord
  <2> QED BY <1>12, <2>1 DEF TicketExpires
<1>13. ASSUME NEW r \in Reviewer, OpenReview(r) PROVE ReviewTypeOK'
  <2>1. review' \in [Reviewer -> ReviewRecord]
    <3>1. step.need \in StepNeeds BY DEF StepRecord
    <3>2. [at |-> "stash", need |-> step.need, approve |-> TRUE] \in ReviewRecord
      BY <3>1 DEF ReviewRecord
    <3>3. [at |-> "resume", need |-> step.need, approve |-> FALSE] \in ReviewRecord
      BY <3>1 DEF ReviewRecord
    <3> QED BY <1>13, <3>2, <3>3 DEF OpenReview
  <2> QED BY <1>13, <2>1 DEF OpenReview
<1>14. ASSUME NEW r \in Reviewer, StashTicket(r) PROVE ReviewTypeOK'
  <2>1. stash' \in TicketRecord
    BY <1>14 DEF StashTicket, TicketRecord, ReviewRecord
  <2>2. approved' \in [StepNeed -> Nat] /\ served' \in [StepNeed -> Nat]
    BY <1>14, OneMore DEF StashTicket
  <2>3. review' \in [Reviewer -> ReviewRecord]
    BY <1>14 DEF StashTicket, ReviewRecord
  <2> QED BY <1>14, <2>1, <2>2, <2>3 DEF StashTicket
<1>15. ASSUME NEW r \in Reviewer, ResumeTask(r) PROVE ReviewTypeOK'
  <2>1. step' \in StepRecord
    BY <1>15 DEF ResumeTask, StepRecord
  <2>2. /\ receipts' \in [DOMAIN receipts' -> {"success", "failed", "unknown"}]
       /\ DOMAIN receipts' \subseteq 1 .. step'.attempts
    BY <1>15 DEF ResumeTask
  <2>3. (stepRun.at = "idle" \/ step.status = "running")'
    BY <1>15 DEF ResumeTask, StillParked
  <2>4. review' \in [Reviewer -> ReviewRecord]
    BY <1>15 DEF ResumeTask, NoReview, StepNeeds, ReviewRecord
  <2> QED BY <1>15, <2>1, <2>2, <2>3, <2>4 DEF ResumeTask
<1>16. CASE UNCHANGED reviewVars
  BY <1>16 DEF reviewVars
<1> QED BY <1>1, <1>2, <1>3, <1>4, <1>5, <1>6, <1>7, <1>8, <1>9, <1>10,
           <1>11, <1>12, <1>13, <1>14, <1>15, <1>16 DEF ReviewNext, RunnerStep

\* Every step keeps the worker on a counted attempt.
LEMMA WorkerStep == ReviewInv /\ [ReviewNext]_reviewVars => WorkerOK'
<1> SUFFICES ASSUME ReviewInv, [ReviewNext]_reviewVars PROVE WorkerOK' OBVIOUS
<1> USE DEF ReviewInv, ReviewTypeOK, WorkerOK, StepRecord, RunRecord, TicketRecord, StepNeeds
<1>1. CASE ClaimStep
  BY <1>1 DEF ClaimStep, CountAttempt
<1>2. CASE ReplayOrGoOn
  BY <1>2 DEF ReplayOrGoOn, RunIs, RunEnds, RunGoes
<1>3. CASE TakeTicket
  BY <1>3 DEF TakeTicket, RunIs
<1>4. CASE InvokeTool
  BY <1>4 DEF InvokeTool, RunIs
<1>5. CASE RecordReceipt
  BY <1>5 DEF RecordReceipt, RunIs, RunGoes
<1>6. CASE AgentTurn
  BY <1>6 DEF AgentTurn, RunIs, RunEnds
<1>7. CASE CommitCall
  BY <1>7 DEF CommitCall, RunIs, RunGoes
<1>8. CASE UseTicket
  BY <1>8 DEF UseTicket, RunIs, RunGoes
<1>9. CASE StoreOutcome
  BY <1>9 DEF StoreOutcome, NoRun
<1>10. CASE StepTimesOut
  BY <1>10 DEF StepTimesOut, RunEnds
<1>11. CASE HostDies
  BY <1>11 DEF HostDies, NoRun
<1>12. CASE TicketExpires
  BY <1>12 DEF TicketExpires
<1>13. ASSUME NEW r \in Reviewer, OpenReview(r) PROVE WorkerOK'
  BY <1>13 DEF OpenReview
<1>14. ASSUME NEW r \in Reviewer, StashTicket(r) PROVE WorkerOK'
  BY <1>14 DEF StashTicket
<1>15. ASSUME NEW r \in Reviewer, ResumeTask(r) PROVE WorkerOK'
  BY <1>15 DEF ResumeTask
<1>16. CASE UNCHANGED reviewVars
  BY <1>16 DEF reviewVars
<1> QED BY <1>1, <1>2, <1>3, <1>4, <1>5, <1>6, <1>7, <1>8, <1>9, <1>10,
           <1>11, <1>12, <1>13, <1>14, <1>15, <1>16 DEF ReviewNext, RunnerStep

\* Every step keeps the books of the approvals.
LEMMA LedgerStep == ReviewInv /\ [ReviewNext]_reviewVars => LedgerOK'
<1> SUFFICES ASSUME ReviewInv, [ReviewNext]_reviewVars PROVE LedgerOK' OBVIOUS
<1> USE DEF ReviewInv, ReviewTypeOK, LedgerOK, Booked, Covers, Count,
            StepRecord, RunRecord, TicketRecord, StepNeeds
<1>1. CASE ClaimStep
  BY <1>1 DEF ClaimStep
<1>2. CASE ReplayOrGoOn
  BY <1>2 DEF ReplayOrGoOn, RunIs, RunEnds, RunGoes
<1>3. CASE TakeTicket
  BY <1>3 DEF TakeTicket, StashTaken, NoTicket
<1>4. CASE InvokeTool
  <2> SUFFICES ASSUME NEW n \in StepNeed PROVE Booked(n)' BY <1>4 DEF InvokeTool, RunIs
  <2>1. Booked(n) OBVIOUS
  <2>2. CASE stepRun'.at = "apply" /\ UNCHANGED served
    BY <1>4, <2>1, <2>2 DEF InvokeTool
  <2>3. CASE Passes /\ stepRun'.at = "record"
    BY <1>4, <2>1, <2>3 DEF InvokeTool, Passes, RunIs
  <2> QED BY <1>4, <2>2, <2>3 DEF InvokeTool, RunIs
<1>5. CASE RecordReceipt
  BY <1>5 DEF RecordReceipt, RunGoes
<1>6. CASE AgentTurn
  BY <1>6 DEF AgentTurn, RunIs, RunEnds
<1>7. CASE CommitCall
  <2>1. \A m \in StepNeed : Booked(m)' BY <1>7 DEF CommitCall, RunIs, RunGoes
  <2>2. CASE ~Covers(stash, stepRun.need) BY <1>7, <2>1, <2>2 DEF CommitCall, RunIs, RunGoes
  <2>3. CASE Covers(stash, stepRun.need)
    BY <1>7, <2>1, <2>3 DEF CommitCall, RunIs, RunGoes
  <2> QED BY <2>2, <2>3
<1>8. CASE UseTicket
  BY <1>8 DEF UseTicket, RunIs, RunGoes, StashTaken, NoTicket
<1>9. CASE StoreOutcome
  BY <1>9 DEF StoreOutcome, NoRun
<1>10. CASE StepTimesOut
  BY <1>10 DEF StepTimesOut, RunIs, RunEnds, Passes
<1>11. CASE HostDies
  BY <1>11 DEF HostDies, NoRun, NoTicket
<1>12. CASE TicketExpires
  BY <1>12 DEF TicketExpires
<1>13. ASSUME NEW r \in Reviewer, OpenReview(r) PROVE LedgerOK'
  BY <1>13 DEF OpenReview
<1>14. ASSUME NEW r \in Reviewer, StashTicket(r) PROVE LedgerOK'
  BY <1>14 DEF StashTicket
<1>15. ASSUME NEW r \in Reviewer, ResumeTask(r) PROVE LedgerOK'
  BY <1>15 DEF ResumeTask
<1>16. CASE UNCHANGED reviewVars
  BY <1>16 DEF reviewVars
<1> QED BY <1>1, <1>2, <1>3, <1>4, <1>5, <1>6, <1>7, <1>8, <1>9, <1>10,
           <1>11, <1>12, <1>13, <1>14, <1>15, <1>16 DEF ReviewNext, RunnerStep

\* Every step keeps the books of the effects.
LEMMA EffectsStep == ReviewInv /\ [ReviewNext]_reviewVars => EffectsOK'
<1> SUFFICES ASSUME ReviewInv, [ReviewNext]_reviewVars PROVE EffectsOK' OBVIOUS
<1> USE DEF ReviewInv, ReviewTypeOK, WorkerOK, EffectsOK, SuccessReceipt, HadEffect, RunIs, Count,
            StepRecord, RunRecord, TicketRecord, StepNeeds
<1>1. CASE ClaimStep
  BY <1>1 DEF ClaimStep, CountAttempt, NoRun
<1>2. CASE ReplayOrGoOn
  BY <1>2 DEF ReplayOrGoOn, RunEnds, RunGoes
<1>3. CASE TakeTicket
  BY <1>3 DEF TakeTicket
<1>4. CASE InvokeTool
  <2> SUFFICES ASSUME step.kind = "tool" PROVE EffectsOK' BY <1>4 DEF InvokeTool
  <2>1. effects <= unknown /\ ~SuccessReceipt /\ step.attempts \notin DOMAIN receipts
    BY <1>4 DEF InvokeTool
  <2>2. CASE stepRun' = [stepRun EXCEPT !.at = "apply", !.outcome = "review", !.need = step.need]
             /\ UNCHANGED effects
    BY <1>4, <2>1, <2>2 DEF InvokeTool
  <2>3. ASSUME NEW outcome \in {"success", "failed", "late", "unknown"},
               stepRun' = [stepRun EXCEPT !.at = "record", !.outcome = outcome],
               effects' = IF outcome \in {"success", "late"} THEN effects + 1 ELSE effects
        PROVE EffectsOK'
    BY <1>4, <2>1, <2>3 DEF InvokeTool
  <2> QED BY <1>4, <2>2, <2>3 DEF InvokeTool
<1>5. CASE RecordReceipt
  BY <1>5 DEF RecordReceipt, Recorded, ReceiptOf, RunGoes
<1>6. CASE AgentTurn
  BY <1>6 DEF AgentTurn
<1>7. CASE CommitCall
  BY <1>7 DEF CommitCall
<1>8. CASE UseTicket
  BY <1>8 DEF UseTicket
<1>9. CASE StoreOutcome
  BY <1>9 DEF StoreOutcome, NoRun, AfterFailure
<1>10. CASE StepTimesOut
  BY <1>10 DEF StepTimesOut, RunEnds
<1>11. CASE HostDies
  BY <1>11 DEF HostDies, Recovers, AfterFailure, NoRun
<1>12. CASE TicketExpires
  BY <1>12 DEF TicketExpires
<1>13. ASSUME NEW r \in Reviewer, OpenReview(r) PROVE EffectsOK'
  BY <1>13 DEF OpenReview
<1>14. ASSUME NEW r \in Reviewer, StashTicket(r) PROVE EffectsOK'
  BY <1>14 DEF StashTicket
<1>15. ASSUME NEW r \in Reviewer, ResumeTask(r) PROVE EffectsOK'
  BY <1>15 DEF ResumeTask
<1>16. CASE UNCHANGED reviewVars
  BY <1>16 DEF reviewVars
<1> QED BY <1>1, <1>2, <1>3, <1>4, <1>5, <1>6, <1>7, <1>8, <1>9, <1>10,
           <1>11, <1>12, <1>13, <1>14, <1>15, <1>16 DEF ReviewNext, RunnerStep

\* The invariant holds of every behaviour.
LEMMA ReviewInvHolds == ReviewSpec => []ReviewInv
<1>1. ReviewInv /\ [ReviewNext]_reviewVars => ReviewInv'
  BY TypeStep, WorkerStep, LedgerStep, EffectsStep DEF ReviewInv
<1> QED BY <1>1, ReviewInvInit, PTL DEF ReviewSpec

\* Type correctness: the row, the receipts' keys among the attempts made, the
\* worker and the reviews (Executor, ToolRunner, TaskHost::review).
THEOREM ReviewTypeCorrect == ReviewSpec => []ReviewTypeOK
<1>1. ReviewInv => ReviewTypeOK BY DEF ReviewInv
<1> QED BY <1>1, ReviewInvHolds, PTL

\* However reviews overlap and tickets are replaced, expire or are lost, no
\* more calls pass than were approved, need by need (HostServices, CapabilityTicket).
THEOREM ApprovalsServeOneCall == ReviewSpec => []ApprovalServesOneCall
<1>1. ASSUME ReviewInv PROVE ApprovalServesOneCall
  BY <1>1 DEF ReviewInv, ReviewTypeOK, LedgerOK, Booked, Count, ApprovalServesOneCall
<1> QED BY <1>1, ReviewInvHolds, PTL

\* The receipts of a tool step tell the truth: an effect comes twice only
\* when the first left no success receipt, and a completed step had one
\* (ToolRunner::invoke_tool, record_attempt, replay_if_succeeded).
THEOREM ReceiptsAreTrue == ReviewSpec => []ReceiptsTellTheTruth
<1>1. ASSUME ReviewInv PROVE ReceiptsTellTheTruth
  BY <1>1 DEF ReviewInv, ReviewTypeOK, EffectsOK, Count, ReceiptsTellTheTruth,
              EffectRepeatsOnlyWhenUnknown, CompletionHadEffect
<1> QED BY <1>1, ReviewInvHolds, PTL

\* Both: what a durable step was allowed and what it is taken to have done.
THEOREM ReviewsHonest == ReviewSpec => []ReviewsAreHonest
<1>1. ApprovalServesOneCall /\ ReceiptsTellTheTruth => ReviewsAreHonest
  BY DEF ReviewsAreHonest
<1> QED BY <1>1, ApprovalsServeOneCall, ReceiptsAreTrue, PTL


-----------------------------------------------------------------------------
(* 6. The MCP servers.                                                     *)
RegistrarAt == {"idle", "sync", "ready", "config", "token", "connect", "store", "list", "record"}
AtServer == RegistrarAt \ {"idle", "sync", "ready"}
McpClient == {<<>>} \cup (Config \X Nat)
McpEntry == [config : Config \cup {Absent}, client : McpClient, tools : BOOLEAN]
McpCall == [at : RegistrarAt, server : Server \cup {Absent}, wanted : Setting,
            client : McpClient \cup {<<c>> : c \in Config}]

McpShape ==
  /\ mcpSetting \in Setting /\ mcpSlot \in Setting /\ synced \in Setting
  /\ mcpToken \in [Server -> Nat] /\ saves \in 0 .. MaxSaves
  /\ servers \in [Server -> McpEntry] /\ registrar \in [Registrar -> McpCall]
  /\ dropping \subseteq Server /\ raced \subseteq Server

(* What a registrar has in hand at each of its steps.                      *)
RegistrarOK ==
  \A r \in Registrar :
    /\ registrar[r].at \in AtServer => registrar[r].server \in Server
    /\ registrar[r].at = "token" => \E c \in Config : registrar[r].client = <<c>>
    /\ registrar[r].at \in {"connect", "store", "list", "record"} =>
         registrar[r].client \in Config \X Nat

TokensOK == \A s \in Server : mcpToken[s] <= saves
EntriesOK == \A s \in Server : servers[s].config = Absent => servers[s] = NoServer

McpInv ==
  McpShape /\ RegistrarOK /\ TokensOK /\ EntriesOK /\ TableIsSynced /\ ClientFollowsConfig

-----------------------------------------------------------------------------
LEMMA NoTokens ==
  ASSUME saves = 0, \A s \in Server : mcpToken[s] = 0
  PROVE  TokensOK
BY DEF TokensOK

\* The invariant holds of a host that has no server yet.
LEMMA McpInvInit == McpInit => McpInv
<1> SUFFICES ASSUME McpInit PROVE McpInv OBVIOUS
<1> USE McpAssumption DEF McpInit, NoServer, NoRegistrar
<1>1. McpShape
  BY DEF McpShape, Setting, McpEntry, McpCall, RegistrarAt, McpClient
<1>2. RegistrarOK BY DEF RegistrarOK, AtServer
<1>3. TokensOK
  <2>1. saves = 0 /\ \A s \in Server : mcpToken[s] = 0 OBVIOUS
  <2> QED BY <2>1, NoTokens
<1>4. EntriesOK BY DEF EntriesOK
<1>5. TableIsSynced BY DEF TableIsSynced
<1>6. ClientFollowsConfig BY DEF ClientFollowsConfig
<1> QED BY <1>1, <1>2, <1>3, <1>4, <1>5, <1>6 DEF McpInv

\* The client of a server whose token has changed is dropped.
LEMMA DropsClient ==
  ASSUME McpInv, NEW s \in Server, DropClient(s)
  PROVE  McpInv'
<1> USE McpAssumption DEF McpInv, DropClient, WithoutClient
<1>1. servers' \in [Server -> McpEntry] BY DEF McpShape, McpEntry, McpClient
<1>2. McpShape' BY <1>1 DEF McpShape
<1>3. RegistrarOK' BY DEF RegistrarOK
<1>4. TokensOK' BY DEF TokensOK
<1>5. EntriesOK'
  <2>1. \A x \in Server \ {s} : servers'[x] = servers[x] BY DEF McpShape
  <2>2. servers'[s] = [servers[s] EXCEPT !.client = <<>>] BY DEF McpShape
  <2>3. servers'[s].config = servers[s].config BY <2>2 DEF McpShape, McpEntry
  <2>4. servers[s] = NoServer => servers'[s] = NoServer
    <3> SUFFICES ASSUME servers[s] = NoServer PROVE servers'[s] = NoServer OBVIOUS
    <3>1. servers'[s] = [NoServer EXCEPT !.client = <<>>] BY <2>2
    <3>2. \A a, b, c : [[config |-> a, client |-> b, tools |-> c] EXCEPT !.client = b] =
                         [config |-> a, client |-> b, tools |-> c]
      OBVIOUS
    <3> QED BY <3>1, <3>2, Zenon DEF NoServer
  <2> QED BY <2>1, <2>3, <2>4 DEF EntriesOK
<1>6. TableIsSynced' BY DEF TableIsSynced, McpShape, McpEntry
<1>7. ClientFollowsConfig' BY DEF ClientFollowsConfig, McpShape, McpEntry
<1> QED BY <1>2, <1>3, <1>4, <1>5, <1>6, <1>7

\* A synchronisation keeps a client only with the configuration it had.
LEMMA SyncsConfigs ==
  ASSUME McpInv, NEW r \in Registrar, SyncConfigs(r)
  PROVE  McpInv'
<1> USE McpAssumption DEF McpInv, SyncConfigs, Reconfigured, Goes
<1>0. registrar[r].wanted \in Setting BY DEF McpShape, McpCall
<1>1. servers' \in [Server -> McpEntry]
  BY <1>0 DEF McpShape, McpEntry, McpClient, NoServer, Setting
<1>2. registrar' \in [Registrar -> McpCall] BY DEF McpShape, McpCall, RegistrarAt
<1>3. McpShape' BY <1>0, <1>1, <1>2 DEF McpShape
<1>4. RegistrarOK' BY DEF RegistrarOK, McpShape, AtServer, McpCall
<1>5. TokensOK' BY DEF TokensOK
<1>6. EntriesOK' BY <1>0 DEF EntriesOK, McpShape, NoServer, McpEntry, Setting
<1>7. TableIsSynced' BY <1>0 DEF TableIsSynced, McpShape, McpEntry, Setting, NoServer
<1>8. ClientFollowsConfig'
  <2> SUFFICES ASSUME NEW s \in Server, servers'[s].client # <<>>, s \notin raced' \cup dropping'
               PROVE  servers'[s].client = <<servers'[s].config, mcpToken'[s]>>
    BY DEF ClientFollowsConfig
  <2>1. servers'[s] = servers[s] BY DEF NoServer
  <2>2. s \notin raced \cup dropping OBVIOUS
  <2> QED BY <2>1, <2>2 DEF ClientFollowsConfig
<1> QED BY <1>3, <1>4, <1>5, <1>6, <1>7, <1>8

\* A client that is stored is the table's own, or is marked as late.
LEMMA StoresClient ==
  ASSUME McpInv, NEW r \in Registrar, StoreClient(r)
  PROVE  McpInv'
<1> USE McpAssumption DEF McpInv, StoreClient, Stored, Goes
<1> DEFINE s == registrar[r].server
<1>0. s \in Server /\ registrar[r].client \in Config \X Nat
  BY DEF RegistrarOK, AtServer, RegistrarAt
<1>1. servers' \in [Server -> McpEntry] BY <1>0 DEF McpShape, McpEntry, McpClient
<1>2. registrar' \in [Registrar -> McpCall] BY DEF McpShape, McpCall, RegistrarAt
<1>3. McpShape' BY <1>0, <1>1, <1>2 DEF McpShape
<1>4. RegistrarOK' BY <1>0 DEF RegistrarOK, McpShape, AtServer, McpCall
<1>5. TokensOK' BY DEF TokensOK
<1>6. EntriesOK' BY <1>0 DEF EntriesOK, McpShape, NoServer, McpEntry
<1>7. TableIsSynced' BY <1>0 DEF TableIsSynced, McpShape, McpEntry
<1>8. ClientFollowsConfig'
  <2>1. CASE servers[s].config = Absent
    <3>1. servers[s].client = <<>> BY <1>0, <2>1 DEF EntriesOK, NoServer
    <3>2. servers' = servers /\ raced' = raced \ {s} BY <1>0, <2>1 DEF McpShape
    <3> QED BY <3>1, <3>2, <1>0 DEF ClientFollowsConfig
  <2>2. CASE servers[s].config # Absent
    <3>1. /\ \A x \in Server \ {s} : servers'[x] = servers[x]
          /\ servers'[s] = [servers[s] EXCEPT !.client = registrar[r].client]
      BY <1>0, <2>2 DEF McpShape
    <3>2. /\ servers'[s].client = registrar[r].client
          /\ servers'[s].config = servers[s].config
      BY <3>1, <1>0 DEF McpShape, McpEntry
    <3>3. /\ \A x \in Server \ {s} : x \in raced' <=> x \in raced
          /\ s \notin raced' => registrar[r].client = <<servers[s].config, mcpToken[s]>>
      BY <2>2
    <3> QED BY <3>1, <3>2, <3>3 DEF ClientFollowsConfig
  <2> QED BY <2>1, <2>2
<1> QED BY <1>3, <1>4, <1>5, <1>6, <1>7, <1>8

LEMMA RecordsTools ==
  ASSUME McpInv, NEW r \in Registrar, RecordTools(r)
  PROVE  McpInv'
<1> USE McpAssumption DEF McpInv, RecordTools, Goes
<1> DEFINE s == registrar[r].server
<1>0. s \in Server BY DEF RegistrarOK, AtServer, RegistrarAt
<1>1. servers' \in [Server -> McpEntry] BY <1>0 DEF McpShape, McpEntry, McpClient
<1>2. registrar' \in [Registrar -> McpCall] BY DEF McpShape, McpCall, RegistrarAt
<1>3. McpShape' BY <1>0, <1>1, <1>2 DEF McpShape
<1>4. RegistrarOK' BY <1>0 DEF RegistrarOK, McpShape, AtServer, McpCall
<1>5. TokensOK' BY DEF TokensOK
<1>6. EntriesOK' BY <1>0 DEF EntriesOK, McpShape, NoServer, McpEntry
<1>7. TableIsSynced' BY <1>0 DEF TableIsSynced, McpShape, McpEntry
<1>8. ClientFollowsConfig'
  <2>1. \A x \in Server : /\ servers'[x].client = servers[x].client
                          /\ servers'[x].config = servers[x].config
    BY <1>0 DEF McpShape, McpEntry
  <2> QED BY <2>1 DEF ClientFollowsConfig
<1> QED BY <1>3, <1>4, <1>5, <1>6, <1>7, <1>8

-----------------------------------------------------------------------------
\* What keeps a registrar in order: an entry that is.
LEMMA OneRegistrar ==
  ASSUME McpShape, RegistrarOK, NEW r \in Registrar, NEW entry \in McpCall,
         registrar' = [registrar EXCEPT ![r] = entry],
         entry.at \in AtServer => entry.server \in Server,
         entry.at = "token" => \E c \in Config : entry.client = <<c>>,
         entry.at \in {"connect", "store", "list", "record"} => entry.client \in Config \X Nat
  PROVE  registrar' \in [Registrar -> McpCall] /\ RegistrarOK'
<1>1. registrar'[r] = entry /\ \A x \in Registrar \ {r} : registrar'[x] = registrar[x]
  BY DEF McpShape
<1>2. registrar' \in [Registrar -> McpCall] BY DEF McpShape
<1> QED BY <1>1, <1>2 DEF RegistrarOK

\* The steps of a registrar that leave table, tokens and settings alone.
LEMMA RegistrarSteps ==
  ASSUME McpInv, NEW r \in Registrar,
         \/ BeginTurn(r) \/ BeginConnect(r) \/ EndRegistrar(r) \/ RemoteFails(r) \/ RemoteAnswers(r)
         \/ ReadConfig(r) \/ ReadToken(r) \/ \E s \in Server : Look(r, s)
  PROVE  registrar' \in [Registrar -> McpCall] /\ RegistrarOK'
<1> USE McpAssumption DEF McpInv
<1>1. CASE BeginTurn(r) \/ BeginConnect(r)
  <2>1. PICK next \in {"ready", "sync"} :
          registrar' = [registrar EXCEPT ![r] = [at |-> next, server |-> Absent, wanted |-> mcpSetting,
                                                 client |-> <<>>]]
    BY <1>1 DEF BeginTurn, BeginConnect, NoRegistrar
  <2> QED BY <2>1 DEF McpShape, McpCall, RegistrarAt, McpClient, RegistrarOK, AtServer
<1>2. CASE EndRegistrar(r)
  BY <1>2 DEF EndRegistrar, NoRegistrar, McpShape, McpCall, RegistrarAt, McpClient,
              RegistrarOK, AtServer, Setting
<1>3. CASE RemoteFails(r) \/ RemoteAnswers(r)
  BY <1>3 DEF RemoteFails, RemoteAnswers, Goes, McpShape, McpCall, RegistrarAt, RegistrarOK, AtServer
<1>4. CASE ReadConfig(r)
  <2> DEFINE c == servers[registrar[r].server].config
  <2>1. registrar[r].server \in Server BY <1>4 DEF ReadConfig, RegistrarOK, AtServer, RegistrarAt
  <2>2. c \in Config \cup {Absent} BY <2>1 DEF McpShape, McpEntry
  <2>3. CASE c \in Disabled \cup {Absent}
    <3>1. registrar' = [registrar EXCEPT ![r] = [registrar[r] EXCEPT !.at = "ready"]]
      BY <1>4, <2>3 DEF ReadConfig
    <3> QED BY <3>1 DEF McpShape, McpCall, RegistrarAt, RegistrarOK, AtServer
  <2>4. CASE c \notin Disabled \cup {Absent}
    <3> DEFINE entry == [registrar[r] EXCEPT !.at = "token", !.client = <<c>>]
    <3>1. registrar' = [registrar EXCEPT ![r] = entry] BY <1>4, <2>4 DEF ReadConfig
    <3>2. c \in Config BY <2>2, <2>4
    <3>3. entry \in McpCall BY <3>2 DEF McpShape, McpCall, RegistrarAt
    <3>4. entry.at = "token" /\ entry.server = registrar[r].server /\ entry.client = <<c>>
      BY DEF McpShape, McpCall
    <3> HIDE DEF entry
    <3> QED BY <2>1, <3>1, <3>2, <3>3, <3>4, OneRegistrar
  <2> QED BY <2>3, <2>4
<1>5. CASE ReadToken(r)
  <2> DEFINE made == <<registrar[r].client[1], mcpToken[registrar[r].server]>>
             entry == [registrar[r] EXCEPT !.at = "connect", !.client = made]
  <2>1. registrar[r].server \in Server BY <1>5 DEF ReadToken, RegistrarOK, AtServer, RegistrarAt
  <2>2. PICK c \in Config : registrar[r].client = <<c>> BY <1>5 DEF ReadToken, RegistrarOK
  <2>3. made \in Config \X Nat BY <2>1, <2>2 DEF McpShape
  <2>4. registrar' = [registrar EXCEPT ![r] = entry] BY <1>5 DEF ReadToken
  <2> HIDE DEF made
  <2>5. entry \in McpCall
    <3>1. made \in McpClient \cup {<<x>> : x \in Config} BY <2>3 DEF McpClient
    <3> QED BY <3>1 DEF McpShape, McpCall, RegistrarAt
  <2>6. entry.at = "connect" /\ entry.server = registrar[r].server /\ entry.client = made
    BY DEF McpShape, McpCall
  <2> HIDE DEF entry
  <2> QED BY <2>1, <2>3, <2>4, <2>5, <2>6, OneRegistrar
<1>6. ASSUME NEW s \in Server, Look(r, s)
      PROVE  registrar' \in [Registrar -> McpCall] /\ RegistrarOK'
  <2> DEFINE known == [registrar[r] EXCEPT !.at = "list", !.server = s, !.client = servers[s].client]
             new == [registrar[r] EXCEPT !.at = "config", !.server = s, !.client = <<>>]
  <2>1. servers[s].client \in McpClient /\ <<>> \in McpClient BY DEF McpShape, McpEntry, McpClient
  <2>2. \/ servers[s].client # <<>> /\ registrar' = [registrar EXCEPT ![r] = known]
        \/ registrar' = [registrar EXCEPT ![r] = new]
    BY <1>6 DEF Look
  <2>3. /\ known \in McpCall /\ known.at = "list" /\ known.server = s
        /\ known.client = servers[s].client
    BY <2>1 DEF McpShape, McpCall, RegistrarAt
  <2>4. new \in McpCall /\ new.at = "config" /\ new.server = s
    BY <2>1 DEF McpShape, McpCall, RegistrarAt
  <2>5. servers[s].client # <<>> => servers[s].client \in Config \X Nat BY <2>1 DEF McpClient
  <2> HIDE DEF known, new
  <2>6. CASE servers[s].client # <<>> /\ registrar' = [registrar EXCEPT ![r] = known]
    BY <2>3, <2>5, <2>6, OneRegistrar
  <2>7. CASE registrar' = [registrar EXCEPT ![r] = new]
    BY <2>4, <2>7, OneRegistrar
  <2> QED BY <2>2, <2>6, <2>7
<1> QED BY <1>1, <1>2, <1>3, <1>4, <1>5, <1>6

\* Every step of the servers keeps the invariant.
LEMMA McpInvNext == McpInv /\ [McpNext]_mcpVars => McpInv'
<1> SUFFICES ASSUME McpInv, [McpNext]_mcpVars PROVE McpInv' OBVIOUS
<1> USE McpAssumption DEF McpInv
<1>1. ASSUME NEW s \in Server, DropClient(s) PROVE McpInv' BY <1>1, DropsClient
<1>2. ASSUME NEW s \in Server, SaveToken(s) PROVE McpInv'
  <2> USE <1>2 DEF SaveToken
  <2>1. McpShape' BY DEF McpShape
  <2>2. RegistrarOK' BY DEF RegistrarOK
  <2>3. TokensOK' BY DEF TokensOK, McpShape
  <2>4. EntriesOK' BY DEF EntriesOK
  <2>5. TableIsSynced' BY DEF TableIsSynced
  <2>6. ClientFollowsConfig' BY DEF ClientFollowsConfig, McpShape
  <2> QED BY <2>1, <2>2, <2>3, <2>4, <2>5, <2>6
<1>3. ASSUME NEW s \in Server, NEW c \in Config \cup {Absent}, SaveSetting(s, c) PROVE McpInv'
  BY <1>3 DEF SaveSetting, McpShape, Setting, RegistrarOK, TokensOK, EntriesOK, TableIsSynced,
              ClientFollowsConfig
<1>4. ASSUME NEW r \in Registrar, SyncConfigs(r) PROVE McpInv' BY <1>4, SyncsConfigs
<1>5. ASSUME NEW r \in Registrar, StoreClient(r) PROVE McpInv' BY <1>5, StoresClient
<1>6. ASSUME NEW r \in Registrar, RecordTools(r) PROVE McpInv' BY <1>6, RecordsTools
<1>7. ASSUME NEW r \in Registrar,
             \/ BeginTurn(r) \/ BeginConnect(r) \/ EndRegistrar(r) \/ RemoteFails(r) \/ RemoteAnswers(r)
             \/ ReadConfig(r) \/ ReadToken(r) \/ \E s \in Server : Look(r, s)
      PROVE McpInv'
  <2>1. UNCHANGED <<mcpSetting, mcpToken, servers, dropping, saves, synced, raced>>
    BY <1>7 DEF BeginTurn, BeginConnect, EndRegistrar, RemoteFails, RemoteAnswers, ReadConfig,
                ReadToken, Look
  <2>2. mcpSlot' \in Setting
    BY <1>7 DEF McpShape, BeginTurn, BeginConnect, EndRegistrar, RemoteFails, RemoteAnswers,
                ReadConfig, ReadToken, Look
  <2>3. registrar' \in [Registrar -> McpCall] /\ RegistrarOK' BY <1>7, RegistrarSteps
  <2>4. McpShape' BY <2>1, <2>2, <2>3 DEF McpShape
  <2>5. TokensOK' /\ EntriesOK' /\ TableIsSynced' /\ ClientFollowsConfig'
    BY <2>1 DEF TokensOK, EntriesOK, TableIsSynced, ClientFollowsConfig
  <2> QED BY <2>3, <2>4, <2>5
<1>8. CASE UNCHANGED mcpVars
  BY <1>8 DEF mcpVars, McpShape, RegistrarOK, TokensOK, EntriesOK, TableIsSynced, ClientFollowsConfig
<1> QED BY <1>1, <1>2, <1>3, <1>4, <1>5, <1>6, <1>7, <1>8 DEF McpNext

LEMMA McpInvHolds == McpSpec => []McpInv
  BY McpInvInit, McpInvNext, PTL DEF McpSpec

\* Settings, tokens, the table and the registrars keep their types.
THEOREM McpTypeCorrect == McpSpec => []McpTypeOK
<1>1. ASSUME McpInv PROVE McpTypeOK
  <2>1. mcpToken \in [Server -> 0 .. MaxSaves]
    BY <1>1, McpAssumption DEF McpInv, McpShape, TokensOK
  <2>2. ASSUME NEW s \in Server
        PROVE  /\ servers[s].config \in Config \cup {Absent}
               /\ servers[s].config = Absent => servers[s] = NoServer
    BY <1>1 DEF McpInv, McpShape, McpEntry, EntriesOK
  <2>3. ASSUME NEW r \in Registrar
        PROVE  /\ registrar[r].at \in RegistrarAt
               /\ registrar[r].at \in {"connect", "store", "list", "record"} => registrar[r].client # <<>>
    <3>1. registrar[r].at \in RegistrarAt BY <1>1 DEF McpInv, McpShape, McpCall
    <3>2. \A p \in Config \X Nat : p # <<>> BY Z3
    <3> QED BY <1>1, <3>1, <3>2 DEF McpInv, RegistrarOK
  <2> QED BY <1>1, <2>1, <2>2, <2>3 DEF McpTypeOK, McpInv, McpShape, RegistrarAt
<1> QED BY <1>1, McpInvHolds, PTL

\* The table holds what was synced last, and a stored client was made from
\* its server's configuration and token, however late a handshake or a
\* discovery comes back, unless they changed meanwhile (McpManager).
THEOREM ServersFollow == McpSpec => [](TableIsSynced /\ ClientFollowsConfig)
<1>1. McpInv => TableIsSynced /\ ClientFollowsConfig BY DEF McpInv
<1> QED BY <1>1, McpInvHolds, PTL
-----------------------------------------------------------------------------
(* 7. The browser's snapshots.                                             *)
ReadingOK ==
  reading # NotReading =>
    /\ reading.tab \in Tab /\ reading.nodes \in NodeList /\ lastId < MaxSnapshots
    /\ reading.since \in {0, snapshots[reading.tab].id}

IdsOK ==
  \A t \in Tab : snapshots[t].id <= lastId /\ (snapshots[t].id = 0 => snapshots[t] = NoList)

BrowserShape ==
  /\ openTabs \subseteq Tab /\ pages \in [Tab -> NodeList]
  /\ snapshots \in Lists /\ nodeAnswered \in Lists /\ lastId \in 0 .. MaxSnapshots
  /\ nodeCall \in [op : {"none", "click", "act"}, answer : {"none", "ok", "error"}, acted : BOOLEAN]

BrowserInv == BrowserShape /\ ReadingOK /\ IdsOK /\ ReaderFollows

-----------------------------------------------------------------------------
\* No list is a list of every type.
LEMMA NoListIsList ==
  /\ NoList.nodes \in NodeList /\ NoList.id = 0
  /\ NoList \in [id : 0 .. MaxSnapshots, nodes : NodeList]
<1>1. 0 \in 0 .. MaxSnapshots BY BrowserAssumption
<1>2. NoList.nodes \in NodeList BY DEF NoList, NodeList
<1> QED BY <1>1, <1>2 DEF NoList

\* A difference rebuilds the page it was made from: from nothing, or from
\* the page the reader has if that is the one the difference was taken to.
LEMMA PatchRebuilds ==
  ASSUME NEW old \in NodeList, NEW new \in NodeList
  PROVE  /\ Patched(old, Changed(old, new), Removed(old, new), new) = new
         /\ Patched(NoList.nodes, Changed(NoList.nodes, new), {}, new) = new
<1>1. ASSUME NEW n \in Node
      PROVE  (IF n \in Changed(old, new) THEN new[n]
              ELSE IF n \in Removed(old, new) THEN Nothing ELSE old[n]) = new[n]
  BY DEF Changed, Removed
<1>2. ASSUME NEW n \in Node
      PROVE  (IF n \in Changed(NoList.nodes, new) THEN new[n]
              ELSE IF n \in {} THEN Nothing ELSE NoList.nodes[n]) = new[n]
  BY DEF Changed, NoList
<1>3. new = [n \in Node |-> new[n]] BY DEF NodeList
<1> QED BY <1>1, <1>2, <1>3 DEF Patched

LEMMA BrowserInvInit == BrowserInit => BrowserInv
<1> SUFFICES ASSUME BrowserInit PROVE BrowserInv OBVIOUS
<1> USE BrowserAssumption DEF BrowserInit
<1>1. BrowserShape BY NoListIsList DEF BrowserShape, Lists
<1>2. ReadingOK BY DEF ReadingOK
<1>3. IdsOK
  <2>1. \A t \in Tab : snapshots[t] = NoList OBVIOUS
  <2>2. lastId = 0 OBVIOUS
  <2>3. NoList.id <= 0 BY NoListIsList
  <2> QED BY <2>1, <2>2, <2>3 DEF IdsOK
<1>4. ReaderFollows BY DEF ReaderFollows
<1> QED BY <1>1, <1>2, <1>3, <1>4 DEF BrowserInv

\* What a snapshot answers makes of the reader's page the one it took.
LEMMA SnapshotAnswers ==
  ASSUME BrowserInv, AnswerSnapshot
  PROVE  BrowserInv'
<1> USE BrowserAssumption DEF BrowserInv
<1> DEFINE t == reading.tab
           new == reading.nodes
           list == [id |-> lastId + 1, nodes |-> new]
<1>1. t \in Tab /\ new \in NodeList /\ lastId < MaxSnapshots /\ reading.since \in {0, snapshots[t].id}
  BY DEF AnswerSnapshot, ReadingOK
<1>2. lastId + 1 \in 1 .. MaxSnapshots BY <1>1 DEF BrowserShape
<1>3. list \in [id : 0 .. MaxSnapshots, nodes : NodeList] BY <1>1, <1>2
<1>4. snapshots' = [snapshots EXCEPT ![t] = list]
  <2>1. \A a, b, c : Renewed([id |-> a, nodes |-> b], c) = [id |-> c, nodes |-> b] BY DEF Renewed
  <2>2. snapshots' = [snapshots EXCEPT ![t] = Renewed([id |-> @.id, nodes |-> new], lastId + 1)]
    BY DEF AnswerSnapshot
  <2>3. Renewed([id |-> snapshots[t].id, nodes |-> new], lastId + 1) = list BY <2>1, Zenon
  <2> QED BY <2>2, <2>3, Zenon
<1>5. nodeAnswered' = [nodeAnswered EXCEPT ![t] = list]
  <2> DEFINE diff == Latest(t, reading.since)
             old == IF diff THEN snapshots[t].nodes ELSE NoList.nodes
             had == IF reading.since = 0 THEN NoList.nodes ELSE nodeAnswered[t].nodes
             gone == IF diff THEN Removed(old, new) ELSE {}
  <2>1. nodeAnswered' = [nodeAnswered EXCEPT ![t] =
          [id |-> snapshots'[t].id, nodes |-> Patched(had, Changed(old, new), gone, new)]]
    BY DEF AnswerSnapshot
  <2>2. snapshots'[t].id = lastId + 1 BY <1>1, <1>4 DEF BrowserShape, Lists
  <2>3. Patched(had, Changed(old, new), gone, new) = new
    <3>1. snapshots[t].nodes \in NodeList /\ nodeAnswered[t] = snapshots[t]
      BY <1>1 DEF BrowserShape, Lists, ReaderFollows
    <3>2. CASE diff
      <4>1. had = old /\ old \in NodeList /\ gone = Removed(old, new) BY <3>1, <3>2 DEF Latest
      <4> HIDE DEF diff, old, had, gone, new
      <4> QED BY <4>1, <1>1, PatchRebuilds
    <3>3. CASE ~diff
      <4>1. had = NoList.nodes /\ old = NoList.nodes /\ gone = {}
        BY <1>1, <3>3 DEF Latest
      <4>2. NoList.nodes \in NodeList BY NoListIsList
      <4> HIDE DEF diff, old, had, gone, new
      <4> QED BY <4>1, <4>2, <1>1, PatchRebuilds
    <3> QED BY <3>2, <3>3
  <2> QED BY <2>1, <2>2, <2>3
<1>6. UNCHANGED <<openTabs, pages, nodeCall>> /\ reading' = NotReading /\ lastId' = lastId + 1
  BY DEF AnswerSnapshot
<1> HIDE DEF new, list
<1>7. list.id = lastId + 1 BY DEF list
<1>8. snapshots'[t] = list /\ \A x \in Tab \ {t} : snapshots'[x] = snapshots[x]
  BY <1>1, <1>4 DEF BrowserShape, Lists
<1>9. BrowserShape' BY <1>1, <1>2, <1>3, <1>4, <1>5, <1>6 DEF BrowserShape, Lists
<1>10. ReadingOK' BY <1>6 DEF ReadingOK
<1>11. IdsOK' BY <1>2, <1>6, <1>7, <1>8 DEF IdsOK, BrowserShape, Lists
<1>12. ReaderFollows' BY <1>4, <1>5 DEF ReaderFollows, BrowserShape, Lists
<1> QED BY <1>9, <1>10, <1>11, <1>12

\* Every step of the browser and of its tools keeps the invariant.
LEMMA BrowserInvNext == BrowserInv /\ [BrowserNext]_browserVars => BrowserInv'
<1> SUFFICES ASSUME BrowserInv, [BrowserNext]_browserVars PROVE BrowserInv' OBVIOUS
<1> USE BrowserAssumption DEF BrowserInv
<1>1. ASSUME NEW t \in Tab, OpenTab(t) \/ CloseTab(t) PROVE BrowserInv'
  BY <1>1, NoListIsList DEF OpenTab, CloseTab, BrowserShape, ReadingOK, IdsOK, ReaderFollows
<1>2. ASSUME NEW t \in Tab, NEW n \in Node, NEW c \in Content \cup {Nothing}, PageChanges(t, n, c)
      PROVE  BrowserInv'
  <2>1. pages' \in [Tab -> NodeList] BY <1>2 DEF PageChanges, BrowserShape, NodeList
  <2> QED BY <1>2, <2>1 DEF PageChanges, BrowserShape, ReadingOK, IdsOK, ReaderFollows
<1>3. ASSUME NEW t \in Tab, NEW since \in {0, nodeAnswered[t].id}, ReadTree(t, since)
      PROVE  BrowserInv'
  <2>1. reading'.tab = t /\ reading'.since = since /\ reading'.nodes = pages[t] /\ lastId < MaxSnapshots
    BY <1>3 DEF ReadTree
  <2>2. pages[t] \in NodeList BY DEF BrowserShape
  <2>3. since \in {0, snapshots[t].id} BY DEF ReaderFollows
  <2>4. UNCHANGED <<openTabs, pages, snapshots, nodeAnswered, lastId, nodeCall>> BY <1>3 DEF ReadTree
  <2> QED BY <2>1, <2>2, <2>3, <2>4 DEF BrowserShape, ReadingOK, IdsOK, ReaderFollows
<1>4. CASE SnapshotFails
  BY <1>4 DEF SnapshotFails, BrowserShape, ReadingOK, IdsOK, ReaderFollows
<1>5. CASE AnswerSnapshot BY <1>5, SnapshotAnswers
<1>6. CASE NewTurn
  <2>1. snapshots' \in Lists BY <1>6, NoListIsList DEF NewTurn, Lists
  <2>2. nodeAnswered' = snapshots' BY <1>6 DEF NewTurn
  <2>3. \A t \in Tab : snapshots'[t] = NoList BY <1>6 DEF NewTurn
  <2>4. UNCHANGED <<openTabs, pages, reading, lastId>> /\ reading = NotReading BY <1>6 DEF NewTurn
  <2>5. nodeCall' \in [op : {"none", "click", "act"}, answer : {"none", "ok", "error"}, acted : BOOLEAN]
    BY <1>6 DEF NewTurn
  <2>6. IdsOK' BY <2>3, <2>4, NoListIsList DEF IdsOK, BrowserShape
  <2> QED BY <2>1, <2>2, <2>4, <2>5, <2>6 DEF BrowserShape, ReadingOK, ReaderFollows
<1>7. ASSUME NEW act \in {"click", "act"}, NEW kind \in {"ax", "dom"}, NodeOp(act, kind)
      PROVE  BrowserInv'
  <2>1. PICK word \in {"ok", "error"} :
          nodeCall' = [op |-> act, answer |-> word, acted |-> Finder(kind) = "node"]
    BY <1>7 DEF NodeOp
  <2>2. (Finder(kind) = "node") \in BOOLEAN OBVIOUS
  <2>3. nodeCall' \in [op : {"none", "click", "act"}, answer : {"none", "ok", "error"}, acted : BOOLEAN]
    BY <2>1, <2>2
  <2>4. UNCHANGED <<openTabs, pages, snapshots, reading, nodeAnswered, lastId>> BY <1>7 DEF NodeOp
  <2> QED BY <2>3, <2>4 DEF BrowserShape, ReadingOK, IdsOK, ReaderFollows
<1>8. CASE UNCHANGED browserVars
  BY <1>8 DEF browserVars, BrowserShape, ReadingOK, IdsOK, ReaderFollows
<1> QED BY <1>1, <1>2, <1>3, <1>4, <1>5, <1>6, <1>7, <1>8 DEF BrowserNext

LEMMA BrowserInvHolds == BrowserSpec => []BrowserInv
  BY BrowserInvInit, BrowserInvNext, PTL DEF BrowserSpec

\* Tabs, pages, lists and the last call on a node keep their types.
THEOREM BrowserTypeCorrect == BrowserSpec => []BrowserTypeOK
<1>1. BrowserInv => BrowserTypeOK
  BY DEF BrowserInv, BrowserShape, ReadingOK, IdsOK, BrowserTypeOK
<1> QED BY <1>1, BrowserInvHolds, PTL

\* A reader that follows the differences has the page as the tab's latest
\* snapshot saw it (browser.snapshot with since_snapshot_id).
THEOREM SnapshotsFollow == BrowserSpec => []ReaderFollows
<1>1. BrowserInv => ReaderFollows BY DEF BrowserInv
<1> QED BY <1>1, BrowserInvHolds, PTL
-----------------------------------------------------------------------------
(* 8. The model that a turn talks to.                                      *)
SetupKey == ApiKey \cup {NoKey}
Vision == {"auto", "on", "off"}
SetupPlace == Service \cup {"none"}
RowsIn(S) == [provider : S, base : S, name : S, vision : Vision, legacy : SetupKey]
AskAt == {"new", "move", "drop", "have", "fetch", "store", "ready", "refused", "forget", "over"}
Refusal == [says : {"refused"}, since : Nat]
Source == {<<>>} \cup (SetupPlace \X SetupKey)
AskRecord == [at : AskAt, set : RowsIn(SetupPlace), key : SetupKey, of : Source,
              says : {"unknown", "image", "text"}, since : Nat, made : Nat,
              warned : {Never} \cup Refusal, image : BOOLEAN, said : {"none"}]
FormRecord == [at : {"idle", "old", "key", "rows", "restore"}, service : SetupPlace, vision : Vision,
               key : ApiKey \cup {"keep", "clear"}, old : SetupKey,
               said : {"none", "blind", "no key stored", "saved", "failed", "undone"}]
WorldRecord == [forms : Nat, faults : Nat, offers : Nat, clock : Nat, asked : Nat,
                first : SetupKey, moved : BOOLEAN]
Answer == [says : {"unknown", "image", "text"}, of : Source, since : Nat]

SetupShape ==
  /\ rows \in RowsIn(Service) /\ keychain \in SetupKey /\ form \in FormRecord
  /\ form.at # "idle" => form.service \in Service
  /\ asks \in [Asker -> AskRecord] /\ tableLock \in Asker \cup {"free"}
  /\ offer \in [Service \X SetupKey -> {"image", "text"}] /\ world \in WorldRecord
  /\ \A t \in Asker : asks[t].at \notin {"over", "new"} => asks[t].set \in RowsIn(Service)

(* What is remembered was said of the model under which it is kept.        *)
CatalogOK ==
  \A i \in DOMAIN catalog :
    /\ i \in Service \X Service \X SetupKey /\ catalog[i] \in Answer
    /\ catalog[i].of = <<i[2], i[3]>> /\ catalog[i].says # "never"
RefusalsOK == \A i \in DOMAIN refusals : refusals[i] \in Refusal /\ refusals[i].since <= world.clock

(* A warning is of a refusal that is still noted, or noted again.          *)
WarnedOK ==
  \A t \in Asker :
    asks[t].at \in {"move", "drop", "have", "fetch", "store"} /\ asks[t].warned # Never =>
      /\ Target(asks[t].set) \in DOMAIN refusals
      /\ asks[t].warned.since <= refusals[Target(asks[t].set)].since
AnswerOK ==
  \A t \in Asker : asks[t].at = "store" => asks[t].of = <<asks[t].set.base, asks[t].key>>

(* Until a form is saved the one key there is lies in the table or in the  *)
(* keychain, and a move has it in hand.                                    *)
FirstKeyOK ==
  world.forms = 0 =>
    /\ form.at = "idle"
    /\ IF rows.legacy # NoKey THEN rows.legacy = world.first ELSE keychain = world.first
    /\ \A t \in Asker : /\ asks[t].at = "move" => asks[t].key = world.first
                        /\ asks[t].at = "drop" => keychain = world.first

(* Where nothing has to be moved, a form that saw the old key still has it *)
(* as the keychain does, or has it to put back.                            *)
FormOK ==
  /\ form.at \in {"old", "key", "rows", "restore"} => form.said \in {"none", "blind"}
  /\ form.at = "old" => form.said = "none"
  /\ ~world.moved =>
       /\ rows.legacy = NoKey /\ \A t \in Asker : asks[t].at \notin {"move", "drop"}
       /\ form.said = "none" /\ form.at = "key" => keychain = form.old
       /\ form.said = "none" /\ form.at \in {"rows", "restore"} /\ form.key = "keep" =>
            keychain = form.old
       /\ form.said = "undone" /\ form.at = "idle" => keychain = form.old

SetupInv ==
  /\ SetupShape /\ CatalogOK /\ RefusalsOK /\ WarnedOK /\ AnswerOK /\ ModelIsKnown
  /\ FirstKeyOK /\ FormOK

-----------------------------------------------------------------------------
Known(a) ==
  a.at = "ready" /\ a.image /\ a.set.vision = "auto" =>
    /\ a.of = <<a.set.name, a.key>> /\ a.made - a.since <= CatalogTtl
    /\ a.warned # Never => a.made - a.warned.since > RefusalTtl
Warned(a) ==
  a.at \in {"move", "drop", "have", "fetch", "store"} /\ a.warned # Never =>
    /\ Target(a.set) \in DOMAIN refusals
    /\ a.warned.since <= refusals[Target(a.set)].since
Answered(a) == a.at = "store" => a.of = <<a.set.base, a.key>>
Sited(a) == a.at \notin {"over", "new"} => a.set \in RowsIn(Service)
AskOK(a) == Known(a) /\ Warned(a) /\ Answered(a) /\ Sited(a)

\* The four facts about turns are facts about each of them.
LEMMA EachAsk ==
  (WarnedOK /\ AnswerOK /\ ModelIsKnown
     /\ \A t \in Asker : asks[t].at \notin {"over", "new"} => asks[t].set \in RowsIn(Service))
  <=> \A t \in Asker : AskOK(asks[t])
BY DEF WarnedOK, AnswerOK, ModelIsKnown, AskOK, Known, Warned, Answered, Sited

LEMMA NewAskOK == NewAsk \in AskRecord /\ NewAsk.at = "over"
<1>1. NoKey \in SetupKey BY DEF SetupKey
<1>2. <<>> \in Source BY DEF Source
<1>3. RowsOf("none", "auto", NoKey) \in RowsIn(SetupPlace)
  BY <1>1 DEF RowsOf, RowsIn, SetupPlace, Vision
<1> QED BY <1>1, <1>2, <1>3 DEF NewAsk, AskRecord, AskAt

LEMMA NewFormOK == NewForm \in FormRecord /\ NewForm.at = "idle" /\ NewForm.said = "none"
BY DEF NewForm, FormRecord, SetupPlace, SetupKey, Vision

\* One turn goes on, the others stay where they are, and so do the facts.
LEMMA OneAsk ==
  ASSUME SetupInv, NEW t \in Asker, NEW e \in AskRecord, asks' = [asks EXCEPT ![t] = e],
         AskOK(e)', UNCHANGED refusals
  PROVE  /\ asks' \in [Asker -> AskRecord] /\ asks'[t] = e
         /\ \A u \in Asker \ {t} : asks'[u] = asks[u]
         /\ \A u \in Asker : AskOK(asks[u])'
<1>1. /\ asks' \in [Asker -> AskRecord] /\ asks'[t] = e
      /\ \A u \in Asker \ {t} : asks'[u] = asks[u]
  BY DEF SetupInv, SetupShape
<1>2. \A u \in Asker : AskOK(asks[u]) BY EachAsk DEF SetupInv, SetupShape
<1>3. ASSUME NEW u \in Asker \ {t} PROVE AskOK(asks[u])'
  BY <1>1, <1>2, <1>3 DEF AskOK, Known, Warned, Answered, Sited
<1>4. AskOK(asks[t])' BY <1>1 DEF AskOK, Known, Warned, Answered, Sited
<1> QED BY <1>1, <1>3, <1>4

-----------------------------------------------------------------------------
\* What a fault costs is counted and nothing else.
LEMMA SpendOK ==
  ASSUME world \in WorldRecord, NEW fails \in BOOLEAN, Spend(fails)
  PROVE  /\ world' \in WorldRecord /\ world'.clock = world.clock /\ world'.forms = world.forms
         /\ world'.first = world.first /\ world'.moved = world.moved
<1>1. world' = [world EXCEPT !.faults = world.faults + (IF fails THEN 1 ELSE 0)] BY DEF Spend
<1>2. world.faults + (IF fails THEN 1 ELSE 0) \in Nat BY DEF WorldRecord
<1> QED BY <1>1, <1>2 DEF WorldRecord

\* What the form does leaves what is known of models alone.
LEMMA TalkRests ==
  ASSUME SetupInv, UNCHANGED <<catalog, refusals, offer, asks>>, world'.clock = world.clock
  PROVE  CatalogOK' /\ RefusalsOK' /\ WarnedOK' /\ AnswerOK' /\ ModelIsKnown'
BY DEF SetupInv, CatalogOK, RefusalsOK, WarnedOK, AnswerOK, ModelIsKnown

LEMMA SetupInvInit == SetupInit => SetupInv
<1> SUFFICES ASSUME SetupInit PROVE SetupInv OBVIOUS
<1> USE SetupAssumption
<1>1. PICK s \in Service, k \in ApiKey \cup {NoKey}, old \in BOOLEAN, u \in Situations :
        /\ rows = RowsOf(s, "auto", IF old THEN k ELSE NoKey) /\ keychain = IF old THEN NoKey ELSE k
        /\ form = NewForm /\ asks = [t \in Asker |-> NewAsk] /\ tableLock = "free"
        /\ catalog = NothingKept /\ refusals = NothingKept
        /\ offer = [o \in Service \X (ApiKey \cup {NoKey}) |-> "image"]
        /\ world = [forms |-> u.forms, faults |-> u.faults, offers |-> u.offers, clock |-> u.clock,
                    asked |-> u.asked, first |-> k, moved |-> old]
  BY DEF SetupInit
<1>2. /\ u.forms \in Nat /\ u.faults \in Nat /\ u.offers \in Nat /\ u.clock \in Nat /\ u.asked \in Nat
  BY DEF Situations
<1>3. world \in WorldRecord /\ world.first = k /\ world.moved = old BY <1>1, <1>2 DEF WorldRecord, SetupKey
<1>4. /\ rows \in RowsIn(Service) /\ rows.legacy = IF old THEN k ELSE NoKey
  BY <1>1 DEF RowsOf, RowsIn, Vision, SetupKey
<1>5. \A t \in Asker : asks[t] = NewAsk BY <1>1
<1>6. SetupShape BY <1>1, <1>3, <1>4, <1>5, NewAskOK, NewFormOK DEF SetupShape, SetupKey
<1>7. CatalogOK /\ RefusalsOK BY <1>1 DEF CatalogOK, RefusalsOK, NothingKept
<1>8. WarnedOK /\ AnswerOK /\ ModelIsKnown
  BY <1>5, NewAskOK DEF WarnedOK, AnswerOK, ModelIsKnown
<1>9. FirstKeyOK BY <1>1, <1>3, <1>4, <1>5, NewAskOK, NewFormOK DEF FirstKeyOK
<1>10. FormOK BY <1>1, <1>3, <1>4, <1>5, NewAskOK, NewFormOK DEF FormOK
<1> QED BY <1>6, <1>7, <1>8, <1>9, <1>10 DEF SetupInv

-----------------------------------------------------------------------------
\* The steps of the form.
LEMMA FormSteps ==
  ASSUME SetupInv, OpenForm \/ ReadOldKey \/ StoreKey \/ WriteRows \/ RestoreKey
  PROVE  SetupInv'
<1> USE DEF SetupInv
<1>1. world \in WorldRecord /\ form \in FormRecord /\ keychain \in SetupKey BY DEF SetupShape
<1>2. CASE OpenForm
  <2>1. PICK s \in Service, k \in ApiKey \cup {"keep", "clear"}, v \in Vision :
          form' = [NewForm EXCEPT !.at = "old", !.service = s, !.key = k, !.vision = v]
    BY <1>2 DEF OpenForm, Vision
  <2>2. /\ form' \in FormRecord /\ form'.at = "old" /\ form'.service = s /\ form'.said = "none"
    BY <2>1 DEF NewForm, FormRecord, SetupPlace, SetupKey
  <2>3. world' = [world EXCEPT !.forms = world.forms + 1] /\ UNCHANGED <<Table, Talk, keychain, asks>>
    BY <1>2 DEF OpenForm
  <2>4. world' \in WorldRecord /\ world'.clock = world.clock /\ world'.forms # 0 /\ world'.moved = world.moved
    BY <1>1, <2>3 DEF WorldRecord
  <2>5. SetupShape' BY <2>2, <2>3, <2>4 DEF SetupShape, Table, Talk
  <2>6. FirstKeyOK' BY <2>4 DEF FirstKeyOK
  <2>7. FormOK' BY <2>2, <2>3, <2>4 DEF FormOK, Table
  <2> QED BY <2>3, <2>4, <2>5, <2>6, <2>7, TalkRests DEF Talk
<1>3. CASE ReadOldKey
  <2>1. PICK fails \in BOOLEAN :
          /\ Spend(fails)
          /\ form' = [form EXCEPT !.at = "key", !.old = IF fails THEN NoKey ELSE keychain,
                                  !.said = IF fails THEN "blind" ELSE "none"]
    BY <1>3 DEF ReadOldKey
  <2>2. /\ form' \in FormRecord /\ form'.at = "key" /\ form'.service = form.service
        /\ form'.old = IF fails THEN NoKey ELSE keychain
        /\ form'.said = IF fails THEN "blind" ELSE "none"
    BY <1>1, <2>1 DEF FormRecord, SetupKey
  <2>3. UNCHANGED <<Table, Talk, keychain, asks>> /\ form.at = "old" BY <1>3 DEF ReadOldKey
  <2>4. /\ world' \in WorldRecord /\ world'.clock = world.clock /\ world'.forms = world.forms
        /\ world'.first = world.first /\ world'.moved = world.moved
    BY <1>1, <2>1, SpendOK
  <2>5. SetupShape' BY <2>2, <2>3, <2>4 DEF SetupShape, Table, Talk
  <2>6. FirstKeyOK' BY <2>3, <2>4 DEF FirstKeyOK
  <2>7. FormOK' BY <2>2, <2>3, <2>4 DEF FormOK, Table
  <2> QED BY <2>3, <2>4, <2>5, <2>6, <2>7, TalkRests DEF Talk
<1>4. CASE StoreKey
  <2>1. PICK fails \in BOOLEAN :
          /\ Spend(fails)
          /\ \/ form' = [form EXCEPT !.at = "idle", !.said = "no key stored"] /\ keychain' = keychain
             \/ /\ form' = [form EXCEPT !.at = "rows"]
                /\ keychain' = CASE form.key = "keep" -> keychain
                                 [] form.key = "clear" -> NoKey [] OTHER -> form.key
    BY <1>4 DEF StoreKey
  <2>2. UNCHANGED <<Table, Talk, asks>> /\ form.at = "key" BY <1>4 DEF StoreKey
  <2>3. keychain' \in SetupKey /\ (form.key = "keep" => keychain' = keychain)
    BY <1>1, <2>1 DEF FormRecord, SetupKey
  <2>4. /\ form' \in FormRecord /\ form'.service = form.service /\ form'.old = form.old
        /\ form'.key = form.key
        /\ \/ form'.at = "idle" /\ form'.said = "no key stored"
           \/ form'.at = "rows" /\ form'.said = form.said
    BY <1>1, <2>1 DEF FormRecord
  <2>5. /\ world' \in WorldRecord /\ world'.clock = world.clock /\ world'.forms = world.forms
        /\ world'.first = world.first /\ world'.moved = world.moved
    BY <1>1, <2>1, SpendOK
  <2>6. SetupShape' BY <2>2, <2>3, <2>4, <2>5 DEF SetupShape, Table, Talk
  <2>7. FirstKeyOK' BY <2>2, <2>5 DEF FirstKeyOK
  <2>8. FormOK' BY <2>2, <2>3, <2>4, <2>5 DEF FormOK, Table
  <2> QED BY <2>2, <2>5, <2>6, <2>7, <2>8, TalkRests DEF Talk
<1>5. CASE WriteRows
  <2>1. PICK n \in 0 .. Len(Statements) :
          /\ Spend(n < Len(Statements))
          /\ rows' = [r \in DOMAIN rows |->
                        IF r \in ToSet(SubSeq(Statements, 1, n))
                          THEN RowsOf(form.service, form.vision, NoKey)[r] ELSE rows[r]]
          /\ form' = [form EXCEPT !.at = IF n < Len(Statements) THEN "restore" ELSE "idle",
                                  !.said = IF n < Len(Statements) THEN @ ELSE "saved"]
    BY <1>5 DEF WriteRows
  <2> DEFINE fails == n < Len(Statements)
             new == RowsOf(form.service, form.vision, NoKey)
             written == ToSet(SubSeq(Statements, 1, n))
  <2>2. UNCHANGED <<tableLock, Talk, keychain, asks>> /\ form.at = "rows" BY <1>5 DEF WriteRows
  <2>3. new \in RowsIn(Service) /\ new.legacy = NoKey
    BY <1>1, <2>2 DEF RowsOf, RowsIn, SetupShape, FormRecord, SetupKey
  <2>4. rows' = [r \in DOMAIN rows |-> IF r \in written THEN new[r] ELSE rows[r]] BY <2>1
  <2>5. rows' \in RowsIn(Service) /\ rows'.legacy \in {NoKey, rows.legacy}
    <3> HIDE DEF new, written
    <3>1. rows \in RowsIn(Service) BY DEF SetupShape
    <3>2. DOMAIN rows = {"provider", "base", "name", "vision", "legacy"} BY <3>1 DEF RowsIn
    <3>3. rows' \in RowsIn(Service) BY <2>3, <2>4, <3>1, <3>2 DEF RowsIn
    <3>4. rows'.legacy = IF "legacy" \in written THEN new.legacy ELSE rows.legacy
      BY <2>3, <2>4, <3>1, <3>2 DEF RowsIn
    <3> QED BY <2>3, <3>3, <3>4
  <2>6. /\ form' \in FormRecord /\ form'.service = form.service /\ form'.old = form.old
        /\ form'.key = form.key
        /\ \/ form'.at = "idle" /\ form'.said = "saved"
           \/ form'.at = "restore" /\ form'.said = form.said
    BY <1>1, <2>1 DEF FormRecord
  <2>7. /\ world' \in WorldRecord /\ world'.clock = world.clock /\ world'.forms = world.forms
        /\ world'.first = world.first /\ world'.moved = world.moved
    <3>1. fails \in BOOLEAN OBVIOUS
    <3> QED BY <1>1, <2>1, <3>1, SpendOK
  <2>8. SetupShape' BY <2>2, <2>5, <2>6, <2>7 DEF SetupShape, Talk
  <2>9. FirstKeyOK' BY <2>2, <2>7 DEF FirstKeyOK
  <2>10. FormOK' BY <2>2, <2>5, <2>6, <2>7 DEF FormOK
  <2> QED BY <2>2, <2>7, <2>8, <2>9, <2>10, TalkRests DEF Talk
<1>6. CASE RestoreKey
  <2>1. PICK fails \in BOOLEAN :
          /\ Spend(fails)
          /\ form' = [form EXCEPT !.at = "idle",
                                  !.said = IF fails \/ form.said = "blind" THEN "failed" ELSE "undone"]
          /\ keychain' = IF fails THEN keychain ELSE IF form.old # NoKey THEN form.old
                         ELSE IF form.key # "keep" THEN NoKey ELSE keychain
    BY <1>6 DEF RestoreKey
  <2>2. UNCHANGED <<Table, Talk, asks>> /\ form.at = "restore" BY <1>6 DEF RestoreKey
  <2>3. keychain' \in SetupKey BY <1>1, <2>1 DEF FormRecord, SetupKey
  <2>4. /\ form' \in FormRecord /\ form'.service = form.service /\ form'.old = form.old
        /\ form'.at = "idle"
        /\ form'.said = IF fails \/ form.said = "blind" THEN "failed" ELSE "undone"
    BY <1>1, <2>1 DEF FormRecord
  <2>5. /\ world' \in WorldRecord /\ world'.clock = world.clock /\ world'.forms = world.forms
        /\ world'.first = world.first /\ world'.moved = world.moved
    BY <1>1, <2>1, SpendOK
  <2>6. SetupShape' BY <2>2, <2>3, <2>4, <2>5 DEF SetupShape, Table, Talk
  <2>7. FirstKeyOK' BY <2>2, <2>5 DEF FirstKeyOK
  <2>8. FormOK'
    <3>1. ASSUME ~world.moved, form'.said = "undone" PROVE keychain' = form'.old
      <4>1. ~fails /\ form.said = "none" BY <2>2, <2>4, <3>1 DEF FormOK
      <4>2. form.key = "keep" => keychain = form.old BY <2>2, <3>1, <4>1 DEF FormOK
      <4> QED BY <2>1, <2>4, <4>1, <4>2
    <3> QED BY <2>2, <2>4, <2>5, <3>1 DEF FormOK, Table
  <2> QED BY <2>2, <2>5, <2>6, <2>7, <2>8, TalkRests DEF Talk
<1> QED BY <1>2, <1>3, <1>4, <1>5, <1>6

-----------------------------------------------------------------------------
\* What a turn makes of an answer is known of its model, and of a refusal it
\* was warned of.
LEMMA ReadyKnows ==
  ASSUME SetupInv, NEW t \in Asker, asks[t].at \in {"have", "fetch", "store"}, NEW entry \in Answer,
         entry.says = "image" => /\ entry.of = <<asks[t].set.base, asks[t].key>>
                                 /\ world.clock - entry.since <= CatalogTtl
  PROVE  Ready(asks[t], entry) \in AskRecord /\ Ready(asks[t], entry).at = "ready"
         /\ Known(Ready(asks[t], entry)) /\ Ready(asks[t], entry).set = asks[t].set
<1> DEFINE a == asks[t]
           r == Ready(a, entry)
           takes == entry.says = "image" /\ a.set.name = a.set.base /\ ~Heeded(Target(a.set))
           image == IF a.set.vision = "auto" THEN takes ELSE a.set.vision = "on"
<1> USE SetupAssumption DEF SetupInv
<1>1. a \in AskRecord /\ world \in WorldRecord BY DEF SetupShape
<1>2. r = [a EXCEPT !.at = "ready", !.of = entry.of, !.since = entry.since, !.made = world.clock,
                    !.image = image]
  BY DEF Ready
<1>3. /\ entry.of \in Source /\ entry.since \in Nat /\ world.clock \in Nat /\ image \in BOOLEAN
  BY <1>1 DEF Answer, WorldRecord
<1>4. /\ r \in AskRecord /\ r.at = "ready" /\ r.of = entry.of /\ r.since = entry.since
      /\ r.made = world.clock /\ r.image = image /\ r.set = a.set /\ r.key = a.key
      /\ r.warned = a.warned
  <2> HIDE DEF image, r, a
  <2> QED BY <1>1, <1>2, <1>3 DEF AskRecord, AskAt
<1>5. ASSUME r.image, r.set.vision = "auto"
      PROVE  /\ r.of = <<r.set.name, r.key>> /\ r.made - r.since <= CatalogTtl
             /\ r.warned # Never => r.made - r.warned.since > RefusalTtl
  <2>1. takes BY <1>4, <1>5
  <2>2. r.of = <<r.set.name, r.key>> /\ r.made - r.since <= CatalogTtl BY <1>4, <2>1
  <2>3. ASSUME a.warned # Never PROVE world.clock - a.warned.since > RefusalTtl
    <3> DEFINE noted == refusals[Target(a.set)]
    <3>1. Target(a.set) \in DOMAIN refusals /\ a.warned.since <= noted.since
      BY <2>3 DEF WarnedOK
    <3>2. noted \in Refusal BY <3>1 DEF RefusalsOK
    <3>3. noted # Never
      <4>1. noted.says = "refused" BY <3>2 DEF Refusal
      <4>2. Never.says = "never" BY DEF Never
      <4> HIDE DEF noted
      <4> QED BY <4>1, <4>2
    <3>4. ~Lasts(noted.since, RefusalTtl) BY <2>1, <3>1, <3>3 DEF Heeded, Refused
    <3>5. a.warned.since \in Nat BY <1>1, <2>3 DEF AskRecord, Refusal
    <3>6. noted.since \in Nat BY <3>2 DEF Refusal
    <3> HIDE DEF noted, a
    <3> QED BY <1>3, <3>1, <3>4, <3>5, <3>6 DEF Lasts
  <2> QED BY <1>4, <2>2, <2>3
<1> QED BY <1>4, <1>5 DEF Known

\* The turns' facts at rest: what the others know is not touched.
LEMMA AsksRest ==
  ASSUME SetupInv, UNCHANGED <<rows, keychain, form, offer>>, NEW t \in Asker, NEW e \in AskRecord,
         asks' = [asks EXCEPT ![t] = e], UNCHANGED refusals, AskOK(e)',
         world' \in WorldRecord, world'.forms = world.forms, world'.first = world.first,
         world'.moved = world.moved, tableLock' \in Asker \cup {"free"},
         e.at \in {"move", "drop"} => world.moved,
         world.forms = 0 => /\ e.at = "move" => e.key = world.first
                            /\ e.at = "drop" => keychain = world.first
  PROVE  SetupShape' /\ WarnedOK' /\ AnswerOK' /\ ModelIsKnown' /\ FirstKeyOK' /\ FormOK'
<1>1. /\ asks' \in [Asker -> AskRecord] /\ asks'[t] = e
      /\ \A u \in Asker \ {t} : asks'[u] = asks[u]
      /\ \A u \in Asker : AskOK(asks[u])'
  BY OneAsk
<1>2. /\ WarnedOK' /\ AnswerOK' /\ ModelIsKnown'
      /\ \A u \in Asker : asks'[u].at \notin {"over", "new"} => asks'[u].set \in RowsIn(Service)
  BY <1>1 DEF WarnedOK, AnswerOK, ModelIsKnown, AskOK, Known, Warned, Answered, Sited
<1>3. SetupShape' BY <1>1, <1>2 DEF SetupInv, SetupShape
<1>4. FirstKeyOK' BY <1>1 DEF SetupInv, FirstKeyOK
<1>5. FormOK' BY <1>1 DEF SetupInv, FormOK
<1> QED BY <1>2, <1>3, <1>4, <1>5

LEMMA NewAskIsOK == AskOK(NewAsk) /\ AskOK(NewAsk)'
BY NewAskOK DEF AskOK, Known, Warned, Answered, Sited

\* A turn that is over, or only begins, has nothing in hand.
LEMMA AskEnds ==
  ASSUME SetupInv, UNCHANGED <<rows, keychain, form, offer, refusals>>, NEW t \in Asker,
         asks' = [asks EXCEPT ![t] = NewAsk],
         world' \in WorldRecord, world'.forms = world.forms, world'.first = world.first,
         world'.moved = world.moved, tableLock' \in Asker \cup {"free"}
  PROVE  SetupShape' /\ WarnedOK' /\ AnswerOK' /\ ModelIsKnown' /\ FirstKeyOK' /\ FormOK'
BY NewAskOK, NewAskIsOK, AsksRest

\* How a turn begins and reads identity and key.
LEMMA ReadSteps ==
  ASSUME SetupInv, NEW t \in Asker, BeginAsk(t) \/ ReadSetup(t)
  PROVE  SetupInv'
<1> USE DEF SetupInv
<1>0. world \in WorldRecord /\ asks[t] \in AskRecord /\ rows \in RowsIn(Service) /\ keychain \in SetupKey
      /\ tableLock \in Asker \cup {"free"}
  BY DEF SetupShape
<1>1. CASE BeginAsk(t)
  <2> DEFINE e == [NewAsk EXCEPT !.at = "new"]
  <2>1. e \in AskRecord /\ e.at = "new" BY NewAskOK DEF AskRecord, AskAt
  <2>2. AskOK(e)' BY <2>1 DEF AskOK, Known, Warned, Answered, Sited
  <2>3. /\ asks' = [asks EXCEPT ![t] = e] /\ UNCHANGED <<Table, Talk, keychain, form>>
        /\ world' = [world EXCEPT !.asked = world.asked + 1]
    BY <1>1 DEF BeginAsk
  <2>4. /\ world' \in WorldRecord /\ world'.clock = world.clock /\ world'.forms = world.forms
        /\ world'.first = world.first /\ world'.moved = world.moved
    BY <1>0, <2>3 DEF WorldRecord
  <2>5. CatalogOK' /\ RefusalsOK' BY <2>3, <2>4 DEF CatalogOK, RefusalsOK, Talk
  <2> HIDE DEF e
  <2>6. SetupShape' /\ WarnedOK' /\ AnswerOK' /\ ModelIsKnown' /\ FirstKeyOK' /\ FormOK'
    BY <1>0, <2>1, <2>2, <2>3, <2>4, AsksRest DEF Table, Talk
  <2> QED BY <2>5, <2>6
<1>2. CASE ReadSetup(t)
  <2>1. PICK fails \in BOOLEAN :
          LET moves == (fails \/ keychain = NoKey) /\ rows.legacy # NoKey
              key == IF moves THEN rows.legacy ELSE IF fails THEN NoKey ELSE keychain
          IN  /\ Spend(fails)
              /\ asks' = [asks EXCEPT ![t] = [@ EXCEPT !.at = IF moves THEN "move" ELSE "have", !.set = rows,
                                                 !.key = key, !.warned = Refused(Target(rows))]]
              /\ tableLock' = IF moves THEN t ELSE "free"
    BY <1>2 DEF ReadSetup
  <2> DEFINE moves == (fails \/ keychain = NoKey) /\ rows.legacy # NoKey
             key == IF moves THEN rows.legacy ELSE IF fails THEN NoKey ELSE keychain
             warned == Refused(Target(rows))
             next == [asks[t] EXCEPT !.at = IF moves THEN "move" ELSE "have", !.set = rows,
                                     !.key = key, !.warned = warned]
  <2>2. UNCHANGED <<rows, Talk, keychain, form>> BY <1>2 DEF ReadSetup
  <2>3. asks' = [asks EXCEPT ![t] = next] /\ tableLock' \in Asker \cup {"free"} BY <2>1
  <2>4. /\ world' \in WorldRecord /\ world'.clock = world.clock /\ world'.forms = world.forms
        /\ world'.first = world.first /\ world'.moved = world.moved
    BY <1>0, <2>1, SpendOK
  <2>5. /\ warned \in {Never} \cup Refusal
        /\ warned # Never => /\ Target(rows) \in DOMAIN refusals
                             /\ warned.since <= refusals[Target(rows)].since
    <3>1. CASE Target(rows) \in DOMAIN refusals
      <4>1. warned = refusals[Target(rows)] /\ warned \in Refusal BY <3>1 DEF Refused, RefusalsOK
      <4>2. warned.since \in Nat BY <4>1 DEF Refusal
      <4> HIDE DEF warned
      <4> QED BY <3>1, <4>1, <4>2
    <3>2. CASE Target(rows) \notin DOMAIN refusals BY <3>2 DEF Refused
    <3> QED BY <3>1, <3>2
  <2>6. key \in SetupKey /\ rows \in RowsIn(SetupPlace) BY <1>0 DEF RowsIn, SetupKey, SetupPlace
  <2>7. PICK e \in AskRecord :
          /\ asks' = [asks EXCEPT ![t] = e] /\ e.at = (IF moves THEN "move" ELSE "have")
          /\ e.set = rows /\ e.key = key /\ e.warned = warned
    <3>1. /\ next \in AskRecord /\ next.at = (IF moves THEN "move" ELSE "have") /\ next.set = rows
          /\ next.key = key /\ next.warned = warned
      <4> HIDE DEF moves, key, warned
      <4> QED BY <1>0, <2>5, <2>6 DEF AskRecord, AskAt
    <3> HIDE DEF next, moves, key, warned
    <3> QED BY <2>3, <3>1
  <2>8. AskOK(e)'
    BY <1>0, <2>2, <2>5, <2>7 DEF AskOK, Known, Warned, Answered, Sited, Talk
  <2>9. moves => rows.legacy # NoKey /\ key = rows.legacy OBVIOUS
  <2>10. e.at \in {"move", "drop"} => moves BY <2>7
  <2>11. moves => world.moved BY <2>9, <1>0 DEF FormOK, WorldRecord
  <2>12. world.forms = 0 => /\ e.at = "move" => e.key = world.first
                            /\ e.at = "drop" => keychain = world.first
    BY <2>7, <2>9 DEF FirstKeyOK
  <2>13. CatalogOK' /\ RefusalsOK' BY <2>2, <2>4 DEF CatalogOK, RefusalsOK, Talk
  <2> HIDE DEF moves
  <2>14. SetupShape' /\ WarnedOK' /\ AnswerOK' /\ ModelIsKnown' /\ FirstKeyOK' /\ FormOK'
    BY <2>2, <2>3, <2>4, <2>7, <2>8, <2>10, <2>11, <2>12, AsksRest DEF Talk
  <2> QED BY <2>13, <2>14
<1> QED BY <1>1, <1>2

\* A key of an older version: first into the keychain, then out of the table.
LEMMA MoveSteps ==
  ASSUME SetupInv, NEW t \in Asker, MoveKey(t) \/ DropOldKey(t)
  PROVE  SetupInv'
<1> USE DEF SetupInv
<1>0. /\ world \in WorldRecord /\ asks[t] \in AskRecord /\ rows \in RowsIn(Service)
      /\ keychain \in SetupKey /\ tableLock \in Asker \cup {"free"} /\ asks \in [Asker -> AskRecord]
  BY DEF SetupShape
<1>1. asks[t].at \in {"move", "drop"} BY DEF MoveKey, DropOldKey
<1>2. world.moved /\ asks[t].set \in RowsIn(Service) BY <1>0, <1>1 DEF FormOK, SetupShape, WorldRecord
<1>3. PICK fails \in BOOLEAN :
        /\ Spend(fails) /\ tableLock' \in Asker \cup {"free"} /\ UNCHANGED <<Talk, form>>
        /\ \/ /\ asks' = [asks EXCEPT ![t] = NewAsk] /\ UNCHANGED <<rows, keychain>>
           \/ /\ asks[t].at = "move" /\ keychain' = asks[t].key /\ UNCHANGED rows
              /\ asks' = [asks EXCEPT ![t] = [@ EXCEPT !.at = "drop"]]
           \/ /\ asks[t].at = "drop" /\ rows' = [rows EXCEPT !.legacy = NoKey] /\ UNCHANGED keychain
              /\ asks' = [asks EXCEPT ![t] = [@ EXCEPT !.at = "have"]]
  BY DEF MoveKey, DropOldKey
<1>4. /\ world' \in WorldRecord /\ world'.clock = world.clock /\ world'.forms = world.forms
      /\ world'.first = world.first /\ world'.moved = world.moved
  BY <1>0, <1>3, SpendOK
<1>5. CatalogOK' /\ RefusalsOK' BY <1>3, <1>4 DEF CatalogOK, RefusalsOK, Talk
<1>6. CASE asks' = [asks EXCEPT ![t] = NewAsk] /\ UNCHANGED <<rows, keychain>>
  <2>1. SetupShape' /\ WarnedOK' /\ AnswerOK' /\ ModelIsKnown' /\ FirstKeyOK' /\ FormOK'
    BY <1>3, <1>4, <1>6, AskEnds DEF Talk
  <2> QED BY <1>5, <2>1
<1>7. ASSUME NEW place \in {"drop", "have"}, asks' = [asks EXCEPT ![t] = [@ EXCEPT !.at = place]],
             rows' \in RowsIn(Service), keychain' \in SetupKey,
             world.forms = 0 =>
               /\ IF rows'.legacy # NoKey THEN rows'.legacy = world.first ELSE keychain' = world.first
               /\ keychain # keychain' \/ place = "drop" => keychain' = world.first
      PROVE  SetupInv'
  <2>1. PICK e \in AskRecord :
          /\ asks' = [asks EXCEPT ![t] = e]
          /\ e.at = place /\ e.set = asks[t].set /\ e.warned = asks[t].warned
    <3> DEFINE next == [asks[t] EXCEPT !.at = place]
    <3>1. next \in AskRecord /\ next.at = place /\ next.set = asks[t].set /\ next.warned = asks[t].warned
      BY <1>0 DEF AskRecord, AskAt
    <3>2. asks' = [asks EXCEPT ![t] = next] BY <1>7
    <3> HIDE DEF next
    <3> QED BY <3>1, <3>2
  <2>2. AskOK(e)'
    BY <1>1, <1>2, <1>3, <2>1 DEF AskOK, Known, Warned, Answered, Sited, Talk, WarnedOK
  <2>4. /\ asks' \in [Asker -> AskRecord] /\ asks'[t] = e
        /\ \A u \in Asker \ {t} : asks'[u] = asks[u]
        /\ \A u \in Asker : AskOK(asks[u])'
    BY <1>3, <2>1, <2>2, OneAsk DEF Talk
  <2>5. /\ WarnedOK' /\ AnswerOK' /\ ModelIsKnown'
        /\ \A u \in Asker : asks'[u].at \notin {"over", "new"} => asks'[u].set \in RowsIn(Service)
    BY <2>4 DEF WarnedOK, AnswerOK, ModelIsKnown, AskOK, Known, Warned, Answered, Sited
  <2>6. SetupShape' BY <1>3, <1>4, <1>7, <2>4, <2>5 DEF SetupShape, Talk
  <2>7. FirstKeyOK' BY <1>3, <1>4, <1>7, <2>1, <2>4 DEF FirstKeyOK
  <2>8. FormOK' BY <1>2, <1>3, <1>4 DEF FormOK
  <2> QED BY <1>5, <2>5, <2>6, <2>7, <2>8
<1>8. CASE /\ asks[t].at = "move" /\ keychain' = asks[t].key /\ UNCHANGED rows
           /\ asks' = [asks EXCEPT ![t] = [@ EXCEPT !.at = "drop"]]
  <2>1. asks[t].key \in SetupKey BY <1>0 DEF AskRecord
  <2>2. world.forms = 0 => asks[t].key = world.first BY <1>8 DEF FirstKeyOK
  <2> QED BY <1>0, <1>7, <1>8, <2>1, <2>2 DEF FirstKeyOK
<1>9. CASE /\ asks[t].at = "drop" /\ rows' = [rows EXCEPT !.legacy = NoKey] /\ UNCHANGED keychain
           /\ asks' = [asks EXCEPT ![t] = [@ EXCEPT !.at = "have"]]
  <2>1. rows' \in RowsIn(Service) /\ rows'.legacy = NoKey BY <1>0, <1>9 DEF RowsIn, SetupKey
  <2>2. world.forms = 0 => keychain = world.first BY <1>9 DEF FirstKeyOK
  <2> QED BY <1>0, <1>7, <1>9, <2>1, <2>2
<1> QED BY <1>3, <1>6, <1>8, <1>9

\* What a turn learns of its model, from the catalog or from the service.
LEMMA LearnSteps ==
  ASSUME SetupInv, NEW t \in Asker, LookUpModel(t) \/ AnswerFetch(t) \/ StoreCatalog(t)
  PROVE  SetupInv'
<1> USE SetupAssumption DEF SetupInv
<1>0. /\ world \in WorldRecord /\ asks[t] \in AskRecord /\ tableLock \in Asker \cup {"free"}
      /\ asks[t].at \in {"have", "fetch", "store"} /\ asks[t].set \in RowsIn(Service)
  BY DEF SetupShape, LookUpModel, AnswerFetch, StoreCatalog
<1>1. ASSUME NEW entry \in Answer,
             entry.says = "image" => /\ entry.of = <<asks[t].set.base, asks[t].key>>
                                     /\ world.clock - entry.since <= CatalogTtl
      PROVE  \E e \in AskRecord : e = Ready(asks[t], entry) /\ e.at = "ready" /\ AskOK(e)'
  <2>1. PICK e : e = Ready(asks[t], entry) OBVIOUS
  <2>2. e \in AskRecord /\ e.at = "ready" /\ Known(e) /\ e.set = asks[t].set
    BY <1>0, <1>1, <2>1, ReadyKnows
  <2>3. AskOK(e)' BY <1>0, <2>2 DEF AskOK, Known, Warned, Answered, Sited
  <2> QED BY <2>1, <2>2, <2>3
<1>2. ASSUME NEW e \in AskRecord, asks' = [asks EXCEPT ![t] = e], AskOK(e)',
             e.at \notin {"move", "drop"}, UNCHANGED <<Table, refusals, offer, keychain, form>>,
             world' \in WorldRecord, world'.forms = world.forms, world'.first = world.first,
             world'.moved = world.moved
      PROVE  SetupShape' /\ WarnedOK' /\ AnswerOK' /\ ModelIsKnown' /\ FirstKeyOK' /\ FormOK'
  BY <1>0, <1>2, AsksRest DEF Table
<1>3. CASE LookUpModel(t)
  <2>1. UNCHANGED <<Table, Talk, keychain, form, world>> BY <1>3 DEF LookUpModel
  <2>2. CatalogOK' /\ RefusalsOK' BY <2>1 DEF CatalogOK, RefusalsOK, Talk
  <2>3. CASE asks' = [asks EXCEPT ![t] = NewAsk]
    BY <1>0, <1>2, <2>1, <2>2, <2>3, NewAskOK, NewAskIsOK DEF Talk
  <2>4. CASE asks' = [asks EXCEPT ![t] = [asks[t] EXCEPT !.at = "fetch"]]
    <3>1. PICK e \in AskRecord :
            /\ asks' = [asks EXCEPT ![t] = e]
            /\ e.at = "fetch" /\ e.set = asks[t].set /\ e.warned = asks[t].warned
      <4> DEFINE next == [asks[t] EXCEPT !.at = "fetch"]
      <4>1. next \in AskRecord /\ next.at = "fetch" /\ next.set = asks[t].set /\ next.warned = asks[t].warned
        BY <1>0 DEF AskRecord, AskAt
      <4>2. asks' = [asks EXCEPT ![t] = next] BY <2>4
      <4> HIDE DEF next
      <4> QED BY <4>1, <4>2
    <3>2. AskOK(e)'
      BY <1>0, <2>1, <3>1 DEF AskOK, Known, Warned, Answered, Sited, Talk, WarnedOK
    <3> QED BY <1>0, <1>2, <2>1, <2>2, <3>1, <3>2 DEF Talk
  <2>5. CASE Remembered(asks[t]) # Never /\ asks' = [asks EXCEPT ![t] = Ready(asks[t], Remembered(asks[t]))]
    <3> DEFINE entry == Remembered(asks[t])
    <3>1. /\ Identity(asks[t]) \in DOMAIN catalog /\ Lasts(catalog[Identity(asks[t])].since, CatalogTtl)
          /\ entry = catalog[Identity(asks[t])]
      BY <2>5 DEF Remembered
    <3>2. entry \in Answer /\ entry.of = <<asks[t].set.base, asks[t].key>>
      BY <3>1 DEF CatalogOK, Identity
    <3>3. world.clock - entry.since <= CatalogTtl BY <3>1 DEF Lasts
    <3> HIDE DEF entry
    <3>4. PICK e \in AskRecord : e = Ready(asks[t], entry) /\ e.at = "ready" /\ AskOK(e)'
      BY <1>1, <3>2, <3>3
    <3>5. asks' = [asks EXCEPT ![t] = e] BY <2>5, <3>4 DEF entry
    <3> QED BY <1>0, <1>2, <2>1, <2>2, <3>4, <3>5 DEF Talk
  <2> QED BY <1>3, <2>3, <2>4, <2>5 DEF LookUpModel
<1>4. CASE AnswerFetch(t)
  <2> DEFINE o == <<asks[t].set.base, asks[t].key>>
  <2>1. PICK fails \in BOOLEAN :
          /\ Spend(fails)
          /\ asks' = [asks EXCEPT ![t] = IF fails THEN Ready(asks[t], Unknown)
                                          ELSE [asks[t] EXCEPT !.at = "store", !.says = offer[o], !.of = o]]
    BY <1>4 DEF AnswerFetch
  <2>2. UNCHANGED <<Table, Talk, keychain, form>> BY <1>4 DEF AnswerFetch
  <2>3. /\ world' \in WorldRecord /\ world'.clock = world.clock /\ world'.forms = world.forms
        /\ world'.first = world.first /\ world'.moved = world.moved
    BY <1>0, <2>1, SpendOK
  <2>4. CatalogOK' /\ RefusalsOK' BY <2>2, <2>3 DEF CatalogOK, RefusalsOK, Talk
  <2>5. CASE fails
    <3>1. Unknown \in Answer /\ Unknown.says = "unknown" BY DEF Unknown, Answer, Source
    <3>2. PICK e \in AskRecord : e = Ready(asks[t], Unknown) /\ e.at = "ready" /\ AskOK(e)'
      BY <1>1, <3>1
    <3>3. asks' = [asks EXCEPT ![t] = e] BY <2>1, <2>5, <3>2
    <3> QED BY <1>2, <2>2, <2>3, <2>4, <3>2, <3>3 DEF Talk
  <2>6. CASE ~fails
    <3>1. o \in Service \X SetupKey BY <1>0 DEF AskRecord, RowsIn
    <3>2. offer[o] \in {"image", "text"} /\ o \in Source BY <3>1 DEF SetupShape, Source, SetupPlace
    <3>3. PICK e \in AskRecord :
            /\ asks' = [asks EXCEPT ![t] = e] /\ e.at = "store" /\ e.set = asks[t].set
            /\ e.warned = asks[t].warned /\ e.of = o /\ e.key = asks[t].key
      <4> HIDE DEF o
      <4> DEFINE next == [asks[t] EXCEPT !.at = "store", !.says = offer[o], !.of = o]
      <4>1. /\ next \in AskRecord /\ next.at = "store" /\ next.set = asks[t].set
            /\ next.warned = asks[t].warned /\ next.of = o /\ next.key = asks[t].key
        BY <1>0, <3>2 DEF AskRecord, AskAt
      <4>2. asks' = [asks EXCEPT ![t] = next] BY <2>1, <2>6 DEF o
      <4> HIDE DEF next
      <4> QED BY <4>1, <4>2
    <3>4. AskOK(e)'
      BY <1>0, <2>2, <3>3 DEF AskOK, Known, Warned, Answered, Sited, Talk, WarnedOK
    <3> QED BY <1>2, <2>2, <2>3, <2>4, <3>3, <3>4 DEF Talk
  <2> QED BY <2>5, <2>6
<1>5. CASE StoreCatalog(t)
  <2> DEFINE i == Identity(asks[t])
             entry == [says |-> asks[t].says, of |-> asks[t].of, since |-> world.clock]
             fresh == {j \in DOMAIN catalog : Lasts(catalog[j].since, CatalogTtl)}
  <2>1. /\ catalog' = [j \in fresh \cup {i} |-> IF j = i THEN entry ELSE catalog[j]]
        /\ asks' = [asks EXCEPT ![t] = Ready(asks[t], entry)]
        /\ UNCHANGED <<Table, refusals, offer, keychain, form, world>>
    BY <1>5 DEF StoreCatalog
  <2>2. entry \in Answer /\ entry.since = world.clock /\ entry.of = asks[t].of /\ entry.says # "never"
    BY <1>0 DEF AskRecord, WorldRecord, Answer
  <2>3. asks[t].of = <<asks[t].set.base, asks[t].key>> BY <1>5 DEF StoreCatalog, AnswerOK
  <2>4. i \in Service \X Service \X SetupKey /\ entry.of = <<i[2], i[3]>>
    BY <1>0, <2>2, <2>3 DEF Identity, AskRecord, RowsIn
  <2>5. CatalogOK'
    <3> HIDE DEF i, entry
    <3> QED BY <2>1, <2>2, <2>4 DEF CatalogOK
  <2>6. RefusalsOK' BY <2>1 DEF RefusalsOK
  <2>7. world.clock - entry.since <= CatalogTtl
    <3>1. world.clock \in Nat BY <1>0 DEF WorldRecord
    <3>2. world.clock - world.clock = 0 BY <3>1
    <3> QED BY <2>2, <3>2
  <2> HIDE DEF entry
  <2>8. PICK e \in AskRecord : e = Ready(asks[t], entry) /\ e.at = "ready" /\ AskOK(e)'
    BY <1>1, <2>2, <2>3, <2>7
  <2>9. asks' = [asks EXCEPT ![t] = e] BY <2>1, <2>8
  <2> QED BY <1>0, <1>2, <2>1, <2>5, <2>6, <2>8, <2>9
<1> QED BY <1>3, <1>4, <1>5

\* What a turn does once it has asked.
LEMMA SendSteps ==
  ASSUME SetupInv, NEW t \in Asker, SendRequestTo(t) \/ NoteRefusal(t) \/ ForgetCatalog(t)
  PROVE  SetupInv'
<1> USE DEF SetupInv
<1>0. /\ world \in WorldRecord /\ asks[t] \in AskRecord /\ tableLock \in Asker \cup {"free"}
      /\ asks[t].at \in {"ready", "refused", "forget"} /\ asks[t].set \in RowsIn(Service)
      /\ UNCHANGED <<Table, offer, keychain, form, world>>
  BY DEF SetupShape, SendRequestTo, NoteRefusal, ForgetCatalog, Talk
<1>1. ASSUME NEW place \in {"refused", "forget"}
      PROVE  \E e \in AskRecord : /\ e = [asks[t] EXCEPT !.at = place] /\ e.at = place
                                  /\ e.set = asks[t].set /\ AskOK(e)'
  <2>1. PICK e : e = [asks[t] EXCEPT !.at = place] OBVIOUS
  <2>2. e \in AskRecord /\ e.at = place /\ e.set = asks[t].set BY <1>0, <2>1 DEF AskRecord, AskAt
  <2>3. AskOK(e)' BY <1>0, <2>2 DEF AskOK, Known, Warned, Answered, Sited
  <2> QED BY <2>1, <2>2, <2>3
<1>2. CASE SendRequestTo(t)
  <2>1. UNCHANGED Talk BY <1>2 DEF SendRequestTo
  <2>2. CatalogOK' /\ RefusalsOK' BY <1>0, <2>1 DEF CatalogOK, RefusalsOK, Talk
  <2>3. CASE asks' = [asks EXCEPT ![t] = NewAsk]
    <3>1. SetupShape' /\ WarnedOK' /\ AnswerOK' /\ ModelIsKnown' /\ FirstKeyOK' /\ FormOK'
      BY <1>0, <2>1, <2>3, AskEnds DEF Talk, Table
    <3> QED BY <2>2, <3>1
  <2>4. CASE asks' = [asks EXCEPT ![t] = [asks[t] EXCEPT !.at = "refused"]]
    <3>1. PICK e \in AskRecord : e = [asks[t] EXCEPT !.at = "refused"] /\ e.at = "refused" /\ AskOK(e)'
      BY <1>1
    <3>2. asks' = [asks EXCEPT ![t] = e] BY <2>4, <3>1
    <3>3. SetupShape' /\ WarnedOK' /\ AnswerOK' /\ ModelIsKnown' /\ FirstKeyOK' /\ FormOK'
      BY <1>0, <2>1, <3>1, <3>2, AsksRest DEF Talk, Table
    <3> QED BY <2>2, <3>3
  <2> QED BY <1>2, <2>3, <2>4 DEF SendRequestTo
<1>3. CASE NoteRefusal(t)
  <2> DEFINE i == Target(asks[t].set)
  <2>1. /\ refusals' = [j \in DOMAIN refusals \cup {i} |->
                          IF j = i THEN [says |-> "refused", since |-> world.clock] ELSE refusals[j]]
        /\ UNCHANGED catalog /\ asks' = [asks EXCEPT ![t] = [asks[t] EXCEPT !.at = "forget"]]
    BY <1>3 DEF NoteRefusal
  <2>2. PICK e \in AskRecord : /\ e = [asks[t] EXCEPT !.at = "forget"] /\ e.at = "forget"
                               /\ e.set = asks[t].set /\ AskOK(e)'
    BY <1>1
  <2>3. asks' = [asks EXCEPT ![t] = e] BY <2>1, <2>2
  <2>4. CatalogOK' BY <2>1 DEF CatalogOK
  <2>5. world.clock \in Nat BY <1>0 DEF WorldRecord
  <2>6. [says |-> "refused", since |-> world.clock] \in Refusal BY <2>5 DEF Refusal
  <2>7. RefusalsOK'
    <3> HIDE DEF i
    <3> QED BY <1>0, <2>1, <2>5, <2>6 DEF RefusalsOK
  <2>8. \A j \in DOMAIN refusals : j \in DOMAIN refusals' /\ refusals[j].since <= refusals'[j].since
    <3> HIDE DEF i
    <3>1. ASSUME NEW j \in DOMAIN refusals
          PROVE  /\ j \in DOMAIN refusals'
                 /\ refusals'[j] = IF j = i THEN [says |-> "refused", since |-> world.clock] ELSE refusals[j]
      BY <2>1
    <3>2. \A j \in DOMAIN refusals : refusals[j].since <= world.clock /\ refusals[j].since \in Nat
      BY DEF RefusalsOK, Refusal
    <3> QED BY <3>1, <3>2
  <2>9. \A j \in DOMAIN refusals : refusals[j].since \in Nat BY DEF RefusalsOK, Refusal
  <2>10. \A j \in DOMAIN refusals' : refusals'[j].since \in Nat BY <2>7 DEF RefusalsOK, Refusal
  <2>11. /\ asks' \in [Asker -> AskRecord] /\ asks'[t] = e
         /\ \A u \in Asker \ {t} : asks'[u] = asks[u]
    BY <2>3 DEF SetupShape
  <2>12. WarnedOK'
    <3> SUFFICES ASSUME NEW u \in Asker,
                        asks'[u].at \in {"move", "drop", "have", "fetch", "store"}, asks'[u].warned # Never
                 PROVE  /\ Target(asks'[u].set) \in DOMAIN refusals'
                        /\ asks'[u].warned.since <= refusals'[Target(asks'[u].set)].since
      BY DEF WarnedOK, Target
    <3>1. u # t /\ asks'[u] = asks[u] BY <2>2, <2>11
    <3>2. /\ Target(asks[u].set) \in DOMAIN refusals
          /\ asks[u].warned.since <= refusals[Target(asks[u].set)].since
      BY <3>1 DEF WarnedOK
    <3>3. asks[u].warned.since \in Nat BY <3>1 DEF SetupShape, AskRecord, Refusal
    <3> QED BY <2>8, <2>9, <2>10, <3>1, <3>2, <3>3
  <2>13. SetupShape' BY <1>0, <2>2, <2>11 DEF SetupShape, Table
  <2>14. AnswerOK' /\ ModelIsKnown' BY <2>2, <2>11 DEF AnswerOK, ModelIsKnown
  <2>15. FirstKeyOK' /\ FormOK' BY <1>0, <2>2, <2>11 DEF FirstKeyOK, FormOK, Table
  <2> QED BY <2>4, <2>7, <2>12, <2>13, <2>14, <2>15
<1>4. CASE ForgetCatalog(t)
  <2>1. /\ catalog' = [i \in DOMAIN catalog \ {Identity(asks[t])} |-> catalog[i]]
        /\ asks' = [asks EXCEPT ![t] = NewAsk] /\ UNCHANGED refusals
    BY <1>4 DEF ForgetCatalog
  <2>2. CatalogOK' /\ RefusalsOK' BY <1>0, <2>1 DEF CatalogOK, RefusalsOK
  <2>3. SetupShape' /\ WarnedOK' /\ AnswerOK' /\ ModelIsKnown' /\ FirstKeyOK' /\ FormOK'
    BY <1>0, <2>1, AskEnds DEF Table
  <2> QED BY <2>2, <2>3
<1> QED BY <1>2, <1>3, <1>4

-----------------------------------------------------------------------------
\* Services, time and the process itself.
LEMMA WorldSteps ==
  ASSUME SetupInv, OfferChanges \/ HoursPass \/ Die
  PROVE  SetupInv'
<1> USE DEF SetupInv
<1>0. world \in WorldRecord /\ form \in FormRecord BY DEF SetupShape
<1>1. CASE OfferChanges
  <2>1. PICK o \in DOMAIN offer : offer' = [offer EXCEPT ![o] = IF @ = "text" THEN "image" ELSE "text"]
    BY <1>1 DEF OfferChanges
  <2>2. /\ UNCHANGED <<Table, catalog, refusals, keychain, form, asks>>
        /\ world' = [world EXCEPT !.offers = world.offers + 1]
    BY <1>1 DEF OfferChanges
  <2>3. /\ world' \in WorldRecord /\ world'.clock = world.clock /\ world'.forms = world.forms
        /\ world'.first = world.first /\ world'.moved = world.moved
    BY <1>0, <2>2 DEF WorldRecord
  <2>4. SetupShape' BY <2>1, <2>2, <2>3 DEF SetupShape, Table
  <2>5. CatalogOK' /\ RefusalsOK' /\ WarnedOK' /\ AnswerOK' /\ ModelIsKnown'
    BY <2>2, <2>3 DEF CatalogOK, RefusalsOK, WarnedOK, AnswerOK, ModelIsKnown
  <2>6. FirstKeyOK' /\ FormOK' BY <2>2, <2>3 DEF FirstKeyOK, FormOK, Table
  <2> QED BY <2>4, <2>5, <2>6
<1>2. CASE HoursPass
  <2>1. /\ UNCHANGED <<Table, Talk, keychain, form, asks>>
        /\ world' = [world EXCEPT !.clock = world.clock + 1]
    BY <1>2 DEF HoursPass
  <2>2. /\ world' \in WorldRecord /\ world'.clock = world.clock + 1 /\ world'.forms = world.forms
        /\ world'.first = world.first /\ world'.moved = world.moved /\ world.clock \in Nat
    BY <1>0, <2>1 DEF WorldRecord
  <2>3. SetupShape' BY <2>1, <2>2 DEF SetupShape, Table, Talk
  <2>4. CatalogOK' /\ WarnedOK' /\ AnswerOK' /\ ModelIsKnown'
    BY <2>1 DEF CatalogOK, WarnedOK, AnswerOK, ModelIsKnown, Talk
  <2>5. RefusalsOK'
    <3>1. \A i \in DOMAIN refusals : refusals[i].since \in Nat BY DEF RefusalsOK, Refusal
    <3> QED BY <2>1, <2>2, <3>1 DEF RefusalsOK, Talk
  <2>6. FirstKeyOK' /\ FormOK' BY <2>1, <2>2 DEF FirstKeyOK, FormOK, Table
  <2> QED BY <2>3, <2>4, <2>5, <2>6
<1>3. CASE Die
  <2>1. /\ Spend(TRUE) /\ UNCHANGED <<rows, keychain, offer>>
        /\ form' = NewForm /\ asks' = [t \in Asker |-> NewAsk] /\ tableLock' = "free"
        /\ catalog' = NothingKept /\ refusals' = NothingKept
    BY <1>3 DEF Die
  <2>2. /\ world' \in WorldRecord /\ world'.clock = world.clock /\ world'.forms = world.forms
        /\ world'.first = world.first /\ world'.moved = world.moved
    BY <1>0, <2>1, SpendOK
  <2>3. \A t \in Asker : asks'[t] = NewAsk BY <2>1
  <2>4. SetupShape' BY <2>1, <2>2, <2>3, NewAskOK, NewFormOK DEF SetupShape
  <2>5. CatalogOK' /\ RefusalsOK' BY <2>1 DEF CatalogOK, RefusalsOK, NothingKept
  <2>6. WarnedOK' /\ AnswerOK' /\ ModelIsKnown'
    BY <2>3, NewAskOK DEF WarnedOK, AnswerOK, ModelIsKnown
  <2>7. FirstKeyOK' /\ FormOK'
    BY <2>1, <2>2, <2>3, NewAskOK, NewFormOK DEF FirstKeyOK, FormOK
  <2> QED BY <2>4, <2>5, <2>6, <2>7
<1> QED BY <1>1, <1>2, <1>3

LEMMA SetupInvNext == SetupInv /\ [SetupNext]_setupVars => SetupInv'
<1> SUFFICES ASSUME SetupInv, [SetupNext]_setupVars PROVE SetupInv' OBVIOUS
<1>1. CASE UNCHANGED setupVars
  BY <1>1 DEF setupVars, SetupInv, SetupShape, CatalogOK, RefusalsOK, WarnedOK, AnswerOK,
              ModelIsKnown, FirstKeyOK, FormOK
<1> QED BY <1>1, FormSteps, ReadSteps, MoveSteps, LearnSteps, SendSteps, WorldSteps DEF SetupNext

LEMMA SetupInvHolds == SetupSpec => []SetupInv
  BY SetupInvInit, SetupInvNext, PTL DEF SetupSpec

\* Table, keychain, form and turns keep their types.
THEOREM SetupTypeCorrect == SetupSpec => []SetupTypeOK
<1>1. ASSUME SetupInv PROVE SetupTypeOK
  <2>1. rows.legacy \in SetupKey BY <1>1 DEF SetupInv, SetupShape, RowsIn
  <2>2. form.at \in {"idle", "old", "key", "rows", "restore"} BY <1>1 DEF SetupInv, SetupShape, FormRecord
  <2>3. \A t \in Asker : asks[t].at \in AskAt BY <1>1 DEF SetupInv, SetupShape, AskRecord
  <2> QED BY <1>1, <2>1, <2>2, <2>3 DEF SetupTypeOK, SetupInv, SetupShape, SetupKey, AskAt
<1> QED BY <1>1, SetupInvHolds, PTL

\* A turn sends an image only to a model that said, to this key and not too
\* long ago, that it takes one, or that the user vouches for, and to none
\* that refused one lately (capability lookup, provider_refusals).
THEOREM ModelsAreKnown == SetupSpec => []ModelIsKnown
<1>1. SetupInv => ModelIsKnown BY DEF SetupInv
<1> QED BY <1>1, SetupInvHolds, PTL

\* The key of an older version survives its move, whatever fails or dies on
\* the way; a form that is undone leaves the key as it was.
THEOREM KeysSurvive == SetupSpec => []KeysAreKept
<1>1. ASSUME SetupInv PROVE KeysAreKept
  <2>1. world.moved \in BOOLEAN BY <1>1 DEF SetupInv, SetupShape, WorldRecord
  <2> QED BY <1>1, <2>1 DEF SetupInv, FirstKeyOK, FormOK, KeysAreKept
<1> QED BY <1>1, SetupInvHolds, PTL
=============================================================================
