--------------------------- MODULE CaptureActivity ---------------------------
(***************************************************************************)
(* The privacy indicators of microphone and camera: the registries they    *)
(* are computed from and what is shown of them (tool-audio, tool-camera),  *)
(* against the native streams (audio-capture) and the sessions the tools   *)
(* have handed out.                                                        *)
(*                                                                         *)
(* Whoever changes a registry publishes it: it looks at the registry under *)
(* its lock, lets the lock go, and then writes what it saw (the flag, the  *)
(* record, the channel and the listeners alike; the model has one of these *)
(* copies).  So a look can be shown after a newer one.  A poisoned lock,   *)
(* which shows the device as on, is left out.                              *)
(*                                                                         *)
(* A call of the model is a future: it can be dropped at every await when  *)
(* its turn is cancelled, while a blocking native call it waits for goes   *)
(* on.  The front end's calls are not dropped.  A stream's worker thread   *)
(* ends by itself (silence, maximum duration, error of the device) or on   *)
(* command, closes the stream, makes the Stopped callback, and only then   *)
(* hands its result over.                                                  *)
(***************************************************************************)
EXTENDS Naturals, FiniteSets

CONSTANTS
  ToolMic,    \* sessions of audio.capture_start
  RecordMic,  \* one-shot calls of audio.record
  HostMic,    \* captures of the front end's speech recognition
  Camera,     \* sessions of camera.capture_start
  Photo,      \* one-shot calls of camera.capture_photo
  MaxCaptures,   \* bound on sessions of the microphone
  MaxCameraCalls \* bound on frames

Mic == ToolMic \cup RecordMic \cup HostMic
Shots == Camera \cup Photo

(* Who publishes: a call or a stream's worker, each for itself.            *)
Device == {"mic", "cam"}
Publishers(d) == IF d = "mic" THEN {"call", "worker"} \X Mic ELSE {"shot"} \X Shots
Publisher == Publishers("mic") \cup Publishers("cam")
DeviceOf(p) == IF p[1] = "shot" THEN "cam" ELSE "mic"

ASSUME CaptureAssumption ==
  /\ ToolMic \cap RecordMic = {} /\ ToolMic \cap HostMic = {} /\ RecordMic \cap HostMic = {}
  /\ Camera \cap Photo = {} /\ MaxCaptures \in Nat /\ MaxCameraCalls \in Nat /\ "nobody" \notin Mic

VARIABLES
  stream,      \* the worker and its native stream, by session
  micCall,     \* the call that is made for the session
  micSessions, \* the sessions audio.capture_stop can find
  micActive,   \* the registry of the microphone's indicator
  lateBegin,   \* registered after its worker had told its end (history)
  refreshed,   \* what a refresh has found alive, before it is applied
  camCall,     \* the call that is made for the camera session
  camSessions, \* the sessions camera.capture_stop can find
  camActive,   \* the registry of the camera's indicator
  camCalls,    \* frames asked for so far
  publishing,  \* how far a publication is, and what it saw
  shown,       \* the indicators
  behind,      \* looked, and another one has looked since (history)
  stale        \* shows a look that a newer one preceded (history)

showVars == <<publishing, shown, behind, stale>>
captureVars == <<stream, micCall, micSessions, micActive, lateBegin, refreshed,
                 camCall, camSessions, camActive, camCalls, showVars>>
micVars == <<stream, micCall, micSessions, micActive, lateBegin, refreshed>>
camVars == <<camCall, camSessions, camActive, camCalls>>

NoRefresh == [by |-> "nobody", live |-> {}]

CaptureTypeOK ==
  /\ stream \in [Mic -> {"none", "open", "closed", "told", "sent"}]
  /\ micCall \in [Mic -> {"new", "open", "opened", "begun", "refresh", "struck", "rest",
                          "stop", "dropped", "over"}]
  /\ micSessions \subseteq ToolMic
  /\ \A s \in micSessions : micCall[s] \in {"begun", "refresh", "struck", "rest"} /\ stream[s] # "none"
  /\ micActive \subseteq Mic /\ lateBegin \subseteq Mic
  /\ refreshed.by \in Mic \cup {"nobody"} /\ refreshed.live \subseteq ToolMic
  /\ camCall \in [Shots -> {"new", "shoot", "keep", "failed", "stop", "rest", "over"}]
  /\ camSessions \subseteq Camera /\ camActive \subseteq Shots
  /\ camCalls \in 0 .. MaxCameraCalls
  /\ publishing \in [Publisher -> {"none", "look", "on", "off"}]
  /\ behind \subseteq {p \in Publisher : publishing[p] \in {"on", "off"}}
  /\ shown \in [Device -> BOOLEAN] /\ stale \subseteq Device

CaptureInit ==
  /\ stream = [s \in Mic |-> "none"] /\ micCall = [s \in Mic |-> "new"]
  /\ micSessions = {} /\ micActive = {} /\ lateBegin = {} /\ refreshed = NoRefresh
  /\ camCall = [s \in Shots |-> "new"] /\ camSessions = {} /\ camActive = {} /\ camCalls = 0
  /\ publishing = [p \in Publisher |-> "none"] /\ shown = [d \in Device |-> FALSE]
  /\ behind = {} /\ stale = {}

-----------------------------------------------------------------------------
(* publish_activity, which comes with every change of a registry: a look   *)
(* under the registry's lock, then the writing.  Nothing is awaited, so    *)
(* whoever publishes takes no other step and is not dropped meanwhile.     *)
Registry(d) == IF d = "mic" THEN micActive ELSE camActive
Idle(p) == publishing[p] = "none"
Publishes(p) ==
  /\ Idle(p) /\ publishing' = [publishing EXCEPT ![p] = "look"]
  /\ UNCHANGED <<shown, behind, stale>>
Looks(p) ==
  /\ publishing[p] = "look"
  /\ publishing' = [publishing EXCEPT ![p] = IF Registry(DeviceOf(p)) = {} THEN "off" ELSE "on"]
  /\ behind' = behind \cup {q \in Publishers(DeviceOf(p)) : publishing[q] \in {"on", "off"}}
  /\ UNCHANGED <<shown, stale, micVars, camVars>>
Shows(p) ==
  /\ publishing[p] \in {"on", "off"} /\ publishing' = [publishing EXCEPT ![p] = "none"]
  /\ shown' = [shown EXCEPT ![DeviceOf(p)] = (publishing[p] = "on")]
  /\ stale' = IF p \in behind THEN stale \cup {DeviceOf(p)} ELSE stale \ {DeviceOf(p)}
  /\ behind' = behind \ {p}
  /\ UNCHANGED <<micVars, camVars>>
PublishStep(d) == \E p \in Publishers(d) : Looks(p) \/ Shows(p)

-----------------------------------------------------------------------------
(* The worker thread of a stream.                                          *)
StreamGoes(s, from, to) == stream[s] = from /\ stream' = [stream EXCEPT ![s] = to]
StreamEnds(s) ==
  /\ StreamGoes(s, "open", "closed")
  /\ UNCHANGED <<micCall, micSessions, micActive, lateBegin, refreshed, camVars, showVars>>
StoppedCallback(s) ==
  /\ StreamGoes(s, "closed", "told")
  /\ micActive' = micActive \ {s} /\ Publishes(<<"worker", s>>)
  /\ UNCHANGED <<micCall, micSessions, lateBegin, refreshed, camVars>>
ResultSent(s) ==
  /\ StreamGoes(s, "told", "sent") /\ Idle(<<"worker", s>>)
  /\ UNCHANGED <<micCall, micSessions, micActive, lateBegin, refreshed, camVars, showVars>>

(* The call of a session goes on to its next place.                        *)
MicGoes(s, from, to) ==
  /\ Idle(<<"call", s>>) /\ micCall[s] = from /\ micCall' = [micCall EXCEPT ![s] = to]
MicBegins(s) ==
  /\ micActive' = micActive \cup {s} /\ Publishes(<<"call", s>>)
  /\ lateBegin' = IF stream[s] \in {"told", "sent"} THEN lateBegin \cup {s} ELSE lateBegin
MicEnds(s) == micActive' = micActive \ {s} /\ Publishes(<<"call", s>>)

(* A call comes in; a one-shot recording is registered before its stream   *)
(* is opened, the others after.                                            *)
MicStart(s) ==
  /\ Cardinality({t \in Mic : micCall[t] # "new"}) < MaxCaptures /\ MicGoes(s, "new", "open")
  /\ IF s \in RecordMic THEN MicBegins(s) ELSE UNCHANGED <<micActive, lateBegin, showVars>>
  /\ UNCHANGED <<stream, micSessions, refreshed, camVars>>

(* The native start, on a blocking thread.  When the call was dropped the  *)
(* capture is dropped at its end, which cancels the stream; a recording    *)
(* goes on.                                                                *)
OpenMic(s) ==
  /\ Idle(<<"call", s>>)
  /\ micCall[s] = "open" \/ (micCall[s] = "dropped" /\ stream[s] = "none")
  /\ \/ /\ stream' = [stream EXCEPT ![s] = "open"]
        /\ micCall' = [micCall EXCEPT ![s] = IF @ = "open" THEN "opened" ELSE @]
        /\ UNCHANGED <<micActive, showVars>>
     \/ /\ micCall' = [micCall EXCEPT ![s] = "over"]
        /\ IF s \in RecordMic /\ micCall[s] = "open" THEN MicEnds(s)
                                                    ELSE UNCHANGED <<micActive, showVars>>
        /\ UNCHANGED stream
  /\ UNCHANGED <<micSessions, lateBegin, refreshed, camVars>>

(* The session enters the map, whose lock a refresh holds, and then the    *)
(* registry.                                                               *)
RegisterMic(s) ==
  /\ s \notin RecordMic /\ (s \in ToolMic => refreshed = NoRefresh)
  /\ MicGoes(s, "opened", "begun") /\ MicBegins(s)
  /\ micSessions' = micSessions \cup ({s} \cap ToolMic)
  /\ UNCHANGED <<stream, refreshed, camVars>>

(* The front end's start looks at its own worker once more.                *)
CheckHostMic(s) ==
  /\ s \in HostMic /\ MicGoes(s, "begun", "rest")
  /\ IF stream[s] = "sent" THEN MicEnds(s) ELSE UNCHANGED <<micActive, showVars>>
  /\ UNCHANGED <<stream, micSessions, lateBegin, refreshed, camVars>>

(* refresh_indicator, at the end of capture_start and in capture_status:   *)
(* see which streams of the map have ended, then strike the ended ones of  *)
(* the model's sessions, and publish.  It holds the map's lock to the end. *)
FindLive(s) ==
  /\ s \in ToolMic /\ Idle(<<"call", s>>) /\ refreshed = NoRefresh
  /\ micCall[s] \in {"begun", "rest"}
  /\ micCall' = [micCall EXCEPT ![s] = "refresh"]
  /\ refreshed' = [by |-> s, live |-> {t \in micSessions : stream[t] # "sent"}]
  /\ UNCHANGED <<stream, micSessions, micActive, lateBegin, camVars, showVars>>
StruckAll(live) == micActive \cap live
Struck(live) == {t \in micActive : t \in ToolMic => t \in live}
ApplyLive(s) ==
  /\ MicGoes(s, "refresh", "struck") /\ refreshed.by = s
  /\ micActive' = Struck(refreshed.live) /\ Publishes(<<"call", s>>)
  /\ UNCHANGED <<stream, micSessions, lateBegin, refreshed, camVars>>
RefreshEnds(s) ==
  /\ MicGoes(s, "struck", "rest") /\ refreshed.by = s /\ refreshed' = NoRefresh
  /\ UNCHANGED <<stream, micSessions, micActive, lateBegin, camVars, showVars>>

(* Stop: out of the map (of the session's artifacts), then the blocking    *)
(* stop, which returns when the worker's result is there.                  *)
MayStopMic(s) ==
  \/ s \in micSessions /\ refreshed = NoRefresh /\ MicGoes(s, "rest", "stop")
  \/ s \in HostMic /\ MicGoes(s, "rest", "stop")
  \/ s \in RecordMic /\ MicGoes(s, "opened", "stop")
StopMic(s) ==
  /\ MayStopMic(s) /\ micSessions' = micSessions \ {s}
  /\ UNCHANGED <<stream, micActive, lateBegin, refreshed, camVars, showVars>>
StoppedMic(s) ==
  /\ MicGoes(s, "stop", "over") /\ stream[s] = "sent" /\ MicEnds(s)
  /\ UNCHANGED <<stream, micSessions, lateBegin, refreshed, camVars>>

(* A call of the model is dropped; the capture it owns alone goes with it. *)
DropMicCall(s) ==
  /\ s \notin HostMic
  /\ \/ \E at \in {"open", "opened", "stop"} : MicGoes(s, at, "dropped")
     \/ MicGoes(s, "begun", "rest")
  /\ UNCHANGED <<stream, micSessions, micActive, lateBegin, refreshed, camVars, showVars>>

-----------------------------------------------------------------------------
(* The camera: a session is a logical grouping, every frame opens the      *)
(* device for itself.                                                      *)
CamGoes(s, from, to) ==
  /\ Idle(<<"shot", s>>) /\ camCall[s] = from /\ camCall' = [camCall EXCEPT ![s] = to]
CamBegins(s) == camActive' = camActive \cup {s} /\ Publishes(<<"shot", s>>)
CamEnds(s) == camActive' = camActive \ {s} /\ Publishes(<<"shot", s>>)

StartCamera(s) ==
  /\ s \in Camera /\ CamGoes(s, "new", "rest")
  /\ camSessions' = camSessions \cup {s} /\ CamBegins(s)
  /\ UNCHANGED <<camCalls, micVars>>
StartPhoto(s) ==
  /\ s \in Photo /\ CamGoes(s, "new", "shoot") /\ CamBegins(s)
  /\ UNCHANGED <<camSessions, camCalls, micVars>>
PhotoTaken(s) ==
  /\ s \in Photo /\ CamGoes(s, "shoot", "over") /\ CamEnds(s)
  /\ UNCHANGED <<camSessions, camCalls, micVars>>

(* A frame: a failed snapshot ends the session, a failure to keep the      *)
(* picture does not.                                                       *)
StartFrame(s) ==
  /\ s \in camSessions /\ camCalls < MaxCameraCalls /\ CamGoes(s, "rest", "shoot")
  /\ camCalls' = camCalls + 1
  /\ UNCHANGED <<camSessions, camActive, micVars, showVars>>
FrameTaken(s) ==
  /\ s \in Camera
  /\ CamGoes(s, "shoot", "keep") \/ CamGoes(s, "shoot", "failed")
  /\ UNCHANGED <<camSessions, camActive, camCalls, micVars, showVars>>
FrameKept(s) ==
  /\ CamGoes(s, "keep", "rest")
  /\ UNCHANGED <<camSessions, camActive, camCalls, micVars, showVars>>
FrameFailed(s) ==
  /\ CamGoes(s, "failed", "over")
  /\ camSessions' = camSessions \ {s} /\ CamEnds(s)
  /\ UNCHANGED <<camCalls, micVars>>

StopCamera(s) ==
  /\ s \in camSessions /\ CamGoes(s, "rest", "stop")
  /\ camSessions' = camSessions \ {s}
  /\ UNCHANGED <<camActive, camCalls, micVars, showVars>>
StoppedCamera(s) ==
  /\ CamGoes(s, "stop", "over") /\ CamEnds(s)
  /\ UNCHANGED <<camSessions, camCalls, micVars>>

DropCameraCall(s) ==
  /\ \E at \in {"shoot", "keep", "failed", "stop"} :
       CamGoes(s, at, IF s \in camSessions THEN "rest" ELSE "over")
  /\ UNCHANGED <<camSessions, camActive, camCalls, micVars, showVars>>

MicStep(s) ==
  \/ StreamEnds(s) \/ StoppedCallback(s) \/ ResultSent(s)
  \/ MicStart(s) \/ OpenMic(s) \/ RegisterMic(s) \/ CheckHostMic(s)
  \/ FindLive(s) \/ ApplyLive(s) \/ RefreshEnds(s) \/ StopMic(s) \/ StoppedMic(s) \/ DropMicCall(s)
CameraStep(s) ==
  \/ StartCamera(s) \/ StartPhoto(s) \/ PhotoTaken(s)
  \/ StartFrame(s) \/ FrameTaken(s) \/ FrameKept(s) \/ FrameFailed(s)
  \/ StopCamera(s) \/ StoppedCamera(s) \/ DropCameraCall(s)
MicNext == (\E s \in Mic : MicStep(s)) \/ PublishStep("mic")
CameraNext == (\E s \in Shots : CameraStep(s)) \/ PublishStep("cam")
CaptureNext == MicNext \/ CameraNext

CaptureSpec == CaptureInit /\ [][CaptureNext]_captureVars

-----------------------------------------------------------------------------
(* An open microphone is in the registry, whatever the other sessions do   *)
(* and however calls are dropped, from the end of the call that opened it  *)
(* to the call that stops it; a dropped capture is being cancelled.        *)
OpenMicIsRegistered ==
  \A s \in Mic : stream[s] = "open" /\ s \notin micActive =>
    \/ micCall[s] = "dropped"
    \/ micCall[s] = "opened" /\ s \notin RecordMic
    \/ micCall[s] = "stop" /\ s \in ToolMic

(* An entry survives the end of its stream only when the worker had ended  *)
(* before the entry was made: neither a refresh that looked before the end *)
(* nor a stop brings one back.                                             *)
EndedMicIsStruck ==
  \A s \in micActive : stream[s] \in {"told", "sent"} => s \in lateBegin

(* A camera session that can be stopped is in the registry, through failed *)
(* frames and dropped calls.                                               *)
CameraIsRegistered == camSessions \subseteq camActive

(* No change of a registry goes unpublished, by calls, workers or a        *)
(* refresh: when nobody publishes, an indicator is wrong about its         *)
(* registry only because a look was written after a newer one.             *)
IndicatorFollows ==
  \A d \in Device : (\A p \in Publishers(d) : Idle(p)) /\ d \notin stale =>
    (shown[d] <=> Registry(d) # {})
CaptureIsShown ==
  OpenMicIsRegistered /\ EndedMicIsStruck /\ CameraIsRegistered /\ IndicatorFollows

(* While the microphone runs, the indicator shows it, as the guide says.   *)
(* Nobody is just publishing, and the call that opened the stream has      *)
(* returned: a crossing of two publications is enough to hide it.          *)
OpenMicIsShown ==
  (\A p \in Publishers("mic") : Idle(p)) /\ (\E s \in Mic : stream[s] = "open" /\ micCall[s] = "rest")
    => shown["mic"]
=============================================================================
