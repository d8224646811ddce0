----------------------------- MODULE VoiceInput -----------------------------
(***************************************************************************)
(* Recorded voice input: the store the microphone buttons drive, the       *)
(* shared recorder service, and its two capture backends.  The native one  *)
(* is three calls to the host, served in the order they are sent; replies  *)
(* and events come back in one queue and the two may cross.  The browser's *)
(* recorder answers by callbacks.  A step runs to the next await: the      *)
(* microtasks that follow one another in a task are one step.              *)
(***************************************************************************)
EXTENDS Integers, Sequences

CONSTANTS
  MaxInputs,   \* bound on calls of the store's startListening
  MaxCancels,  \* bound on calls of the store's cancel
  MaxEarly     \* bound on captures that end before the page knows they began

ASSUME InputAssumption ==
  MaxInputs \in Nat \ {0} /\ MaxCancels \in Nat /\ MaxEarly \in Nat

Inputs == 1 .. MaxInputs
NoId == 0

VARIABLES
  backend,    \* which capture backend the page runs on
  asked, cancels, early, \* bounds
  store,      \* the store: its session, sessionMode, isListening, isTranscribing
  service,    \* the service: its session, audioBackend, listening, transcribing,
              \* and whether it has an audioStopPromise
  starting,   \* sessions that await their backend's start
  stopping,   \* those that await its stop, and why they stop
  transcribing, \* those that await the provider
  listens,    \* the native backends that are attached to host events
  captureId,  \* the capture each of them takes for its own
  notified,   \* stoppedNotified
  recorder,   \* the state of each web backend's recorder
  requests, scripts, \* calls to the host, and what the host sends back
  capture,    \* the host's: its id, its worker, and a recording that is left
              \* over by a worker that has been reaped
  outcome,    \* the results each session has been given
  crossed     \* sessions that heard of an end before they had begun

inputVars == <<backend, asked, cancels, early, store, service, starting, stopping, transcribing,
               listens, captureId, notified, recorder, requests, scripts, capture, outcome, crossed>>

InputOutcomes == {"complete", "no speech", "failed", "denied", "not running"}
NoCapture == [id |-> NoId, at |-> "none", left |-> FALSE]
Idle == [session |-> NoId, backend |-> NoId, listening |-> FALSE, transcribing |-> FALSE,
         stop |-> FALSE]
Ready == [session |-> NoId, mode |-> NoId, listening |-> FALSE, transcribing |-> FALSE]

InputTypeOK ==
  /\ backend \in {"native", "web"}
  /\ asked \in 0 .. MaxInputs /\ cancels \in 0 .. MaxCancels /\ early \in 0 .. MaxEarly
  /\ store.session \in 0 .. asked /\ store.mode \in {NoId, store.session}
  /\ service.session \in {NoId, store.session} \cup 0 .. asked
  /\ service.backend \in {NoId, service.session}
  /\ starting \subseteq Inputs /\ transcribing \subseteq Inputs /\ listens \subseteq Inputs
  /\ \A s \in Inputs :
       /\ captureId[s] \in 0 .. asked /\ notified[s] \in BOOLEAN
       /\ stopping[s] \in {"no", "manual", "auto"}
       /\ recorder[s] \in {"none", "asking", "recording", "stopping"}
       /\ outcome[s] \in Seq(InputOutcomes)
  /\ capture.id \in 0 .. asked /\ capture.at \in {"none", "running", "finished", "broken"}
  /\ capture.left \in BOOLEAN

InputInit ==
  /\ backend \in {"native", "web"} /\ asked = 0 /\ cancels = 0 /\ early = 0
  /\ store = Ready /\ service = Idle
  /\ starting = {} /\ transcribing = {} /\ listens = {}
  /\ stopping = [s \in Inputs |-> "no"] /\ captureId = [s \in Inputs |-> NoId]
  /\ notified = [s \in Inputs |-> FALSE] /\ recorder = [s \in Inputs |-> "none"]
  /\ requests = <<>> /\ scripts = <<>> /\ capture = NoCapture
  /\ outcome = [s \in Inputs |-> <<>>] /\ crossed = {}

-----------------------------------------------------------------------------
Owns(s) == s # NoId /\ service.session = s
Native == backend = "native"
HostCall(op, s) == [op |-> op, by |-> s]

(* A result with its onEnd or onError: the store is at rest again.         *)
Told(s, result) ==
  /\ outcome' = [outcome EXCEPT ![s] = Append(@, result)]
  /\ store' = IF store.session = s
                THEN [store EXCEPT !.mode = NoId, !.listening = FALSE, !.transcribing = FALSE]
                ELSE store
(* finishWithoutProvider, and the end of a transcription.                  *)
Finished(was, s, result) ==
  /\ service' = [was EXCEPT !.backend = NoId, !.transcribing = FALSE, !.stop = FALSE]
  /\ Told(s, result)

(* beginAudioStop and the completion it schedules, up to the await of the  *)
(* backend's stop, which refuses if it is not running.                     *)
MayStop(s) == Owns(s) /\ service.backend # NoId /\ ~service.stop
Stopping == [service EXCEPT !.listening = FALSE, !.transcribing = TRUE, !.stop = TRUE]
StopNative(s, knows, why) ==
  \/ /\ knows /\ service' = Stopping /\ stopping' = [stopping EXCEPT ![s] = why]
     /\ requests' = Append(requests, HostCall("stop", s)) /\ UNCHANGED <<store, outcome>>
  \/ ~knows /\ Finished(Stopping, s, "not running") /\ UNCHANGED <<stopping, requests>>
StopWeb(s) ==
  \/ /\ recorder[s] \in {"recording", "stopping"}
     /\ service' = Stopping /\ stopping' = [stopping EXCEPT ![s] = "manual"]
     /\ recorder' = [recorder EXCEPT ![s] = "stopping"] /\ UNCHANGED <<store, outcome>>
  \/ /\ recorder[s] \notin {"recording", "stopping"}
     /\ Finished(Stopping, s, "not running") /\ UNCHANGED <<stopping, recorder>>

-----------------------------------------------------------------------------
(* The store's startListening, through the service's.                      *)
StartListening ==
  LET s == asked + 1 IN
  /\ asked < MaxInputs /\ ~store.listening /\ ~store.transcribing /\ store.mode = NoId
  /\ asked' = s
  /\ \/ /\ service.listening
        /\ store' = [Ready EXCEPT !.session = s, !.mode = s, !.listening = TRUE]
        /\ UNCHANGED <<service, starting, listens, recorder, requests>>
     \/ /\ ~service.listening /\ service.transcribing
        /\ store' = [Ready EXCEPT !.session = s]
        /\ UNCHANGED <<service, starting, listens, recorder, requests>>
     \/ /\ ~service.listening /\ ~service.transcribing
        /\ store' = [Ready EXCEPT !.session = s, !.mode = s]
        /\ service' = [Idle EXCEPT !.session = s, !.backend = s]
        /\ starting' = starting \cup {s}
        /\ IF Native THEN /\ requests' = Append(requests, HostCall("start", s))
                          /\ listens' = listens \cup {s} /\ UNCHANGED recorder
                     ELSE /\ recorder' = [recorder EXCEPT ![s] = "asking"]
                          /\ UNCHANGED <<requests, listens>>
  /\ UNCHANGED <<backend, cancels, early, stopping, transcribing, captureId, notified, scripts,
                 capture, outcome, crossed>>

(* The store's stopListening.  While the microphone is being opened the    *)
(* service takes no notice of it.                                          *)
StopListening ==
  LET asks == [store EXCEPT !.listening = FALSE, !.transcribing = TRUE]
      s == service.session
      heeds == service.listening /\ MayStop(s)
  IN
  /\ store.mode # NoId /\ store # asks
  /\ \/ heeds /\ Native /\ StopNative(s, captureId[s] # NoId, "manual") /\ UNCHANGED recorder
     \/ heeds /\ ~Native /\ StopWeb(s) /\ UNCHANGED requests
     \/ ~heeds /\ store' = asks /\ UNCHANGED <<service, stopping, requests, recorder, outcome>>
  /\ UNCHANGED <<backend, asked, cancels, early, starting, transcribing, listens, captureId,
                 notified, scripts, capture, crossed>>

(* The store's cancel, the service's abort and the backend's cancel, which *)
(* calls the host if it knows a capture and forgets it when that answers.  *)
CancelListening ==
  LET s == service.backend
      cancelled == s # NoId /\ ~service.stop
      known == cancelled /\ Native /\ captureId[s] # NoId
  IN
  /\ cancels < MaxCancels /\ cancels' = cancels + 1
  /\ store' = [Ready EXCEPT !.session = NoId] /\ service' = Idle
  /\ requests' = IF known THEN Append(requests, HostCall("cancel", s)) ELSE requests
  /\ listens' = IF cancelled /\ ~known THEN listens \ {s} ELSE listens
  /\ recorder' = IF cancelled /\ recorder[s] # "asking"
                   THEN [recorder EXCEPT ![s] = "none"] ELSE recorder
  /\ UNCHANGED <<backend, asked, early, starting, stopping, transcribing, captureId, notified,
                 scripts, capture, outcome, crossed>>

-----------------------------------------------------------------------------
(* What follows the await of backend.start, a capture that is no longer    *)
(* wanted first.                                                           *)
LeftOpen(s) == requests
GivenUp(s) == Append(requests, HostCall("cancel", s))
Opened(s) ==
  /\ service' = [service EXCEPT !.listening = TRUE]
  /\ store' = IF store.session = s THEN [store EXCEPT !.listening = TRUE] ELSE store
Denied(s) ==
  /\ starting' = starting \ {s}
  /\ IF Owns(s)
       THEN service' = [service EXCEPT !.backend = NoId] /\ Told(s, "denied")
       ELSE UNCHANGED <<service, store, outcome>>

(* What follows the await of backend.stop: the provider is called if there *)
(* is a recording, and no session has taken over.                          *)
NothingToSay(s) == IF stopping[s] = "auto" THEN {"failed", "no speech"} ELSE {"failed"}
Stopped(s, recorded) ==
  /\ stopping' = [stopping EXCEPT ![s] = "no"]
  /\ \/ ~Owns(s) /\ UNCHANGED <<service, store, outcome, transcribing>>
     \/ /\ Owns(s) /\ recorded /\ transcribing' = transcribing \cup {s}
        /\ service' = [service EXCEPT !.backend = NoId]
        /\ store' = IF store.session = s
                      THEN [store EXCEPT !.listening = FALSE, !.transcribing = TRUE] ELSE store
        /\ UNCHANGED outcome
     \/ /\ Owns(s) /\ UNCHANGED transcribing
        /\ \E result \in NothingToSay(s) : Finished(service, s, result)

(* The provider's text, its failure, or the timeout.                       *)
ProviderAnswers(s) ==
  /\ s \in transcribing /\ transcribing' = transcribing \ {s}
  /\ IF Owns(s) THEN \E result \in {"complete", "failed"} : Finished(service, s, result)
                   ELSE UNCHANGED <<service, store, outcome>>
  /\ UNCHANGED <<backend, asked, cancels, early, starting, stopping, listens, captureId, notified,
                 recorder, requests, scripts, capture, crossed>>

-----------------------------------------------------------------------------
(* The browser's recorder.                                                 *)
WebStep == UNCHANGED <<backend, asked, cancels, early, listens, captureId, notified, requests,
                       scripts, capture, crossed>>
MediaGranted(s) ==
  /\ recorder[s] = "asking" /\ starting' = starting \ {s}
  /\ IF Owns(s) THEN recorder' = [recorder EXCEPT ![s] = "recording"] /\ Opened(s)
                   ELSE recorder' = [recorder EXCEPT ![s] = "none"] /\ UNCHANGED <<service, store>>
  /\ WebStep /\ UNCHANGED <<outcome, stopping, transcribing>>
MediaDenied(s) ==
  /\ recorder[s] = "asking" /\ recorder' = [recorder EXCEPT ![s] = "none"] /\ Denied(s)
  /\ WebStep /\ UNCHANGED <<stopping, transcribing>>
(* Silence, the time limit, the end of the track or an error.              *)
RequestStop(s) ==
  /\ recorder[s] = "recording" /\ recorder' = [recorder EXCEPT ![s] = "stopping"]
  /\ WebStep /\ UNCHANGED <<service, store, outcome, starting, stopping, transcribing>>
(* finishStop: the recorder is gone when the service asks it to stop.      *)
FinishStop(s) ==
  /\ recorder[s] = "stopping" /\ recorder' = [recorder EXCEPT ![s] = "none"]
  /\ WebStep /\ UNCHANGED starting
  /\ \/ stopping[s] # "no" /\ \E recorded \in BOOLEAN : Stopped(s, recorded)
     \/ /\ stopping[s] = "no" /\ UNCHANGED <<stopping, transcribing>>
        /\ IF MayStop(s) THEN Finished(Stopping, s, "not running")
                         ELSE UNCHANGED <<service, store, outcome>>

-----------------------------------------------------------------------------
(* The host serves the calls on its main thread; the worker of a capture   *)
(* sends its events when it likes.                                         *)
Reply(call, ok, id) == [kind |-> "reply", op |-> call.op, by |-> call.by, ok |-> ok, id |-> id]
Event(kind, id) == [kind |-> kind, op |-> "event", by |-> NoId, ok |-> TRUE, id |-> id]
Sends(messages) == scripts' = scripts \o messages

ServeStart(call) ==
  LET id == call.by
      began == Event("started", id)
      ended == Event("stopped", id)
      done == Reply(call, TRUE, id)
  IN
  \/ Sends(<<Reply(call, FALSE, NoId)>>) /\ UNCHANGED <<capture, early>>
  \/ /\ capture.at = "none"
     /\ \/ /\ capture' = [capture EXCEPT !.id = id, !.at = "running"] /\ UNCHANGED early
           /\ Sends(<<began, done>>) \/ Sends(<<done, began>>)
        \/ /\ early < MaxEarly /\ early' = early + 1 /\ Sends(<<began, ended, done>>)
           /\ \/ \E at \in {"finished", "broken"} : capture' = [capture EXCEPT !.id = id, !.at = at]
              \/ \E left \in BOOLEAN : capture' = [capture EXCEPT !.id = id, !.left = left \/ @]
ServeStop(call) ==
  /\ UNCHANGED early
  /\ LET ended == IF capture.at = "running" /\ ~capture.left
                    THEN <<Event("stopped", capture.id)>> ELSE <<>>
         ok == capture.id # NoId /\ (capture.left \/ capture.at \in {"running", "finished"})
     IN  Sends(ended \o <<Reply(call, ok, capture.id)>>)
  /\ capture' = IF capture.id = NoId THEN capture
                ELSE IF capture.left THEN [capture EXCEPT !.id = NoId, !.left = FALSE]
                ELSE NoCapture
ServeCancel(call) ==
  /\ Sends((IF capture.at = "running" THEN <<Event("stopped", capture.id)>> ELSE <<>>)
           \o <<Reply(call, TRUE, NoId)>>)
  /\ capture' = NoCapture /\ UNCHANGED early
HostServes ==
  /\ requests # <<>> /\ requests' = Tail(requests)
  /\ LET call == Head(requests) IN
       \/ call.op = "start" /\ ServeStart(call)
       \/ call.op = "stop" /\ ServeStop(call)
       \/ call.op \in {"cancel", "give up"} /\ ServeCancel(call)
  /\ UNCHANGED <<backend, asked, cancels, store, service, starting, stopping, transcribing,
                 listens, captureId, notified, recorder, outcome, crossed>>
CaptureEnds ==
  /\ capture.at = "running" /\ Sends(<<Event("stopped", capture.id)>>)
  /\ \E at \in {"finished", "broken"} : capture' = [capture EXCEPT !.at = at]
  /\ UNCHANGED <<backend, asked, cancels, early, store, service, starting, stopping, transcribing,
                 listens, captureId, notified, recorder, requests, outcome, crossed>>

-----------------------------------------------------------------------------
(* The page hears a reply.                                                 *)
StartReply(m) ==
  LET s == m.by IN
  /\ UNCHANGED <<stopping, transcribing, notified, crossed>>
  /\ \/ /\ m.ok /\ captureId' = [captureId EXCEPT ![s] = m.id] /\ starting' = starting \ {s}
        /\ IF Owns(s) THEN Opened(s) /\ UNCHANGED requests
                         ELSE requests' = GivenUp(s) /\ UNCHANGED <<service, store>>
        /\ UNCHANGED <<outcome, listens>>
     \/ /\ ~m.ok /\ captureId[s] # NoId /\ requests' = Append(requests, HostCall("give up", s))
        /\ UNCHANGED <<service, store, outcome, starting, listens, captureId>>
     \/ /\ ~m.ok /\ captureId[s] = NoId /\ Denied(s)
        /\ listens' = listens \ {s} /\ UNCHANGED <<requests, captureId>>
EndReply(m) ==
  LET s == m.by IN
  /\ listens' = listens \ {s} /\ captureId' = [captureId EXCEPT ![s] = NoId]
  /\ UNCHANGED <<requests, notified, crossed>>
  /\ \/ /\ m.op = "cancel"
        /\ UNCHANGED <<service, store, outcome, starting, stopping, transcribing>>
     \/ m.op = "give up" /\ Denied(s) /\ UNCHANGED <<stopping, transcribing>>
     \/ /\ m.op = "stop" /\ UNCHANGED starting
        /\ \E recorded \in {m.ok, FALSE} : Stopped(s, recorded)

(* The page hears an event: a backend that knows no capture yet takes it   *)
(* for its own.                                                            *)
HostEvent(m) ==
  LET hears == {s \in listens : captureId[s] \in {NoId, m.id}}
      s == service.session
  IN
  /\ captureId' = [r \in Inputs |-> IF r \in hears THEN m.id ELSE captureId[r]]
  /\ UNCHANGED <<starting, transcribing, listens>>
  /\ \/ /\ m.kind = "started"
        /\ UNCHANGED <<service, store, outcome, stopping, requests, notified, crossed>>
     \/ /\ m.kind = "stopped" /\ notified' = [r \in Inputs |-> notified[r] \/ r \in hears]
        /\ crossed' = crossed \cup (hears \cap starting)
        /\ IF s \in hears /\ ~notified[s] /\ MayStop(s) THEN StopNative(s, TRUE, "auto")
           ELSE UNCHANGED <<service, store, outcome, stopping, requests>>
PageHears ==
  /\ scripts # <<>> /\ scripts' = Tail(scripts)
  /\ LET m == Head(scripts) IN
       \/ m.op = "start" /\ StartReply(m)
       \/ m.op \in {"stop", "cancel", "give up"} /\ EndReply(m)
       \/ m.op = "event" /\ HostEvent(m)
  /\ UNCHANGED <<backend, asked, cancels, early, recorder, capture>>

WebRuns(s) == MediaGranted(s) \/ MediaDenied(s) \/ RequestStop(s) \/ FinishStop(s)
InputWork ==
  \/ HostServes \/ CaptureEnds \/ PageHears
  \/ \E s \in Inputs : WebRuns(s) \/ ProviderAnswers(s)
InputNext == StartListening \/ StopListening \/ CancelListening \/ InputWork

(* The host and the page serve their queues; captures have a time limit,   *)
(* and so has the provider.                                                *)
InputFairness == WF_inputVars(InputWork)
InputSpec == InputInit /\ [][InputNext]_inputVars /\ InputFairness

-----------------------------------------------------------------------------
Quiet == requests = <<>> /\ scripts = <<>>

(* "Called once with the typed result for every non-cancelled recorded     *)
(* session": also when calls, replies, events and the buttons overlap,     *)
(* unless the end of a capture overtook its beginning; and a store at rest *)
(* has a service that is at rest.                                          *)
OneResultPerInput ==
  crossed = {} =>
    /\ \A s \in 1 .. asked :
         /\ Len(outcome[s]) <= 1
         /\ store.session = s => (store.mode = NoId <=> outcome[s] # <<>>)
    /\ store.mode = NoId => ~service.listening /\ ~service.transcribing

(* A microphone is never left open behind the back of the service.         *)
OpenMicIsListened ==
  /\ capture.at = "running" /\ Quiet =>
       service.session # NoId /\ captureId[service.session] = capture.id
  /\ \A s \in Inputs : recorder[s] = "recording" => Owns(s)

(* Every way an input may end settles both its result and its microphone.  *)
InputsAreSettled == OneResultPerInput /\ OpenMicIsListened

(* A session comes to its end.                                             *)
InputEnds == \A s \in Inputs : store.mode = s ~> store.mode # s \/ crossed # {}
=============================================================================
