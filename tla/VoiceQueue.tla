----------------------------- MODULE VoiceQueue -----------------------------
(***************************************************************************)
(* The companion's voice: the queue of utterances of the speech store and  *)
(* the orchestrator that synthesizes their segments ahead and plays them   *)
(* one after the other.  Every await is a point where others run: runners, *)
(* syntheses and the awaiting store are steps of their own, and read the   *)
(* orchestrator's fields again afterwards.  Those are shared by all        *)
(* sessions.  pipelineAbort is null or a controller that has not aborted   *)
(* whenever a runner looks at it, so the runner's tests of it pass.        *)
(***************************************************************************)
EXTENDS Integers, Sequences, FiniteSets

CONSTANTS
  SynthesisLimit, \* maxConcurrentSynthesis of the provider
  MaxSegments,    \* bound on the segments of an utterance
  MaxSessions,    \* bound on utterances
  MaxStops        \* bound on calls of stop

ASSUME VoiceAssumption ==
  /\ SynthesisLimit \in Nat \ {0} /\ MaxSegments \in Nat
  /\ MaxSessions \in Nat \ {0} /\ MaxStops \in Nat

Sessions == 1 .. MaxSessions
Segments == Sessions \X (1 .. MaxSegments)
NoSegment == <<0, 0>>
Infinity == 1000

VARIABLES
  utterances,   \* the store's queue, the number of segments of each
  isSpeaking,   \* the store's claim
  said, stops,  \* calls so far (bounds)
  session,      \* the number of the last session
  channel,      \* the segments of the current session yet to be taken;
                \* an interrupt leaves none
  aborted,      \* sessions whose controller has aborted
  slots, line,  \* the synthesis semaphore and those that wait for it
  synthesis,    \* the state of the segments
  pipelineErrors, \* whether the current session has seen a failure
  unresolved,   \* the session whose promise can still be resolved
  pipelineDone, \* the promises
  runner,       \* the runner of each session
  sounding,     \* the segments that are audible
  currentSource \* the one that interrupt can stop

voiceVars == <<utterances, isSpeaking, said, stops, session, channel, aborted, slots, line,
               synthesis, pipelineErrors, unresolved, pipelineDone, runner, sounding,
               currentSource>>

NoRunner == [at |-> "none", segment |-> NoSegment]
SegmentStates == {"none", "line", "granted", "fetching", "ready", "failed", "dropped",
                  "cut", "spoken"}
SegmentPlaces == {"buffer", "play", "sound"}
RunnerPlaces == {"none", "null", "over"} \cup SegmentPlaces

VoiceTypeOK ==
  /\ utterances \in Seq(0 .. MaxSegments) /\ isSpeaking \in BOOLEAN
  /\ said \in 0 .. MaxSessions /\ stops \in 0 .. MaxStops
  /\ session \in 0 .. MaxSessions
  /\ channel \in Seq(Segments)
  /\ slots \in Nat
  /\ line \in Seq(Segments) /\ synthesis \in [Segments -> SegmentStates]
  /\ unresolved \in 0 .. session /\ pipelineErrors \in BOOLEAN
  /\ pipelineDone \in [Sessions -> {"none", "pending", "ok", "failed", "seen"}]
  /\ runner \in [Sessions -> [at : RunnerPlaces, segment : Segments \cup {NoSegment}]]
  /\ \A s \in Sessions : runner[s].at \in SegmentPlaces => runner[s].segment \in Segments
  /\ sounding \subseteq Segments /\ currentSource \in Segments \cup {NoSegment}

VoiceInit ==
  /\ utterances = <<>> /\ isSpeaking = FALSE /\ said = 0 /\ stops = 0
  /\ session = 0 /\ channel = <<>> /\ aborted = {}
  /\ slots = Infinity /\ line = <<>> /\ synthesis = [g \in Segments |-> "none"]
  /\ pipelineErrors = FALSE /\ unresolved = 0
  /\ pipelineDone = [s \in Sessions |-> "none"]
  /\ runner = [s \in Sessions |-> NoRunner]
  /\ sounding = {} /\ currentSource = NoSegment

-----------------------------------------------------------------------------
Resolved(done, how) == IF unresolved = 0 THEN done ELSE [done EXCEPT ![unresolved] = how]
InLine(g) == \E i \in DOMAIN line : line[i] = g

(* A runner takes from the channel that is current when it looks; a closed *)
(* channel gives null once it is empty.                                    *)
Goes(s, place, g) == runner' = [runner EXCEPT ![s] = [at |-> place, segment |-> g]]
Takes(s, items) ==
  \/ items = <<>> /\ Goes(s, "null", NoSegment) /\ channel' = <<>>
  \/ items # <<>> /\ Goes(s, "buffer", Head(items)) /\ channel' = Tail(items)

(* speakSegments: the session before is interrupted (its source stops, its *)
(* waiters are let go, its promise is resolved), then a session begins,    *)
(* asks for the synthesis of its segments and is closed; its runner takes  *)
(* the first at once.                                                      *)
SpeakSegments(n, done) ==
  LET s == session + 1
      late == IF n > SynthesisLimit THEN n - SynthesisLimit ELSE 0
  IN
  /\ session' = s /\ Takes(s, [i \in 1 .. n |-> <<s, i>>])
  /\ aborted' = aborted \cup ({session} \ {0})
  /\ slots' = SynthesisLimit - (n - late)
  /\ line' = [i \in 1 .. late |-> <<s, SynthesisLimit + i>>]
  /\ synthesis' = [g \in Segments |->
       IF g[1] = s /\ g[2] <= n THEN (IF g[2] <= SynthesisLimit THEN "granted" ELSE "line")
       ELSE IF InLine(g) THEN "granted" ELSE synthesis[g]]
  /\ pipelineErrors' = FALSE /\ unresolved' = s
  /\ pipelineDone' = [Resolved(done, "ok") EXCEPT ![s] = "pending"]
  /\ sounding' = sounding \ {currentSource} /\ currentSource' = NoSegment

(* runQueue claims the next utterance, unless one is claimed already.      *)
ClaimsAlways(claimed) == TRUE
Claims(claimed) == ~claimed
RunQueue(claimed, queue, done) ==
  \/ /\ queue # <<>> /\ Claims(claimed)
     /\ isSpeaking' = TRUE /\ utterances' = Tail(queue)
     /\ SpeakSegments(Head(queue), done)
  \/ /\ queue = <<>> \/ ~Claims(claimed)
     /\ isSpeaking' = claimed /\ utterances' = queue /\ pipelineDone' = done
     /\ UNCHANGED <<session, channel, aborted, slots, line, synthesis, pipelineErrors,
                    unresolved, runner, sounding, currentSource>>

Speak(n) ==
  /\ said < MaxSessions /\ said' = said + 1
  /\ RunQueue(isSpeaking, Append(utterances, n), pipelineDone)
  /\ UNCHANGED stops

(* The store's await of a session's promise ends: the claim is given up,   *)
(* whoever holds it, and the next utterance claimed.                       *)
PlayEnds(s) ==
  /\ pipelineDone[s] \in {"ok", "failed"}
  /\ RunQueue(FALSE, utterances, [pipelineDone EXCEPT ![s] = "seen"])
  /\ UNCHANGED <<said, stops>>

(* stop: interrupt, then the queue is cleared.                             *)
StopSpeaking ==
  /\ stops < MaxStops /\ stops' = stops + 1
  /\ aborted' = aborted \cup ({session} \ {0}) /\ channel' = <<>>
  /\ slots' = Infinity /\ line' = <<>>
  /\ synthesis' = [g \in Segments |-> IF InLine(g) THEN "granted" ELSE synthesis[g]]
  /\ sounding' = sounding \ {currentSource} /\ currentSource' = NoSegment
  /\ pipelineDone' = Resolved(pipelineDone, "ok") /\ unresolved' = 0
  /\ isSpeaking' = FALSE /\ utterances' = <<>>
  /\ UNCHANGED <<said, session, pipelineErrors, runner>>

-----------------------------------------------------------------------------
(* fetchBuffer: a slot, then the request; the slot goes to the next in     *)
(* line, or back.                                                          *)
Fetching == UNCHANGED <<utterances, isSpeaking, said, stops, session, channel, aborted,
                        pipelineErrors, unresolved, pipelineDone, runner, sounding, currentSource>>
Released(g, state) ==
  IF line = <<>>
    THEN /\ slots' = IF slots = Infinity THEN Infinity ELSE slots + 1
         /\ line' = line /\ synthesis' = [synthesis EXCEPT ![g] = state]
    ELSE /\ slots' = slots /\ line' = Tail(line)
         /\ synthesis' = [synthesis EXCEPT ![g] = state, ![Head(line)] = "granted"]
StartFetch(g) ==
  /\ synthesis[g] = "granted" /\ Fetching
  /\ \/ g[1] \in aborted /\ Released(g, "dropped")
     \/ /\ g[1] \notin aborted /\ synthesis' = [synthesis EXCEPT ![g] = "fetching"]
        /\ UNCHANGED <<slots, line>>
(* An aborted request fails as such, unless it is decoding by then.        *)
GivesBack(g, state) == Released(g, state)
FetchEnds(g) ==
  /\ synthesis[g] = "fetching" /\ Fetching
  /\ \E state \in {"ready", "failed"} \cup (IF g[1] \in aborted THEN {"cut"} ELSE {}) :
       GivesBack(g, state)

-----------------------------------------------------------------------------
Running == UNCHANGED <<utterances, isSpeaking, said, stops, session, aborted, slots, line>>

(* The runner's finally: the promise that is open is settled.              *)
Finish(s) ==
  /\ Goes(s, "over", NoSegment) /\ currentSource' = NoSegment
  /\ pipelineDone' = Resolved(pipelineDone, IF pipelineErrors THEN "failed" ELSE "ok")
  /\ unresolved' = 0
  /\ UNCHANGED <<channel, synthesis, pipelineErrors, sounding>>
ChannelEnds(s) == runner[s].at = "null" /\ Finish(s) /\ Running

Remembers(failed) == pipelineErrors \/ failed
TakeBuffer(s) ==
  LET g == runner[s].segment IN
  /\ runner[s].at = "buffer" /\ Running
  /\ \/ synthesis[g] = "cut" /\ Finish(s)
     \/ /\ synthesis[g] \in {"ready", "failed", "dropped"}
        /\ IF synthesis[g] = "ready" THEN Goes(s, "play", g) /\ UNCHANGED channel
                                     ELSE Takes(s, channel)
        /\ pipelineErrors' = Remembers(synthesis[g] = "failed")
        /\ UNCHANGED <<synthesis, unresolved, pipelineDone, sounding, currentSource>>

(* A suspended audio context is resumed first.                             *)
PlayBuffer(s) ==
  LET g == runner[s].segment IN
  /\ runner[s].at = "play" /\ Goes(s, "sound", g)
  /\ sounding' = sounding \cup {g} /\ currentSource' = g /\ Running
  /\ UNCHANGED <<channel, synthesis, pipelineErrors, unresolved, pipelineDone>>
SourceEnds(g) ==
  /\ g \in sounding /\ sounding' = sounding \ {g} /\ Running
  /\ UNCHANGED <<channel, synthesis, pipelineErrors, unresolved, pipelineDone, runner, currentSource>>
AfterSound(s) ==
  LET g == runner[s].segment IN
  /\ runner[s].at = "sound" /\ g \notin sounding /\ Takes(s, channel)
  /\ synthesis' = [synthesis EXCEPT ![g] = "spoken"] /\ Running
  /\ UNCHANGED <<pipelineErrors, unresolved, pipelineDone, sounding, currentSource>>

RunnerStep(s) == ChannelEnds(s) \/ TakeBuffer(s) \/ PlayBuffer(s) \/ AfterSound(s)
VoiceWork ==
  \/ \E s \in Sessions : PlayEnds(s) \/ RunnerStep(s)
  \/ \E g \in Segments : StartFetch(g) \/ FetchEnds(g) \/ SourceEnds(g)
VoiceNext == (\E n \in 0 .. MaxSegments : Speak(n)) \/ StopSpeaking \/ VoiceWork

(* Continuations run, requests and sounds end.                             *)
VoiceFairness == WF_voiceVars(VoiceWork)
VoiceSpec == VoiceInit /\ [][VoiceNext]_voiceVars /\ VoiceFairness

-----------------------------------------------------------------------------
SegmentsOf(s) == {g \in Segments : g[1] = s /\ synthesis[g] # "none"}
Undisturbed == stops = 0

(* Until stop is called, utterances and their segments are heard one at a  *)
(* time and in order: a segment sounds when all before it are over.        *)
HeardInOrder ==
  Undisturbed =>
    /\ Cardinality(sounding) <= 1
    /\ \A g \in sounding, h \in Segments :
         h[1] < g[1] \/ (h[1] = g[1] /\ h[2] < g[2]) =>
           synthesis[h] \in {"none", "spoken", "failed"}

(* "resolves when all audio has finished playing", and is rejected when a  *)
(* segment failed, if nobody interrupted the session.                      *)
PromiseIsHonest ==
  \A s \in Sessions \ aborted :
    /\ pipelineDone[s] = "ok" => \A g \in SegmentsOf(s) : synthesis[g] = "spoken"
    /\ pipelineDone[s] = "failed" => \E g \in SegmentsOf(s) : synthesis[g] = "failed"
SpeechIsHonest == HeardInOrder /\ (Undisturbed => PromiseIsHonest)

(* Whatever stops and speaks overlap, the store comes to rest.             *)
VoiceRests == isSpeaking \/ utterances # <<>> ~> ~isSpeaking /\ utterances = <<>>
=============================================================================
