------------------------------ MODULE AgentLoop ------------------------------
(***************************************************************************)
(* The tool loop of the agent core (agent-core): ask the model, check all  *)
(* calls of its response before any of them runs, run them, hand the       *)
(* results back, up to the limits.  A call that needs an approval ends the *)
(* loop; the host starts it again with the transcript as it was before     *)
(* that response and with the same replay cache.                           *)
(*                                                                         *)
(* A call is a tool with its arguments.  The policy's answer, the tool's   *)
(* and the provider's are free.                                            *)
(***************************************************************************)
EXTENDS Naturals, Sequences, FiniteSets, SequencesExt

CONSTANTS
  ToolCall,       \* calls the model may ask for
  Effectful,      \* those whose tools are not read-only
  Control,        \* desktop control
  Observation,    \* desktop observation
  FollowUp,       \* read-only tools after which a bare text is nudged once
  Blockable,      \* filesystem calls whose failure bars the same call again
  MaxToolCalls, MaxIterations, MaxProviderRetries,
  MaxBatch,       \* bound on the calls of one response
  MaxResumes      \* bound on the approvals of one task

ASSUME LoopAssumption ==
  /\ Control \subseteq Effectful /\ Effectful \subseteq ToolCall
  /\ Observation \subseteq ToolCall \ Effectful
  /\ FollowUp \subseteq ToolCall /\ Blockable \subseteq ToolCall
  /\ MaxToolCalls \in Nat /\ MaxIterations \in Nat \ {0} /\ MaxProviderRetries \in Nat
  /\ MaxBatch \in Nat \ {0} /\ MaxResumes \in Nat

VARIABLES
  loop,       \* the locals of the loop
  cache,      \* the task's replay cache
  resumes,    \* approvals so far
  succeeded,  \* how often every effectful call had its effect (history)
  observed,   \* an observation came back since the last desktop control, and
  seen        \* the model was asked with it in the transcript (history)

loopVars == <<loop, cache, resumes, succeeded, observed, seen>>

NewLoop == [phase |-> "model", iteration |-> 0, attempt |-> 0, response |-> <<>>,
            at |-> 1, available |-> 0, prepared |-> <<>>, answered |-> 0,
            executed |-> <<>>, required |-> TRUE, reserved |-> FALSE,
            blocked |-> {}, nudged |-> FALSE]

BatchType == UNION {[1 .. n -> ToolCall] : n \in 0 .. MaxBatch}
LoopTypeOK ==
  /\ loop.phase \in {"model", "prepare", "execute", "waiting", "over"}
  /\ loop.iteration \in 0 .. MaxIterations /\ loop.attempt \in 0 .. MaxProviderRetries
  /\ loop.response \in BatchType /\ loop.at \in 1 .. MaxBatch + 1
  /\ loop.prepared \in BatchType /\ loop.answered \in 0 .. MaxBatch
  /\ Len(loop.executed) <= MaxToolCalls /\ loop.available \in 0 .. MaxToolCalls
  /\ loop.blocked \subseteq Blockable /\ cache \subseteq Effectful
  /\ resumes \in 0 .. MaxResumes
  /\ succeeded \in [Effectful -> Nat]

LoopInit ==
  /\ loop = NewLoop /\ cache = {} /\ resumes = 0
  /\ succeeded = [c \in Effectful |-> 0]
  /\ observed = FALSE /\ seen = FALSE

-----------------------------------------------------------------------------
(* A request to the model: transient errors are tried again, anything else *)
(* fails the turn.                                                         *)
ModelFails ==
  /\ loop.phase = "model"
  /\ loop' = IF loop.attempt < MaxProviderRetries
               THEN [loop EXCEPT !.attempt = @ + 1]
               ELSE [loop EXCEPT !.phase = "over"]
  /\ UNCHANGED <<cache, resumes, succeeded, observed, seen>>

(* A response without calls ends the loop, except that one continuation is *)
(* asked for when the last tool's result calls for one.                    *)
MayNudge == ~loop.nudged /\ loop.executed # <<>> /\ Last(loop.executed) \in FollowUp
NextIteration(l) ==
  [l EXCEPT !.iteration = @ + 1, !.attempt = 0, !.response = <<>>, !.at = 1,
            !.available = 0, !.answered = 0, !.reserved = FALSE,
            !.phase = IF l.iteration + 1 = MaxIterations THEN "over" ELSE "model"]
ModelTalks ==
  /\ loop.phase = "model"
  /\ \/ loop' = [loop EXCEPT !.phase = "over"]
     \/ MayNudge /\ loop' = NextIteration([loop EXCEPT !.nudged = TRUE])
  /\ UNCHANGED <<cache, resumes, succeeded, observed, seen>>

(* A response with calls: as many as the limit leaves room for are taken.  *)
Available(batch) ==
  LET room == MaxToolCalls - Len(loop.executed)
  IN IF Len(batch) < room THEN Len(batch) ELSE room
ModelCalls ==
  /\ loop.phase = "model"
  /\ \E batch \in BatchType \ {<<>>} :
       loop' = [loop EXCEPT !.phase = "prepare", !.response = batch,
                            !.available = Available(batch)]
  /\ seen' = observed
  /\ UNCHANGED <<cache, resumes, succeeded, observed>>

ResultGiven(l) == [l EXCEPT !.answered = @ + 1]
ResultOf(l, c) == ResultGiven([l EXCEPT !.executed = Append(@, c)])
InCache(c) == c \in cache

(* Desktop control waits for a response of its own, after an observation.  *)
ControlPausedAlone(c) == c \in Control /\ loop.required
ControlPaused(c) ==
  /\ c \in Control
  /\ \/ loop.reserved \/ loop.required
     \/ \E i \in DOMAIN loop.response : loop.response[i] \in Observation

(* The check of the next call, before any call of the response runs:       *)
(* answered without running, from the cache, prepared, or stopped for an   *)
(* approval.                                                               *)
PrepareCall ==
  /\ loop.phase = "prepare" /\ loop.at <= loop.available
  /\ LET c == loop.response[loop.at]
         l == [loop EXCEPT !.at = @ + 1, !.reserved = @ \/ c \in Control]
     IN \/ ControlPaused(c) /\ loop' = ResultGiven([loop EXCEPT !.at = @ + 1])
        \/ /\ ~ControlPaused(c)
           /\ IF c \in loop.blocked THEN loop' = ResultGiven(l)
                ELSE IF InCache(c)
                  THEN loop' = ResultOf([l EXCEPT !.required = @ \/ c \in Control], c)
                  ELSE \/ loop' = [l EXCEPT !.prepared = Append(@, c)]
                       \/ loop' = ResultGiven(l)
                       \/ loop' = [l EXCEPT !.phase = "waiting"]
  /\ UNCHANGED <<cache, resumes, succeeded, observed, seen>>

AllPrepared ==
  /\ loop.phase = "prepare" /\ loop.at > loop.available
  /\ loop' = [loop EXCEPT !.phase = "execute"]
  /\ UNCHANGED <<cache, resumes, succeeded, observed, seen>>

(* The next prepared call runs.                                            *)
RunsNext(c) ==
  /\ loop.phase = "execute" /\ loop.prepared # <<>> /\ c = Head(loop.prepared)
AfterCall(c) == [loop EXCEPT !.prepared = Tail(@), !.required = @ \/ c \in Control]
ReplayedNever(c) == FALSE
Replayed(c) == InCache(c)

(* An equal call of the same response has had its effect just now.         *)
ReplayCall(c) ==
  /\ RunsNext(c) /\ Replayed(c)
  /\ loop' = ResultOf(AfterCall(c), c)
  /\ UNCHANGED <<cache, resumes, succeeded, observed, seen>>

(* The grant was revoked or used up since the check.                       *)
CommitFails(c) ==
  /\ RunsNext(c) /\ ~Replayed(c)
  /\ loop' = ResultGiven(AfterCall(c))
  /\ UNCHANGED <<cache, resumes, succeeded, observed, seen>>

InvokeCall(c) ==
  /\ RunsNext(c) /\ ~Replayed(c)
  /\ \/ /\ loop' = ResultOf([AfterCall(c) EXCEPT !.required = @ /\ c \notin Observation], c)
        /\ cache' = IF c \in Effectful THEN cache \cup {c} ELSE cache
        /\ succeeded' = IF c \in Effectful THEN [succeeded EXCEPT ![c] = @ + 1] ELSE succeeded
        /\ observed' = IF c \in Control THEN FALSE ELSE observed \/ c \in Observation
     \/ /\ \E barred \in {{}, {c} \cap Blockable} :
             loop' = ResultGiven([AfterCall(c) EXCEPT !.blocked = @ \cup barred])
        /\ observed' = (observed /\ c \notin Control)
        /\ UNCHANGED <<cache, succeeded>>
  /\ seen' = (seen /\ c \notin Control)
  /\ UNCHANGED resumes

(* The response and its results enter the transcript.                      *)
EndIteration ==
  /\ loop.phase = "execute" /\ loop.prepared = <<>>
  /\ loop' = NextIteration(loop)
  /\ UNCHANGED <<cache, resumes, succeeded, observed, seen>>

(* The user has decided; the task goes on in a new loop.                   *)
ResumeLoop ==
  /\ loop.phase = "waiting" /\ resumes < MaxResumes
  /\ resumes' = resumes + 1
  /\ loop' = NewLoop
  /\ UNCHANGED <<cache, succeeded, observed, seen>>

LoopNext ==
  \/ ModelFails \/ ModelTalks \/ ModelCalls \/ PrepareCall \/ AllPrepared
  \/ \E c \in ToolCall : ReplayCall(c) \/ CommitFails(c) \/ InvokeCall(c)
  \/ EndIteration \/ ResumeLoop

LoopSpec == LoopInit /\ [][LoopNext]_loopVars

-----------------------------------------------------------------------------
(* The model never acts blind: a desktop action runs only when the model   *)
(* was asked, after the last desktop action of the task (even a failed     *)
(* one), with an observation in its transcript that succeeded since.       *)
NoBlindControl ==
  [][\A c \in Control : RunsNext(c) /\ ~Replayed(c) /\ loop' # loop => seen]_loopVars

(* An effect happens once per task: not twice in a response, not again in  *)
(* a later one, not again after an approval has suspended the task.        *)
EffectOncePerTask == \A c \in Effectful : succeeded[c] <= 1

(* Whatever becomes of a call that was taken, refused, barred, replayed,   *)
(* run or failed, it gets one result, so the transcript stays well formed. *)
OneResultPerCall ==
  loop.phase = "execute" => loop.answered + Len(loop.prepared) = loop.available

(* The effects of a task's calls and their results are each settled once.  *)
CallsAreSettled == EffectOncePerTask /\ OneResultPerCall
=============================================================================
