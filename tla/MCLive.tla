------------------------------- MODULE MCLive -------------------------------
(* Instances of the components whose progress is checked: turns and the    *)
(* approvals they wait for, child processes, and what the page plays,      *)
(* records and schedules.  They keep no state in common: "part" is the one *)
(* that moves, the others rest in their initial state, where nothing that  *)
(* fairness asks for can happen.                                           *)
EXTENDS AgentSession, ProcessTable, VoiceQueue, VoiceInput, WebTasks

VARIABLE part

LiveInit ==
  /\ part \in {"session", "process", "voice", "input", "web"}
  /\ SessionInit /\ ProcessInit /\ VoiceInit /\ InputInit /\ WebInit
  /\ part # "input" => backend = "native"

OnlySession == UNCHANGED <<processVars, voiceVars, inputVars, webVars>>
OnlyProcess == UNCHANGED <<sessionVars, voiceVars, inputVars, webVars>>
OnlyVoice == UNCHANGED <<sessionVars, processVars, inputVars, webVars>>
OnlyInput == UNCHANGED <<sessionVars, processVars, voiceVars, webVars>>
OnlyWeb == UNCHANGED <<sessionVars, processVars, voiceVars, inputVars>>

LiveNext ==
  /\ UNCHANGED part
  /\ \/ part = "session" /\ SessionNext /\ OnlySession
     \/ part = "process" /\ ProcessNext /\ OnlyProcess
     \/ part = "voice" /\ VoiceNext /\ OnlyVoice
     \/ part = "input" /\ InputNext /\ OnlyInput
     \/ part = "web" /\ WebNext /\ OnlyWeb

(* As the parts do not mix, this is the fairness of each of them.          *)
LiveWork ==
  \/ part = "session" /\ Workers /\ OnlySession /\ UNCHANGED part
  \/ part = "process" /\ ProcessWork /\ OnlyProcess /\ UNCHANGED part
  \/ part = "voice" /\ VoiceWork /\ OnlyVoice /\ UNCHANGED part
  \/ part = "input" /\ InputWork /\ OnlyInput /\ UNCHANGED part
  \/ part = "web" /\ WebWork /\ OnlyWeb /\ UNCHANGED part
LiveUser == part = "session" /\ UserStep /\ OnlySession /\ UNCHANGED part

liveVars == <<part, sessionVars, processVars, voiceVars, inputVars, webVars>>
LiveSpec == LiveInit /\ [][LiveNext]_liveVars /\ WF_liveVars(LiveWork) /\ WF_liveVars(LiveUser)

-----------------------------------------------------------------------------
(* One long task, and a short one for which a verification may be asked.   *)
Plan == [t \in WebTask |-> IF t = "w1" THEN <<"effect", "sleep", "event", "tool">>
                                       ELSE <<"sleep", "tool">>]
Verify == [t \in WebTask |-> IF t = "w1" THEN {"none"} ELSE {"none", "result", "review"}]

(* Every variable keeps its type.                                          *)
LiveTypeOK == SessionTypeOK /\ ProcessTypeOK /\ VoiceTypeOK /\ InputTypeOK /\ WebTypeOK

(* Work that was handed on comes to its end, whatever stops, cancels and   *)
(* replies overlap: speech that is played or recorded, a child process no  *)
(* later than its timeout, a task of the page also through reloads (but    *)
(* for one that asks for a result none of its steps has left); and a turn  *)
(* gets its terminal event.                                                *)
WorkEnds == VoiceRests /\ InputEnds /\ TimeoutEndsChild /\ WebTaskRests /\ TurnsAreAnswered
=============================================================================
