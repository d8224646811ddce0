----------------------------- MODULE ScreenShare -----------------------------
(***************************************************************************)
(* Screen sharing and desktop control of the desktop host: the share the   *)
(* runtime has on record (app-host/runtime.rs), the capture sessions of    *)
(* the session manager and its application allowlist (tool-desktop), the   *)
(* control gate of the platform backend, the emergency stop and the grants *)
(* that are bound to the share.                                            *)
(*                                                                         *)
(* Every desktop call of the frontend runs on a thread of its own.  The    *)
(* share panel waits for one call before it makes the next; the control    *)
(* switch and the emergency shortcut do not wait for anybody, and neither  *)
(* do the model's capture tools.  A step of a call is one lock or one      *)
(* await.  A backend call may fail.                                        *)
(***************************************************************************)
EXTENDS ApprovalQueue

CONSTANTS
  MaxShares,  \* bound on the capture sessions ever started
  MaxAsks,    \* bound on the approvals asked for while sharing
  MaxHostCalls \* bound on the calls of all threads

ASSUME ShareAssumption ==
  /\ MaxShares \in Nat \ {0} /\ MaxShares <= MaxId
  /\ MaxAsks \in Nat /\ MaxAsks <= MaxId /\ MaxHostCalls \in Nat

VARIABLES
  share,      \* the share on record, behind its mutex
  shareHeld,  \* a call holds that mutex and waits for it itself
  captures,   \* the session manager's sessions
  started,    \* capture sessions started so far: the source of fresh ids
  allowlist,  \* is the controller-wide application allowlist in force?
  shareGate,  \* the control gate of the backend
  estop,      \* the emergency stop
  shareQueue, \* the approval queue
  caller,     \* what every thread is doing
  hostCalls   \* calls made so far (bounded)

shareVars == <<share, shareHeld, captures, started, allowlist, shareGate, estop, shareQueue, caller, hostCalls>>

Threads == {"panel", "switch", "shortcut", "tool"}
Captures == 1 .. MaxShares
NoShare == [id |-> None, control |-> FALSE, paused |-> FALSE]
NoCapture == [live |-> FALSE, byTool |-> FALSE, control |-> FALSE, paused |-> FALSE]
NoCall == [call |-> "none", todo |-> <<>>, id |-> None, on |-> FALSE]

(* The steps of every call.                                                *)
Steps(call) ==
  CASE call = "start"      -> <<"check", "capture", "gate-off", "record", "mark", "status">>
    [] call = "stop"       -> <<"look", "remove", "last?", "revoke", "gate-on", "take", "status">>
    [] call = "pause"      -> <<"look", "pause", "mirror-pause", "status">>
    [] call = "control"    -> <<"look", "gate", "flag", "mirror-flag", "status">>
    [] call = "emergency"  -> <<"engage", "revoke-control", "flags-off", "status">>
    [] call = "clear"      -> <<"clear", "status">>
    [] call = "tool-start" -> <<"allow", "insert">>
    [] call = "tool-stop"  -> <<"remove", "last?">>
CallsOf(t) ==
  CASE t = "panel"    -> {"start", "stop", "pause", "clear"}
    [] t = "switch"   -> {"control"}
    [] t = "shortcut" -> {"emergency"}
    [] t = "tool"     -> {"tool-start", "tool-stop"}
AllCalls == UNION {CallsOf(t) : t \in Threads}
Todos == {<<>>, <<"take">>} \cup UNION {{SubSeq(Steps(c), i, Len(Steps(c))) : i \in DOMAIN Steps(c)} : c \in AllCalls}

ShareTypeOK ==
  /\ share \in [id : 0 .. MaxShares, control : BOOLEAN, paused : BOOLEAN]
  /\ shareHeld \in BOOLEAN /\ allowlist \in BOOLEAN /\ shareGate \in BOOLEAN /\ estop \in BOOLEAN
  /\ captures \in [Captures -> [live : BOOLEAN, byTool : BOOLEAN,
                                control : BOOLEAN, paused : BOOLEAN]]
  /\ started \in 0 .. MaxShares
  /\ shareQueue \in QueueType
  /\ caller \in [Threads -> [call : AllCalls \cup {"none"}, todo : Todos,
                             id : 0 .. MaxShares, on : BOOLEAN]]
  /\ hostCalls \in 0 .. MaxHostCalls

ShareInit ==
  /\ share = NoShare /\ shareHeld = FALSE
  /\ captures = [c \in Captures |-> NoCapture] /\ started = 0
  /\ allowlist = FALSE /\ shareGate = TRUE /\ estop = FALSE
  /\ shareQueue = EmptyQueue
  /\ caller = [t \in Threads |-> NoCall] /\ hostCalls = 0

-----------------------------------------------------------------------------
FreeThread(t) == caller[t].todo = <<>>
AtStep(t, step) == caller[t].todo # <<>> /\ Head(caller[t].todo) = step
Advanced(t) == [caller[t] EXCEPT !.todo = Tail(caller[t].todo)]
GoesOn(t) ==
  caller' = [caller EXCEPT ![t] = IF Len(caller[t].todo) = 1 THEN NoCall ELSE Advanced(t)]
(* An error: the rest of the call is not executed.                         *)
Fails(t) == caller' = [caller EXCEPT ![t] = NoCall]

(* A call comes in: pausing and the switch carry the wanted value, the     *)
(* model's stop names any session it has seen in desktop.capture_status.   *)
CallsIn(t) ==
  /\ FreeThread(t) /\ hostCalls < MaxHostCalls /\ hostCalls' = hostCalls + 1
  /\ \E c \in CallsOf(t), on \in BOOLEAN, id \in 0 .. started :
       /\ c \notin {"pause", "control", "tool-start"} => ~on
       /\ (c = "tool-stop") = (id # None)
       /\ caller' = [caller EXCEPT ![t] = [call |-> c, todo |-> Steps(c), id |-> id, on |-> on]]
  /\ UNCHANGED <<share, shareHeld, captures, started, allowlist, shareGate, estop, shareQueue>>

(* start refuses a second share.                                           *)
CheckFree(t) ==
  /\ AtStep(t, "check") /\ ~shareHeld
  /\ IF share = NoShare THEN GoesOn(t) ELSE Fails(t)
  /\ UNCHANGED <<share, shareHeld, captures, started, allowlist, shareGate, estop, shareQueue, hostCalls>>

(* The native stream starts and the manager knows the session; the model's *)
(* start sets the allowlist first, under a lock of its own.                *)
StartCapture(t) ==
  /\ \E step \in {"capture", "insert"} : AtStep(t, step)
  /\ \/ /\ started < MaxShares
        /\ started' = started + 1
        /\ captures' = [captures EXCEPT ![started'] =
                          [NoCapture EXCEPT !.live = TRUE, !.byTool = caller[t].call = "tool-start"]]
        /\ caller' = [caller EXCEPT ![t] =
             IF caller[t].call = "start" THEN [Advanced(t) EXCEPT !.id = started'] ELSE NoCall]
     \/ caller[t].call = "start" /\ Fails(t) /\ UNCHANGED <<captures, started>>
  /\ UNCHANGED <<share, shareHeld, allowlist, shareGate, estop, shareQueue, hostCalls>>

SetAllowlist(t) ==
  /\ AtStep(t, "allow")
  /\ \/ allowlist' = (allowlist \/ caller[t].on) /\ GoesOn(t)
     \/ Fails(t) /\ UNCHANGED allowlist
  /\ UNCHANGED <<share, shareHeld, captures, started, shareGate, estop, shareQueue, hostCalls>>

(* start turns the backend's control gate off; when that fails the capture *)
(* is stopped again.                                                       *)
CleanupKeepsList == <<"remove">>
Cleanup == <<"remove", "last?">>
GateOff(t) ==
  /\ AtStep(t, "gate-off")
  /\ \/ shareGate' = FALSE /\ GoesOn(t)
     \/ /\ caller' = [caller EXCEPT ![t] = [@ EXCEPT !.todo = Cleanup, !.call = "tool-stop"]]
        /\ UNCHANGED shareGate
  /\ UNCHANGED <<share, shareHeld, captures, started, allowlist, estop, shareQueue, hostCalls>>

Record(t) ==
  /\ AtStep(t, "record") /\ ~shareHeld /\ GoesOn(t)
  /\ share' = [NoShare EXCEPT !.id = caller[t].id]
  /\ UNCHANGED <<shareHeld, captures, started, allowlist, shareGate, estop, shareQueue, hostCalls>>

Mark(t) ==
  /\ AtStep(t, "mark") /\ GoesOn(t)
  /\ shareQueue' = SetShare(shareQueue, caller[t].id)
  /\ UNCHANGED <<share, shareHeld, captures, started, allowlist, shareGate, estop, hostCalls>>

(* The other calls look the share up; without one they fail, only stop     *)
(* answers with the status, and asks for it with the mutex in its hand.    *)
LookUp(t) ==
  /\ AtStep(t, "look") /\ ~shareHeld
  /\ IF share # NoShare
       THEN /\ caller' = [caller EXCEPT ![t] = [Advanced(t) EXCEPT !.id = share.id]]
            /\ UNCHANGED shareHeld
       ELSE IF caller[t].call = "stop"
         THEN /\ caller' = [caller EXCEPT ![t] = [@ EXCEPT !.todo = <<"status">>]]
              /\ shareHeld' = TRUE
         ELSE Fails(t) /\ UNCHANGED shareHeld
  /\ UNCHANGED <<share, captures, started, allowlist, shareGate, estop, shareQueue, hostCalls>>

(* The manager forgets the session, then stops its stream; an unknown      *)
(* session is an error.                                                    *)
RemoveCapture(t) ==
  /\ AtStep(t, "remove")
  /\ LET id == caller[t].id IN
     IF captures[id].live
       THEN captures' = [captures EXCEPT ![id] = NoCapture] /\ GoesOn(t)
       ELSE Fails(t) /\ UNCHANGED captures
  /\ UNCHANGED <<share, shareHeld, started, allowlist, shareGate, estop, shareQueue, hostCalls>>

(* When no session is left the allowlist is cleared; the error of a stream *)
(* that did not stop comes after that.                                     *)
LastOne(t) ==
  /\ AtStep(t, "last?")
  /\ allowlist' = (allowlist /\ \E c \in Captures : captures[c].live)
  /\ GoesOn(t) \/ Fails(t)
  /\ UNCHANGED <<share, shareHeld, captures, started, shareGate, estop, shareQueue, hostCalls>>

RevokeSharing(t) ==
  /\ AtStep(t, "revoke") /\ GoesOn(t)
  /\ shareQueue' = RevokeShare(shareQueue, caller[t].id)
  /\ UNCHANGED <<share, shareHeld, captures, started, allowlist, shareGate, estop, hostCalls>>

(* stop turns the gate on again and goes on when that fails; the failure   *)
(* is its answer in the end, and the status is then not looked at.         *)
GateOn(t) ==
  /\ AtStep(t, "gate-on")
  /\ \/ shareGate' = TRUE /\ GoesOn(t)
     \/ /\ caller' = [caller EXCEPT ![t] = [@ EXCEPT !.todo = <<"take">>]]
        /\ UNCHANGED shareGate
  /\ UNCHANGED <<share, shareHeld, captures, started, allowlist, estop, shareQueue, hostCalls>>

Take(t) ==
  /\ AtStep(t, "take") /\ ~shareHeld /\ GoesOn(t)
  /\ share' = NoShare
  /\ UNCHANGED <<shareHeld, captures, started, allowlist, shareGate, estop, shareQueue, hostCalls>>

(* Pausing and resuming, in the manager and then on record.                *)
SetPaused(t) ==
  /\ AtStep(t, "pause")
  /\ LET id == caller[t].id IN
     IF captures[id].live
       THEN captures' = [captures EXCEPT ![id].paused = caller[t].on] /\ GoesOn(t)
       ELSE Fails(t) /\ UNCHANGED captures
  /\ UNCHANGED <<share, shareHeld, started, allowlist, shareGate, estop, shareQueue, hostCalls>>

MirrorPaused(t) ==
  /\ AtStep(t, "mirror-pause") /\ ~shareHeld /\ GoesOn(t)
  /\ share' = IF share = NoShare THEN share ELSE [share EXCEPT !.paused = caller[t].on]
  /\ UNCHANGED <<shareHeld, captures, started, allowlist, shareGate, estop, shareQueue, hostCalls>>

(* The control switch: gate, session flag, record.                         *)
SetGate(t) ==
  /\ AtStep(t, "gate")
  /\ \/ shareGate' = caller[t].on /\ GoesOn(t)
     \/ Fails(t) /\ UNCHANGED shareGate
  /\ UNCHANGED <<share, shareHeld, captures, started, allowlist, estop, shareQueue, hostCalls>>

SetFlag(t) ==
  /\ AtStep(t, "flag")
  /\ LET id == caller[t].id IN
     IF captures[id].live
       THEN captures' = [captures EXCEPT ![id].control = caller[t].on] /\ GoesOn(t)
       ELSE Fails(t) /\ UNCHANGED captures
  /\ UNCHANGED <<share, shareHeld, started, allowlist, shareGate, estop, shareQueue, hostCalls>>

MirrorFlag(t) ==
  /\ AtStep(t, "mirror-flag") /\ ~shareHeld
  /\ IF share # NoShare
       THEN share' = [share EXCEPT !.control = caller[t].on] /\ GoesOn(t)
       ELSE Fails(t) /\ UNCHANGED share
  /\ UNCHANGED <<shareHeld, captures, started, allowlist, shareGate, estop, shareQueue, hostCalls>>

(* The emergency stop: the flag, the control grants, the session flags and *)
(* the gate of every captured backend.  The record is left as it is.       *)
Engage(t) ==
  /\ \E step \in {"engage", "clear"} : AtStep(t, step) /\ estop' = (step = "engage")
  /\ GoesOn(t)
  /\ UNCHANGED <<share, shareHeld, captures, started, allowlist, shareGate, shareQueue, hostCalls>>

RevokeControl(t) ==
  /\ AtStep(t, "revoke-control") /\ GoesOn(t)
  /\ shareQueue' = RevokeCapability(shareQueue, Shared)
  /\ UNCHANGED <<share, shareHeld, captures, started, allowlist, shareGate, estop, hostCalls>>

FlagsOff(t) ==
  /\ AtStep(t, "flags-off") /\ GoesOn(t)
  /\ captures' = [c \in Captures |-> [captures[c] EXCEPT !.control = FALSE]]
  /\ shareGate' \in IF \E c \in Captures : captures[c].live THEN {FALSE, shareGate} ELSE {shareGate}
  /\ UNCHANGED <<share, shareHeld, started, allowlist, estop, shareQueue, hostCalls>>

(* The answer: the status, for which the mutex is taken once more.         *)
Status(t) ==
  /\ AtStep(t, "status") /\ ~shareHeld /\ GoesOn(t)
  /\ UNCHANGED <<share, shareHeld, captures, started, allowlist, shareGate, estop, shareQueue, hostCalls>>

(* The model asks for something on the shared screen, the user approves    *)
(* in the permission dialog; task 1 asks.                                  *)
AskShared ==
  /\ shareQueue.next <= MaxAsks
  /\ \E n \in Shared : shareQueue' = Submit(shareQueue, n, 1)
  /\ UNCHANGED <<share, shareHeld, captures, started, allowlist, shareGate, estop, caller, hostCalls>>
ApproveShared ==
  /\ \E r \in shareQueue.pending : shareQueue' = Approve(shareQueue, r.id, "standing")
  /\ UNCHANGED <<share, shareHeld, captures, started, allowlist, shareGate, estop, caller, hostCalls>>

StartStep(t) == CheckFree(t) \/ StartCapture(t) \/ SetAllowlist(t) \/ GateOff(t) \/ Record(t) \/ Mark(t)
StopStep(t) == RemoveCapture(t) \/ LastOne(t) \/ RevokeSharing(t) \/ GateOn(t) \/ Take(t)
ChangeStep(t) == SetPaused(t) \/ MirrorPaused(t) \/ SetGate(t) \/ SetFlag(t) \/ MirrorFlag(t)
EmergencyStep(t) == Engage(t) \/ RevokeControl(t) \/ FlagsOff(t)
CallStep(t) == StartStep(t) \/ StopStep(t) \/ ChangeStep(t) \/ EmergencyStep(t) \/ LookUp(t) \/ Status(t)

ShareNext == AskShared \/ ApproveShared \/ \E t \in Threads : CallsIn(t) \/ CallStep(t)
ShareSpec == ShareInit /\ [][ShareNext]_shareVars

-----------------------------------------------------------------------------
(* Authority derived from a share dies with it: with the panel at rest, no *)
(* grant and no marker is bound to anything but the share on record, so    *)
(* nothing approved during an earlier share serves a later one.            *)
GrantsDieWithShare ==
  FreeThread("panel") =>
    /\ shareQueue.share = share.id
    /\ \A g \in shareQueue.grants : g.share \in {None, share.id}

(* What the panel shows as paused is paused: with the panel at rest the    *)
(* record agrees with the session that is captured, whichever call failed. *)
PauseIsMirrored ==
  FreeThread("panel") /\ share # NoShare /\ captures[share.id].live =>
    share.paused = captures[share.id].paused

(* A capture session is either the share on record or one a tool started:  *)
(* no failed or half-done call of the panel leaves one running that the    *)
(* panel cannot stop.                                                      *)
NoOrphanCapture ==
  FreeThread("panel") =>
    \A c \in Captures : captures[c].live /\ ~captures[c].byTool => c = share.id

(* What depends on a share is as the share on record is: the authority,    *)
(* the pause, the capture itself.                                          *)
ShareIsWhole == GrantsDieWithShare /\ PauseIsMirrored /\ NoOrphanCapture
=============================================================================
