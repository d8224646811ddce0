----------------------------- MODULE DesktopInput -----------------------------
(***************************************************************************)
(* The desktop control tools (tool-desktop) over the X11 backend, over the *)
(* RemoteDesktop portal of a Wayland session without an X server, and over *)
(* the backends of Windows and macOS (desktop-linux, desktop-linux-wayland,*)
(* desktop-windows, desktop-macos): what a call checks and in what order,  *)
(* where the backend looks at its control gate, the portal session it      *)
(* opens on demand, and the key and button events it sends, together or    *)
(* one by one.  The user's switch and emergency stop wait for nobody, a    *)
(* turn may be aborted at any await, and several turns may act.            *)
(*                                                                         *)
(* A call is the sequence of its steps; a step is one check, one lock, one *)
(* await or one event.  Keys and buttons are the same thing here, an event *)
(* that holds nothing (the wheel, a pointer motion, a window request) is   *)
(* "other".  What a ticket or the allowlist says is left open.             *)
(***************************************************************************)
EXTENDS Naturals, Sequences, FiniteSets, SequencesExt

CONSTANTS
  Actor,          \* turns that may call the tools at the same time
  Modifier, Button, \* a key held down for another one; a mouse button
  Letter,         \* a key that is typed
  MaxInputCalls,  \* bound on the calls of the tools
  MaxUserActs     \* bound on what the user does

ASSUME InputAssumption ==
  /\ {Modifier, Button, Letter} \cap {"other"} = {} /\ Cardinality({Modifier, Button, Letter}) = 3
  /\ MaxInputCalls \in Nat /\ MaxUserActs \in Nat

VARIABLES
  platform,   \* the backend
  sharing,    \* is a screen shared (its session knows the backend)?
  inputStop,  \* the emergency stop
  inputGate,  \* the backend's control_enabled
  remote,     \* the RemoteDesktop session
  remoteLock, \* who has its mutex
  held,       \* keys and buttons that are down, each with the call that pressed it
  acting,     \* what every actor is doing
  user,       \* what the user is doing
  broken,     \* has a call failed, or been aborted, after its first event?
  acts        \* calls and user acts so far

scene == <<platform, sharing, inputStop, inputGate>>
inputVars == <<platform, sharing, inputStop, inputGate, remote, remoteLock, held, acting, user,
               broken, acts>>

Keys == {Modifier, Button, Letter}
Down(k) == [kind |-> "down", key |-> k]
Up(k) == [kind |-> "up", key |-> k]
Other == [kind |-> "other", key |-> "none"]
Event == [kind : {"down", "up"}, key : Keys] \cup {Other}
Platform == {"x11", "portal", "windows", "macos"}
Step(name) == [step |-> name, events |-> <<>>]
Sends(es) == [step |-> "send", events |-> es]
Nobody == "nobody"
User == "user"
Idle == [op |-> "none", todo |-> <<>>, warned |-> FALSE, sent |-> FALSE, late |-> 0]

InputInit ==
  /\ platform \in Platform /\ sharing \in BOOLEAN
  /\ inputStop = FALSE /\ inputGate \in {TRUE, ~sharing}
  /\ remote = "none" /\ remoteLock = Nobody /\ held = {}
  /\ acting = [a \in Actor |-> Idle] /\ user = <<>>
  /\ broken = FALSE /\ acts = [calls |-> 0, user |-> 0]

-----------------------------------------------------------------------------
(* What the tools check before they turn to the backend.                   *)
PointerOp == {"move", "double click", "mouse down", "mouse up", "drag", "scroll"}
KeyOp == {"key down", "key up", "press", "hotkey"}
InvokeElementChecks == <<Step("stop"), Step("ticket"), Step("scope")>>
SetValueChecks == <<Step("stop"), Step("ticket"), Step("scope")>>
ElementChecks == <<Step("stop"), Step("ticket"), Step("scope")>>
ClickChecks == <<Step("stop"), Step("ticket"), Step("scope")>>
TypeChecks == <<Step("stop"), Step("ticket"), Step("scope")>>
PointerChecks == <<Step("stop"), Step("ticket"), Step("scope")>>
KeyChecks == <<Step("stop"), Step("scope"), Step("ticket")>>
WindowChecks == <<Step("stop"), Step("ticket"), Step("scope")>>
LaunchChecks == <<Step("stop"), Step("ticket"), Step("application")>>

Checks(op) ==
  CASE op = "invoke" -> InvokeElementChecks
    [] op = "set value" -> SetValueChecks
    [] op = "focus" -> ElementChecks
    [] op = "click" -> ClickChecks
    [] op = "type" -> TypeChecks
    [] op \in PointerOp -> PointerChecks
    [] op \in KeyOp -> KeyChecks
    [] op = "window" -> WindowChecks
    [] op = "launch" -> LaunchChecks

(* The backend calls of an operation on Linux, each the events that it     *)
(* sends: a double click is two clicks, a press and a hotkey are made of   *)
(* downs and ups, the last one pressed let go first.                       *)
Press(k) == <<<<Down(k)>>, <<Up(k)>>>>
Hotkey(m, k) == <<<<Down(m)>>, <<Down(k)>>, <<Up(k)>>, <<Up(m)>>>>
Typed(k) == <<<<Down(k), Up(k), Down(k), Up(k)>>>>
LinuxCalls(op) ==
  CASE op = "click" -> <<<<Down(Button), Up(Button)>>>>
    [] op = "double click" -> <<<<Down(Button), Up(Button)>>, <<Down(Button), Up(Button)>>>>
    [] op = "mouse down" -> <<<<Down(Button)>>>>
    [] op = "mouse up" -> <<<<Up(Button)>>>>
    [] op = "drag" -> <<<<Other, Down(Button), Other, Up(Button)>>>>
    [] op = "key down" -> <<<<Down(Modifier)>>>>
    [] op = "key up" -> <<<<Up(Modifier)>>>>
    [] op = "press" -> Press(Letter)
    [] op = "hotkey" -> Hotkey(Modifier, Letter)
    [] op = "type" -> Typed(Letter)
    [] OTHER -> <<<<Other>>>>

(* Windows: what follows one look at the gate.  The pointer is moved and   *)
(* the window brought forward before the gate is looked at again and the   *)
(* button's or the text's events are handed over together.  An element     *)
(* without the pattern for it is clicked.                                  *)
WindowsClick == <<<<Other>>, <<Down(Button), Up(Button)>>>>
WindowsElement(op) == {<<<<Other>>>>} \cup {WindowsClick : o \in {op} \cap {"invoke"}}
WindowsWindow == <<<<Other>>>>
WindowsPointer(op) ==
  CASE op = "move" -> <<<<Other>>>>
    [] op = "double click" -> WindowsClick \o WindowsClick
    [] op = "mouse down" -> <<<<Down(Button)>>>>
    [] op = "mouse up" -> <<<<Up(Button)>>>>
    [] op = "drag" -> <<<<Other>>, <<Down(Button)>>, <<Other>>, <<Up(Button)>>>>
    [] op = "scroll" -> <<<<Other>>, <<Other>>>>
WindowsType == <<<<Other>>>> \o Typed(Letter)
WindowsLaunch == <<<<Other>>>>

(* macOS: likewise, but a click looks at the gate no more once its window  *)
(* is in front, and the whole text is one key's press.                     *)
MacClick == <<<<Other, Down(Button), Up(Button)>>>>
MacElement(op) == {<<<<Other>>>>} \cup {MacClick : o \in {op} \cap {"invoke"}}
MacWindow == <<<<Other>>>>
MacPointer(op) ==
  CASE op = "move" -> <<<<Other>>>>
    [] op = "double click" -> MacClick \o <<<<Down(Button), Up(Button)>>>>
    [] op = "mouse down" -> <<<<Down(Button)>>>>
    [] op = "mouse up" -> <<<<Up(Button)>>>>
    [] op = "drag" -> <<<<Other>>, <<Down(Button)>>, <<Other>>, <<Up(Button)>>>>
    [] op = "scroll" -> <<<<Other, Other>>>>
MacType == <<<<Other, Down(Letter), Up(Letter)>>>>
MacLaunch == <<<<Other>>>>

ElementOp == {"invoke", "set value", "focus"}
WindowsCalls(op) ==
  CASE op \in ElementOp -> WindowsElement(op)
    [] op = "window" -> {WindowsWindow}
    [] op = "click" -> {WindowsClick}
    [] op \in PointerOp -> {WindowsPointer(op)}
    [] op = "type" -> {WindowsType}
    [] op = "launch" -> {WindowsLaunch}
    [] op \in KeyOp -> {LinuxCalls(op)}
MacCalls(op) ==
  CASE op \in ElementOp -> MacElement(op)
    [] op = "window" -> {MacWindow}
    [] op = "click" -> {MacClick}
    [] op \in PointerOp -> {MacPointer(op)}
    [] op = "type" -> {MacType}
    [] op = "launch" -> {MacLaunch}
    [] op \in KeyOp -> {LinuxCalls(op)}
BackendCalls(op) ==
  CASE platform = "windows" -> WindowsCalls(op)
    [] platform = "macos" -> MacCalls(op)
    [] OTHER -> {LinuxCalls(op)}

(* X11 looks at the gate, takes the connection and sends all the events of *)
(* a call; launching a program does not look at the gate.                  *)
X11Call(op, events) ==
  IF op = "launch" THEN <<Sends(events)>> ELSE <<Step("gate"), Sends(events)>>

(* The portal looks at the gate, makes sure of a session, takes it and     *)
(* sends the events one by one.  It has no absolute pointer, no windows    *)
(* and no programs.                                                        *)
PortalCall(op, events) ==
  IF op \in {"mouse down", "mouse up", "scroll", "type"} \cup KeyOp
    THEN <<Step("gate"), Step("open"), Step("approve"), Step("take")>>
         \o [k \in DOMAIN events |-> Sends(<<events[k]>>)] \o <<Step("give")>>
    ELSE <<Step("refuse")>>

(* Windows takes the events of a call in one SendInput; macOS posts them   *)
(* one after the other.                                                    *)
WindowsCall(events) == <<Step("gate"), Sends(events)>>
MacCall(events) == <<Step("gate")>> \o [k \in DOMAIN events |-> Sends(<<events[k]>>)]

BackendCall(op, events) ==
  CASE platform = "x11" -> X11Call(op, events)
    [] platform = "portal" -> PortalCall(op, events)
    [] platform = "windows" -> WindowsCall(events)
    [] platform = "macos" -> MacCall(events)
(* A plan is the checks and then the backend's calls, four at most.        *)
Part(op, calls, k) == IF k \in DOMAIN calls THEN BackendCall(op, calls[k]) ELSE <<>>
Plans(op) ==
  {Checks(op) \o Part(op, calls, 1) \o Part(op, calls, 2) \o Part(op, calls, 3) \o Part(op, calls, 4) :
     calls \in BackendCalls(op)}

Operations ==
  ElementOp \cup PointerOp \cup KeyOp \cup {"click", "type", "window", "launch"}

InputTypeOK ==
  /\ platform \in Platform /\ remote \in {"none", "open", "dead"}
  /\ remoteLock \in Actor \cup {Nobody, User}
  /\ held \subseteq Keys \X Operations /\ broken \in BOOLEAN
  /\ \A a \in Actor : acting[a].op \in Operations \cup {"none"}
  /\ acts.calls <= MaxInputCalls /\ acts.user <= MaxUserActs

-----------------------------------------------------------------------------
At(a, name) == acting[a].todo # <<>> /\ Head(acting[a].todo).step = name
Free(a) == acting[a].todo = <<>>
(* A call that is over is forgotten, unless it sent something late.        *)
Kept(call) == IF call.todo = <<>> /\ call.late = 0 THEN Idle ELSE call
Proceeds(a, call) == acting' = [acting EXCEPT ![a] = Kept(call)]
Skip(a, n) == Proceeds(a, [acting[a] EXCEPT !.todo = SubSeq(@, n + 1, Len(@))])
GoOn(a) == Skip(a, 1) /\ UNCHANGED broken
GiveUp(a) ==
  /\ Proceeds(a, [acting[a] EXCEPT !.todo = <<>>])
  /\ broken' = (broken \/ acting[a].sent)
Release(a) == remoteLock' = IF remoteLock = a THEN Nobody ELSE remoteLock

CallComes(a) ==
  /\ Free(a) /\ acts.calls < MaxInputCalls
  /\ \E op \in Operations : \E plan \in Plans(op) :
       acting' = [acting EXCEPT ![a] = [op |-> op, todo |-> plan, warned |-> inputStop,
                                        sent |-> FALSE, late |-> 0]]
  /\ acts' = [acts EXCEPT !.calls = @ + 1]
  /\ UNCHANGED <<scene, remote, remoteLock, held, user, broken>>

(* The emergency stop is looked at once, when the call begins.             *)
CheckNothing(a) == At(a, "stop") /\ GoOn(a)
CheckStop(a) == At(a, "stop") /\ IF inputStop THEN GiveUp(a) ELSE GoOn(a)
CheckOthers(a) ==
  /\ \E name \in {"ticket", "scope", "application"} : At(a, name)
  /\ GoOn(a) \/ GiveUp(a)
CheckGate(a) == At(a, "gate") /\ IF inputGate THEN GoOn(a) ELSE GiveUp(a)
Refuse(a) == At(a, "refuse") /\ GiveUp(a)
Check(a) ==
  /\ CheckStop(a) \/ CheckOthers(a) \/ CheckGate(a) \/ Refuse(a)
  /\ UNCHANGED <<scene, remote, remoteLock, held, user, acts>>

(* ensure_remote_desktop: under its mutex, the session is started unless   *)
(* there is one; the user is asked, and may refuse.                        *)
OpenRemote(a) ==
  /\ At(a, "open") /\ remoteLock = Nobody /\ UNCHANGED broken
  /\ IF remote = "none" THEN remoteLock' = a /\ Skip(a, 1)
       ELSE UNCHANGED remoteLock /\ Skip(a, 2)
  /\ UNCHANGED <<scene, remote, held, user, acts>>
Approve(a) ==
  /\ At(a, "approve") /\ remoteLock' = Nobody
  /\ \/ remote' = "open" /\ GoOn(a)
     \/ UNCHANGED remote /\ GiveUp(a)
  /\ UNCHANGED <<scene, held, user, acts>>

(* The mutex again: the session may have gone.                             *)
TakeRemote(a) ==
  /\ At(a, "take") /\ remoteLock = Nobody
  /\ IF remote = "none" THEN GiveUp(a) /\ UNCHANGED remoteLock
       ELSE remoteLock' = a /\ GoOn(a)
  /\ UNCHANGED <<scene, remote, held, user, acts>>
GiveRemote(a) ==
  /\ At(a, "give") /\ GoOn(a) /\ Release(a)
  /\ UNCHANGED <<scene, remote, held, user, acts>>

(* The events reach the desktop, or only the first of them and the call    *)
(* fails: the connection is gone, a key has no code.  Of a key's events    *)
(* the last one counts.                                                    *)
After(down, op, events) ==
  LET last(k) == \E i \in DOMAIN events :
                   events[i] = Down(k) /\ \A j \in i + 1 .. Len(events) : events[j] # Up(k)
  IN  {h \in down : \A i \in DOMAIN events : events[i] # Up(h[1])} \cup {<<k, op>> : k \in {k \in Keys : last(k)}}
Stopped == inputStop /\ ~inputGate /\ user = <<>>
Send(a) ==
  /\ At(a, "send")
  /\ LET events == Head(acting[a].todo).events
     IN \E n \in 0 .. (IF remote = "dead" THEN 0 ELSE Len(events)) :
          /\ held' = After(held, acting[a].op, SubSeq(events, 1, n))
          /\ Proceeds(a, [acting[a] EXCEPT !.todo = IF n = Len(events) THEN Tail(@) ELSE <<>>,
                                           !.sent = @ \/ n > 0,
                                           !.late = IF Stopped THEN @ + n ELSE @])
          /\ IF n = Len(events) THEN UNCHANGED <<remoteLock, broken>>
               ELSE Release(a) /\ broken' = (broken \/ n > 0 \/ acting[a].sent)
  /\ UNCHANGED <<scene, remote, user, acts>>

(* The turn is aborted while its call waits.  X11 calls do not wait while  *)
(* they send, Windows and macOS calls not at all once the tool's checks    *)
(* are done.                                                               *)
Aborted(a) ==
  /\ ~Free(a) /\ (platform # "portal" => ~At(a, "send"))
  /\ platform \in {"windows", "macos"} => ~At(a, "gate")
  /\ GiveUp(a) /\ Release(a)
  /\ UNCHANGED <<scene, remote, held, user, acts>>

-----------------------------------------------------------------------------
(* The user's emergency stop: the flag, then the backends of the sessions. *)
(* The switch closes or opens the gate of the share.  Closing it closes    *)
(* the portal session, when its mutex is free.                             *)
CloseGate == IF platform = "portal" THEN <<"gate off", "close">> ELSE <<"gate off">>
UserActs ==
  /\ user = <<>> /\ acts.user < MaxUserActs /\ acts' = [acts EXCEPT !.user = @ + 1]
  /\ user' \in {<<"engage">> \o (IF sharing THEN CloseGate ELSE <<>>), <<"clear">>}
               \cup (IF sharing THEN {CloseGate, <<"gate on">>} ELSE {})
  /\ UNCHANGED <<scene, remote, remoteLock, held, acting, broken>>
UserStep ==
  /\ user # <<>> /\ user' = Tail(user)
  /\ inputStop' = CASE Head(user) = "engage" -> TRUE [] Head(user) = "clear" -> FALSE
                    [] OTHER -> inputStop
  /\ inputGate' = CASE Head(user) = "gate off" -> FALSE [] Head(user) = "gate on" -> TRUE
                    [] OTHER -> inputGate
  /\ Head(user) = "close" => remoteLock = Nobody
  /\ remote' = IF Head(user) = "close" THEN "none" ELSE remote
  /\ held' = IF Head(user) = "close" THEN {} ELSE held
  /\ acting' = [a \in Actor |->
                  Kept([acting[a] EXCEPT !.warned = @ /\ inputStop',
                                         !.late = IF inputStop' /\ ~inputGate' THEN @ ELSE 0])]
  /\ UNCHANGED <<platform, sharing, remoteLock, broken, acts>>

(* The compositor ends the session: what it held is let go.                *)
SessionDies ==
  /\ remote = "open" /\ remote' = "dead" /\ held' = {}
  /\ UNCHANGED <<scene, remoteLock, acting, user, broken, acts>>

InputNext ==
  \/ \E a \in Actor :
       \/ CallComes(a) \/ Check(a) \/ OpenRemote(a) \/ Approve(a)
       \/ TakeRemote(a) \/ Send(a) \/ GiveRemote(a) \/ Aborted(a)
  \/ UserActs \/ UserStep \/ SessionDies

InputSpec == InputInit /\ [][InputNext]_inputVars

-----------------------------------------------------------------------------
(* InputStops: a call that comes in under the emergency stop sends nothing *)
(* as long as the stop is engaged; and once the stop has closed the gate   *)
(* of the share, a call that was in flight sends no more than the events of  *)
(* the one backend call that it was in.                                    *)
LongestCall(op) == Max(UNION {{Len(calls[k]) : k \in DOMAIN calls} : calls \in BackendCalls(op)})
InputStops ==
  \A a \in Actor :
    /\ acting[a].warned => ~At(a, "send")
    /\ acting[a].late > 0 => acting[a].late <= LongestCall(acting[a].op)

(* KeysComeUp: when nothing runs and no call has failed midway or been     *)
(* aborted, only what a call was asked to hold is down, whatever the calls *)
(* of several turns did to the same keys.                                  *)
KeysComeUp ==
  (\A a \in Actor : Free(a)) /\ ~broken =>
    \A h \in held : h[2] \in {"key down", "mouse down"}

(* InputIsBounded: neither a stop nor the end of the calls leaves the      *)
(* desktop with input that nobody asked for.                               *)
InputIsBounded == InputStops /\ KeysComeUp
=============================================================================
