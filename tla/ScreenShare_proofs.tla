------------------------- MODULE ScreenShare_proofs -------------------------
(***************************************************************************)
(* What depends on a share is as the share on record is, for any number of *)
(* shares, approvals and calls of the four threads.                        *)
(*                                                                         *)
(* The property speaks of the moments in which the share panel is at rest; *)
(* the invariant says, for every step the panel can be at, which of the    *)
(* record, the capture, the marker and the pause are already changed.  The *)
(* other threads, that wait for nobody, can only do what leaves all of it  *)
(* true: capture for the model, stop any capture, switch the control flag, *)
(* revoke grants.                                                          *)
(***************************************************************************)
EXTENDS ScreenShare, ApprovalQueue_proofs

panel == caller["panel"]
First(todo) == IF todo = <<>> THEN "rest" ELSE Head(todo)
PanelAt == First(panel.todo)

(* What is left to do of every call of the panel.                          *)
StartTodos ==
  {<<"check", "capture", "gate-off", "record", "mark", "status">>,
   <<"capture", "gate-off", "record", "mark", "status">>,
   <<"gate-off", "record", "mark", "status">>, <<"record", "mark", "status">>,
   <<"mark", "status">>, <<"status">>}
StopTodos ==
  {<<"look", "remove", "last?", "revoke", "gate-on", "take", "status">>,
   <<"remove", "last?", "revoke", "gate-on", "take", "status">>,
   <<"last?", "revoke", "gate-on", "take", "status">>,
   <<"revoke", "gate-on", "take", "status">>, <<"gate-on", "take", "status">>,
   <<"take", "status">>, <<"take">>, <<"status">>}
PauseTodos ==
  {<<"look", "pause", "mirror-pause", "status">>, <<"pause", "mirror-pause", "status">>,
   <<"mirror-pause", "status">>, <<"status">>}
ClearTodos == {<<"clear", "status">>, <<"status">>}
CleanupTodos == {<<"remove", "last?">>, <<"last?">>}

SwitchTodos ==
  {<<>>, <<"look", "gate", "flag", "mirror-flag", "status">>, <<"gate", "flag", "mirror-flag", "status">>,
   <<"flag", "mirror-flag", "status">>, <<"mirror-flag", "status">>, <<"status">>}
ShortcutTodos ==
  {<<>>, <<"engage", "revoke-control", "flags-off", "status">>,
   <<"revoke-control", "flags-off", "status">>, <<"flags-off", "status">>, <<"status">>}
CaptureTodos == {<<"allow", "insert">>, <<"insert">>}
ToolTodos == {<<>>} \cup CaptureTodos \cup CleanupTodos

StepLists ==
  Seq({"check", "capture", "gate-off", "record", "mark", "status", "look", "remove", "last?",
       "revoke", "gate-on", "take", "pause", "mirror-pause", "gate", "flag", "mirror-flag",
       "engage", "revoke-control", "flags-off", "clear", "allow", "insert"})
CallRecord == [call : AllCalls \cup {"none"}, todo : StepLists, id : 0 .. MaxShares, on : BOOLEAN]
Capture == [live : BOOLEAN, byTool : BOOLEAN, control : BOOLEAN, paused : BOOLEAN]

Listed(call, todo) ==
  \/ call = "start" /\ todo \in StartTodos
  \/ call = "stop" /\ todo \in StopTodos
  \/ call = "pause" /\ todo \in PauseTodos
  \/ call = "clear" /\ todo \in ClearTodos
  \/ call = "tool-stop" /\ todo \in CleanupTodos
PanelShape == panel = NoCall \/ Listed(panel.call, panel.todo)
OthersShape ==
  /\ caller["switch"].todo \in SwitchTodos /\ caller["switch"].call \in {"none", "control"}
  /\ caller["shortcut"].todo \in ShortcutTodos
  /\ caller["tool"].todo \in ToolTodos
  /\ caller["tool"].todo \in CaptureTodos => caller["tool"].call = "tool-start"

ShareShape ==
  /\ share \in [id : 0 .. MaxShares, control : BOOLEAN, paused : BOOLEAN]
  /\ captures \in [Captures -> Capture]
  /\ started \in 0 .. MaxShares
  /\ caller \in [Threads -> CallRecord]
  /\ share.id = None => share = NoShare

(* Ids name capture sessions that were started.                            *)
IdsInv ==
  /\ \A t \in Threads : caller[t].id <= started
  /\ share.id <= started
  /\ \A c \in Captures : captures[c].live => c <= started

(* The capture of a share that is not on record yet, and the record that   *)
(* is about to be changed or taken.                                        *)
Cleaning == PanelAt = "remove" /\ panel.call = "tool-stop"
Preparing == PanelAt \in {"gate-off", "record"} \/ Cleaning
Ending == \/ PanelAt \in {"revoke", "gate-on", "take"}
          \/ PanelAt = "last?" /\ panel.call = "stop"
Changing == \/ PanelAt \in {"mark", "pause", "mirror-pause"} \/ Ending
            \/ PanelAt = "remove" /\ panel.call = "stop"

RecordInv ==
  /\ PanelAt = "capture" \/ Preparing => share = NoShare
  /\ Changing => share.id = panel.id /\ panel.id # None
  /\ Preparing => panel.id # None

(* The marker follows the record, grants follow the marker.                *)
MarkerInv ==
  /\ shareQueue.share = IF PanelAt \in {"mark", "gate-on", "take"} THEN None ELSE share.id
  /\ \A g \in shareQueue.grants : g.share \in {None, shareQueue.share}

CaptureInv ==
  /\ \A c \in Captures : captures[c].live /\ ~captures[c].byTool =>
       \/ c = share.id
       \/ Preparing /\ c = panel.id
  /\ Ending => ~captures[panel.id].live

PauseInv ==
  /\ PanelAt # "mirror-pause" /\ share.id # None /\ captures[share.id].live =>
       share.paused = captures[share.id].paused
  /\ PanelAt = "mirror-pause" /\ captures[panel.id].live => captures[panel.id].paused = panel.on
  /\ Preparing /\ captures[panel.id].live => ~captures[panel.id].paused

ShareInv ==
  /\ ShareShape /\ PanelShape /\ OthersShape /\ QueueOK(shareQueue, {})
  /\ IdsInv /\ RecordInv /\ MarkerInv /\ CaptureInv /\ PauseInv

-----------------------------------------------------------------------------
(* What comes after a step of the panel.                                   *)
Follow(at, call) ==
  CASE at = "check" -> "capture"
    [] at = "capture" -> "gate-off"
    [] at = "gate-off" -> "record"
    [] at = "record" -> "mark"
    [] at = "look" -> IF call = "stop" THEN "remove" ELSE "pause"
    [] at = "remove" -> "last?"
    [] at = "last?" -> "revoke"
    [] at = "revoke" -> "gate-on"
    [] at = "gate-on" -> "take"
    [] at = "pause" -> "mirror-pause"
    [] OTHER -> "status"

(* Which call of the panel a step belongs to, and what comes after it.     *)
LEMMA PanelSteps ==
  ASSUME NEW call, NEW todo, Listed(call, todo)
  PROVE  /\ todo # <<>> /\ First(todo) = Head(todo)
         /\ call \in {"start", "stop", "pause", "clear", "tool-stop"}
         /\ Head(todo) \in {"check", "capture", "gate-off", "record", "mark"} => call = "start"
         /\ Head(todo) \in {"revoke", "gate-on", "take"} => call = "stop"
         /\ Head(todo) \in {"pause", "mirror-pause"} => call = "pause"
         /\ Head(todo) \in {"remove", "last?"} => call \in {"stop", "tool-stop"}
         /\ Head(todo) = "look" => call \in {"stop", "pause"}
         /\ Head(todo) \in {"check", "capture", "gate-off", "record", "mark", "status", "look",
              "remove", "last?", "revoke", "gate-on", "take", "pause", "mirror-pause", "clear"}
         /\ Len(todo) = 1 =>
              \/ Head(todo) \in {"status", "take"}
              \/ Head(todo) = "last?" /\ call = "tool-stop"
         /\ Len(todo) # 1 =>
              /\ Head(todo) = "last?" => call = "stop"
              /\ Listed(call, Tail(todo)) /\ First(Tail(todo)) = Follow(Head(todo), call)
<1>1. CASE call = "start" /\ todo \in StartTodos
  <2>1. CASE todo = <<"check", "capture", "gate-off", "record", "mark", "status">>
    <3>1. todo # <<>> /\ Head(todo) = "check" /\ Len(todo) = 6
      BY <1>1, <2>1 DEF StartTodos
    <3>2. /\ Tail(todo) \in StartTodos /\ Tail(todo) # <<>>
          /\ Head(Tail(todo)) = "capture"
      BY <1>1, <2>1 DEF StartTodos
    <3> QED BY <1>1, <3>1, <3>2 DEF First, Follow, Listed
  <2>2. CASE todo = <<"capture", "gate-off", "record", "mark", "status">>
    <3>1. todo # <<>> /\ Head(todo) = "capture" /\ Len(todo) = 5
      BY <1>1, <2>2 DEF StartTodos
    <3>2. /\ Tail(todo) \in StartTodos /\ Tail(todo) # <<>>
          /\ Head(Tail(todo)) = "gate-off"
      BY <1>1, <2>2 DEF StartTodos
    <3> QED BY <1>1, <3>1, <3>2 DEF First, Follow, Listed
  <2>3. CASE todo = <<"gate-off", "record", "mark", "status">>
    <3>1. todo # <<>> /\ Head(todo) = "gate-off" /\ Len(todo) = 4
      BY <1>1, <2>3 DEF StartTodos
    <3>2. /\ Tail(todo) \in StartTodos /\ Tail(todo) # <<>>
          /\ Head(Tail(todo)) = "record"
      BY <1>1, <2>3 DEF StartTodos
    <3> QED BY <1>1, <3>1, <3>2 DEF First, Follow, Listed
  <2>4. CASE todo = <<"record", "mark", "status">>
    <3>1. todo # <<>> /\ Head(todo) = "record" /\ Len(todo) = 3
      BY <1>1, <2>4 DEF StartTodos
    <3>2. /\ Tail(todo) \in StartTodos /\ Tail(todo) # <<>>
          /\ Head(Tail(todo)) = "mark"
      BY <1>1, <2>4 DEF StartTodos
    <3> QED BY <1>1, <3>1, <3>2 DEF First, Follow, Listed
  <2>5. CASE todo = <<"mark", "status">>
    <3>1. todo # <<>> /\ Head(todo) = "mark" /\ Len(todo) = 2
      BY <1>1, <2>5 DEF StartTodos
    <3>2. /\ Tail(todo) \in StartTodos /\ Tail(todo) # <<>>
          /\ Head(Tail(todo)) = "status"
      BY <1>1, <2>5 DEF StartTodos
    <3> QED BY <1>1, <3>1, <3>2 DEF First, Follow, Listed
  <2>6. CASE todo = <<"status">>
    <3>1. todo # <<>> /\ Head(todo) = "status" /\ Len(todo) = 1
      BY <1>1, <2>6 DEF StartTodos
    <3> QED BY <1>1, <3>1 DEF First, Listed
  <2> QED BY <1>1, <2>1, <2>2, <2>3, <2>4, <2>5, <2>6 DEF StartTodos
<1>2. CASE call = "stop" /\ todo \in StopTodos
  <2>1. CASE todo = <<"look", "remove", "last?", "revoke", "gate-on", "take", "status">>
    <3>1. todo # <<>> /\ Head(todo) = "look" /\ Len(todo) = 7
      BY <1>2, <2>1 DEF StopTodos
    <3>2. /\ Tail(todo) \in StopTodos /\ Tail(todo) # <<>>
          /\ Head(Tail(todo)) = "remove"
      BY <1>2, <2>1 DEF StopTodos
    <3> QED BY <1>2, <3>1, <3>2 DEF First, Follow, Listed
  <2>2. CASE todo = <<"remove", "last?", "revoke", "gate-on", "take", "status">>
    <3>1. todo # <<>> /\ Head(todo) = "remove" /\ Len(todo) = 6
      BY <1>2, <2>2 DEF StopTodos
    <3>2. /\ Tail(todo) \in StopTodos /\ Tail(todo) # <<>>
          /\ Head(Tail(todo)) = "last?"
      BY <1>2, <2>2 DEF StopTodos
    <3> QED BY <1>2, <3>1, <3>2 DEF First, Follow, Listed
  <2>3. CASE todo = <<"last?", "revoke", "gate-on", "take", "status">>
    <3>1. todo # <<>> /\ Head(todo) = "last?" /\ Len(todo) = 5
      BY <1>2, <2>3 DEF StopTodos
    <3>2. /\ Tail(todo) \in StopTodos /\ Tail(todo) # <<>>
          /\ Head(Tail(todo)) = "revoke"
      BY <1>2, <2>3 DEF StopTodos
    <3> QED BY <1>2, <3>1, <3>2 DEF First, Follow, Listed
  <2>4. CASE todo = <<"revoke", "gate-on", "take", "status">>
    <3>1. todo # <<>> /\ Head(todo) = "revoke" /\ Len(todo) = 4
      BY <1>2, <2>4 DEF StopTodos
    <3>2. /\ Tail(todo) \in StopTodos /\ Tail(todo) # <<>>
          /\ Head(Tail(todo)) = "gate-on"
      BY <1>2, <2>4 DEF StopTodos
    <3> QED BY <1>2, <3>1, <3>2 DEF First, Follow, Listed
  <2>5. CASE todo = <<"gate-on", "take", "status">>
    <3>1. todo # <<>> /\ Head(todo) = "gate-on" /\ Len(todo) = 3
      BY <1>2, <2>5 DEF StopTodos
    <3>2. /\ Tail(todo) \in StopTodos /\ Tail(todo) # <<>>
          /\ Head(Tail(todo)) = "take"
      BY <1>2, <2>5 DEF StopTodos
    <3> QED BY <1>2, <3>1, <3>2 DEF First, Follow, Listed
  <2>6. CASE todo = <<"take", "status">>
    <3>1. todo # <<>> /\ Head(todo) = "take" /\ Len(todo) = 2
      BY <1>2, <2>6 DEF StopTodos
    <3>2. /\ Tail(todo) \in StopTodos /\ Tail(todo) # <<>>
          /\ Head(Tail(todo)) = "status"
      BY <1>2, <2>6 DEF StopTodos
    <3> QED BY <1>2, <3>1, <3>2 DEF First, Follow, Listed
  <2>7. CASE todo = <<"status">>
    <3>1. todo # <<>> /\ Head(todo) = "status" /\ Len(todo) = 1
      BY <1>2, <2>7 DEF StopTodos
    <3> QED BY <1>2, <3>1 DEF First, Listed
  <2>8. CASE todo = <<"take">>
    <3>1. todo # <<>> /\ Head(todo) = "take" /\ Len(todo) = 1
      BY <1>2, <2>8 DEF StopTodos
    <3> QED BY <1>2, <3>1 DEF First, Listed
  <2> QED BY <1>2, <2>1, <2>2, <2>3, <2>4, <2>5, <2>6, <2>7, <2>8 DEF StopTodos
<1>3. CASE call = "pause" /\ todo \in PauseTodos
  <2>1. CASE todo = <<"look", "pause", "mirror-pause", "status">>
    <3>1. todo # <<>> /\ Head(todo) = "look" /\ Len(todo) = 4
      BY <1>3, <2>1 DEF PauseTodos
    <3>2. /\ Tail(todo) \in PauseTodos /\ Tail(todo) # <<>>
          /\ Head(Tail(todo)) = "pause"
      BY <1>3, <2>1 DEF PauseTodos
    <3> QED BY <1>3, <3>1, <3>2 DEF First, Follow, Listed
  <2>2. CASE todo = <<"pause", "mirror-pause", "status">>
    <3>1. todo # <<>> /\ Head(todo) = "pause" /\ Len(todo) = 3
      BY <1>3, <2>2 DEF PauseTodos
    <3>2. /\ Tail(todo) \in PauseTodos /\ Tail(todo) # <<>>
          /\ Head(Tail(todo)) = "mirror-pause"
      BY <1>3, <2>2 DEF PauseTodos
    <3> QED BY <1>3, <3>1, <3>2 DEF First, Follow, Listed
  <2>3. CASE todo = <<"mirror-pause", "status">>
    <3>1. todo # <<>> /\ Head(todo) = "mirror-pause" /\ Len(todo) = 2
      BY <1>3, <2>3 DEF PauseTodos
    <3>2. /\ Tail(todo) \in PauseTodos /\ Tail(todo) # <<>>
          /\ Head(Tail(todo)) = "status"
      BY <1>3, <2>3 DEF PauseTodos
    <3> QED BY <1>3, <3>1, <3>2 DEF First, Follow, Listed
  <2>4. CASE todo = <<"status">>
    <3>1. todo # <<>> /\ Head(todo) = "status" /\ Len(todo) = 1
      BY <1>3, <2>4 DEF PauseTodos
    <3> QED BY <1>3, <3>1 DEF First, Listed
  <2> QED BY <1>3, <2>1, <2>2, <2>3, <2>4 DEF PauseTodos
<1>4. CASE call = "clear" /\ todo \in ClearTodos
  <2>1. CASE todo = <<"clear", "status">>
    <3>1. todo # <<>> /\ Head(todo) = "clear" /\ Len(todo) = 2
      BY <1>4, <2>1 DEF ClearTodos
    <3>2. /\ Tail(todo) \in ClearTodos /\ Tail(todo) # <<>>
          /\ Head(Tail(todo)) = "status"
      BY <1>4, <2>1 DEF ClearTodos
    <3> QED BY <1>4, <3>1, <3>2 DEF First, Follow, Listed
  <2>2. CASE todo = <<"status">>
    <3>1. todo # <<>> /\ Head(todo) = "status" /\ Len(todo) = 1
      BY <1>4, <2>2 DEF ClearTodos
    <3> QED BY <1>4, <3>1 DEF First, Listed
  <2> QED BY <1>4, <2>1, <2>2 DEF ClearTodos
<1>5. CASE call = "tool-stop" /\ todo \in CleanupTodos
  <2>1. CASE todo = <<"remove", "last?">>
    <3>1. todo # <<>> /\ Head(todo) = "remove" /\ Len(todo) = 2
      BY <1>5, <2>1 DEF CleanupTodos
    <3>2. /\ Tail(todo) \in CleanupTodos /\ Tail(todo) # <<>>
          /\ Head(Tail(todo)) = "last?"
      BY <1>5, <2>1 DEF CleanupTodos
    <3> QED BY <1>5, <3>1, <3>2 DEF First, Follow, Listed
  <2>2. CASE todo = <<"last?">>
    <3>1. todo # <<>> /\ Head(todo) = "last?" /\ Len(todo) = 1
      BY <1>5, <2>2 DEF CleanupTodos
    <3> QED BY <1>5, <3>1 DEF First, Listed
  <2> QED BY <1>5, <2>1, <2>2 DEF CleanupTodos
<1> QED BY <1>1, <1>2, <1>3, <1>4, <1>5 DEF Listed

(* The steps of the control switch.                                        *)
LEMMA SwitchSteps ==
  ASSUME NEW todo \in SwitchTodos, todo # <<>>
  PROVE  /\ Head(todo) \in {"look", "gate", "flag", "mirror-flag", "status"}
         /\ Tail(todo) \in SwitchTodos
<1> USE DEF SwitchTodos
<1>1. CASE todo = <<"look", "gate", "flag", "mirror-flag", "status">> BY <1>1
<1>2. CASE todo = <<"gate", "flag", "mirror-flag", "status">> BY <1>2
<1>3. CASE todo = <<"flag", "mirror-flag", "status">> BY <1>3
<1>4. CASE todo = <<"mirror-flag", "status">> BY <1>4
<1>5. CASE todo = <<"status">> BY <1>5
<1> QED BY <1>1, <1>2, <1>3, <1>4, <1>5

(* The steps of the emergency stop.                                        *)
LEMMA ShortcutSteps ==
  ASSUME NEW todo \in ShortcutTodos, todo # <<>>
  PROVE  /\ Head(todo) \in {"engage", "revoke-control", "flags-off", "status"}
         /\ Tail(todo) \in ShortcutTodos
<1> USE DEF ShortcutTodos
<1>1. CASE todo = <<"engage", "revoke-control", "flags-off", "status">> BY <1>1
<1>2. CASE todo = <<"revoke-control", "flags-off", "status">> BY <1>2
<1>3. CASE todo = <<"flags-off", "status">> BY <1>3
<1>4. CASE todo = <<"status">> BY <1>4
<1> QED BY <1>1, <1>2, <1>3, <1>4

(* The steps of the model's capture tools.                                 *)
LEMMA ToolSteps ==
  ASSUME NEW todo \in ToolTodos, todo # <<>>
  PROVE  /\ Head(todo) \in {"allow", "insert", "remove", "last?"}
         /\ Tail(todo) \in ToolTodos
         /\ Head(todo) \in {"allow", "insert"} => todo \in CaptureTodos
         /\ Tail(todo) \in CaptureTodos => todo \in CaptureTodos
<1> USE DEF ToolTodos, CaptureTodos, CleanupTodos
<1>1. CASE todo = <<"allow", "insert">> BY <1>1
<1>2. CASE todo = <<"insert">> BY <1>2
<1>3. CASE todo = <<"remove", "last?">> BY <1>3
<1>4. CASE todo = <<"last?">> BY <1>4
<1> QED BY <1>1, <1>2, <1>3, <1>4

(* The bounds, the ids and the threads.                                    *)
LEMMA ShareFacts ==
  /\ MaxShares \in Nat /\ MaxShares # 0 /\ MaxShares <= MaxId /\ MaxId \in Nat
  /\ MaxAsks \in Nat /\ MaxAsks <= MaxId
  /\ None = 0 /\ Ids = 0 .. MaxId /\ Captures = 1 .. MaxShares
  /\ Threads = {"panel", "switch", "shortcut", "tool"}
<1> QED BY NeedAssumption, ShareAssumption DEF None, Ids, Captures, Threads

(* The first steps of the calls.                                           *)
LEMMA CallsBegin ==
  /\ \A c \in CallsOf("panel") : /\ Listed(c, Steps(c)) /\ Steps(c) \in StepLists /\ c \in AllCalls
                                 /\ Head(Steps(c)) \in {"check", "look", "clear"}
  /\ \A c \in CallsOf("switch") : Steps(c) \in SwitchTodos \cap StepLists /\ c \in AllCalls
  /\ \A c \in CallsOf("shortcut") : Steps(c) \in ShortcutTodos \cap StepLists /\ c \in AllCalls
  /\ \A c \in CallsOf("tool") : /\ Steps(c) \in ToolTodos \cap StepLists /\ c \in AllCalls
                                /\ Steps(c) \in CaptureTodos => c = "tool-start"
<1> USE DEF CallsOf, Steps, StepLists
<1>1. \A t \in Threads : \A c \in CallsOf(t) : c \in AllCalls BY DEF AllCalls
<1>2. \A c \in CallsOf("panel") : Listed(c, Steps(c)) /\ Steps(c) \in StepLists
                                /\ Head(Steps(c)) \in {"check", "look", "clear"}
  <2>1. Listed("start", Steps("start")) /\ Steps("start") \in StepLists /\ Head(Steps("start")) = "check"
    BY DEF Listed, StartTodos
  <2>2. Listed("stop", Steps("stop")) /\ Steps("stop") \in StepLists /\ Head(Steps("stop")) = "look"
    BY DEF Listed, StopTodos
  <2>3. Listed("pause", Steps("pause")) /\ Steps("pause") \in StepLists /\ Head(Steps("pause")) = "look"
    BY DEF Listed, PauseTodos
  <2>4. Listed("clear", Steps("clear")) /\ Steps("clear") \in StepLists /\ Head(Steps("clear")) = "clear"
    BY DEF Listed, ClearTodos
  <2> QED BY <2>1, <2>2, <2>3, <2>4
<1>3. Steps("control") \in SwitchTodos \cap StepLists BY DEF SwitchTodos
<1>4. Steps("emergency") \in ShortcutTodos \cap StepLists BY DEF ShortcutTodos
<1>5. Steps("tool-start") \in ToolTodos \cap StepLists BY DEF ToolTodos, CaptureTodos
<1>6. Steps("tool-stop") \in ToolTodos \cap StepLists /\ Steps("tool-stop") \notin CaptureTodos
  BY DEF ToolTodos, CaptureTodos, CleanupTodos
<1> QED BY <1>1, <1>2, <1>3, <1>4, <1>5, <1>6 DEF Threads

(* A thread at rest.                                                       *)
LEMMA EmptyTodos ==
  /\ NoCall \in CallRecord /\ NoCall.todo = <<>> /\ NoCall.id = None /\ First(<<>>) = "rest"
  /\ <<>> \in SwitchTodos /\ <<>> \in ShortcutTodos /\ <<>> \in ToolTodos
  /\ <<>> \notin CaptureTodos
<1>1. <<>> \in StepLists BY DEF StepLists
<1>2. NoCall \in CallRecord BY <1>1, ShareFacts DEF NoCall, CallRecord
<1> QED BY <1>2 DEF NoCall, First, SwitchTodos, ShortcutTodos, ToolTodos, CaptureTodos

(* What is left after a step is a list of steps.                           *)
LEMMA Shorter ==
  ASSUME NEW t \in StepLists, t # <<>> PROVE Tail(t) \in StepLists
<1> QED BY DEF StepLists

-----------------------------------------------------------------------------
(* What a step of another thread may change, and what it may not.          *)
HarmlessCaller ==
  /\ caller' \in [Threads -> CallRecord] /\ caller'["panel"] = caller["panel"] /\ OthersShape'
  /\ \A t \in Threads : caller'[t].id <= started'
HarmlessShare ==
  /\ share' \in [id : 0 .. MaxShares, control : BOOLEAN, paused : BOOLEAN]
  /\ share'.id = share.id /\ share'.paused = share.paused
  /\ share.id = None => share' = NoShare
HarmlessCaptures ==
  /\ captures' \in [Captures -> Capture]
  /\ started' \in 0 .. MaxShares /\ started <= started'
  /\ \A c \in Captures : captures'[c].live =>
       \/ captures[c].live /\ captures'[c].byTool = captures[c].byTool
          /\ captures'[c].paused = captures[c].paused
       \/ captures'[c].byTool /\ started < c /\ c <= started'
HarmlessQueue ==
  /\ QueueOK(shareQueue', {}) /\ shareQueue'.share = shareQueue.share
  /\ \A g \in shareQueue'.grants : g.share \in {None, shareQueue.share}
Harmless == HarmlessCaller /\ HarmlessShare /\ HarmlessCaptures /\ HarmlessQueue

(* A harmless step keeps the invariant.                                    *)
LEMMA HarmlessOK == ASSUME ShareInv, Harmless PROVE ShareInv'
<1> USE ShareFacts DEF ShareInv, HarmlessCaller, HarmlessShare, HarmlessCaptures, HarmlessQueue
<1>1. panel' = panel /\ PanelAt' = PanelAt BY DEF Harmless, panel, PanelAt
<1>2. /\ Preparing' = Preparing /\ Ending' = Ending /\ Changing' = Changing
  BY <1>1 DEF Preparing, Cleaning, Ending, Changing
<1>3. PanelShape' BY <1>1 DEF PanelShape
<1>4. ShareShape' BY DEF Harmless, ShareShape
<1>5. /\ started \in Nat /\ started' \in Nat /\ share.id <= started /\ panel.id <= started
      /\ panel.id \in Nat /\ share.id \in Nat
  BY DEF IdsInv, ShareShape, CallRecord, Harmless, panel
<1>6. IdsInv'
  <2>1. \A c \in Captures : captures'[c].live => c <= started' BY <1>5 DEF Harmless, IdsInv
  <2> QED BY <1>5, <2>1 DEF Harmless, IdsInv
<1>7. RecordInv' BY <1>1, <1>2 DEF Harmless, RecordInv, ShareShape, NoShare
<1>8. MarkerInv' BY <1>1 DEF Harmless, MarkerInv
<1>9. CaptureInv'
  <2>1. \A c \in Captures : captures'[c].live /\ ~captures'[c].byTool =>
          captures[c].live /\ ~captures[c].byTool
    BY DEF Harmless
  <2>2. Ending => panel.id \in Captures BY <1>5 DEF RecordInv, Changing, ShareShape, CallRecord, panel
  <2>3. Ending => ~captures'[panel.id].live BY <1>5, <2>2 DEF CaptureInv, Harmless
  <2> QED BY <1>1, <1>2, <2>1, <2>3 DEF CaptureInv, Harmless
<1>10. PauseInv'
  <2>1. \A c \in Captures : c <= started /\ captures'[c].live =>
          captures[c].live /\ captures'[c].paused = captures[c].paused
    BY <1>5 DEF Harmless
  <2>2. share.id # None => share.id \in Captures BY DEF ShareShape
  <2>3. Preparing \/ PanelAt = "mirror-pause" => panel.id \in Captures
    BY DEF RecordInv, Changing, ShareShape, CallRecord, panel
  <2> QED BY <1>1, <1>2, <1>5, <2>1, <2>2, <2>3 DEF PauseInv, Harmless
<1> QED BY <1>3, <1>4, <1>6, <1>7, <1>8, <1>9, <1>10 DEF Harmless

(* Another thread goes on, or gives up.                                    *)
LEMMA OtherGoes ==
  ASSUME ShareInv, NEW t \in Threads, t # "panel", caller[t].todo # <<>>,
         NEW q \in CallRecord, caller' = [caller EXCEPT ![t] = q], q.id <= started,
         q = NoCall \/ (q.call = caller[t].call /\ q.todo = Tail(caller[t].todo))
  PROVE  /\ caller' \in [Threads -> CallRecord] /\ caller'["panel"] = caller["panel"]
         /\ OthersShape' /\ \A k \in Threads : caller'[k].id <= started
<1> USE ShareFacts DEF ShareInv
<1>1. caller \in [Threads -> CallRecord] BY DEF ShareShape
<1>2. caller'[t] = q /\ \A k \in Threads : k # t => caller'[k] = caller[k] BY <1>1
<1>3. OthersShape'
  <2>1. CASE t = "switch"
    <3>1. NoCall.call = "none" BY DEF NoCall
    <3> QED BY <1>2, <2>1, <3>1, EmptyTodos, SwitchSteps DEF OthersShape
  <2>2. CASE t = "shortcut"
    BY <1>2, <2>2, EmptyTodos, ShortcutSteps DEF OthersShape
  <2>3. CASE t = "tool"
    <3>1. q.todo \in ToolTodos /\ (q.todo \in CaptureTodos => q.call = "tool-start")
      <4>1. CASE q = NoCall BY <4>1, EmptyTodos
      <4>2. CASE q.call = caller[t].call /\ q.todo = Tail(caller[t].todo)
        <5>1. caller[t].todo \in ToolTodos BY <2>3 DEF OthersShape
        <5>2. q.todo \in ToolTodos /\ (q.todo \in CaptureTodos => caller[t].todo \in CaptureTodos)
          BY <4>2, <5>1, ToolSteps
        <5> QED BY <2>3, <4>2, <5>2 DEF OthersShape
      <4> QED BY <4>1, <4>2
    <3> QED BY <1>2, <2>3, <3>1 DEF OthersShape
  <2> QED BY <2>1, <2>2, <2>3
<1> QED BY <1>1, <1>2, <1>3 DEF IdsInv

(* Another thread takes the next step of its call, or gives up.            *)
LEMMA OtherGoesOn ==
  ASSUME ShareInv, NEW t \in Threads, t # "panel", caller[t].todo # <<>>, GoesOn(t) \/ Fails(t)
  PROVE  /\ caller' \in [Threads -> CallRecord] /\ caller'["panel"] = caller["panel"]
         /\ OthersShape' /\ \A k \in Threads : caller'[k].id <= started
<1>1. caller[t] \in CallRecord /\ caller[t].id <= started /\ started \in Nat
  BY DEF ShareInv, ShareShape, IdsInv
<1>2. PICK q \in {NoCall, Advanced(t)} : caller' = [caller EXCEPT ![t] = q]
  BY DEF GoesOn, Fails
<1>3. Advanced(t) \in CallRecord /\ Advanced(t).id <= started
      /\ Advanced(t).call = caller[t].call /\ Advanced(t).todo = Tail(caller[t].todo)
  <2>1. Tail(caller[t].todo) \in StepLists BY <1>1, Shorter DEF CallRecord
  <2> QED BY <1>1, <2>1 DEF Advanced, CallRecord
<1>4. NoCall \in CallRecord /\ NoCall.id <= started BY <1>1, EmptyTodos, ShareFacts
<1> QED BY <1>2, <1>3, <1>4, OtherGoes

(* Which thread can be at a step.                                          *)
LEMMA WhoIsAt ==
  ASSUME ShareInv, NEW t \in Threads, NEW step, AtStep(t, step)
  PROVE  /\ step \in {"check", "capture", "gate-off", "record", "mark", "revoke", "gate-on", "take",
                      "pause", "mirror-pause", "clear"} => t = "panel"
         /\ step \in {"gate", "flag", "mirror-flag", "engage", "revoke-control", "flags-off",
                      "allow", "insert"} => t # "panel"
         /\ step = "insert" => caller[t].call = "tool-start"
         /\ t = "panel" => panel.todo # <<>> /\ PanelAt = step /\ Listed(panel.call, panel.todo)
         /\ caller[t].todo # <<>> /\ caller[t] \in CallRecord
<1> USE ShareFacts DEF ShareInv, AtStep
<1>1. CASE t = "panel"
  <2>1. /\ panel.todo # <<>> /\ Head(panel.todo) = step /\ Listed(panel.call, panel.todo)
    BY <1>1, EmptyTodos DEF panel, PanelShape
  <2>2. \A c, d : Listed(c, d) => First(d) = Head(d)
    BY PanelSteps
  <2>4. \A c, d : Listed(c, d) => Head(d) \in {"check", "capture", "gate-off", "record", "mark", "status",
          "look", "remove", "last?", "revoke", "gate-on", "take", "pause", "mirror-pause", "clear"}
    BY PanelSteps
  <2>5. /\ First(panel.todo) = step
        /\ step \in {"check", "capture", "gate-off", "record", "mark", "status", "look",
              "remove", "last?", "revoke", "gate-on", "take", "pause", "mirror-pause", "clear"}
    BY <2>1, <2>2, <2>4
  <2>3. panel = caller[t] /\ caller[t] \in CallRecord BY <1>1 DEF panel, ShareShape
  <2> QED BY <1>1, <2>1, <2>5, <2>3 DEF PanelAt
<1>2. CASE t = "switch" BY <1>2, SwitchSteps DEF OthersShape, ShareShape
<1>3. CASE t = "shortcut" BY <1>3, ShortcutSteps DEF OthersShape, ShareShape
<1>4. CASE t = "tool" BY <1>4, ToolSteps DEF OthersShape, ShareShape
<1> QED BY <1>1, <1>2, <1>3, <1>4

-----------------------------------------------------------------------------
(* The panel's thread is left with the call q.                             *)
PanelGoes(q) ==
  /\ q \in CallRecord /\ q.id <= started' /\ (q = NoCall \/ Listed(q.call, q.todo))
  /\ caller' = [caller EXCEPT !["panel"] = q] /\ panel' = q /\ PanelAt' = First(q.todo)

(* A step of the panel keeps the shapes; the four relations are left to show. *)
LEMMA PanelStep ==
  ASSUME ShareInv, NEW q, PanelGoes(q),
         share' \in [id : 0 .. MaxShares, control : BOOLEAN, paused : BOOLEAN],
         share'.id = None => share' = NoShare, share'.id <= started',
         captures' \in [Captures -> Capture], started' \in 0 .. MaxShares, started <= started',
         \A c \in Captures : captures'[c].live => c <= started', QueueOK(shareQueue', {}),
         RecordInv', MarkerInv', CaptureInv', PauseInv'
  PROVE  ShareInv'
<1> USE ShareFacts DEF ShareInv
<1>1. caller \in [Threads -> CallRecord] BY DEF ShareShape
<1>2. \A k \in Threads : k # "panel" => caller'[k] = caller[k] BY <1>1 DEF PanelGoes
<1>3. caller'["panel"] = q BY <1>1 DEF PanelGoes
<1>4. caller' \in [Threads -> CallRecord] BY <1>1 DEF PanelGoes
<1>5. ShareShape' BY <1>4 DEF ShareShape
<1>6. PanelShape' BY DEF PanelShape, PanelGoes
<1>7. OthersShape' BY <1>2 DEF OthersShape
<1>8. IdsInv'
  <2>1. \A k \in Threads : caller[k].id <= started' BY <1>1 DEF IdsInv, ShareShape, CallRecord
  <2>2. \A k \in Threads : caller'[k].id <= started' BY <1>2, <1>3, <2>1 DEF PanelGoes
  <2> QED BY <2>2 DEF IdsInv
<1> QED BY <1>5, <1>6, <1>7, <1>8

(* The panel's thread after it was given the call q.                       *)
LEMMA PanelIs ==
  ASSUME ShareInv, NEW q \in CallRecord, caller' = [caller EXCEPT !["panel"] = q]
  PROVE  panel' = q /\ PanelAt' = First(q.todo)
<1> QED BY ShareFacts DEF ShareInv, ShareShape, panel, PanelAt

(* A call of the panel fails: the panel is at rest.                        *)
LEMMA PanelRests ==
  ASSUME ShareInv, Fails("panel"), started' = started PROVE PanelGoes(NoCall) /\ PanelAt' = "rest"
<1>1. /\ NoCall \in CallRecord /\ NoCall.id <= started' /\ First(NoCall.todo) = "rest"
  BY EmptyTodos, ShareFacts DEF ShareInv, ShareShape
<1>2. caller' = [caller EXCEPT !["panel"] = NoCall] BY DEF Fails
<1> QED BY <1>1, <1>2, PanelIs DEF PanelGoes

(* A call that takes a step: the rest of its list and what it carries.     *)
LEMMA PanelAdvances ==
  ASSUME ShareInv, panel.todo # <<>>, started' \in Nat, started <= started'
  PROVE  /\ Advanced("panel") \in CallRecord /\ Advanced("panel").call = panel.call
         /\ Advanced("panel").id = panel.id /\ Advanced("panel").on = panel.on
         /\ panel.id <= started'
         /\ Len(panel.todo) = 1 =>
              PanelAt \in {"status", "take"} \/ (PanelAt = "last?" /\ panel.call = "tool-stop")
         /\ Len(panel.todo) # 1 =>
              /\ Listed(panel.call, Advanced("panel").todo)
              /\ First(Advanced("panel").todo) = Follow(PanelAt, panel.call)
              /\ PanelAt = "last?" => panel.call = "stop"
<1>1. /\ caller["panel"] = panel /\ panel \in CallRecord /\ panel.id <= started /\ started \in Nat
      /\ Listed(panel.call, panel.todo)
  BY EmptyTodos, ShareFacts DEF ShareInv, ShareShape, IdsInv, PanelShape, panel
<1>2. Tail(panel.todo) \in StepLists BY <1>1, Shorter DEF CallRecord
<1>3. /\ Advanced("panel") \in CallRecord /\ Advanced("panel").call = panel.call
      /\ Advanced("panel").id = panel.id /\ Advanced("panel").on = panel.on
      /\ Advanced("panel").todo = Tail(panel.todo)
  BY <1>1, <1>2 DEF Advanced, CallRecord
<1>4. \A c, d : Listed(c, d) => First(d) = Head(d) BY PanelSteps
<1>5. \A c, d : Listed(c, d) /\ Len(d) = 1 =>
        Head(d) \in {"status", "take"} \/ (Head(d) = "last?" /\ c = "tool-stop")
  BY PanelSteps
<1>6. \A c, d : Listed(c, d) /\ Len(d) # 1 =>
        /\ Listed(c, Tail(d)) /\ First(Tail(d)) = Follow(Head(d), c)
        /\ Head(d) = "last?" => c = "stop"
  BY PanelSteps
<1>7. PanelAt = Head(panel.todo) BY <1>1, <1>4 DEF PanelAt
<1>8. panel.id <= started'
  <2>1. panel.id \in Nat BY <1>1, ShareFacts DEF CallRecord
  <2> QED BY <1>1, <2>1
<1>9. Len(panel.todo) = 1 =>
        PanelAt \in {"status", "take"} \/ (PanelAt = "last?" /\ panel.call = "tool-stop")
  BY <1>1, <1>5, <1>7
<1>10. Len(panel.todo) # 1 =>
         /\ Listed(panel.call, Tail(panel.todo))
         /\ First(Tail(panel.todo)) = Follow(PanelAt, panel.call)
         /\ PanelAt = "last?" => panel.call = "stop"
  BY <1>1, <1>6, <1>7
<1> QED BY <1>3, <1>8, <1>9, <1>10

After == IF Len(panel.todo) = 1 THEN NoCall ELSE Advanced("panel")
(* The panel goes on with its call, or it has made the last step.          *)
LEMMA PanelGoesOn ==
  ASSUME ShareInv, panel.todo # <<>>, started' = started, GoesOn("panel")
  PROVE  /\ PanelGoes(After)
         /\ \/ /\ PanelAt' = "rest" /\ panel' = NoCall
               /\ PanelAt \in {"status", "take"} \/ (PanelAt = "last?" /\ panel.call = "tool-stop")
            \/ /\ panel'.call = panel.call /\ panel'.id = panel.id /\ panel'.on = panel.on
               /\ PanelAt' = Follow(PanelAt, panel.call)
               /\ PanelAt = "last?" => panel.call = "stop"
<1>1. started' \in Nat /\ started <= started' BY ShareFacts DEF ShareInv, ShareShape
<1>2. CASE Len(panel.todo) = 1
  <2>1. Fails("panel") /\ After = NoCall BY <1>2 DEF GoesOn, Fails, panel, After
  <2>2. PanelAt \in {"status", "take"} \/ (PanelAt = "last?" /\ panel.call = "tool-stop")
    BY <1>1, <1>2, PanelAdvances
  <2>3. PanelGoes(NoCall) /\ PanelAt' = "rest" BY <2>1, PanelRests
  <2>4. panel' = NoCall BY <2>3 DEF PanelGoes
  <2> QED BY <2>1, <2>2, <2>3, <2>4
<1>3. CASE Len(panel.todo) # 1
  <2>1. caller' = [caller EXCEPT !["panel"] = After] /\ After = Advanced("panel")
    BY <1>3 DEF GoesOn, panel, After
  <2>2. /\ After \in CallRecord /\ After.call = panel.call /\ After.id = panel.id
        /\ After.on = panel.on /\ After.id <= started' /\ Listed(After.call, After.todo)
        /\ First(After.todo) = Follow(PanelAt, panel.call)
        /\ PanelAt = "last?" => panel.call = "stop"
    BY <1>1, <1>3, <2>1, PanelAdvances
  <2>3. panel' = After /\ PanelAt' = First(After.todo) BY <2>1, <2>2, PanelIs
  <2>4. PanelGoes(After) BY <2>1, <2>2, <2>3 DEF PanelGoes
  <2> QED BY <2>2, <2>3, <2>4
<1> QED BY <1>2, <1>3

(* What the invariant says of the old state, in one place.                 *)
LEMMA ShareTypes ==
  ASSUME ShareInv
  PROVE  /\ share \in [id : 0 .. MaxShares, control : BOOLEAN, paused : BOOLEAN]
         /\ share.id = None => share = NoShare
         /\ share.id \in Nat /\ share.id <= started
         /\ captures \in [Captures -> Capture] /\ started \in 0 .. MaxShares
         /\ \A c \in Captures : captures[c].live => c <= started
         /\ QueueOK(shareQueue, {}) /\ panel \in CallRecord /\ panel.id <= started
         /\ NoShare.id = None /\ NoShare.paused = FALSE /\ NoCapture.live = FALSE
         /\ NoShare \in [id : 0 .. MaxShares, control : BOOLEAN, paused : BOOLEAN]
         /\ NoCapture \in Capture
<1> QED BY ShareFacts DEF ShareInv, ShareShape, IdsInv, panel, NoShare, NoCapture, Capture

(* The panel goes from one step to the next and changes nothing else.      *)
LEMMA PanelQuiet ==
  ASSUME ShareInv, NEW q, PanelGoes(q), UNCHANGED <<share, captures, started, shareQueue>>,
         RecordInv', MarkerInv', CaptureInv', PauseInv'
  PROVE  ShareInv'
<1> QED BY ShareTypes, PanelStep, ShareFacts

(* The panel is at a step where the record, the marker and the capture     *)
(* agree, and goes to another such step.                                   *)
LEMMA PanelSame ==
  ASSUME ShareInv, NEW q, PanelGoes(q), UNCHANGED <<share, captures, started, shareQueue>>,
         ~Preparing, PanelAt \notin {"mark", "gate-on", "take", "mirror-pause"},
         PanelAt' \in {"rest", "check", "capture", "look", "clear", "status"},
         PanelAt' = "capture" => share = NoShare
  PROVE  ShareInv'
<1>1. ~Preparing' /\ ~Changing' /\ ~Ending'
  BY DEF Preparing, Cleaning, Changing, Ending
<1>2. RecordInv' /\ MarkerInv' /\ CaptureInv' /\ PauseInv'
  BY <1>1 DEF ShareInv, RecordInv, MarkerInv, CaptureInv, PauseInv
<1> QED BY <1>2, PanelQuiet

(* The answer.                                                             *)
LEMMA StatusOK == ASSUME ShareInv, Status("panel") PROVE ShareInv'
<1>1. /\ PanelAt = "status" /\ panel.todo # <<>> /\ GoesOn("panel")
      /\ UNCHANGED <<share, captures, started, shareQueue>>
  BY WhoIsAt, ShareFacts DEF Status
<1>2. Follow("status", panel.call) = "status" /\ ~Preparing BY <1>1 DEF Follow, Preparing, Cleaning
<1>3. PanelGoes(After) /\ PanelAt' \in {"rest", "status"}
  BY <1>1, <1>2, PanelGoesOn
<1> QED BY <1>1, <1>2, <1>3, PanelSame

(* The emergency stop is cleared.                                          *)
LEMMA ClearOK == ASSUME ShareInv, Engage("panel") PROVE ShareInv'
<1>1. PICK step \in {"engage", "clear"} : AtStep("panel", step) BY DEF Engage
<1>2. /\ PanelAt = "clear" /\ panel.todo # <<>> /\ GoesOn("panel")
      /\ UNCHANGED <<share, captures, started, shareQueue>>
  BY <1>1, WhoIsAt, ShareFacts DEF Engage
<1>3. Follow("clear", panel.call) = "status" /\ ~Preparing BY <1>2 DEF Follow, Preparing, Cleaning
<1>4. PanelGoes(After) /\ PanelAt' \in {"rest", "status"}
  BY <1>2, <1>3, PanelGoesOn
<1> QED BY <1>2, <1>3, <1>4, PanelSame

(* A share is only started when there is none.                             *)
LEMMA CheckFreeOK == ASSUME ShareInv, CheckFree("panel") PROVE ShareInv'
<1>1. /\ PanelAt = "check" /\ panel.todo # <<>>
      /\ UNCHANGED <<share, captures, started, shareQueue>>
  BY WhoIsAt, ShareFacts DEF CheckFree
<1>2. Follow("check", panel.call) = "capture" /\ ~Preparing BY <1>1 DEF Follow, Preparing, Cleaning
<1>3. CASE share = NoShare /\ GoesOn("panel")
  <2>1. PanelGoes(After) /\ PanelAt' \in {"rest", "capture"} BY <1>1, <1>2, <1>3, PanelGoesOn
  <2> QED BY <1>1, <1>2, <1>3, <2>1, PanelSame
<1>4. CASE Fails("panel")
  <2>1. PanelGoes(NoCall) /\ PanelAt' = "rest" BY <1>1, <1>4, PanelRests
  <2> QED BY <1>1, <1>2, <2>1, PanelSame
<1> QED BY <1>3, <1>4 DEF CheckFree

(* The gate is turned off, or the capture is cleaned up.                   *)
LEMMA GateOffOK == ASSUME ShareInv, GateOff("panel") PROVE ShareInv'
<1>1. /\ PanelAt = "gate-off" /\ panel.todo # <<>>
      /\ UNCHANGED <<share, captures, started, shareQueue>>
  BY WhoIsAt, ShareFacts DEF GateOff
<1>2. Follow("gate-off", panel.call) = "record" /\ Preparing BY <1>1 DEF Follow, Preparing
<1>3. \E q : PanelGoes(q) /\ q.id = panel.id
              /\ (PanelAt' = "record" \/ (PanelAt' = "remove" /\ q.call = "tool-stop"))
  <2>1. CASE GoesOn("panel")
    <3>1. PanelGoes(After) /\ PanelAt' = "record" /\ After.id = panel.id
      BY <1>1, <1>2, <2>1, PanelGoesOn DEF PanelGoes
    <3> QED BY <3>1
  <2>2. CASE caller' = [caller EXCEPT !["panel"] = [@ EXCEPT !.todo = Cleanup, !.call = "tool-stop"]]
    <3> DEFINE q == [panel EXCEPT !.todo = Cleanup, !.call = "tool-stop"]
    <3>1. caller' = [caller EXCEPT !["panel"] = q] BY <2>2 DEF panel
    <3>2. "tool-stop" \in AllCalls BY ShareFacts DEF AllCalls, CallsOf
    <3>3. Cleanup \in StepLists /\ Cleanup \in CleanupTodos /\ First(Cleanup) = "remove"
      BY DEF Cleanup, StepLists, CleanupTodos, First
    <3>4. /\ q \in CallRecord /\ q.call = "tool-stop" /\ q.todo = Cleanup /\ q.id = panel.id
      BY <3>2, <3>3, ShareTypes DEF CallRecord
    <3> HIDE DEF q
    <3>5. PanelGoes(q)
      BY <1>1, <3>1, <3>3, <3>4, PanelIs, ShareTypes DEF PanelGoes, Listed
    <3>6. PanelAt' = "remove" BY <3>3, <3>4, <3>5 DEF PanelGoes
    <3> QED BY <3>4, <3>5, <3>6
  <2> QED BY <2>1, <2>2 DEF GateOff
<1>4. PICK q : PanelGoes(q) /\ q.id = panel.id
              /\ (PanelAt' = "record" \/ (PanelAt' = "remove" /\ q.call = "tool-stop"))
  BY <1>3
<1>5. Preparing' /\ ~Changing' /\ ~Ending' /\ panel'.id = panel.id
  BY <1>4 DEF Preparing, Cleaning, Changing, Ending, PanelGoes
<1>6. RecordInv' /\ MarkerInv' /\ CaptureInv' /\ PauseInv'
  BY <1>1, <1>2, <1>4, <1>5 DEF ShareInv, RecordInv, MarkerInv, CaptureInv, PauseInv
<1> QED BY <1>1, <1>4, <1>6, PanelQuiet

(* The gate is turned on, or the stop goes on without it.                  *)
LEMMA GateOnOK == ASSUME ShareInv, GateOn("panel") PROVE ShareInv'
<1>1. /\ PanelAt = "gate-on" /\ panel.todo # <<>> /\ panel.call = "stop"
      /\ UNCHANGED <<share, captures, started, shareQueue>>
  <2>1. \A c, d : Listed(c, d) => /\ Head(d) = "gate-on" => c = "stop"
                                 /\ First(d) = Head(d)
    BY PanelSteps
  <2> QED BY <2>1, WhoIsAt, ShareFacts DEF GateOn, PanelAt
<1>2. Follow("gate-on", panel.call) = "take" /\ Ending /\ Changing
  BY <1>1 DEF Follow, Ending, Changing
<1>3. \E q : PanelGoes(q) /\ q.id = panel.id /\ PanelAt' = "take"
  <2>1. CASE GoesOn("panel")
    <3>1. PanelGoes(After) /\ PanelAt' = "take" /\ After.id = panel.id
      BY <1>1, <1>2, <2>1, PanelGoesOn DEF PanelGoes
    <3> QED BY <3>1
  <2>2. CASE caller' = [caller EXCEPT !["panel"] = [@ EXCEPT !.todo = <<"take">>]]
    <3> DEFINE q == [panel EXCEPT !.todo = <<"take">>]
    <3>1. caller' = [caller EXCEPT !["panel"] = q] BY <2>2 DEF panel
    <3>2. <<"take">> \in StepLists /\ <<"take">> \in StopTodos /\ First(<<"take">>) = "take"
      BY DEF StepLists, StopTodos, First
    <3>3. /\ q \in CallRecord /\ q.call = "stop" /\ q.todo = <<"take">> /\ q.id = panel.id
      BY <1>1, <3>2, ShareTypes DEF CallRecord
    <3> HIDE DEF q
    <3>4. PanelGoes(q)
      BY <1>1, <3>1, <3>2, <3>3, PanelIs, ShareTypes DEF PanelGoes, Listed
    <3>5. PanelAt' = "take" BY <3>2, <3>3, <3>4 DEF PanelGoes
    <3> QED BY <3>3, <3>4, <3>5
  <2> QED BY <2>1, <2>2 DEF GateOn
<1>4. PICK q : PanelGoes(q) /\ q.id = panel.id /\ PanelAt' = "take" BY <1>3
<1>5. ~Preparing /\ ~Preparing' /\ Changing' /\ Ending' /\ panel'.id = panel.id
  BY <1>1, <1>4 DEF Preparing, Cleaning, Changing, Ending, PanelGoes
<1>6. RecordInv' /\ MarkerInv' /\ CaptureInv' /\ PauseInv'
  BY <1>1, <1>2, <1>4, <1>5 DEF ShareInv, RecordInv, MarkerInv, CaptureInv, PauseInv
<1> QED BY <1>1, <1>4, <1>6, PanelQuiet

(* The allowlist goes with the last session.                               *)
LEMMA LastOneOK == ASSUME ShareInv, LastOne("panel") PROVE ShareInv'
<1>1. /\ PanelAt = "last?" /\ panel.todo # <<>>
      /\ UNCHANGED <<share, captures, started, shareQueue>>
  BY WhoIsAt, ShareFacts DEF LastOne
<1>2. Follow("last?", panel.call) = "revoke" /\ ~Preparing
  BY <1>1 DEF Follow, Preparing, Cleaning
<1>3. CASE Fails("panel")
  <2>1. PanelGoes(NoCall) /\ PanelAt' = "rest" BY <1>1, <1>3, PanelRests
  <2> QED BY <1>1, <1>2, <2>1, PanelSame
<1>4. CASE GoesOn("panel")
  <2>1. PanelGoes(After) /\ (\/ PanelAt' = "rest"
                             \/ /\ PanelAt' = "revoke" /\ panel'.id = panel.id
                                /\ panel'.call = "stop" /\ panel.call = "stop")
    BY <1>1, <1>2, <1>4, PanelGoesOn
  <2>2. CASE PanelAt' = "rest" BY <1>1, <1>2, <2>1, <2>2, PanelSame
  <2>3. CASE PanelAt' = "revoke"
    <3>1. Ending /\ Changing /\ Ending' /\ Changing' /\ ~Preparing'
      BY <1>1, <2>1, <2>3 DEF Preparing, Cleaning, Changing, Ending
    <3>2. RecordInv' /\ MarkerInv' /\ CaptureInv' /\ PauseInv'
      BY <1>1, <1>2, <2>1, <2>3, <3>1 DEF ShareInv, RecordInv, MarkerInv, CaptureInv, PauseInv
    <3> QED BY <1>1, <2>1, <3>2, PanelQuiet
  <2> QED BY <2>1, <2>2, <2>3
<1> QED BY <1>3, <1>4 DEF LastOne

(* The share on record is looked up.                                       *)
LEMMA LookUpOK == ASSUME ShareInv, LookUp("panel") PROVE ShareInv'
<1>1. /\ PanelAt = "look" /\ panel.todo # <<>> /\ panel.call \in {"stop", "pause"}
      /\ UNCHANGED <<share, captures, started, shareQueue>> /\ Len(panel.todo) # 1
  <2>1. \A c, d : Listed(c, d) => /\ Head(d) = "look" => c \in {"stop", "pause"} /\ Len(d) # 1
                                 /\ First(d) = Head(d)
    BY PanelSteps
  <2> QED BY <2>1, WhoIsAt, ShareFacts DEF LookUp, PanelAt
<1>2. /\ Follow("look", panel.call) = IF panel.call = "stop" THEN "remove" ELSE "pause"
      /\ ~Preparing
  BY <1>1 DEF Follow, Preparing, Cleaning
<1>3. CASE Fails("panel")
  <2>1. PanelGoes(NoCall) /\ PanelAt' = "rest" BY <1>1, <1>3, PanelRests
  <2> QED BY <1>1, <1>2, <2>1, PanelSame
<1>4. CASE panel.call = "stop" /\ caller' = [caller EXCEPT !["panel"] = [@ EXCEPT !.todo = <<"status">>]]
  <2> DEFINE q == [panel EXCEPT !.todo = <<"status">>]
  <2>1. caller' = [caller EXCEPT !["panel"] = q] BY <1>4 DEF panel
  <2>2. <<"status">> \in StepLists /\ <<"status">> \in StopTodos /\ First(<<"status">>) = "status"
    BY DEF StepLists, StopTodos, First
  <2>3. /\ q \in CallRecord /\ q.call = "stop" /\ q.todo = <<"status">> /\ q.id = panel.id
    BY <1>4, <2>2, ShareTypes DEF CallRecord
  <2> HIDE DEF q
  <2>4. PanelGoes(q) /\ PanelAt' = "status"
    BY <1>1, <2>1, <2>2, <2>3, PanelIs, ShareTypes DEF PanelGoes, Listed
  <2> QED BY <1>1, <1>2, <2>4, PanelSame
<1>5. CASE share # NoShare /\ caller' = [caller EXCEPT !["panel"] = [Advanced("panel") EXCEPT !.id = share.id]]
  <2> DEFINE q == [Advanced("panel") EXCEPT !.id = share.id]
  <2>1. caller' = [caller EXCEPT !["panel"] = q] BY <1>5
  <2>2. started' \in Nat /\ started <= started' BY <1>1, ShareTypes, ShareFacts
  <2>3. /\ Advanced("panel") \in CallRecord /\ Advanced("panel").call = panel.call
        /\ Listed(panel.call, Advanced("panel").todo)
        /\ First(Advanced("panel").todo) = Follow("look", panel.call)
    BY <1>1, <2>2, PanelAdvances
  <2>4. /\ q \in CallRecord /\ q.call = panel.call /\ q.id = share.id
        /\ q.todo = Advanced("panel").todo
    BY <2>3, ShareTypes DEF CallRecord
  <2> HIDE DEF q
  <2>5. PanelGoes(q) /\ panel' = q
        /\ PanelAt' = IF panel.call = "stop" THEN "remove" ELSE "pause"
    BY <1>1, <1>2, <2>1, <2>3, <2>4, PanelIs, ShareTypes DEF PanelGoes
  <2>6. ~Preparing' /\ ~Ending'
    BY <1>1, <2>4, <2>5 DEF Preparing, Cleaning, Ending
  <2>7. share.id # None /\ panel'.id = share.id BY <1>5, <2>4, <2>5, ShareTypes
  <2>8. RecordInv' /\ MarkerInv' /\ CaptureInv' /\ PauseInv'
    BY <1>1, <1>2, <2>5, <2>6, <2>7 DEF ShareInv, RecordInv, MarkerInv, CaptureInv, PauseInv
  <2> QED BY <1>1, <2>5, <2>8, PanelQuiet
<1> QED BY <1>3, <1>4, <1>5 DEF LookUp, panel

(* The panel makes the next call.                                          *)
LEMMA PanelCalls == ASSUME ShareInv, CallsIn("panel") PROVE ShareInv'
<1>1. /\ panel = caller["panel"] /\ caller["panel"].todo = <<>>
      /\ UNCHANGED <<share, captures, started, shareQueue>>
  BY DEF CallsIn, FreeThread, panel
<1>2. PanelAt = "rest" BY <1>1, EmptyTodos DEF PanelAt
<1>3. PICK c \in CallsOf("panel"), on \in BOOLEAN, id \in 0 .. started :
        /\ (c = "tool-stop") = (id # None)
        /\ caller' = [caller EXCEPT !["panel"] = [call |-> c, todo |-> Steps(c), id |-> id, on |-> on]]
  BY DEF CallsIn
<1> DEFINE q == [call |-> c, todo |-> Steps(c), id |-> id, on |-> on]
<1>4. /\ Listed(c, Steps(c)) /\ Steps(c) \in StepLists /\ c \in AllCalls
      /\ Head(Steps(c)) \in {"check", "look", "clear"}
  BY <1>3, CallsBegin
<1>5. First(Steps(c)) \in {"check", "look", "clear"}
  <2>1. \A k, d : Listed(k, d) => First(d) = Head(d) BY PanelSteps
  <2> QED BY <1>4, <2>1
<1>6. id \in 0 .. MaxShares /\ id <= started' BY <1>1, <1>3, ShareTypes, ShareFacts
<1>7. q \in CallRecord /\ q.call = c /\ q.todo = Steps(c) /\ q.id = id
  BY <1>4, <1>6 DEF CallRecord
<1>8. caller' = [caller EXCEPT !["panel"] = q] BY <1>3
<1> HIDE DEF q
<1>9. PanelGoes(q) /\ PanelAt' \in {"check", "look", "clear"}
  BY <1>4, <1>5, <1>6, <1>7, <1>8, PanelIs DEF PanelGoes
<1>10. ~Preparing BY <1>2 DEF Preparing, Cleaning
<1> QED BY <1>1, <1>2, <1>9, <1>10, PanelSame

(* The stream starts: it is the panel's, and nobody has paused it.         *)
LEMMA CaptureOK == ASSUME ShareInv, StartCapture("panel") PROVE ShareInv'
<1>1. PICK step \in {"capture", "insert"} : AtStep("panel", step) BY DEF StartCapture
<1>2. /\ PanelAt = "capture" /\ panel.todo # <<>> /\ panel.call = "start" /\ Len(panel.todo) # 1
      /\ UNCHANGED <<share, shareQueue>>
  <2>1. \A c, d : Listed(c, d) => /\ Head(d) = "capture" => c = "start" /\ Len(d) # 1
                                 /\ First(d) = Head(d)
    BY PanelSteps
  <2> QED BY <1>1, <2>1, WhoIsAt, ShareFacts DEF StartCapture, PanelAt
<1>3. Follow("capture", panel.call) = "gate-off" /\ ~Preparing /\ share = NoShare
  BY <1>2 DEF Follow, Preparing, Cleaning, ShareInv, RecordInv
<1>4. CASE Fails("panel") /\ UNCHANGED <<captures, started>>
  <2>1. PanelGoes(NoCall) /\ PanelAt' = "rest" BY <1>4, PanelRests
  <2> QED BY <1>2, <1>3, <1>4, <2>1, PanelSame
<1>5. CASE ~(Fails("panel") /\ UNCHANGED <<captures, started>>)
  <2> DEFINE n == [NoCapture EXCEPT !.live = TRUE, !.byTool = FALSE]
             q == [Advanced("panel") EXCEPT !.id = started']
  <2>1. /\ started < MaxShares /\ started' = started + 1
        /\ captures' = [captures EXCEPT ![started'] = n]
        /\ caller' = [caller EXCEPT !["panel"] = q]
    BY <1>2, <1>5 DEF StartCapture, panel
  <2>2. /\ started' \in Captures /\ started' \in 0 .. MaxShares /\ started \in Nat
        /\ started <= started' /\ started' # None /\ started' \in Nat
    BY <2>1, ShareTypes, ShareFacts
  <2>3. n \in Capture /\ n.live /\ ~n.byTool /\ ~n.paused BY DEF Capture, NoCapture
  <2>4. /\ Advanced("panel") \in CallRecord /\ Advanced("panel").call = panel.call
        /\ Listed(panel.call, Advanced("panel").todo)
        /\ First(Advanced("panel").todo) = "gate-off"
    BY <1>2, <1>3, <2>2, PanelAdvances
  <2>5. /\ q \in CallRecord /\ q.call = panel.call /\ q.id = started'
        /\ q.todo = Advanced("panel").todo
    BY <2>2, <2>4 DEF CallRecord
  <2> HIDE DEF q, n
  <2>6. PanelGoes(q) /\ panel' = q /\ PanelAt' = "gate-off"
    <3>1. panel' = q /\ PanelAt' = First(q.todo) BY <2>1, <2>5, PanelIs
    <3>2. q.id <= started' BY <2>2, <2>5
    <3>3. Listed(q.call, q.todo) /\ First(q.todo) = "gate-off" BY <2>4, <2>5
    <3> QED BY <2>1, <2>5, <3>1, <3>2, <3>3 DEF PanelGoes
  <2>7. captures' \in [Captures -> Capture] /\ captures'[started'] = n
        /\ \A c \in Captures : c # started' => captures'[c] = captures[c]
    BY <2>1, <2>2, <2>3, ShareTypes
  <2>8. Preparing' /\ ~Changing' /\ ~Ending' /\ panel'.id = started'
    BY <2>5, <2>6 DEF Preparing, Cleaning, Changing, Ending
  <2>9. \A c \in Captures : captures'[c].live => c <= started'
    BY <2>2, <2>7, ShareTypes
  <2>10. RecordInv' BY <1>2, <1>3, <2>2, <2>8, <2>6 DEF RecordInv
  <2>11. MarkerInv' BY <1>2, <2>6 DEF ShareInv, MarkerInv
  <2>12. CaptureInv' BY <1>2, <1>3, <2>7, <2>8 DEF ShareInv, CaptureInv
  <2>13. PauseInv' BY <1>2, <1>3, <2>3, <2>6, <2>7, <2>8, ShareTypes DEF PauseInv
  <2>14. started' <= started' /\ share'.id <= started' BY <1>2, <2>2, ShareTypes
  <2> QED BY <1>2, <2>2, <2>6, <2>7, <2>9, <2>10, <2>11, <2>12, <2>13, <2>14, ShareTypes, PanelStep
<1> QED BY <1>4, <1>5

(* The share is put on record.                                             *)
LEMMA RecordOK == ASSUME ShareInv, Record("panel") PROVE ShareInv'
<1>1. /\ PanelAt = "record" /\ panel.todo # <<>> /\ GoesOn("panel")
      /\ UNCHANGED <<captures, started, shareQueue>> /\ share' = [NoShare EXCEPT !.id = panel.id]
  BY WhoIsAt, ShareFacts DEF Record, panel
<1>2. /\ Follow("record", panel.call) = "mark" /\ Preparing
  BY <1>1 DEF Follow, Preparing
<1>3. PanelGoes(After) /\ PanelAt' = "mark" /\ panel'.id = panel.id
  BY <1>1, <1>2, PanelGoesOn
<1>4. panel.id # None /\ share = NoShare BY <1>2 DEF ShareInv, RecordInv
<1>5. panel.id \in 0 .. MaxShares /\ panel.id <= started BY ShareTypes DEF CallRecord
<1>6. /\ share' \in [id : 0 .. MaxShares, control : BOOLEAN, paused : BOOLEAN]
      /\ share'.id = panel.id /\ ~share'.paused
  BY <1>1, <1>5 DEF NoShare
<1>7. ~Preparing' /\ ~Ending' BY <1>3 DEF Preparing, Cleaning, Ending
<1>8. RecordInv' BY <1>3, <1>4, <1>6, <1>7 DEF RecordInv
<1>9. MarkerInv' BY <1>1, <1>3, <1>4, ShareTypes DEF ShareInv, MarkerInv
<1>10. CaptureInv'
  <2>1. None \notin Captures BY ShareFacts
  <2> QED BY <1>1, <1>4, <1>6, <1>7, <2>1, ShareTypes DEF ShareInv, CaptureInv
<1>11. PauseInv'
  <2>1. panel.id \in Captures BY <1>4, <1>5, ShareFacts
  <2>2. captures[panel.id].paused \in BOOLEAN /\ share'.paused = FALSE
    BY <1>1, <2>1, ShareTypes DEF Capture, NoShare
  <2>3. captures[panel.id].live => captures[panel.id].paused = FALSE
    BY <1>2, <2>2 DEF ShareInv, PauseInv
  <2> QED BY <1>1, <1>3, <1>6, <1>7, <2>2, <2>3 DEF PauseInv
<1> QED BY <1>1, <1>3, <1>4, <1>5, <1>6, <1>8, <1>9, <1>10, <1>11, ShareTypes, ShareFacts, PanelStep

(* Its grants may be given from here on.                                   *)
LEMMA MarkOK == ASSUME ShareInv, Mark("panel") PROVE ShareInv'
<1>1. /\ PanelAt = "mark" /\ panel.todo # <<>> /\ GoesOn("panel")
      /\ UNCHANGED <<share, captures, started>> /\ shareQueue' = SetShare(shareQueue, panel.id)
  BY WhoIsAt, ShareFacts DEF Mark, panel
<1>2. Follow("mark", panel.call) = "status" /\ Changing /\ ~Preparing
  BY <1>1 DEF Follow, Changing, Preparing, Cleaning
<1>3. PanelGoes(After) /\ PanelAt' \in {"rest", "status"} BY <1>1, <1>2, PanelGoesOn
<1>4. share.id = panel.id BY <1>2 DEF ShareInv, RecordInv
<1>5. QueueOK(shareQueue', {}) /\ shareQueue'.share = panel.id
      /\ shareQueue'.grants = shareQueue.grants
  <2>1. panel.id \in Ids BY ShareTypes, ShareFacts DEF CallRecord
  <2>2. shareQueue \in QueueType /\ QueueOK(shareQueue, {}) BY ShareTypes DEF QueueOK
  <2>3. /\ shareQueue' \in QueueType /\ shareQueue'.next = shareQueue.next
        /\ shareQueue'.pending = shareQueue.pending /\ shareQueue'.grants = shareQueue.grants
        /\ shareQueue'.share = panel.id
    BY <1>1, <2>1, <2>2 DEF SetShare, QueueType
  <2> QED BY <2>2, <2>3, SmallerOK
<1>6. ~Preparing' /\ ~Ending' /\ ~Changing' BY <1>3 DEF Preparing, Cleaning, Ending, Changing
<1>7. RecordInv' /\ CaptureInv' /\ PauseInv'
  BY <1>1, <1>2, <1>3, <1>6 DEF ShareInv, RecordInv, CaptureInv, PauseInv
<1>8. MarkerInv' BY <1>1, <1>3, <1>4, <1>5 DEF ShareInv, MarkerInv
<1> QED BY <1>1, <1>3, <1>5, <1>7, <1>8, ShareTypes, ShareFacts, PanelStep

(* The capture is removed.                                                 *)
LEMMA RemoveOK == ASSUME ShareInv, RemoveCapture("panel") PROVE ShareInv'
<1>1. /\ PanelAt = "remove" /\ panel.todo # <<>> /\ panel.call \in {"stop", "tool-stop"}
      /\ UNCHANGED <<share, started, shareQueue>>
  <2>1. \A c, d : Listed(c, d) => /\ Head(d) = "remove" => c \in {"stop", "tool-stop"}
                                 /\ First(d) = Head(d)
    BY PanelSteps
  <2> QED BY <2>1, WhoIsAt, ShareFacts DEF RemoveCapture, PanelAt
<1>2. Follow("remove", panel.call) = "last?" BY DEF Follow
<1>3. (panel.call = "tool-stop" /\ Preparing) \/ (panel.call = "stop" /\ ~Preparing /\ Changing)
  BY <1>1 DEF Preparing, Cleaning, Changing
<1>4. panel.id # None /\ panel.id \in Captures
  <2>1. panel.id # None BY <1>3 DEF ShareInv, RecordInv
  <2> QED BY <2>1, ShareTypes, ShareFacts DEF CallRecord
<1>5. CASE ~captures[panel.id].live
  <2>1. Fails("panel") /\ UNCHANGED captures BY <1>5 DEF RemoveCapture, panel
  <2>2. PanelGoes(NoCall) /\ PanelAt' = "rest" BY <1>1, <2>1, PanelRests
  <2>3. CASE ~Preparing BY <1>1, <2>1, <2>2, <2>3, PanelSame
  <2>4. CASE Preparing
    <3>1. ~Preparing' /\ ~Changing' /\ ~Ending'
      BY <2>2 DEF Preparing, Cleaning, Changing, Ending
    <3>2. CaptureInv' BY <1>1, <1>5, <2>1, <2>4, <3>1 DEF ShareInv, CaptureInv
    <3>3. RecordInv' /\ MarkerInv' /\ PauseInv'
      BY <1>1, <2>1, <2>2, <3>1 DEF ShareInv, RecordInv, MarkerInv, PauseInv
    <3> QED BY <1>1, <2>1, <2>2, <3>2, <3>3, PanelQuiet
  <2> QED BY <2>3, <2>4
<1>6. CASE captures[panel.id].live
  <2>1. GoesOn("panel") /\ captures' = [captures EXCEPT ![panel.id] = NoCapture]
    BY <1>6 DEF RemoveCapture, panel
  <2>2. /\ PanelGoes(After) /\ PanelAt' = "last?" /\ panel'.id = panel.id
        /\ panel'.call = panel.call
    BY <1>1, <1>2, <2>1, PanelGoesOn
  <2>3. /\ captures' \in [Captures -> Capture] /\ ~captures'[panel.id].live
        /\ \A c \in Captures : c # panel.id => captures'[c] = captures[c]
    BY <1>4, <2>1, ShareTypes
  <2>4. /\ ~Preparing' /\ Ending' = (panel.call = "stop") /\ Changing' = (panel.call = "stop")
    BY <2>2 DEF Preparing, Cleaning, Changing, Ending
  <2>5. RecordInv' BY <1>1, <1>3, <1>4, <2>2, <2>4 DEF ShareInv, RecordInv
  <2>6. MarkerInv' BY <1>1, <2>2 DEF ShareInv, MarkerInv
  <2>7. CaptureInv' BY <1>1, <2>2, <2>3, <2>4 DEF ShareInv, CaptureInv
  <2>8. PauseInv'
    <3>1. share.id # None => share.id \in Captures BY ShareTypes, ShareFacts
    <3> QED BY <1>1, <2>2, <2>3, <2>4, <3>1 DEF ShareInv, PauseInv
  <2>9. \A c \in Captures : captures'[c].live => c <= started' BY <1>1, <2>3, ShareTypes
  <2> QED BY <1>1, <2>2, <2>3, <2>5, <2>6, <2>7, <2>8, <2>9, ShareTypes, ShareFacts, PanelStep
<1> QED BY <1>5, <1>6

(* The queue after the grants of a share are revoked.                      *)
LEMMA RevokeShareOK ==
  ASSUME NEW q, QueueOK(q, {}), NEW s, NEW p, p = RevokeShare(q, s)
  PROVE  /\ QueueOK(p, {}) /\ p.grants = {g \in q.grants : g.share # s}
         /\ p.share = IF q.share = s THEN None ELSE q.share
<1> DEFINE r == Revoke(q, OfShare(q, s))
<1>1. /\ QueueOK(r, {}) /\ r.next = q.next /\ r.share = q.share
      /\ r.pending = q.pending /\ r.grants = {g \in q.grants : g.share # s}
  BY RevokeOK DEF OfShare
<1>2. p = [r EXCEPT !.share = IF q.share = s THEN None ELSE q.share]
  BY <1>1 DEF RevokeShare
<1> HIDE DEF r
<1>3. r \in QueueType /\ q \in QueueType BY <1>1 DEF QueueOK
<1>4. None \in Ids BY ShareFacts
<1>5. (IF q.share = s THEN None ELSE q.share) \in Ids BY <1>3, <1>4 DEF QueueType
<1>6. /\ p \in QueueType /\ p.next = r.next /\ p.pending = r.pending /\ p.grants = r.grants
      /\ p.share = IF q.share = s THEN None ELSE q.share
  BY <1>2, <1>3, <1>5 DEF QueueType
<1> QED BY <1>1, <1>6, SmallerOK

(* The grants and the marker of the share go.                              *)
LEMMA RevokeSharingOK == ASSUME ShareInv, RevokeSharing("panel") PROVE ShareInv'
<1>1. /\ PanelAt = "revoke" /\ panel.todo # <<>> /\ GoesOn("panel")
      /\ UNCHANGED <<share, captures, started>> /\ shareQueue' = RevokeShare(shareQueue, panel.id)
  BY WhoIsAt, ShareFacts DEF RevokeSharing, panel
<1>2. Follow("revoke", panel.call) = "gate-on" /\ Changing /\ Ending /\ ~Preparing
  BY <1>1 DEF Follow, Changing, Ending, Preparing, Cleaning
<1>3. PanelGoes(After) /\ PanelAt' = "gate-on" /\ panel'.id = panel.id
  BY <1>1, <1>2, PanelGoesOn
<1>4. share.id = panel.id BY <1>2 DEF ShareInv, RecordInv
<1>5. /\ QueueOK(shareQueue', {})
      /\ shareQueue'.grants = {g \in shareQueue.grants : g.share # panel.id}
      /\ shareQueue'.share = IF shareQueue.share = panel.id THEN None ELSE shareQueue.share
  BY <1>1, ShareTypes, RevokeShareOK
<1>6. ~Preparing' /\ Ending' /\ Changing' BY <1>3 DEF Preparing, Cleaning, Ending, Changing
<1>7. RecordInv' /\ CaptureInv' /\ PauseInv'
  BY <1>1, <1>2, <1>3, <1>6 DEF ShareInv, RecordInv, CaptureInv, PauseInv
<1>8. MarkerInv' BY <1>1, <1>3, <1>4, <1>5 DEF ShareInv, MarkerInv
<1> QED BY <1>1, <1>3, <1>5, <1>7, <1>8, ShareTypes, ShareFacts, PanelStep

(* The record goes.                                                        *)
LEMMA TakeOK == ASSUME ShareInv, Take("panel") PROVE ShareInv'
<1>1. /\ PanelAt = "take" /\ panel.todo # <<>> /\ GoesOn("panel")
      /\ UNCHANGED <<captures, started, shareQueue>> /\ share' = NoShare
  BY WhoIsAt, ShareFacts DEF Take
<1>2. Follow("take", panel.call) = "status" /\ Changing /\ Ending /\ ~Preparing
  BY <1>1 DEF Follow, Changing, Ending, Preparing, Cleaning
<1>3. PanelGoes(After) /\ PanelAt' \in {"rest", "status"} BY <1>1, <1>2, PanelGoesOn
<1>4. share.id = panel.id BY <1>2 DEF ShareInv, RecordInv
<1>5. ~Preparing' /\ ~Ending' /\ ~Changing' BY <1>3 DEF Preparing, Cleaning, Ending, Changing
<1>6. RecordInv' BY <1>3, <1>5 DEF RecordInv
<1>7. MarkerInv' BY <1>1, <1>3, ShareTypes DEF ShareInv, MarkerInv
<1>8. CaptureInv' BY <1>1, <1>2, <1>4, <1>5 DEF ShareInv, CaptureInv
<1>9. PauseInv' BY <1>1, <1>3, <1>5, ShareTypes DEF PauseInv
<1>10. started \in Nat /\ share'.id <= started' BY <1>1, ShareTypes, ShareFacts
<1> QED BY <1>1, <1>3, <1>6, <1>7, <1>8, <1>9, <1>10, ShareTypes, PanelStep

(* The capture is paused.                                                  *)
LEMMA SetPausedOK == ASSUME ShareInv, SetPaused("panel") PROVE ShareInv'
<1>1. /\ PanelAt = "pause" /\ panel.todo # <<>>
      /\ UNCHANGED <<share, started, shareQueue>>
  BY WhoIsAt, ShareFacts DEF SetPaused
<1>2. Follow("pause", panel.call) = "mirror-pause" /\ Changing /\ ~Preparing
  BY <1>1 DEF Follow, Changing, Preparing, Cleaning
<1>3. CASE ~captures[panel.id].live
  <2>1. Fails("panel") /\ UNCHANGED captures BY <1>3 DEF SetPaused, panel
  <2>2. PanelGoes(NoCall) /\ PanelAt' = "rest" BY <1>1, <2>1, PanelRests
  <2> QED BY <1>1, <1>2, <2>1, <2>2, PanelSame
<1>4. CASE captures[panel.id].live
  <2>1. GoesOn("panel") /\ captures' = [captures EXCEPT ![panel.id].paused = panel.on]
    BY <1>4 DEF SetPaused, panel
  <2>2. /\ PanelGoes(After) /\ PanelAt' = "mirror-pause" /\ panel'.id = panel.id
        /\ panel'.on = panel.on
    BY <1>1, <1>2, <2>1, PanelGoesOn
  <2>3. panel.id # None /\ share.id = panel.id /\ panel.id \in Captures /\ panel.on \in BOOLEAN
    <3>1. panel.id # None /\ share.id = panel.id BY <1>2 DEF ShareInv, RecordInv
    <3> QED BY <3>1, ShareTypes, ShareFacts DEF CallRecord
  <2> DEFINE n == [captures[panel.id] EXCEPT !.paused = panel.on]
  <2>4. captures[panel.id] \in Capture BY <2>3, ShareTypes
  <2>5. /\ n \in Capture /\ n.live = captures[panel.id].live /\ n.paused = panel.on
        /\ n.byTool = captures[panel.id].byTool
    BY <2>3, <2>4 DEF Capture
  <2>6. captures' = [captures EXCEPT ![panel.id] = n] BY <2>1
  <2> HIDE DEF n
  <2>7. /\ captures' \in [Captures -> Capture] /\ captures'[panel.id].paused = panel.on
        /\ \A c \in Captures : captures'[c].live = captures[c].live
                               /\ captures'[c].byTool = captures[c].byTool
    BY <2>3, <2>5, <2>6, ShareTypes
  <2>8. ~Preparing' /\ ~Ending' /\ Changing' BY <2>2 DEF Preparing, Cleaning, Ending, Changing
  <2>9. RecordInv' BY <1>1, <2>2, <2>3, <2>8 DEF RecordInv
  <2>10. MarkerInv' BY <1>1, <2>2 DEF ShareInv, MarkerInv
  <2>11. CaptureInv' BY <1>1, <1>2, <2>7, <2>8 DEF ShareInv, CaptureInv
  <2>12. PauseInv' BY <2>2, <2>7, <2>8 DEF PauseInv
  <2>13. \A c \in Captures : captures'[c].live => c <= started' BY <1>1, <2>7, ShareTypes
  <2> QED BY <1>1, <2>2, <2>7, <2>9, <2>10, <2>11, <2>12, <2>13, ShareTypes, ShareFacts, PanelStep
<1> QED BY <1>3, <1>4

(* The pause is put on record.                                             *)
LEMMA MirrorPausedOK == ASSUME ShareInv, MirrorPaused("panel") PROVE ShareInv'
<1>1. /\ PanelAt = "mirror-pause" /\ panel.todo # <<>> /\ GoesOn("panel")
      /\ UNCHANGED <<captures, started, shareQueue>>
  BY WhoIsAt, ShareFacts DEF MirrorPaused
<1>2. Follow("mirror-pause", panel.call) = "status" /\ Changing /\ ~Preparing
  BY <1>1 DEF Follow, Changing, Preparing, Cleaning
<1>3. PanelGoes(After) /\ PanelAt' \in {"rest", "status"} BY <1>1, <1>2, PanelGoesOn
<1>4. share.id = panel.id /\ panel.id # None /\ panel.on \in BOOLEAN
  <2>1. share.id = panel.id /\ panel.id # None BY <1>2 DEF ShareInv, RecordInv
  <2> QED BY <2>1, ShareTypes DEF CallRecord
<1>5. share' = [share EXCEPT !.paused = panel.on]
  BY <1>4, ShareTypes DEF MirrorPaused, panel
<1>6. /\ share' \in [id : 0 .. MaxShares, control : BOOLEAN, paused : BOOLEAN]
      /\ share'.id = share.id /\ share'.paused = panel.on
  BY <1>4, <1>5, ShareTypes
<1>7. ~Preparing' /\ ~Ending' /\ ~Changing' BY <1>3 DEF Preparing, Cleaning, Ending, Changing
<1>8. RecordInv' BY <1>3, <1>7 DEF RecordInv
<1>9. MarkerInv' BY <1>1, <1>3, <1>6 DEF ShareInv, MarkerInv
<1>10. CaptureInv' BY <1>1, <1>2, <1>6, <1>7 DEF ShareInv, CaptureInv
<1>11. PauseInv' BY <1>1, <1>3, <1>4, <1>6, <1>7 DEF ShareInv, PauseInv
<1> QED BY <1>1, <1>3, <1>4, <1>6, <1>8, <1>9, <1>10, <1>11, ShareTypes, ShareFacts, PanelStep

-----------------------------------------------------------------------------
(* The other threads: their steps are harmless.                            *)
LEMMA NothingChanges ==
  ASSUME ShareInv
  PROVE  /\ UNCHANGED share => HarmlessShare
         /\ UNCHANGED <<captures, started>> => HarmlessCaptures
         /\ UNCHANGED shareQueue => HarmlessQueue
<1>1. started \in Nat BY ShareTypes, ShareFacts
<1>2. UNCHANGED share => HarmlessShare BY ShareTypes DEF HarmlessShare
<1>3. UNCHANGED <<captures, started>> => HarmlessCaptures
  BY <1>1, ShareTypes DEF HarmlessCaptures
<1>4. UNCHANGED shareQueue => HarmlessQueue BY ShareTypes DEF HarmlessQueue, ShareInv, MarkerInv
<1> QED BY <1>2, <1>3, <1>4

(* The caller of a harmless step.                                          *)
LEMMA CallerGoesOn ==
  ASSUME ShareInv, NEW t \in Threads, t # "panel", caller[t].todo # <<>>, GoesOn(t) \/ Fails(t),
         UNCHANGED started
  PROVE  HarmlessCaller
<1>1. /\ caller' \in [Threads -> CallRecord] /\ caller'["panel"] = caller["panel"]
      /\ OthersShape' /\ \A k \in Threads : caller'[k].id <= started
  BY OtherGoesOn
<1> QED BY <1>1 DEF HarmlessCaller

(* A step that only moves its thread.                                      *)
LEMMA OtherQuiet ==
  ASSUME ShareInv, NEW t \in Threads, t # "panel", caller[t].todo # <<>>, GoesOn(t) \/ Fails(t),
         UNCHANGED <<share, captures, started, shareQueue>>
  PROVE  Harmless
<1> QED BY CallerGoesOn, NothingChanges DEF Harmless

(* A step that sets the control flag of the record.                        *)
LEMMA OtherShares ==
  ASSUME ShareInv, NEW t \in Threads, t # "panel", caller[t].todo # <<>>, GoesOn(t),
         UNCHANGED <<captures, started, shareQueue>>,
         share' \in [id : 0 .. MaxShares, control : BOOLEAN, paused : BOOLEAN],
         share.id # None, share'.id = share.id, share'.paused = share.paused
  PROVE  Harmless
<1>1. HarmlessShare BY DEF HarmlessShare
<1> QED BY <1>1, CallerGoesOn, NothingChanges DEF Harmless

(* A step that stops captures or sets their control flags.                 *)
LEMMA OtherCaptures ==
  ASSUME ShareInv, NEW t \in Threads, t # "panel", caller[t].todo # <<>>, GoesOn(t),
         UNCHANGED <<share, started, shareQueue>>, captures' \in [Captures -> Capture],
         \A c \in Captures : captures'[c].live =>
           captures[c].live /\ captures'[c].byTool = captures[c].byTool
           /\ captures'[c].paused = captures[c].paused
  PROVE  Harmless
<1>1. HarmlessCaptures
  <2>1. started \in Nat BY ShareTypes, ShareFacts
  <2> QED BY <2>1, ShareTypes DEF HarmlessCaptures
<1> QED BY <1>1, CallerGoesOn, NothingChanges DEF Harmless

(* Another thread makes a call.                                            *)
LEMMA OtherCalls ==
  ASSUME ShareInv, NEW t \in Threads, t # "panel", CallsIn(t) PROVE Harmless
<1>1. PICK c \in CallsOf(t), on \in BOOLEAN, id \in 0 .. started :
        caller' = [caller EXCEPT ![t] = [call |-> c, todo |-> Steps(c), id |-> id, on |-> on]]
  BY DEF CallsIn
<1> DEFINE q == [call |-> c, todo |-> Steps(c), id |-> id, on |-> on]
<1>2. id \in 0 .. MaxShares /\ id <= started BY ShareTypes, ShareFacts
<1>3. Steps(c) \in StepLists /\ c \in AllCalls BY CallsBegin, ShareFacts
<1>4. q \in CallRecord /\ q.call = c /\ q.todo = Steps(c) /\ q.id = id
  BY <1>2, <1>3 DEF CallRecord
<1>5. caller \in [Threads -> CallRecord] /\ caller' = [caller EXCEPT ![t] = q]
  BY <1>1 DEF ShareInv, ShareShape
<1> HIDE DEF q
<1>6. /\ caller' \in [Threads -> CallRecord] /\ caller'[t] = q
      /\ \A k \in Threads : k # t => caller'[k] = caller[k]
  BY <1>4, <1>5
<1>7. "panel" \in Threads BY ShareFacts
<1>8. \A k \in Threads : caller'[k].id <= started BY <1>2, <1>4, <1>6 DEF ShareInv, IdsInv
<1>9. OthersShape'
  <2>1. CASE t = "switch"
    <3>1. c = "control" BY <2>1 DEF CallsOf
    <3> QED BY <1>4, <1>6, <2>1, <3>1, CallsBegin, ShareFacts DEF ShareInv, OthersShape
  <2>2. CASE t = "shortcut"
    BY <1>4, <1>6, <2>2, CallsBegin, ShareFacts DEF ShareInv, OthersShape
  <2>3. CASE t = "tool"
    BY <1>4, <1>6, <2>3, CallsBegin, ShareFacts DEF ShareInv, OthersShape
  <2> QED BY <2>1, <2>2, <2>3, ShareFacts
<1>10. UNCHANGED <<share, captures, started, shareQueue>> BY DEF CallsIn
<1>11. HarmlessCaller BY <1>6, <1>7, <1>8, <1>9, <1>10 DEF HarmlessCaller
<1> QED BY <1>10, <1>11, NothingChanges DEF Harmless

(* The switch finds the share, or there is none.                           *)
LEMMA OtherLooks ==
  ASSUME ShareInv, NEW t \in Threads, t # "panel", LookUp(t) PROVE Harmless
<1>1. /\ caller[t].todo # <<>> /\ caller[t] \in CallRecord
      /\ UNCHANGED <<share, captures, started, shareQueue>>
  BY WhoIsAt DEF LookUp
<1>2. caller[t].call # "stop"
  <2>1. AtStep(t, "look") BY DEF LookUp
  <2>2. t = "switch"
    BY <2>1, ShortcutSteps, ToolSteps, ShareFacts DEF AtStep, ShareInv, OthersShape
  <2> QED BY <2>2 DEF ShareInv, OthersShape
<1>3. CASE Fails(t) BY <1>1, <1>3, OtherQuiet
<1>4. CASE caller' = [caller EXCEPT ![t] = [Advanced(t) EXCEPT !.id = share.id]]
  <2> DEFINE q == [Advanced(t) EXCEPT !.id = share.id]
  <2>1. Tail(caller[t].todo) \in StepLists BY <1>1, Shorter DEF CallRecord
  <2>2. /\ q \in CallRecord /\ q.call = caller[t].call /\ q.todo = Tail(caller[t].todo)
        /\ q.id = share.id
    BY <1>1, <2>1, ShareTypes DEF CallRecord, Advanced
  <2>3. caller' = [caller EXCEPT ![t] = q] /\ q.id <= started BY <1>4, <2>2, ShareTypes
  <2> HIDE DEF q
  <2>4. /\ caller' \in [Threads -> CallRecord] /\ caller'["panel"] = caller["panel"]
        /\ OthersShape' /\ \A k \in Threads : caller'[k].id <= started
    BY <1>1, <2>2, <2>3, OtherGoes
  <2>5. HarmlessCaller BY <1>1, <2>4 DEF HarmlessCaller
  <2> QED BY <1>1, <2>5, NothingChanges DEF Harmless
<1> QED BY <1>2, <1>3, <1>4 DEF LookUp

(* The model starts a capture of its own.                                  *)
LEMMA OtherStarts ==
  ASSUME ShareInv, NEW t \in Threads, t # "panel", StartCapture(t) PROVE Harmless
<1>1. PICK step \in {"capture", "insert"} : AtStep(t, step) BY DEF StartCapture
<1>2. /\ caller[t].todo # <<>> /\ caller[t] \in CallRecord /\ caller[t].call = "tool-start"
      /\ UNCHANGED <<share, shareQueue>>
  BY <1>1, WhoIsAt DEF StartCapture
<1> DEFINE n == [NoCapture EXCEPT !.live = TRUE, !.byTool = TRUE]
<1>3. /\ started < MaxShares /\ started' = started + 1
      /\ captures' = [captures EXCEPT ![started'] = n]
      /\ caller' = [caller EXCEPT ![t] = NoCall]
  BY <1>2 DEF StartCapture
<1>4. /\ started' \in Captures /\ started' \in 0 .. MaxShares /\ started \in Nat
      /\ started' \in Nat /\ started < started' /\ started <= started'
  BY <1>3, ShareTypes, ShareFacts
<1>5. n \in Capture /\ n.live /\ n.byTool BY DEF Capture, NoCapture
<1> HIDE DEF n
<1>6. captures' \in [Captures -> Capture] /\ captures'[started'] = n
      /\ \A c \in Captures : c # started' => captures'[c] = captures[c]
  BY <1>3, <1>4, <1>5, ShareTypes
<1>7. NoCall \in CallRecord /\ NoCall.id <= started BY <1>4, EmptyTodos, ShareFacts
<1>8. /\ caller' \in [Threads -> CallRecord] /\ caller'["panel"] = caller["panel"]
      /\ OthersShape' /\ \A k \in Threads : caller'[k].id <= started
  BY <1>2, <1>3, <1>7, OtherGoes
<1>9. \A k \in Threads : caller'[k].id <= started'
  BY <1>4, <1>8, ShareFacts DEF CallRecord
<1>10. \A c \in Captures : captures'[c].live =>
       \/ captures[c].live /\ captures'[c].byTool = captures[c].byTool
          /\ captures'[c].paused = captures[c].paused
       \/ captures'[c].byTool /\ started < c /\ c <= started'
  BY <1>4, <1>5, <1>6
<1>11. HarmlessCaptures BY <1>4, <1>6, <1>10 DEF HarmlessCaptures
<1>12. HarmlessCaller BY <1>8, <1>9 DEF HarmlessCaller
<1> QED BY <1>2, <1>11, <1>12, NothingChanges DEF Harmless

(* The steps of the other threads, one by one.                             *)
LEMMA OtherSteps ==
  ASSUME ShareInv, NEW t \in Threads, t # "panel", CallStep(t)
  PROVE  Harmless
<1>1. ~(CheckFree(t) \/ GateOff(t) \/ Record(t) \/ Mark(t))
  BY WhoIsAt DEF CheckFree, GateOff, Record, Mark
<1>2. ~(RevokeSharing(t) \/ GateOn(t) \/ Take(t) \/ SetPaused(t) \/ MirrorPaused(t))
  BY WhoIsAt DEF RevokeSharing, GateOn, Take, SetPaused, MirrorPaused
<1>3. CASE StartCapture(t) BY <1>3, OtherStarts
<1>4. CASE LookUp(t) BY <1>4, OtherLooks
<1>5. CASE SetAllowlist(t) BY <1>5, WhoIsAt, OtherQuiet DEF SetAllowlist
<1>6. CASE LastOne(t) BY <1>6, WhoIsAt, OtherQuiet DEF LastOne
<1>7. CASE SetGate(t) BY <1>7, WhoIsAt, OtherQuiet DEF SetGate
<1>8. CASE Status(t) BY <1>8, WhoIsAt, OtherQuiet DEF Status
<1>9. CASE Engage(t) BY <1>9, WhoIsAt, OtherQuiet DEF Engage
<1>10. CASE RemoveCapture(t)
  <2>1. caller[t].todo # <<>> /\ UNCHANGED <<share, started, shareQueue>>
    BY <1>10, WhoIsAt DEF RemoveCapture
  <2>2. CASE Fails(t) /\ UNCHANGED captures BY <2>1, <2>2, OtherQuiet
  <2>3. CASE GoesOn(t) /\ captures' = [captures EXCEPT ![caller[t].id] = NoCapture]
    <3>1. captures' \in [Captures -> Capture] BY <2>3, ShareTypes
    <3>2. \A c \in Captures : captures'[c].live => captures'[c] = captures[c]
      BY <2>3, ShareTypes
    <3> QED BY <2>1, <2>3, <3>1, <3>2, OtherCaptures
  <2> QED BY <1>10, <2>2, <2>3 DEF RemoveCapture
<1>11. CASE SetFlag(t)
  <2>1. caller[t].todo # <<>> /\ UNCHANGED <<share, started, shareQueue>> /\ caller[t].on \in BOOLEAN
    BY <1>11, WhoIsAt DEF SetFlag, CallRecord
  <2>2. CASE Fails(t) /\ UNCHANGED captures BY <2>1, <2>2, OtherQuiet
  <2>3. CASE GoesOn(t) /\ captures' = [captures EXCEPT ![caller[t].id].control = caller[t].on]
    <3>1. \A c \in Captures : captures[c] \in Capture BY ShareTypes
    <3>2. \A k \in Capture : LET n == [k EXCEPT !.control = caller[t].on]
                             IN  /\ n \in Capture /\ n.live = k.live /\ n.byTool = k.byTool
                                 /\ n.paused = k.paused
      BY <2>1 DEF Capture
    <3>3. /\ captures' \in [Captures -> Capture]
          /\ \A c \in Captures : /\ captures'[c].live = captures[c].live
                                 /\ captures'[c].byTool = captures[c].byTool
                                 /\ captures'[c].paused = captures[c].paused
      BY <2>3, <3>1, <3>2, ShareTypes
    <3> QED BY <2>1, <2>3, <3>3, OtherCaptures
  <2> QED BY <1>11, <2>2, <2>3 DEF SetFlag
<1>12. CASE FlagsOff(t)
  <2>1. caller[t].todo # <<>> /\ UNCHANGED <<share, started, shareQueue>> /\ GoesOn(t)
    BY <1>12, WhoIsAt DEF FlagsOff
  <2>2. captures' = [c \in Captures |-> [captures[c] EXCEPT !.control = FALSE]]
    BY <1>12 DEF FlagsOff
  <2>3. \A c \in Captures : captures[c] \in Capture BY ShareTypes
  <2>4. \A k \in Capture : LET n == [k EXCEPT !.control = FALSE]
                           IN  /\ n \in Capture /\ n.live = k.live /\ n.byTool = k.byTool
                               /\ n.paused = k.paused
    BY DEF Capture
  <2>5. /\ captures' \in [Captures -> Capture]
        /\ \A c \in Captures : /\ captures'[c].live = captures[c].live
                               /\ captures'[c].byTool = captures[c].byTool
                               /\ captures'[c].paused = captures[c].paused
    BY <2>2, <2>3, <2>4
  <2> QED BY <2>1, <2>5, OtherCaptures
<1>13. CASE MirrorFlag(t)
  <2>1. caller[t].todo # <<>> /\ UNCHANGED <<captures, started, shareQueue>> /\ caller[t].on \in BOOLEAN
    BY <1>13, WhoIsAt DEF MirrorFlag, CallRecord
  <2>2. CASE Fails(t) /\ UNCHANGED share BY <2>1, <2>2, OtherQuiet
  <2>3. CASE share # NoShare /\ GoesOn(t) /\ share' = [share EXCEPT !.control = caller[t].on]
    <3>1. /\ share' \in [id : 0 .. MaxShares, control : BOOLEAN, paused : BOOLEAN]
          /\ share.id # None /\ share'.id = share.id /\ share'.paused = share.paused
      BY <2>1, <2>3, ShareTypes
    <3> QED BY <2>1, <2>3, <3>1, OtherShares
  <2> QED BY <1>13, <2>2, <2>3 DEF MirrorFlag
<1>14. CASE RevokeControl(t)
  <2>1. /\ caller[t].todo # <<>> /\ UNCHANGED <<share, captures, started>> /\ GoesOn(t)
        /\ shareQueue' = RevokeCapability(shareQueue, Shared)
    BY <1>14, WhoIsAt DEF RevokeControl
  <2>2. /\ QueueOK(shareQueue', {}) /\ shareQueue'.share = shareQueue.share
        /\ shareQueue'.grants \subseteq shareQueue.grants
    BY <2>1, RevokeOK, ShareTypes DEF RevokeCapability
  <2>3. HarmlessQueue BY <2>2 DEF HarmlessQueue, ShareInv, MarkerInv
  <2> QED BY <2>1, <2>3, CallerGoesOn, NothingChanges DEF Harmless
<1> QED BY <1>1, <1>2, <1>3, <1>4, <1>5, <1>6, <1>7, <1>8, <1>9, <1>10, <1>11, <1>12, <1>13, <1>14
      DEF CallStep, StartStep, StopStep, ChangeStep, EmergencyStep

(* The model asks and the user approves: the grant is bound to the marker. *)
LEMMA AskOK == ASSUME ShareInv, AskShared \/ ApproveShared PROVE Harmless
<1>1. HarmlessCaller /\ HarmlessShare /\ HarmlessCaptures
  <2>1. UNCHANGED <<share, captures, started, caller>> BY DEF AskShared, ApproveShared
  <2>2. HarmlessCaller
    BY <2>1 DEF HarmlessCaller, ShareInv, ShareShape, OthersShape, IdsInv
  <2> QED BY <2>1, <2>2, NothingChanges
<1>2. HarmlessQueue
  <2>1. QueueOK(shareQueue, {}) /\ shareQueue \in QueueType BY ShareTypes DEF QueueOK
  <2>2. CASE AskShared
    <3>1. shareQueue.next <= MaxAsks BY <2>2 DEF AskShared
    <3>2. PICK n \in Shared : shareQueue' = Submit(shareQueue, n, 1) BY <2>2 DEF AskShared
    <3>3. n \in Need /\ 1 \in Ids /\ 1 # None /\ shareQueue.next \in Ids
      BY <2>1, <3>1, ShareFacts, NeedAssumption, QueueFields
    <3>4. QueueOK(shareQueue', {}) BY <2>1, <3>2, <3>3, SubmitOK
    <3>5. shareQueue'.share = shareQueue.share /\ shareQueue'.grants = shareQueue.grants
      BY <2>1, <3>2 DEF Submit, QueueType
    <3> QED BY <3>4, <3>5 DEF HarmlessQueue, ShareInv, MarkerInv
  <2>3. CASE ApproveShared
    <3>1. PICK r \in shareQueue.pending : shareQueue' = Approve(shareQueue, r.id, "standing")
      BY <2>3 DEF ApproveShared
    <3>2. "standing" \in Lifetimes BY DEF Lifetimes
    <3>3. /\ QueueOK(shareQueue', {}) /\ shareQueue'.share = shareQueue.share
          /\ \E g : /\ shareQueue'.grants = shareQueue.grants \cup {g}
                    /\ g.share \in {None, shareQueue.share}
      BY <2>1, <3>1, <3>2, ApproveOK
    <3> QED BY <3>3 DEF HarmlessQueue, ShareInv, MarkerInv
  <2> QED BY <2>2, <2>3
<1> QED BY <1>1, <1>2 DEF Harmless

(* Nothing is shared at the start.                                         *)
LEMMA ShareInitOK == ASSUME ShareInit PROVE ShareInv
<1>1. /\ share = NoShare /\ captures = [c \in Captures |-> NoCapture] /\ started = 0
      /\ shareQueue = EmptyQueue /\ caller = [t \in Threads |-> NoCall]
  BY DEF ShareInit
<1>2. /\ NoShare.id = None /\ NoCapture \in Capture /\ ~NoCapture.live /\ NoCall.call = "none"
      /\ NoShare \in [id : 0 .. MaxShares, control : BOOLEAN, paused : BOOLEAN]
  BY ShareFacts DEF NoShare, NoCapture, NoCall, Capture
<1>3. ShareShape BY <1>1, <1>2, EmptyTodos, ShareFacts DEF ShareShape
<1>4. panel = NoCall /\ PanelAt = "rest" BY <1>1, EmptyTodos, ShareFacts DEF panel, PanelAt
<1>5. PanelShape /\ OthersShape
  BY <1>1, <1>2, <1>4, EmptyTodos, ShareFacts DEF PanelShape, OthersShape
<1>6. QueueOK(shareQueue, {}) BY <1>1, EmptyQueueOK
<1>7. IdsInv BY <1>1, <1>2, EmptyTodos, ShareFacts DEF IdsInv
<1>8. ~Preparing /\ ~Ending /\ ~Changing BY <1>4 DEF Preparing, Cleaning, Ending, Changing
<1>9. RecordInv BY <1>4, <1>8 DEF RecordInv
<1>10. MarkerInv BY <1>1, <1>2, <1>4 DEF MarkerInv, EmptyQueue
<1>11. CaptureInv BY <1>1, <1>2, <1>8 DEF CaptureInv
<1>12. PauseInv BY <1>1, <1>2, <1>4, <1>8 DEF PauseInv
<1> QED BY <1>3, <1>5, <1>6, <1>7, <1>9, <1>10, <1>11, <1>12 DEF ShareInv

(* SetGate, SetFlag and the like are steps of other threads only.          *)
LEMMA PanelStepOK == ASSUME ShareInv, CallStep("panel") PROVE ShareInv'
<1>1. "panel" \in Threads BY ShareFacts
<1>2. ~(SetAllowlist("panel") \/ SetGate("panel") \/ SetFlag("panel") \/ MirrorFlag("panel")
        \/ RevokeControl("panel") \/ FlagsOff("panel"))
  BY <1>1, WhoIsAt DEF SetAllowlist, SetGate, SetFlag, MirrorFlag, RevokeControl, FlagsOff
<1> QED BY <1>2, CheckFreeOK, CaptureOK, GateOffOK, RecordOK, MarkOK, RemoveOK, LastOneOK,
          RevokeSharingOK, GateOnOK, TakeOK, SetPausedOK, MirrorPausedOK, ClearOK, LookUpOK, StatusOK
       DEF CallStep, StartStep, StopStep, ChangeStep, EmergencyStep

(* Every step keeps the invariant.                                         *)
LEMMA ShareStepOK == ASSUME ShareInv, [ShareNext]_shareVars PROVE ShareInv'
<1>1. CASE UNCHANGED shareVars
  BY <1>1 DEF shareVars, ShareInv, ShareShape, PanelShape, OthersShape, IdsInv, RecordInv, MarkerInv,
              CaptureInv, PauseInv, panel, PanelAt, Preparing, Cleaning, Ending, Changing
<1>2. CASE AskShared \/ ApproveShared BY <1>2, AskOK, HarmlessOK
<1>3. CASE \E t \in Threads : CallsIn(t) \/ CallStep(t)
  <2>1. PICK t \in Threads : CallsIn(t) \/ CallStep(t) BY <1>3
  <2>2. CASE t = "panel" BY <2>1, <2>2, PanelCalls, PanelStepOK
  <2>3. CASE t # "panel" BY <2>1, <2>3, OtherCalls, OtherSteps, HarmlessOK
  <2> QED BY <2>2, <2>3
<1> QED BY <1>1, <1>2, <1>3 DEF ShareNext

(* The record, the capture, the marker, the pause and the position of the  *)
(* panel always agree the way ShareInv says.                               *)
THEOREM ShareInvariant == ShareSpec => []ShareInv
<1> QED BY ShareInitOK, ShareStepOK, PTL DEF ShareSpec

(* With the panel at rest no grant outlives its share, no pause is shown   *)
(* that is not in force and no capture of the panel is left running,       *)
(* whichever calls failed half-way and whatever the other threads did in   *)
(* between.                                                                *)
THEOREM ShareWhole == ShareSpec => []ShareIsWhole
<1>1. ShareInv => ShareIsWhole
  <2> SUFFICES ASSUME ShareInv PROVE ShareIsWhole OBVIOUS
  <2>1. CASE ~FreeThread("panel")
    BY <2>1 DEF ShareIsWhole, GrantsDieWithShare, PauseIsMirrored, NoOrphanCapture
  <2>2. CASE FreeThread("panel")
    <3>1. PanelAt = "rest" BY <2>2, EmptyTodos DEF FreeThread, PanelAt, panel
    <3>2. ~Preparing BY <3>1 DEF Preparing, Cleaning
    <3>3. GrantsDieWithShare BY <3>1 DEF ShareInv, MarkerInv, GrantsDieWithShare
    <3>4. PauseIsMirrored BY <3>1, ShareTypes DEF ShareInv, PauseInv, PauseIsMirrored
    <3>5. NoOrphanCapture BY <3>2 DEF ShareInv, CaptureInv, NoOrphanCapture
    <3> QED BY <3>3, <3>4, <3>5 DEF ShareIsWhole
  <2> QED BY <2>1, <2>2
<1> QED BY <1>1, ShareInvariant, PTL
=============================================================================
