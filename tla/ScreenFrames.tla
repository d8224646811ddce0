----------------------------- MODULE ScreenFrames -----------------------------
(***************************************************************************)
(* How the frames of a shared screen come to the model: a stream of the    *)
(* ScreenCast portal with its restore token, or the X server asked for a   *)
(* picture (desktop-linux-wayland, desktop-linux), the slot between the    *)
(* PipeWire thread and the host, the capture session of tool-desktop that  *)
(* drops unchanged frames, and the still pictures that open a stream of    *)
(* their own.  Every await may be the last of an aborted turn.             *)
(*                                                                         *)
(* A frame is its place in "made", its picture what the fingerprint of     *)
(* the 32 by 32 sample keeps of it.  Time is left out: a request may be    *)
(* throttled, a wait may time out.  Part of each bound may be used up when *)
(* the behaviour begins: frames of earlier stills, starts, requests.       *)
(***************************************************************************)
EXTENDS Naturals, Sequences, FiniteSets

CONSTANTS
  Picture,        \* what may be on the screen
  Observer,       \* calls that may ask for frames at the same time
  MaxFrames,      \* bound on the frames made
  MaxStarts,      \* bound on the streams started
  MaxObservations \* bound on the requests for a frame

ASSUME FramesAssumption ==
  /\ Picture # {} /\ {"nobody", "stopper"} \cap Observer = {}
  /\ MaxFrames \in Nat /\ MaxStarts \in Nat /\ MaxObservations \in Nat

VARIABLES
  server,    \* "x11" or "portal"
  token,     \* the restore token in the secret store, 0 for none
  valid,     \* the tokens that the portal honours
  rejected,  \* the tokens that it has turned down
  writes,    \* what the blocking threads have yet to do to the secret store
  undeleted, \* the tokens that were in it when a deletion failed (history)
  starting,  \* how far the stream of the share and of a still have come
  granted,   \* the streams whose portal session is open
  worker,    \* their PipeWire threads
  slot,      \* their latest-frame slots
  left,      \* streams that nobody is going to stop any more
  unclosed,  \* streams that were stopped but for their portal session
  made,      \* all frames so far, each with its stream and its picture
  session,   \* the capture session of the manager's table
  stopper,   \* how far its stop has come
  lock,      \* who has its mutex
  observing, \* the requests for a frame
  answer,    \* the last one answered, and the frame handed out before it
  shots      \* streams started, tokens granted, requests and revocations so far

frameVars == <<server, token, valid, rejected, writes, undeleted, starting, granted, worker,
               slot, left, unclosed, made, session, stopper, lock, observing, answer, shots>>

Stream == {"share", "still"}
NoFrame == 0
NoStart == [step |-> "none", token |-> 0]
EmptySlot == [frame |-> NoFrame, error |-> FALSE]
NoSession == [active |-> FALSE, paused |-> FALSE, shown |-> NoFrame, handed |-> NoFrame]
NotAsking == [step |-> "none", frame |-> NoFrame]
NoAnswer == [kind |-> "none", frame |-> NoFrame, before |-> NoFrame]
NoHolder == "nobody"
Stopper == "stopper"

FramesInit ==
  /\ server \in {"x11", "portal"}
  /\ token = 0 /\ valid = {} /\ rejected = {} /\ writes = {} /\ undeleted = {}
  /\ starting = [s \in Stream |-> NoStart] /\ granted = {} /\ left = {} /\ unclosed = {}
  /\ worker = [s \in Stream |-> "none"] /\ slot = [s \in Stream |-> EmptySlot]
  /\ made \in UNION {[1 .. n -> {"still"} \X Picture] : n \in 0 .. MaxFrames}
  /\ session = NoSession /\ stopper = "none" /\ lock = NoHolder
  /\ observing = [o \in Observer |-> NotAsking] /\ answer = NoAnswer
  /\ shots \in [starts : 0 .. MaxStarts, tokens : {0}, asked : 0 .. MaxObservations, revoked : {0}]

FramesTypeOK ==
  /\ server \in {"x11", "portal"} /\ token \in 0 .. shots.tokens
  /\ valid \cup rejected \cup undeleted \subseteq 1 .. shots.tokens
  /\ writes \subseteq Stream \X (0 .. shots.tokens)
  /\ granted \cup left \subseteq Stream /\ unclosed \subseteq granted
  /\ \A s \in Stream : worker[s] \in {"none", "running", "ended"} /\ slot[s].frame \in 0 .. Len(made)
  /\ Len(made) <= MaxFrames /\ \A n \in DOMAIN made : made[n] \in Stream \X Picture
  /\ session.shown \in 0 .. Len(made) /\ session.handed \in 0 .. Len(made)
  /\ lock \in Observer \cup {NoHolder, Stopper}

Tokens == <<token, valid, rejected, writes, undeleted>>
Streams == <<starting, granted, worker, slot, left, unclosed>>
Frames == <<made, session, lock, observing, answer>>

-----------------------------------------------------------------------------
(* A stream is started.  The X server needs none; the portal's begins with *)
(* the token of an earlier grant, if the secret store gives it.            *)
StartAt(s, step) == starting[s].step = step
StartGoes(s, step) == starting' = [starting EXCEPT ![s].step = step]
StartEnds(s) == starting' = [starting EXCEPT ![s] = NoStart]

StartStream(s) ==
  /\ StartAt(s, "none") /\ worker[s] = "none" /\ s \notin granted \cup left
  /\ s = "share" => ~session.active /\ stopper = "none"
  /\ shots.starts < MaxStarts /\ shots' = [shots EXCEPT !.starts = @ + 1]
  /\ server = "x11" => s = "share"
  /\ StartGoes(s, IF server = "x11" THEN "live" ELSE "load")
  /\ UNCHANGED <<server, Tokens, granted, worker, slot, left, unclosed, Frames, stopper>>
LoadToken(s) ==
  /\ StartAt(s, "load")
  /\ \E found \in {token, 0} :
       starting' = [starting EXCEPT ![s] = [step |-> IF found = 0 THEN "ask" ELSE "restore",
                                            token |-> found]]
  /\ UNCHANGED <<server, Tokens, granted, worker, slot, left, unclosed, Frames, stopper, shots>>

(* The portal takes a token once, and may give another one.  A token that  *)
(* it turns down is deleted, then the user is asked.  The secret store is  *)
(* written by another thread, which goes on when the turn is aborted; what *)
(* the store answers is looked at by nobody.                               *)
Deletes(s) == writes' = writes \cup {<<s, 0>>}
Grant(s) ==
  /\ StartGoes(s, "store") /\ granted' = granted \cup {s}
  /\ shots' = [shots EXCEPT !.tokens = @ + 1]
  /\ \/ /\ valid' = (valid \ {starting[s].token}) \cup {shots.tokens + 1}
        /\ writes' = writes \cup {<<s, shots.tokens + 1>>}
     \/ valid' = valid \ {starting[s].token} /\ UNCHANGED writes
Restore(s) ==
  /\ StartAt(s, "restore")
  /\ IF starting[s].token \in valid
       THEN Grant(s) /\ UNCHANGED rejected
       ELSE /\ StartGoes(s, "clear") /\ rejected' = rejected \cup {starting[s].token}
            /\ Deletes(s) /\ UNCHANGED <<granted, shots, valid>>
  /\ UNCHANGED <<server, token, undeleted, worker, slot, left, unclosed, Frames, stopper>>
TokenWritten ==
  /\ \E w \in writes :
       /\ writes' = writes \ {w}
       /\ \/ token' = w[2] /\ UNCHANGED undeleted
          \/ /\ undeleted' = IF w[2] = 0 THEN undeleted \cup ({token} \ {0}) ELSE undeleted
             /\ UNCHANGED token
  /\ UNCHANGED <<server, valid, rejected, Streams, Frames, stopper, shots>>
TokenKept(s) ==
  /\ {w \in writes : w[1] = s} = {}
  /\ \/ StartAt(s, "clear") /\ StartGoes(s, "ask")
     \/ StartAt(s, "store") /\ StartGoes(s, "open")
  /\ UNCHANGED <<server, Tokens, granted, worker, slot, left, unclosed, Frames, stopper, shots>>
UserApproves(s) ==
  /\ StartAt(s, "ask") /\ Grant(s)
  /\ UNCHANGED <<server, token, rejected, undeleted, worker, slot, left, unclosed, Frames, stopper>>

(* Declined, or not answered in time.                                      *)
NegotiationFails(s) ==
  /\ starting[s].step \in {"restore", "clear", "ask"} /\ StartEnds(s)
  /\ UNCHANGED <<server, Tokens, granted, worker, slot, left, unclosed, Frames, stopper, shots>>

(* The thread starts and says that it is ready; or it is stopped again.    *)
OpenStream(s) ==
  /\ StartAt(s, "open")
  /\ \/ StartGoes(s, "ready") /\ worker' = [worker EXCEPT ![s] = "running"] /\ UNCHANGED left
     \/ StartEnds(s) /\ left' = left \cup {s} /\ UNCHANGED worker
  /\ UNCHANGED <<server, Tokens, granted, slot, unclosed, Frames, stopper, shots>>
StreamReady(s) ==
  /\ StartAt(s, "ready") /\ StartGoes(s, "live")
  /\ UNCHANGED <<server, Tokens, granted, worker, slot, left, unclosed, Frames, stopper, shots>>
(* To stop a stream is to end its thread and then to close its session of  *)
(* the portal, which fails, or is not tried after a thread that panicked.  *)
StreamStops(s) ==
  /\ worker' = [worker EXCEPT ![s] = "none"] /\ slot' = [slot EXCEPT ![s] = EmptySlot]
  /\ \/ granted' = granted \ {s} /\ unclosed' = unclosed \ {s}
     \/ s \in granted /\ unclosed' = unclosed \cup {s} /\ UNCHANGED granted
NotReadyLeft(s) ==
  /\ StartAt(s, "ready") /\ StartEnds(s)
  /\ UNCHANGED <<server, Tokens, granted, worker, slot, left, unclosed, Frames, stopper, shots>>
NotReady(s) ==
  /\ StartAt(s, "ready") /\ StartEnds(s)
  /\ StreamStops(s)
  /\ UNCHANGED <<server, Tokens, left, Frames, stopper, shots>>

(* The turn is aborted: what its stream has come to stays.                 *)
StartAborted(s) ==
  /\ ~StartAt(s, "none") /\ StartEnds(s)
  /\ left' = IF s \in granted THEN left \cup {s} ELSE left
  /\ UNCHANGED <<server, Tokens, granted, worker, slot, unclosed, Frames, stopper, shots>>

(* The manager's table gets the session of the share, with a mutex of its  *)
(* own; what is still asked of the former one is not followed.             *)
SessionBegins ==
  /\ StartAt("share", "live") /\ StartEnds("share")
  /\ session' = [NoSession EXCEPT !.active = TRUE] /\ answer' = NoAnswer
  /\ observing' = [o \in Observer |-> NotAsking] /\ lock' = NoHolder
  /\ UNCHANGED <<server, Tokens, granted, worker, slot, left, unclosed, made, stopper, shots>>

-----------------------------------------------------------------------------
(* The thread's frames: the slot keeps the newest, errors are kept beside  *)
(* it and come first.                                                      *)
StoreFrame(s, n) == slot' = [slot EXCEPT ![s].frame = n]
FrameMade(s) ==
  /\ worker[s] = "running" /\ Len(made) < MaxFrames
  /\ \E p \in Picture : made' = Append(made, <<s, p>>)
  /\ StoreFrame(s, Len(made) + 1)
  /\ UNCHANGED <<server, Tokens, starting, granted, worker, left, unclosed, session, lock, observing,
                 answer, stopper, shots>>
WorkerFails(s) ==
  /\ worker[s] = "running"
  /\ slot' = [slot EXCEPT ![s].error = TRUE]
  /\ worker' \in {worker, [worker EXCEPT ![s] = "ended"]}
  /\ UNCHANGED <<server, Tokens, starting, granted, left, unclosed, Frames, stopper, shots>>

-----------------------------------------------------------------------------
(* A still: one frame, then the stream is stopped.  When the frame does    *)
(* not come, it is not.                                                    *)
StillTaken ==
  /\ StartAt("still", "live") /\ ~slot["still"].error /\ slot["still"].frame # NoFrame
  /\ StartGoes("still", "stop")
  /\ UNCHANGED <<server, Tokens, granted, worker, slot, left, unclosed, Frames, stopper, shots>>
StillFails ==
  /\ StartAt("still", "live") /\ StartEnds("still") /\ left' = left \cup {"still"}
  /\ UNCHANGED <<server, Tokens, granted, worker, slot, unclosed, Frames, stopper, shots>>
StillStops ==
  /\ StartAt("still", "stop") /\ StartEnds("still") /\ StreamStops("still")
  /\ UNCHANGED <<server, Tokens, left, Frames, stopper, shots>>

-----------------------------------------------------------------------------
(* A request for a frame finds the session, then waits for its mutex.      *)
Asks(o, step) == observing' = [observing EXCEPT ![o].step = step]
Replies(o) == observing' = [observing EXCEPT ![o] = NotAsking] /\ lock' = NoHolder

Observe(o) ==
  /\ observing[o].step = "none" /\ session.active /\ shots.asked < MaxObservations
  /\ Asks(o, "lock") /\ shots' = [shots EXCEPT !.asked = @ + 1]
  /\ UNCHANGED <<server, Tokens, Streams, made, session, lock, answer, stopper>>

(* A paused session answers nothing, nor one that was asked just before.   *)
SessionLocked(o) ==
  /\ observing[o].step = "lock" /\ lock = NoHolder
  /\ \/ ~session.paused /\ lock' = o /\ Asks(o, "wait")
     \/ Replies(o)
  /\ UNCHANGED <<server, Tokens, Streams, made, session, answer, stopper, shots>>

(* The frame: the newest of the slot, or one made by the X server now.     *)
TakeFrame(o) ==
  /\ observing[o].step = "wait" /\ session.active /\ UNCHANGED lock
  /\ IF server = "x11"
       THEN /\ Len(made) < MaxFrames /\ \E p \in Picture : made' = Append(made, <<"share", p>>)
            /\ observing' = [observing EXCEPT ![o] = [step |-> "put", frame |-> Len(made) + 1]]
            /\ UNCHANGED slot
       ELSE /\ ~slot["share"].error /\ slot["share"].frame # NoFrame
            /\ observing' = [observing EXCEPT ![o] =
                               [step |-> "put", frame |-> slot["share"].frame]]
            /\ slot' = [slot EXCEPT !["share"].frame = NoFrame] /\ UNCHANGED made
  /\ UNCHANGED <<server, Tokens, starting, granted, worker, left, unclosed, session, answer, stopper,
                 shots>>

(* No frame: an error of the thread, which is taken with it, no frame in   *)
(* time, or a session that was stopped while the request waited.           *)
NoFrameCame(o) ==
  /\ observing[o].step = "wait" /\ Replies(o)
  /\ slot' = [slot EXCEPT !["share"].error = FALSE]
  /\ UNCHANGED <<server, Tokens, starting, granted, worker, left, unclosed, made, session, answer,
                 stopper, shots>>

(* The frame goes into the artifact store and is read from it again; only  *)
(* then is it compared with the last one that was shown.                   *)
PutFrame(o) ==
  /\ observing[o].step = "put"
  /\ \/ Asks(o, "get") /\ UNCHANGED lock
     \/ Replies(o)
  /\ UNCHANGED <<server, Tokens, Streams, made, session, answer, stopper, shots>>
PictureOf(frame) == made[frame][2]
Unchanged(frame) == session.shown # NoFrame /\ PictureOf(session.shown) = PictureOf(frame)
Compare(o) ==
  /\ observing[o].step = "get" /\ Replies(o)
  /\ LET frame == observing[o].frame
     IN IF Unchanged(frame)
          THEN /\ answer' = [kind |-> "unchanged", frame |-> frame, before |-> session.handed]
               /\ UNCHANGED session
          ELSE /\ answer' = [kind |-> "frame", frame |-> frame, before |-> session.handed]
               /\ session' = [session EXCEPT !.shown = frame, !.handed = frame]
  /\ UNCHANGED <<server, Tokens, Streams, made, stopper, shots>>

(* The store has lost it, or the turn is aborted.                          *)
ObserveFails(o) ==
  /\ observing[o].step # "none" /\ observing' = [observing EXCEPT ![o] = NotAsking]
  /\ lock' = IF lock = o THEN NoHolder ELSE lock
  /\ UNCHANGED <<server, Tokens, Streams, made, session, answer, stopper, shots>>

(* The user pauses and resumes between the requests.                       *)
SetPaused ==
  /\ session.active /\ lock = NoHolder /\ session' = [session EXCEPT !.paused = ~@]
  /\ UNCHANGED <<server, Tokens, Streams, made, lock, observing, answer, stopper, shots>>

(* stop_capture: out of the table, then the mutex, then the stream.        *)
StopBegins ==
  /\ session.active /\ stopper = "none" /\ stopper' = "lock"
  /\ session' = NoSession /\ answer' = NoAnswer
  /\ UNCHANGED <<server, Tokens, Streams, made, lock, observing, shots>>
StopLocks ==
  /\ stopper = "lock" /\ lock = NoHolder /\ lock' = Stopper /\ stopper' = "join"
  /\ UNCHANGED <<server, Tokens, Streams, made, session, observing, answer, shots>>
StopEnds ==
  /\ stopper = "join" /\ stopper' = "none" /\ lock' = NoHolder /\ StreamStops("share")
  /\ UNCHANGED <<server, Tokens, starting, left, made, session, observing, answer, shots>>
StopAborted ==
  /\ stopper # "none" /\ stopper' = "none" /\ lock' = IF lock = Stopper THEN NoHolder ELSE lock
  /\ left' = IF "share" \in granted THEN left \cup {"share"} ELSE left
  /\ UNCHANGED <<server, Tokens, starting, granted, worker, slot, unclosed, made, session, observing,
                 answer, shots>>

(* The user takes the grant back in the system's settings.                 *)
UserRevokes ==
  /\ valid # {} /\ shots.revoked = 0 /\ shots' = [shots EXCEPT !.revoked = 1]
  /\ valid' = {}
  /\ UNCHANGED <<server, token, rejected, writes, undeleted, Streams, Frames, stopper>>

FramesNext ==
  \/ \E s \in Stream :
       \/ StartStream(s) \/ LoadToken(s) \/ Restore(s) \/ TokenKept(s) \/ UserApproves(s)
       \/ NegotiationFails(s) \/ OpenStream(s) \/ StreamReady(s)
       \/ NotReady(s) \/ StartAborted(s) \/ FrameMade(s) \/ WorkerFails(s)
  \/ TokenWritten \/ SessionBegins \/ StillTaken \/ StillFails \/ StillStops
  \/ \E o \in Observer :
       \/ Observe(o) \/ SessionLocked(o) \/ TakeFrame(o) \/ NoFrameCame(o)
       \/ PutFrame(o) \/ Compare(o) \/ ObserveFails(o)
  \/ SetPaused \/ StopBegins \/ StopLocks \/ StopEnds \/ StopAborted \/ UserRevokes

FramesSpec == FramesInit /\ [][FramesNext]_frameVars

-----------------------------------------------------------------------------
(* UnchangedIsHonest: a request that is answered "unchanged" found the     *)
(* picture of the frame that was handed out last, however many requests    *)
(* failed or were aborted in between; frames are handed out in the order   *)
(* in which they were made, none twice; and the frame that waits in a slot *)
(* is the newest of its thread, so no answer shows what was overtaken.     *)
UnchangedIsHonest ==
  /\ answer.kind = "unchanged" =>
       answer.before # NoFrame /\ PictureOf(answer.frame) = PictureOf(answer.before)
  /\ answer.kind = "frame" => answer.before < answer.frame
  /\ \A s \in Stream, n \in DOMAIN made :
       slot[s].frame # NoFrame /\ made[n][1] = s => n <= slot[s].frame

(* StreamsHaveOwners: a screen that is being captured is captured for a    *)
(* session in the table, a call that is still running, or it was left      *)
(* behind by an abort, a still whose frame did not come, or a stream that  *)
(* could not be opened; every other way to fail ends its thread, and only  *)
(* a session of the portal that could not be closed is left of it.         *)
Owned(s) == ~StartAt(s, "none") \/ (s = "share" /\ (session.active \/ stopper # "none"))
StreamsHaveOwners ==
  \A s \in Stream :
    /\ worker[s] = "running" => Owned(s) \/ s \in left
    /\ s \in granted => Owned(s) \/ s \in left \cup unclosed

(* RejectedTokenGoes: when nothing is under way, the token in the store is *)
(* not one that the portal has turned down, whatever starts crossed and    *)
(* whatever turns were aborted, unless the store refused to delete it.     *)
RejectedTokenGoes ==
  (\A s \in Stream : StartAt(s, "none")) /\ writes = {} => token \notin rejected \ undeleted

(* ScreenIsHonest: what is told of the screen is so, and what a share      *)
(* leaves in the system is what it must: streams with an owner, a token    *)
(* that may still be honoured.                                             *)
ScreenIsHonest == UnchangedIsHonest /\ StreamsHaveOwners /\ RejectedTokenGoes
=============================================================================
