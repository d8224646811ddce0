---------------------------- MODULE ProcessTable ----------------------------
(***************************************************************************)
(* The children that process.spawn starts (tool-process): the table of     *)
(* handles under one lock, the watchdog thread of every child, the calls   *)
(* of process.status and process.kill, and the operating system, in which  *)
(* a child that has ended stays a zombie until somebody waits for it.      *)
(***************************************************************************)
EXTENDS Naturals, FiniteSets, FiniteSetsExt

CONSTANTS
  MaxProcesses,  \* size of the table
  Caller,        \* threads that call process.status and process.kill
  MaxSpawns,     \* bound on process.spawn
  MaxProcCalls   \* bound on the other calls

ASSUME ProcessAssumption ==
  MaxProcesses \in Nat \ {0} /\ MaxSpawns \in Nat /\ MaxProcCalls \in Nat

VARIABLES
  spawned,   \* handles given out so far; they are numbered in order
  tracked,   \* the handles of the table
  child,     \* the operating system's view, by handle
  reaped,    \* the handles whose end the table has recorded
  killed,    \* the reason of a kill, by handle
  late,      \* the children whose timeout has passed for their watchdog
  watched,   \* the children whose watchdog thread runs
  procCall,  \* the call every caller is in
  procCalls, \* calls so far
  told       \* the final states callers were told, by handle (history)

processVars == <<spawned, tracked, child, reaped, killed, late, watched, procCall,
                 procCalls, told>>

Handles == 1 .. MaxSpawns
NoProcCall == [at |-> "idle", handle |-> 0]

ProcessTypeOK ==
  /\ spawned \in 0 .. MaxSpawns /\ tracked \subseteq 1 .. spawned
  /\ Cardinality(tracked) <= MaxProcesses
  /\ child \in [Handles -> {"none", "runs", "signalled", "zombie", "gone"}]
  /\ reaped \subseteq Handles /\ watched \subseteq Handles /\ late \subseteq watched
  /\ killed \in [Handles -> {"no", "killed", "timed_out"}]
  /\ procCall \in [Caller -> [at : {"idle", "status", "kill", "wait"}, handle : Handles \cup {0}]]
  /\ procCalls \in 0 .. MaxProcCalls
  /\ told \in [Handles -> SUBSET {"exited", "killed", "timed_out"}]

ProcessInit ==
  /\ spawned = 0 /\ tracked = {} /\ child = [h \in Handles |-> "none"]
  /\ reaped = {} /\ killed = [h \in Handles |-> "no"] /\ late = {} /\ watched = {}
  /\ procCall = [c \in Caller |-> NoProcCall] /\ procCalls = 0
  /\ told = [h \in Handles |-> {}]

-----------------------------------------------------------------------------
(* process.spawn, under the lock of the table: a full table gives up its   *)
(* oldest handle whose end is recorded, or refuses.  The handle is lost    *)
(* even when the child cannot be started then.                             *)
FullLate == Cardinality(tracked) > MaxProcesses
Full == Cardinality(tracked) >= MaxProcesses
OldestTracked == IF Full THEN {Min(tracked)} ELSE {}
Evicted == IF Full THEN {Min(tracked \cap reaped)} ELSE {}

FailToSpawn ==
  /\ spawned < MaxSpawns /\ Full /\ tracked \cap reaped # {}
  /\ tracked' = tracked \ Evicted /\ spawned' = spawned + 1
  /\ UNCHANGED <<child, reaped, killed, late, watched, procCall, procCalls, told>>

(* The threads for the child's output and its timeout are started after    *)
(* the lock is left; when one cannot be started, the call fails and the    *)
(* child runs on, unwatched.                                               *)
SpawnChild ==
  /\ spawned < MaxSpawns /\ (Full => tracked \cap reaped # {})
  /\ LET h == spawned + 1 IN
     /\ spawned' = h
     /\ tracked' = (tracked \ Evicted) \cup {h}
     /\ child' = [child EXCEPT ![h] = "runs"]
     /\ watched' = watched \cup {h} \/ watched' = watched
  /\ UNCHANGED <<reaped, killed, late, procCall, procCalls, told>>

-----------------------------------------------------------------------------
(* The operating system and time.                                          *)
ChildEnds(h) ==
  /\ child[h] \in {"runs", "signalled"} /\ child' = [child EXCEPT ![h] = "zombie"]
  /\ UNCHANGED <<spawned, tracked, reaped, killed, late, watched, procCall, procCalls,
                 told>>
TimePasses(h) ==
  /\ h \in watched \ late /\ late' = late \cup {h}
  /\ UNCHANGED <<spawned, tracked, child, reaped, killed, watched, procCall, procCalls,
                 told>>

(* A kill leaves the reason in the entry; a zombie does not notice.        *)
Signal(h, reason) ==
  /\ killed' = [killed EXCEPT ![h] = reason]
  /\ child' = [child EXCEPT ![h] = IF @ = "runs" THEN "signalled" ELSE @]

(* The watchdog ends when the handle is finished or unknown; else, out of  *)
(* time, it kills the child, once, and ends.                               *)
WatchdogEnds(h) ==
  /\ h \in watched /\ (h \in reaped \/ h \notin tracked)
  /\ watched' = watched \ {h} /\ late' = late \ {h}
  /\ UNCHANGED <<spawned, tracked, child, reaped, killed, procCall, procCalls,
                 told>>
StillRunning(h) == h \in tracked /\ h \notin reaped
WatchdogFires(h) ==
  /\ h \in watched \cap late /\ watched' = watched \ {h} /\ late' = late \ {h}
  /\ IF StillRunning(h) THEN Signal(h, "timed_out") ELSE UNCHANGED <<killed, child>>
  /\ UNCHANGED <<spawned, tracked, reaped, procCall, procCalls, told>>

-----------------------------------------------------------------------------
(* Both calls start with a poll, which records an end.                     *)
Polled(h) ==
  IF StillRunning(h) /\ child[h] = "zombie"
    THEN reaped' = reaped \cup {h} /\ child' = [child EXCEPT ![h] = "gone"]
    ELSE UNCHANGED <<reaped, child>>
CallGoes(c, place) == procCall' = [procCall EXCEPT ![c].at = place]

Call(c, h) ==
  /\ procCall[c].at = "idle" /\ procCalls < MaxProcCalls /\ h \in tracked
  /\ procCalls' = procCalls + 1
  /\ \E place \in {"status", "kill"} :
       procCall' = [procCall EXCEPT ![c] = [at |-> place, handle |-> h]]
  /\ Polled(h)
  /\ UNCHANGED <<spawned, tracked, killed, late, watched, told>>

(* process.kill: where killing an ended child is an error, the end is      *)
(* recorded at once.                                                       *)
KillChild(c) ==
  LET h == procCall[c].handle IN
  /\ procCall[c].at = "kill"
  /\ IF h \notin tracked
       THEN procCall' = [procCall EXCEPT ![c] = NoProcCall] /\ UNCHANGED <<killed, child, reaped>>
       ELSE /\ CallGoes(c, "wait")
            /\ IF h \in reaped THEN UNCHANGED <<killed, child, reaped>>
                 ELSE \/ Signal(h, "killed") /\ UNCHANGED reaped
                      \/ /\ child[h] = "zombie" /\ Polled(h)
                         /\ killed' = [killed EXCEPT ![h] = "killed"]
  /\ UNCHANGED <<spawned, tracked, late, watched, procCalls, told>>

(* It polls until the end is recorded, the handle unknown or two seconds   *)
(* over, and answers with a status.                                        *)
PollAgain(c) ==
  LET h == procCall[c].handle IN
  /\ procCall[c].at = "wait" /\ Polled(h)
  /\ CallGoes(c, "wait") \/ CallGoes(c, "status")
  /\ UNCHANGED <<spawned, tracked, killed, late, watched, procCalls, told>>

Lifecycle(h) == IF killed[h] = "no" THEN "exited" ELSE killed[h]
AnswerStatus(c) ==
  LET h == procCall[c].handle IN
  /\ procCall[c].at = "status"
  /\ procCall' = [procCall EXCEPT ![c] = NoProcCall]
  /\ told' = IF h \in tracked \cap reaped THEN [told EXCEPT ![h] = @ \cup {Lifecycle(h)}]
                                          ELSE told
  /\ UNCHANGED <<spawned, tracked, child, reaped, killed, late, watched, procCalls>>

-----------------------------------------------------------------------------
WatchdogStep(h) == WatchdogEnds(h) \/ WatchdogFires(h)
ProcessNext ==
  \/ FailToSpawn \/ SpawnChild
  \/ \E h \in Handles : ChildEnds(h) \/ TimePasses(h) \/ WatchdogStep(h)
  \/ \E c \in Caller : \/ \E h \in Handles : Call(c, h)
                       \/ KillChild(c) \/ PollAgain(c) \/ AnswerStatus(c)

(* A watchdog's thread runs; a signalled child ends.  Nothing makes a      *)
(* child end by itself.                                                    *)
ProcessWork == \E h \in Handles : WatchdogStep(h) \/ (child[h] = "signalled" /\ ChildEnds(h))
ProcessFairness == WF_processVars(ProcessWork)
ProcessSpec == ProcessInit /\ [][ProcessNext]_processVars /\ ProcessFairness

-----------------------------------------------------------------------------
(* A handle is given up only when the end of its child is recorded: no     *)
(* child, and no zombie, is ever out of reach of status and kill.          *)
NoChildOutOfReach ==
  \A h \in Handles : child[h] \in {"runs", "signalled", "zombie"} => h \in tracked

(* Callers of one handle are told one final state, however polls, kills    *)
(* and the watchdog fall.                                                  *)
OneFinalState == \A h \in Handles : Cardinality(told[h]) <= 1

ChildrenAreAccounted == NoChildOutOfReach /\ OneFinalState

(* A watched child does not outlive its timeout, whether or not anybody    *)
(* asks for its status.                                                    *)
TimeoutEndsChild ==
  \A h \in Handles : h \in late ~> child[h] \notin {"runs", "signalled"}

=============================================================================
