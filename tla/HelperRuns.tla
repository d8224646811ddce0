----------------------------- MODULE HelperRuns -----------------------------
(* A helper program run for one call: ffmpeg, whose two pipes are drained  *)
(* by a thread each, or pdftoppm, which writes its picture into a fresh    *)
(* directory and whose complaints are read once it is over.  The child     *)
(* stops at a full pipe and may hang.                                      *)
EXTENDS Naturals

CONSTANTS PipeSize,     \* blocks a pipe holds
          MaxOutput,    \* blocks a child writes to a pipe
          Limit         \* blocks a reader accepts
ASSUME HelperAssumption == MaxOutput \in Nat /\ Limit \in Nat

VARIABLES helper,   \* the program, where its caller stands, its directory
          aide,     \* the process
          pipe      \* blocks written, read, and who still reads
helperVars == <<helper, aide, pipe>>

Side == {"out", "err"}
Fresh == [wrote |-> 0, got |-> 0, reader |-> "none"]

HelperInit ==
  /\ \E p \in {"ffmpeg", "pdftoppm"} :
       helper = [program |-> p, at |-> "new", dir |-> FALSE, late |-> FALSE, said |-> "none"]
  /\ aide = "none" /\ pipe = [s \in Side |-> Fresh]

At(where) == helper' = [helper EXCEPT !.at = where]
Say(what) == helper' = [helper EXCEPT !.at = "over", !.dir = FALSE, !.said = what]

(* The program is looked for before anything is made for it.               *)
Missing ==
  /\ helper.at = "new" /\ Say("unavailable") /\ UNCHANGED <<aide, pipe>>
SpawnFails ==
  /\ helper.at = "new" /\ UNCHANGED <<aide, pipe>>
  /\ helper' = [helper EXCEPT !.at = "over", !.dir = helper.program = "pdftoppm", !.said = "not_spawned"]
StartHelper ==
  /\ helper.at = "new" /\ aide' = "running"
  /\ helper' = [helper EXCEPT !.at = "poll", !.dir = helper.program = "pdftoppm"]
  /\ pipe' = [s \in Side |-> [Fresh EXCEPT !.reader =
                CASE helper.program = "ffmpeg" -> "reading"
                  [] s = "err" -> "later"
                  [] OTHER -> "none"]]

(* The child: it writes while there is room, is killed by a pipe nobody    *)
(* will read, ends well or not, or does nothing any more.                  *)
Waiting(s) == pipe[s].wrote - pipe[s].got
AideWrites(s) ==
  /\ aide = "running" /\ pipe[s].wrote < MaxOutput /\ UNCHANGED helper
  /\ \/ /\ pipe[s].reader \in {"reading", "later"} /\ Waiting(s) < PipeSize
        /\ pipe' = [pipe EXCEPT ![s].wrote = @ + 1] /\ UNCHANGED aide
     \/ pipe[s].reader = "closed" /\ aide' = "failed" /\ UNCHANGED pipe
AideEnds ==
  /\ aide = "running" /\ aide' \in {"succeeded", "failed"} /\ UNCHANGED <<helper, pipe>>
Ended == aide # "running"

(* A reader takes a block, gives up over the limit or meets the end.       *)
Accepts(s) == pipe[s].got < Limit
Drain(s) ==
  /\ pipe[s].reader = "reading" /\ UNCHANGED <<helper, aide>>
  /\ \/ /\ Waiting(s) > 0
        /\ pipe' = IF Accepts(s) THEN [pipe EXCEPT ![s].got = @ + 1]
                     ELSE [pipe EXCEPT ![s].reader = "closed"]
     \/ Waiting(s) = 0 /\ Ended /\ pipe' = [pipe EXCEPT ![s].reader = "finished"]

(* Polling until the child has ended or the deadline has passed. pdftoppm  *)
(* is read before it is killed, ffmpeg is killed before its readers are    *)
(* waited for.                                                             *)
SeeEnd ==
  /\ helper.at = "poll" /\ Ended /\ UNCHANGED <<aide, pipe>>
  /\ At(IF helper.program = "ffmpeg" THEN "join" ELSE "drain")
Deadline ==
  /\ helper.at = "poll" /\ UNCHANGED <<aide, pipe>>
  /\ helper' = [helper EXCEPT !.late = TRUE, !.at = IF helper.program = "ffmpeg" THEN "kill" ELSE "drain"]
PollFails ==
  /\ helper.at = "poll" /\ aide' = "killed" /\ Say("failed") /\ UNCHANGED pipe

ReadLate ==
  /\ helper.at = "drain" /\ UNCHANGED aide
  /\ \/ /\ Waiting("err") > 0 /\ Accepts("err")
        /\ pipe' = [pipe EXCEPT !["err"].got = @ + 1] /\ UNCHANGED helper
     \/ /\ ~Accepts("err") \/ (Waiting("err") = 0 /\ Ended)
        /\ At(IF helper.late THEN "kill" ELSE "look") /\ UNCHANGED pipe

LeftAlone == aide
Stopped == IF aide = "running" THEN "killed" ELSE aide
Kill ==
  /\ helper.at = "kill" /\ aide' = Stopped /\ UNCHANGED pipe
  /\ IF helper.program = "ffmpeg" THEN At("join") ELSE Say("timeout")

Joinable == \A s \in Side : pipe[s].reader \in {"finished", "closed"}
JoinReaders ==
  /\ helper.at = "join" /\ Joinable /\ UNCHANGED <<aide, pipe>>
  /\ Say(CASE helper.late -> "timeout"
           [] ~helper.late /\ pipe["out"].reader = "closed" -> "too_large"
           [] ~helper.late /\ pipe["out"].reader # "closed" ->
                IF aide = "succeeded" THEN "ok" ELSE "failed")
TakePicture ==
  /\ helper.at = "look" /\ UNCHANGED <<aide, pipe>>
  /\ IF aide = "succeeded" THEN Say("ok") \/ Say("too_large") \/ Say("failed") ELSE Say("failed")

HelperNext ==
  \/ Missing \/ StartHelper \/ SpawnFails \/ AideEnds \/ SeeEnd \/ Deadline \/ PollFails \/ ReadLate \/ Kill
  \/ JoinReaders \/ TakePicture
  \/ \E s \in Side : AideWrites(s) \/ Drain(s)
HelperSpec == HelperInit /\ [][HelperNext]_helperVars

-----------------------------------------------------------------------------
HelperRecord ==
  [program : {"ffmpeg", "pdftoppm"}, dir : BOOLEAN, late : BOOLEAN,
   at : {"new", "poll", "drain", "kill", "join", "look", "over"},
   said : {"none", "unavailable", "not_spawned", "failed", "timeout", "too_large", "ok"}]
Pipe == [wrote : 0 .. MaxOutput, got : 0 .. Limit,
         reader : {"none", "later", "reading", "closed", "finished"}]
HelperTypeOK ==
  /\ helper \in HelperRecord /\ pipe \in [Side -> Pipe]
  /\ aide \in {"none", "running", "succeeded", "failed", "killed"}
  /\ \A s \in Side : pipe[s].got <= pipe[s].wrote

(* Whatever the deadline, the pipes and the child do to each other: a call *)
(* that is over has no child left running and no directory left behind     *)
(* (but for a child that could not be started), no reader holds more than  *)
(* the limit, and a good answer means the child ended well and every block *)
(* of its output arrived.                                                  *)
HelpersAreReaped ==
  /\ helper.at = "over" => aide # "running" /\ (helper.dir => helper.said = "not_spawned")
  /\ \A s \in Side : pipe[s].got <= Limit
  /\ helper.said = "ok" =>
       /\ aide = "succeeded"
       /\ helper.program = "ffmpeg" => pipe["out"].got = pipe["out"].wrote
=============================================================================
