------------------------------ MODULE FileEdits ------------------------------
(***************************************************************************)
(* The tools that change files (tool-filesystem-host over                  *)
(* tool-filesystem): the edit tool with its selectors, its pending edit    *)
(* that later calls of the turn complete, and the file the conversation is *)
(* about; the exact replacement in a copy that is renamed over the file;   *)
(* the appends and the whole-file writes, done in place.  The calls of one *)
(* response are all looked at before the first of them runs.  Other        *)
(* programs save the files too, and the host may die at any time.          *)
(*                                                                         *)
(* A file is a sequence of texts.  A selector (reference, target, location *)
(* and name, path) is the file that it resolves to, and a call's selectors *)
(* are those that remain when FileSelectors has merged them.               *)
(***************************************************************************)
EXTENDS Naturals, Sequences, FiniteSets, SequencesExt

CONSTANTS
  File,          \* files the tools may be asked for
  Semantic,      \* those below a configured user directory
  Text,          \* texts a call replaces, inserts and appends
  MaxBlocks,     \* max_write_bytes, in texts
  MaxEditCalls,  \* bound on the calls
  MaxEditBatch,  \* bound on the calls of one response
  MaxSaves       \* bound on the saves of other programs

ASSUME FilesAssumption ==
  /\ Semantic \subseteq File /\ MaxBlocks \in Nat /\ MaxEditCalls \in Nat
  /\ MaxEditBatch \in Nat \ {0} /\ MaxSaves \in Nat

NoFile == "no file"
NoText == "no text"
Missing == [blocks |-> <<>>, state |-> "missing"]
Whole(blocks) == [blocks |-> blocks, state |-> "whole"]
Torn == [blocks |-> <<>>, state |-> "torn"]

VARIABLES
  disk,       \* the files
  pending,    \* pending_edit: a file and what is known of its edit
  active,     \* active_file of the conversation
  batch,      \* the calls of the response, each with what its ticket covers
  editing,    \* the call that runs
  edits,      \* calls made so far
  saves,      \* saves of other programs so far
  given,      \* what calls supplied for which file (history)
  cut         \* files on which a write in place was cut off (history)

fileVars == <<disk, pending, active, batch, editing, edits, saves, given, cut>>

NoPending == [file |-> NoFile, old |-> NoText, new |-> NoText]
NotEditing == [step |-> "none", file |-> NoFile]

(* What a call may say: the files its selectors name, by their path or as  *)
(* a user's file, and the texts.  An edit may leave anything out.          *)
ReplaceCall == [sel : SUBSET File, byPath : BOOLEAN, op : {"replace"},
                old : Text \cup {NoText}, new : Text \cup {NoText}]
AppendCall == [sel : SUBSET File, byPath : BOOLEAN, op : {"append"},
               old : {NoText}, new : Text]
WriteCall == [sel : SUBSET File \ {{}}, byPath : BOOLEAN, op : {"write"},
              old : {NoText}, new : Text]
EditCall == {c \in ReplaceCall \cup AppendCall \cup WriteCall : c.sel = {} => ~c.byPath}

FilesTypeOK ==
  /\ \A f \in File : disk[f].state \in {"whole", "torn", "missing"}
                     /\ Len(disk[f].blocks) <= MaxBlocks
  /\ pending.file \in Semantic \cup {NoFile} /\ active \in File \cup {NoFile}
  /\ Len(batch) <= MaxEditBatch
  /\ editing.step \in {"none", "read", "copied", "truncated"}
  /\ edits \in 0 .. MaxEditCalls /\ saves \in 0 .. MaxSaves
  /\ cut \subseteq File

FilesInit ==
  /\ disk = [f \in File |-> Whole(<<CHOOSE t \in Text : TRUE>>)]
  /\ pending = NoPending /\ active \in Semantic \cup {NoFile}
  /\ batch = <<>> /\ editing = NotEditing /\ edits = 0 /\ saves = 0
  /\ given = {} /\ cut = {}

-----------------------------------------------------------------------------
(* The file a call is about: the one its selectors name, else the pending  *)
(* edit's, else the conversation's.                                        *)
Named(c) == CHOOSE f \in c.sel : TRUE
Target(c) ==
  IF c.sel # {} THEN Named(c)
    ELSE IF pending.file # NoFile THEN pending.file ELSE active
Disagree(c) == Cardinality(c.sel) > 1
NotThere(c) == c.op = "replace" /\ Target(c) # NoFile /\ disk[Target(c)].state = "missing"
Unresolved(c) == Disagree(c) \/ NotThere(c)

(* What a pending edit is kept for: a file below a user directory.         *)
Tracked(c) == IF Target(c) \in Semantic THEN Target(c) ELSE NoFile
UserStyle(c) == Target(c) \in Semantic /\ ~(c.sel # {} /\ c.byPath)

(* What a call leaves open is taken from the pending edit of its file.     *)
SameTarget(c) == pending.file # NoFile /\ Tracked(c) = pending.file
MergedOld(c) == IF c.old = NoText /\ SameTarget(c) THEN pending.old ELSE c.old
MergedNew(c) == IF c.new = NoText /\ SameTarget(c) THEN pending.new ELSE c.new

(* discard_if_explicit_target_changed, then remember_edit_attempt.         *)
Discarded(c) == IF c.sel # {} /\ ~SameTarget(c) THEN NoPending ELSE pending
Remembered(c) ==
  LET kept == Discarded(c)
      old == IF c.op = "replace" THEN c.old ELSE NoText
      new == IF c.op = "replace" THEN c.new ELSE NoText
  IN IF Tracked(c) = NoFile THEN kept
       ELSE IF kept.file = Tracked(c)
         THEN [kept EXCEPT !.old = IF old # NoText THEN old ELSE @,
                           !.new = IF new # NoText THEN new ELSE @]
         ELSE [file |-> Tracked(c), old |-> old, new |-> new]
Given(c) == IF Target(c) = NoFile THEN {} ELSE {<<Target(c), t>> : t \in {c.old, c.new} \ {NoText}}

-----------------------------------------------------------------------------
(* The next call of the response is looked at: the file it needs a ticket  *)
(* for is found, and an edit is remembered already.  The ticket covers the *)
(* file or more, or there is none.                                         *)
Preflight(c) ==
  /\ editing.step = "none" /\ edits < MaxEditCalls /\ Len(batch) < MaxEditBatch
  /\ \A k \in DOMAIN batch : ~batch[k].begun
  /\ edits' = edits + 1
  /\ \E ticket \in (IF Unresolved(c) \/ Target(c) = NoFile THEN {{}} ELSE {{Target(c)}, File}) :
       batch' = Append(batch, [call |-> c, ticket |-> ticket, begun |-> FALSE])
  /\ pending' = IF c.op = "write" \/ Unresolved(c) THEN pending ELSE Remembered(c)
  /\ given' = IF Unresolved(c) THEN given ELSE given \cup Given(c)
  /\ UNCHANGED <<disk, active, editing, saves, cut>>

(* The next call of the response runs.                                     *)
Next1 == Head(batch)
Started ==
  batch' = [k \in 1 .. Len(batch) - 1 |-> [batch[k + 1] EXCEPT !.begun = TRUE]]
CallFails == editing' = NotEditing
MayKeep(p) == pending' \in {p, NoPending}

(* The selectors name different files, or the file is gone.                *)
InvokeUnresolved ==
  /\ editing.step = "none" /\ batch # <<>> /\ Started
  /\ Unresolved(Next1.call)
  /\ IF Next1.call.op = "write" \/ Disagree(Next1.call) THEN UNCHANGED pending
       ELSE MayKeep(pending)
  /\ UNCHANGED <<disk, active, editing, edits, saves, given, cut>>

(* No file is known for the call.                                          *)
InvokeNowhere ==
  /\ editing.step = "none" /\ batch # <<>> /\ Started
  /\ ~Unresolved(Next1.call) /\ Target(Next1.call) = NoFile
  /\ pending' = IF Next1.call.op = "write" THEN pending ELSE NoPending
  /\ UNCHANGED <<disk, active, editing, edits, saves, given, cut>>

(* An old text that was left open is the only text of the file.            *)
OnlyText(f) == IF Len(disk[f].blocks) = 1 THEN Head(disk[f].blocks) ELSE NoText
Inferred(c) == MergedOld(c) = NoText /\ MergedNew(c) # NoText
OldText(c) == IF Inferred(c) THEN OnlyText(Target(c)) ELSE MergedOld(c)
Incomplete(c) == c.op = "replace" /\ NoText \in {OldText(c), MergedNew(c)}

(* An edit that still lacks a text is answered with what it lacks.         *)
InvokeIncomplete ==
  /\ editing.step = "none" /\ batch # <<>> /\ Started
  /\ LET c == Next1.call
     IN /\ ~Unresolved(c) /\ Target(c) # NoFile /\ Incomplete(c)
        /\ pending' = Remembered(c) /\ given' = given \cup Given(c)
  /\ UNCHANGED <<disk, active, editing, edits, saves, cut>>

(* The broker checks the ticket and reads the file.                        *)
Invoke ==
  /\ editing.step = "none" /\ batch # <<>> /\ Started
  /\ LET c == Next1.call
     IN /\ ~Unresolved(c) /\ Target(c) # NoFile /\ ~Incomplete(c)
        /\ pending' = IF c.op = "write" THEN pending ELSE Remembered(c)
        /\ given' = given \cup Given(c)
        /\ \/ /\ Target(c) \in Next1.ticket
              /\ editing' = [step |-> "read", file |-> Target(c), op |-> c.op,
                             sel |-> c.sel, user |-> UserStyle(c), seen |-> disk[Target(c)],
                             old |-> OldText(c), inferred |-> Inferred(c), new |-> MergedNew(c)]
           \/ UNCHANGED editing
  /\ UNCHANGED <<disk, active, edits, saves, cut>>

(* The broker refuses or cannot: the pending edit of a user file goes.     *)
EditFails ==
  /\ editing.step \in {"read", "copied"}
  /\ CallFails
  /\ pending' = IF editing.op # "write" /\ editing.user THEN NoPending ELSE pending
  /\ UNCHANGED <<disk, active, batch, edits, saves, given, cut>>

-----------------------------------------------------------------------------
Occurrences(t, blocks) == {k \in DOMAIN blocks : blocks[k] = t}
ReplacedIn(blocks) ==
  [k \in DOMAIN blocks |-> IF blocks[k] = editing.old THEN editing.new ELSE blocks[k]]

(* The old text must be there exactly once; else the model is to read the  *)
(* file, and the pending edit stays.                                       *)
EditMismatch ==
  /\ editing.step = "read" /\ editing.op = "replace"
  /\ Cardinality(Occurrences(editing.old, editing.seen.blocks)) # 1
  /\ CallFails
  /\ UNCHANGED <<disk, pending, active, batch, edits, saves, given, cut>>

EditInPlace ==
  /\ editing.step = "read" /\ editing.op = "replace"
  /\ editing' = [editing EXCEPT !.step = "copied"]
  /\ disk' = [disk EXCEPT ![editing.file] = Torn]
  /\ UNCHANGED <<pending, active, batch, edits, saves, given, cut>>

(* The changed text goes to a copy beside the file.                        *)
EditCopies ==
  /\ editing.step = "read" /\ editing.op = "replace"
  /\ Cardinality(Occurrences(editing.old, editing.seen.blocks)) = 1
  /\ editing' = [editing EXCEPT !.step = "copied"]
  /\ UNCHANGED <<disk, pending, active, batch, edits, saves, given, cut>>

(* A call that succeeds ends the pending edit, unless it went by its path. *)
Succeeds == /\ editing' = NotEditing
            /\ pending' = IF editing.op # "write" /\ editing.user THEN NoPending ELSE pending
EditRenames ==
  /\ editing.step = "copied"
  /\ disk' = [disk EXCEPT ![editing.file] = Whole(ReplacedIn(editing.seen.blocks))]
  /\ Succeeds
  /\ UNCHANGED <<active, batch, edits, saves, given, cut>>

(* A write in place: the file is emptied, then filled.  An append writes   *)
(* what it read, of a torn file too, and its own text.                     *)
Written == IF editing.op = "append" THEN Append(editing.seen.blocks, editing.new)
             ELSE <<editing.new>>
WriteOfAnySize ==
  /\ editing.step = "read" /\ editing.op \in {"append", "write"}
  /\ editing' = [editing EXCEPT !.step = "truncated"]
  /\ disk' = [disk EXCEPT ![editing.file] = Torn]
  /\ UNCHANGED <<pending, active, batch, edits, saves, given, cut>>
WriteTruncates ==
  /\ editing.step = "read" /\ editing.op \in {"append", "write"}
  /\ Len(Written) <= MaxBlocks
  /\ editing' = [editing EXCEPT !.step = "truncated"]
  /\ disk' = [disk EXCEPT ![editing.file] = Torn]
  /\ UNCHANGED <<pending, active, batch, edits, saves, given, cut>>
WriteFills ==
  /\ editing.step = "truncated"
  /\ disk' = [disk EXCEPT ![editing.file] = Whole(Written)]
  /\ Succeeds /\ cut' = cut \ {editing.file}
  /\ UNCHANGED <<active, batch, edits, saves, given>>
WriteFails ==
  /\ editing.step = "truncated"
  /\ CallFails /\ cut' = cut \cup {editing.file}
  /\ pending' = IF editing.op # "write" /\ editing.user THEN NoPending ELSE pending
  /\ UNCHANGED <<disk, active, batch, edits, saves, given>>

-----------------------------------------------------------------------------
(* The turn ends: its tools go, the pending edit with them, and the last   *)
(* file a tool reported is the one the conversation is about.              *)
TurnEnds ==
  /\ editing.step = "none" /\ batch = <<>> /\ edits > 0
  /\ pending' = NoPending
  /\ active' \in {active} \cup {g[1] : g \in given}
  /\ UNCHANGED <<disk, batch, editing, edits, saves, given, cut>>

(* The host dies.                                                          *)
HostDies ==
  /\ edits > 0
  /\ pending' = NoPending /\ active' = NoFile /\ batch' = <<>> /\ editing' = NotEditing
  /\ cut' = IF editing.step = "truncated" THEN cut \cup {editing.file} ELSE cut
  /\ UNCHANGED <<disk, edits, saves, given>>

(* Another program saves or removes a file.                                *)
OtherSaves ==
  /\ saves < MaxSaves /\ saves' = saves + 1
  /\ \E f \in File, c \in {Missing} \cup {Whole(<<t, u>>) : t, u \in Text} :
       disk' = [disk EXCEPT ![f] = c]
  /\ UNCHANGED <<pending, active, batch, editing, edits, given, cut>>

FilesNext ==
  \/ \E c \in EditCall : Preflight(c)
  \/ InvokeUnresolved \/ InvokeNowhere \/ InvokeIncomplete \/ Invoke
  \/ EditFails \/ EditMismatch \/ EditCopies \/ EditRenames
  \/ WriteTruncates \/ WriteFills \/ WriteFails
  \/ TurnEnds \/ HostDies \/ OtherSaves

FilesSpec == FilesInit /\ [][FilesNext]_fileVars

-----------------------------------------------------------------------------
Edits == editing.step # "none" /\ editing.op = "replace"

(* Texts that calls left open are filled in from other calls, but never    *)
(* from calls about another file: both texts of an edit that runs were     *)
(* supplied for its own file, or read from it; and when a call names files *)
(* its edit is in every file that it names.                                *)
TextStaysWithItsFile ==
  Edits =>
    /\ <<editing.file, editing.new>> \in given
    /\ ~editing.inferred => <<editing.file, editing.old>> \in given
    /\ editing.sel # {} => editing.sel = {editing.file}

(* A file is found torn only after a write in place that was cut off, or   *)
(* while one runs: an edit leaves its file as it was, or done.             *)
EditsAreAtomic ==
  \A f \in File : disk[f].state = "torn" =>
    f \in cut \/ (editing.step = "truncated" /\ editing.file = f)

(* EditsStayTrue: an edit is about the file it was made for, and happens   *)
(* to it whole or not at all.                                              *)
EditsStayTrue == TextStaysWithItsFile /\ EditsAreAtomic
=============================================================================
