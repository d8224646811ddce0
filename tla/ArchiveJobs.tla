---------------------------- MODULE ArchiveJobs -----------------------------
(* Extraction of an archive entry by entry and block by block, under       *)
(* limits that are checked on the way, and creation of one.  The work runs *)
(* on a thread of its own that a call which is given up does not stop, so  *)
(* a second call may extract the same archive at the same time.            *)
EXTENDS Naturals, FiniteSets, Sequences, SequencesExt

CONSTANTS Name,                 \* names inside the archive
          MaxEntry, MaxTotal,   \* blocks of an entry, of an extraction
          MaxEntries,           \* entries
          MaxSize,              \* blocks an entry may really have
          MaxLength             \* entries an archive may really have

VARIABLES archive,   \* its format and entries
          unpacked,      \* the destination: for each file its blocks
          job,       \* two calls: where each stands
          packed       \* the archive that is being created
archiveVars == <<archive, unpacked, job, packed>>

Worker == {1, 2}
Gone == <<MaxLength + 1>>   \* no file
Hole == 0
Directory == "directory"
Old == "old"
FileEntry(n, k, big) == [kind |-> "file", name |-> n, size |-> k, big |-> big]
OtherEntry(k) == [kind |-> k, name |-> CHOOSE n \in Name : TRUE, size |-> 0, big |-> FALSE]
Entry == {FileEntry(n, k, b) : n \in Name, k \in 1..MaxSize, b \in BOOLEAN}
           \cup {OtherEntry(k) : k \in {"dir", "link", "escape", "broken"}}

(* Only a zip can declare a size that is not the one that follows, and a   *)
(* zip's links are plain files.                                            *)
Archives ==
  [format : {"zip"}, entries : {s \in BoundedSeq(Entry, MaxLength) : \A i \in DOMAIN s : s[i].kind # "link"}]
    \cup [format : {"pack"}, entries : {s \in BoundedSeq(Entry, MaxLength) : \A i \in DOMAIN s : ~s[i].big /\ s[i].size <= 1}]
    \cup [format : {"tar"}, entries : {s \in BoundedSeq(Entry, MaxLength) : \A i \in DOMAIN s : ~s[i].big}]

Unstarted == [at |-> "idle", i |-> 0, wrote |-> 0, total |-> 0, count |-> 0, said |-> "none", left |-> FALSE]
NoArchive == [format |-> "zip", entries |-> <<>>]
ArchiveStarts(archives) ==
  /\ archive \in archives /\ unpacked = [n \in Name |-> Gone]
  /\ job = [w \in Worker |-> Unstarted] /\ packed = <<Old>>
ArchiveInit == ArchiveStarts(Archives)

Total == Len(archive.entries)
Current(w) == archive.entries[job[w].i]
Sets(w, j) == job' = [job EXCEPT ![w] = j]
JobEnds(w, what) == Sets(w, [job[w] EXCEPT !.at = "over", !.said = what])
Aside == UNCHANGED <<archive, packed>>

(* The second call is packed once the first was answered or given up.        *)
StartExtract(w) ==
  /\ archive.format # "pack" /\ job[w].at = "idle" /\ (w = 2 => job[1].at = "over" \/ job[1].left)
  /\ UNCHANGED unpacked /\ Aside
  /\ \/ JobEnds(w, "failed")
     \/ archive.format = "zip" /\ Total > MaxEntries /\ JobEnds(w, "too_large")
     \/ /\ archive.format = "zip" => Total <= MaxEntries
        /\ Sets(w, [Unstarted EXCEPT !.at = "entry", !.i = 1])
GiveUpCall(w) ==
  /\ job[w].at \in {"entry", "blocks"} /\ ~job[w].left
  /\ Sets(w, [job[w] EXCEPT !.left = TRUE]) /\ UNCHANGED unpacked /\ Aside

(* An entry is validated before its file is packed anew.                     *)
Unwanted(e) == e.kind \in {"link", "escape", "broken"} \/ e.big
NextEntry(w) == [job[w] EXCEPT !.at = "entry", !.i = @ + 1]
TakeEntry(w) ==
  /\ job[w].at = "entry" /\ job[w].i <= Total /\ Aside
  /\ \/ Unwanted(Current(w)) /\ JobEnds(w, "traversal") /\ UNCHANGED unpacked
     \/ Current(w).kind = "dir" /\ Sets(w, NextEntry(w)) /\ UNCHANGED unpacked
     \/ /\ Current(w).kind = "file" /\ ~Unwanted(Current(w))
        /\ unpacked' = [unpacked EXCEPT ![Current(w).name] = <<>>]
        /\ Sets(w, [job[w] EXCEPT !.at = "blocks", !.wrote = 0])
FinishExtract(w) ==
  /\ job[w].at = "entry" /\ job[w].i > Total /\ JobEnds(w, "ok") /\ UNCHANGED unpacked /\ Aside

(* A block lands at the writer's own place, whatever happened to the file. *)
Placed(blocks, n, b) ==
  IF blocks = Gone THEN Gone ELSE
  [k \in 1..(IF n > Len(blocks) THEN n ELSE Len(blocks)) |->
     IF k = n THEN b ELSE IF k <= Len(blocks) THEN blocks[k] ELSE Hole]
OverEntry(w) == job[w].wrote + 1 > MaxEntry
OverBudget(w) == job[w].total + 1 > MaxTotal
WriteBlock(w) ==
  /\ job[w].at = "blocks" /\ job[w].wrote < Current(w).size /\ Aside
  /\ \/ JobEnds(w, "failed") /\ UNCHANGED unpacked
     \/ OverEntry(w) /\ JobEnds(w, "too_large") /\ unpacked' = [unpacked EXCEPT ![Current(w).name] = Gone]
     \/ ~OverEntry(w) /\ OverBudget(w) /\ JobEnds(w, "too_large") /\ UNCHANGED unpacked
     \/ /\ ~OverEntry(w) /\ ~OverBudget(w)
        /\ unpacked' = [unpacked EXCEPT ![Current(w).name] = Placed(@, job[w].wrote + 1, job[w].i)]
        /\ Sets(w, [job[w] EXCEPT !.wrote = @ + 1, !.total = @ + 1])

(* A tar's files are counted once they have landed, its directories never. *)
CloseEntry(w) ==
  /\ job[w].at = "blocks" /\ job[w].wrote = Current(w).size /\ UNCHANGED unpacked /\ Aside
  /\ IF archive.format = "tar" /\ job[w].count + 1 > MaxEntries THEN JobEnds(w, "too_large")
       ELSE Sets(w, [NextEntry(w) EXCEPT !.count = @ + 1])

(* Creation: the old archive is gone before the first name is looked at,   *)
(* and what a refused name leaves is no archive.                           *)
StartPack ==
  /\ archive.format = "pack" /\ job[1].at = "idle" /\ UNCHANGED <<archive, unpacked>>
  /\ \/ Total \notin 1..MaxEntries /\ JobEnds(1, "invalid") /\ UNCHANGED packed
     \/ JobEnds(1, "failed") /\ UNCHANGED packed
     \/ /\ Total \in 1..MaxEntries /\ packed' = <<>>
        /\ Sets(1, [Unstarted EXCEPT !.at = "pack", !.i = 1])
PackEntry ==
  /\ job[1].at = "pack" /\ job[1].i <= Total /\ UNCHANGED <<archive, unpacked>>
  /\ IF Current(1).kind = "file"
       THEN /\ packed' = Append(packed, Current(1).name)
            /\ Sets(1, [job[1] EXCEPT !.i = @ + 1])
       ELSE JobEnds(1, "traversal") /\ UNCHANGED packed
FinishPack ==
  /\ job[1].at = "pack" /\ job[1].i > Total /\ UNCHANGED <<archive, unpacked>>
  /\ \/ packed' = Append(packed, Directory) /\ JobEnds(1, "ok")
     \/ JobEnds(1, "failed") /\ UNCHANGED packed

ArchiveNext ==
  \/ StartPack \/ PackEntry \/ FinishPack
  \/ \E w \in Worker :
       StartExtract(w) \/ GiveUpCall(w) \/ TakeEntry(w) \/ FinishExtract(w) \/ WriteBlock(w) \/ CloseEntry(w)
ArchiveSpec == ArchiveInit /\ [][ArchiveNext]_archiveVars

-----------------------------------------------------------------------------
ArchiveTypeOK ==
  /\ archive \in Archives /\ \A n \in Name : unpacked[n] = Gone \/ unpacked[n] \in Seq(0..MaxLength)
  /\ \A w \in Worker :
       /\ job[w].at \in {"idle", "entry", "blocks", "pack", "over"}
       /\ job[w].said \in {"none", "ok", "invalid", "too_large", "traversal", "failed"}
       /\ job[w].wrote \in 0..MaxEntry /\ job[w].total \in 0..MaxTotal

Working(w) == job[w].at \in {"entry", "blocks", "pack"}
Files == {i \in DOMAIN archive.entries : archive.entries[i].kind = "file"}
LastOf(n) ==
  LET at == {i \in Files : archive.entries[i].name = n}
  IN  IF at = {} THEN 0 ELSE CHOOSE i \in at : \A k \in at : k <= i
WholeFile(n) ==
  IF LastOf(n) = 0 THEN Gone ELSE [k \in 1..archive.entries[LastOf(n)].size |-> LastOf(n)]
Newest == IF job[2].at = "idle" THEN 1 ELSE 2

(* However two extractions into one directory cross: a good answer means   *)
(* that no entry of the archive was a refused one, that its files keep the *)
(* limits, and that every file holds its last entry whole and nothing      *)
(* else, once nobody is at work any more and unless a call that was given  *)
(* up failed later.  A creation that succeeds has every name and its       *)
(* directory.                                                              *)
ArchiveIsWhole ==
  /\ \A w \in Worker : job[w].said = "ok" /\ archive.format # "pack" =>
       /\ \A i \in DOMAIN archive.entries : ~Unwanted(archive.entries[i])
       /\ Cardinality(Files) <= MaxEntries
       /\ MapThenSumSet(LAMBDA i : archive.entries[i].size, Files) <= MaxTotal
  /\ archive.format # "pack" /\ job[Newest].said = "ok" /\ ~Working(1)
       /\ (Newest = 2 /\ job[1].left => job[1].said = "ok")
     => \A n \in Name : unpacked[n] = WholeFile(n)
  /\ archive.format = "pack" /\ job[1].said = "ok" =>
       packed = [i \in DOMAIN archive.entries |-> archive.entries[i].name] \o <<Directory>>
=============================================================================
