---------------------------- MODULE FileSelectors ----------------------------
(* Which file a call of a file tool is about.  A call may name it by a      *)
(* reference that an earlier result returned, by a place in a user's        *)
(* directory, by a directory and a name, by a path, or not at all; a small  *)
(* model gives several of these at once, copies one into the field of       *)
(* another, and uses the English name of a directory that is called         *)
(* something else on this computer.  Another file of the turn, whose edit   *)
(* is pending, is FileEdits'; a path with ".." is FilePaths'; the world     *)
(* stands still during a call.                                              *)
EXTENDS FilePaths

CONSTANTS Usual,       \* what the user's directories are called by convention
          DefaultName, \* the name of a file that a call leaves unnamed
          Houses,      \* arrangements of files, directories and links
          Saying,      \* the calls a model may make
          MaxSayings   \* bound on the calls

VARIABLES house,    \* what is where
          favored,  \* the reference of the file the conversation is about
          served,   \* the call that was served last
          sayings   \* calls so far
selectorVars == <<house, favored, served, sayings>>

(* A selector: a place in a directory of the user, a path or a name, or a  *)
(* reference that is none.                                                 *)
Absent == [is |-> "none", dir |-> 0, path |-> <<>>]
Bad == [is |-> "bad", dir |-> 0, path |-> <<>>]
PlaceIn(i, name) == [is |-> "place", dir |-> i, path |-> name]
AtPath(path) == [is |-> "path", dir |-> 0, path |-> path]
NameOf(name) == [is |-> "name", dir |-> 0, path |-> name]
Unserved == [at |-> "idle", call |-> [tool |-> "none"], landed |-> Nowhere, told |-> Absent, before |-> <<>>]

(* "read" stands for every tool that looks into a file by HostArgs, the    *)
(* reading of a range and the patch too.                                   *)
HostTools == {"stat", "read", "list", "write"}
UserTools == {"create", "write_user", "edit_user", "append_user", "replace"}
Makes(tool) == tool \in {"write", "append", "append_file", "create", "write_user", "append_user", "replace"}

-----------------------------------------------------------------------------
(* What a selector is found to be: the directory it lies in, if any, the   *)
(* name there, and its real location; or why there is nothing.             *)
Fault(why) == [err |-> why, dir |-> 0, rel |-> <<>>, at |-> Nowhere]
Found(i, name, p) == [err |-> "none", dir |-> i, rel |-> name, at |-> p]
Fine(x) == x.err = "none"
Bare(x) == IF Fine(x) THEN Found(0, <<>>, x.at) ELSE x
Root(t, i) == Real(t, UserRoot[i])

FoundAt(t, path, make, p) ==
  IF p # Nowhere THEN Found(0, <<>>, p)
  ELSE IF make THEN Fault("unplaced") ELSE IF Exists(t, path) THEN Fault("directory") ELSE Fault("missing")
Canonical(t, path, make) == FoundAt(t, path, make, CanonicalFor(t, path, make))

(* A place in a directory; without a name it is the directory itself,      *)
(* which can only be read.                                                 *)
Inside(i, name, r, c) ==
  IF ~Fine(c) THEN c ELSE IF Within(c.at, r) THEN Found(i, name, c.at) ELSE Fault("outside")
ResolveBelow(t, i, r, name, make) ==
  IF name = <<>> /\ make THEN Fault("argument")
  ELSE IF r = Nowhere \/ (name = <<>> /\ ~Holding(t, r)) THEN Fault("unavailable")
  ELSE IF name = <<>> THEN Found(i, <<>>, r) ELSE Inside(i, name, r, Canonical(t, r \o name, make))
ResolveTarget(t, i, name, make) == ResolveBelow(t, i, Root(t, i), name, make)

DirectoryAt(t, path) ==
  LET p == Real(t, path)
      same == {i \in DOMAIN UserRoot : Root(t, i) = p}
  IN  IF ~Holding(t, p) THEN Fault("missing") ELSE Found(IF same = {} THEN 0 ELSE Min(same), <<>>, p)

(* A reference is resolved anew each time.                                 *)
Stale(x) == IF x.err = "missing" THEN Fault("stale") ELSE x
ResolveRef(t, r, make) ==
  IF r.is = "bad" THEN Fault("reference")
  ELSE IF r.is = "place" THEN Stale(ResolveTarget(t, r.dir, r.path, make))
  ELSE LET c == Canonical(t, r.path, make)
       IN  IF c.err = "directory" THEN DirectoryAt(t, r.path) ELSE Stale(c)

(* A path that really lies in a user's directory is a place there, in the  *)
(* first such directory; one that only looks so is refused.                *)
BelowFirst(t, i, p) == Found(i, SubSeq(p, Len(Root(t, i)) + 1, Len(p)), p)
PlacedBelow(t, path, make, c, takes) ==
  LET roots == DOMAIN UserRoot
      looksInside == \E i \in roots : Exists(t, UserRoot[i]) /\ Within(Lexical(path), Root(t, i))
  IN  IF ~Fine(c) THEN c
      ELSE IF make /\ \E i \in roots : ~Exists(t, UserRoot[i]) /\ \A j \in takes : i < j THEN Fault("unavailable")
      ELSE IF takes # {} THEN BelowFirst(t, Min(takes), c.at)
      ELSE IF looksInside THEN Fault("outside") ELSE [c EXCEPT !.err = "elsewhere"]
PlacedAt(t, path, make, c) == PlacedBelow(t, path, make, c, {i \in DOMAIN UserRoot : Takes(t, i, c.at)})
NormalizeAbsolute(t, path, make) == PlacedAt(t, path, make, Canonical(t, path, make))
Anywhere(n) == IF n.err = "elsewhere" THEN Found(0, <<>>, n.at) ELSE n
Describe(t, path, make) == Anywhere(NormalizeAbsolute(t, path, make))

(* A path directly below the English name of a directory that is called    *)
(* otherwise here: the file below the real one, when there is no file at   *)
(* the path, or, if a file may be made, no directory.                      *)
SpecialPath(t, path, make) ==
  LET dirs == {i \in DOMAIN UserRoot : path # <<>> /\ Usual[i] = Parent(path)}
      i == Min(dirs)
      moved == Append(UserRoot[i], Last(path))
  IN  IF dirs = {} \/ UserRoot[i] = Usual[i] THEN path
      ELSE IF make THEN IF Holding(t, Real(t, Usual[i])) \/ ~Holding(t, Root(t, i)) THEN path ELSE moved
      ELSE IF Exists(t, path) THEN path ELSE IF Exists(t, moved) THEN moved ELSE Nowhere
ByPath(t, path, make) == Describe(t, SpecialPath(t, path, make), make)

(* A path that is only the directory itself, by either name.               *)
DirectoryAlias(t, path, i) ==
  i # 0 /\ (Lexical(path) = Usual[i] \/ (Exists(t, path) /\ Real(t, path) = Root(t, i)))

(* A directory is given by its key, its path or its own name.              *)
DirectoryGiven(v) ==
  LET same == {i \in DOMAIN UserRoot :
                 \/ v.is = "place" /\ i = v.dir
                 \/ v.is = "path" /\ v.path = UserRoot[i]
                 \/ v.is = "name" /\ v.path = <<Last(UserRoot[i])>>}
  IN  IF Cardinality(same) = 1 THEN Min(same) ELSE 0

-----------------------------------------------------------------------------
(* The tools that take a reference, a place or a path: all that are given  *)
(* must be the same file.  A reference that is none gives way to the       *)
(* others, or to the conversation's file, as does a call that names none.  *)
FirstFault(all) == SelectSeq(all, LAMBDA x : ~Fine(x))[1]
Agreed(all) ==
  IF \E k \in DOMAIN all : ~Fine(all[k]) THEN FirstFault(all)
  ELSE IF \E k \in DOMAIN all : all[k].at # all[1].at THEN Fault("different") ELSE all[1]

HostArgs(t, c) ==
  LET make == Makes(c.tool)
      lone == c.target = Absent /\ c.path = Absent
      byRef == IF c.ref \notin {Absent, Bad} THEN <<ResolveRef(t, c.ref, make)>>
               ELSE IF ~lone THEN <<>>
               ELSE IF favored = Absent \/ c.tool = "write" THEN <<Fault("argument")>>
               ELSE <<ResolveRef(t, favored, make)>>
      byTarget == IF c.target = Absent THEN <<>> ELSE <<ResolveTarget(t, c.target.dir, c.target.path, make)>>
      first == byRef \o byTarget
      special == SpecialPath(t, c.path.path, make)
      file == Describe(t, special, make)
      byPath == IF c.path = Absent THEN <<>>
                ELSE IF c.path.is = "name" THEN <<Fault("argument")>>
                ELSE IF first # <<>> /\ DirectoryAlias(t, c.path.path, first[1].dir) THEN <<>>
                ELSE IF c.tool = "list" /\ file.err = "directory" THEN <<DirectoryAt(t, special)>> ELSE <<file>>
  IN  Bare(Agreed(first \o byPath))

-----------------------------------------------------------------------------
(* The tools for the user's directories.  A file's path in the directory   *)
(* field is taken apart into directory and name.                           *)
Misnamed(c) == [c EXCEPT !.tool = "refused"]
In(c, x) == [c EXCEPT !.location = PlaceIn(x.dir, <<>>), !.filename = NameOf(x.rel)]
TakenApart(c, n) ==
  IF c.location.is # "path" \/ n.err \in {"elsewhere", "missing", "directory"} THEN c
  ELSE IF ~Fine(n) THEN Misnamed(c)
  ELSE [In(c, n) EXCEPT !.path = IF @ = NameOf(n.rel) THEN Absent ELSE @]
LegacyShape(t, c) == TakenApart(c, NormalizeAbsolute(t, c.location.path, FALSE))

(* A reference or a place takes the place of both.                         *)
Bared(c) == [c EXCEPT !.ref = Absent, !.target = Absent]
WithTarget(c, x) ==
  IF c.tool = "refused" \/ (c.ref = Absent /\ c.target = Absent) THEN c
  ELSE IF (c.ref # Absent /\ c.target # Absent) \/ ~Fine(x) \/ x.rel = <<>> THEN Misnamed(c)
  ELSE In(Bared(c), x)
RefOrTarget(t, c, make) ==
  IF c.ref # Absent THEN ResolveRef(t, c.ref, make) ELSE ResolveTarget(t, c.target.dir, c.target.path, make)
TargetTaken(t, c, make) == WithTarget(c, RefOrTarget(t, c, make))
UserTarget(t, c, make) == TargetTaken(t, LegacyShape(t, c), make)

(* A name in a directory: a path counts as one if it reads as being below. *)
NameIn(i, f) ==
  IF f.is = "name" THEN f.path
  ELSE IF Within(f.path, UserRoot[i]) THEN SubSeq(f.path, Len(UserRoot[i]) + 1, Len(f.path)) ELSE <<>>
IsFile(t, path) == Exists(t, path) /\ NodeAt(t, Real(t, path)).is = "file"

(* A name without a directory must be a file in exactly one of them, and a *)
(* directory without a name must hold exactly one file.                    *)
InferDirectory(t, f) ==
  LET having == {i \in DOMAIN UserRoot : IsFile(t, UserRoot[i] \o f.path)}
  IN  IF f.is = "name" /\ Cardinality(having) = 1 THEN Min(having) ELSE 0
InferFile(t, i) ==
  LET files == {p \in DOMAIN t : p # <<>> /\ Parent(p) = Root(t, i) /\ t[p].is = "file"}
  IN  IF Cardinality(files) = 1 THEN NameOf(<<Last(CHOOSE p \in files : TRUE)>>) ELSE Absent

(* A path and a name: the path is the directory, or the file by that name. *)
NamedAlike(c, x) ==
  IF Fine(x) /\ x.dir # 0 /\ Last(c.filename.path) # Last(x.rel) THEN Fault("different") ELSE x
PathAndName(t, c, make) ==
  LET aliases == {i \in DOMAIN UserRoot : DirectoryAlias(t, c.path.path, i)}
  IN  IF aliases # {} THEN ResolveTarget(t, Min(aliases), c.filename.path, make)
      ELSE NamedAlike(c, ByPath(t, c.path.path, make))

ResolveName(t, i, f, make) ==
  IF i = 0 \/ f = Absent THEN Fault("argument")
  ELSE IF NameIn(i, f) = <<>> THEN Fault("argument") ELSE ResolveTarget(t, i, NameIn(i, f), make)
InDirectoryGiven(t, c, i, make) ==
  ResolveName(t, i, IF c.filename = Absent /\ c.location # Absent THEN InferFile(t, i) ELSE c.filename, make)

InUsersHome(x) == IF Fine(x) /\ x.dir = 0 THEN Fault("different") ELSE x
EditTarget(t, c, make, both) ==
  IF c.tool = "refused" THEN Fault("argument")
  ELSE IF c.location = Absent /\ c.path.is = "path" /\ c.filename.is = "name" /\ (~Fine(both) \/ both.dir # 0) THEN both
  ELSE IF c.location = Absent /\ c.filename.is = "path" THEN InUsersHome(Describe(t, c.filename.path, make))
  ELSE InDirectoryGiven(t, c, IF c.location # Absent THEN DirectoryGiven(c.location) ELSE InferDirectory(t, c.filename),
                        make)
EditTargetOf(t, c, make) == EditTarget(t, c, make, PathAndName(t, c, make))
ResolveEditTarget(t, c, make) == EditTargetOf(t, UserTarget(t, c, make), make)

CreatedAs(t, c) ==
  IF c.tool = "refused" THEN Fault("argument")
  ELSE ResolveName(t, DirectoryGiven(c.location),
                   IF c.filename = Absent THEN NameOf(<<DefaultName>>) ELSE c.filename, TRUE)
CreateTarget(t, c) == CreatedAs(t, UserTarget(t, c, TRUE))

(* The older tool reads fields that a reference or a place does not fill.  *)
WriteUserTarget(t, c) ==
  LET i == DirectoryGiven(c.location)
  IN  IF UserTarget(t, c, TRUE) # c \/ i = 0 \/ c.filename.is # "name" THEN Fault("argument")
      ELSE ResolveTarget(t, i, c.filename.path, TRUE)

-----------------------------------------------------------------------------
(* The tool for one edit or append.  What else is said of the file that a  *)
(* reference or a place names must fit it; a place that is a directory     *)
(* ends the call in a panic.                                               *)
HintFits(t, c, x, make) ==
  LET i == DirectoryGiven(c.location)
      f == c.filename
  IN  /\ c.location # Absent =>
           i # 0 /\ (x.dir = i \/ (x.dir = 0 /\ Exists(t, UserRoot[i]) /\ Within(x.at, Root(t, i))))
      /\ f # Absent =>
           x.at = IF f.is = "path" THEN Describe(t, f.path, make).at
                  ELSE IF x.dir # 0 THEN ResolveTarget(t, x.dir, f.path, make).at
                  ELSE IF f.path = <<Last(x.at)>> THEN x.at ELSE Nowhere

Settled(t, c, x, make) ==
  IF ~Fine(x) THEN Misnamed(c)
  ELSE IF ~HintFits(t, c, x, make) THEN Misnamed(c)
  ELSE IF x.rel # <<>> THEN In(Bared(c), x)
  ELSE IF c.ref = Absent THEN Misnamed(c) ELSE [Bared(c) EXCEPT !.path = AtPath(x.at)]
SettledIn(t, c, make) ==
  LET byRef == IF c.ref = Absent THEN <<>> ELSE <<ResolveRef(t, c.ref, make)>>
      byTarget == IF c.target = Absent THEN <<>> ELSE <<ResolveTarget(t, c.target.dir, c.target.path, make)>>
  IN  IF c.tool = "refused" \/ (c.ref = Absent /\ c.target = Absent) THEN c
      ELSE Settled(t, c, Agreed(byRef \o byTarget), make)
Structured(t, c, make) == SettledIn(t, LegacyShape(t, c), make)

(* Without any, it is the conversation's file.                             *)
Continued(c, a) ==
  IF favored = Absent \/ ~Fine(a) THEN Misnamed(c)
  ELSE IF a.rel # <<>> THEN In(c, a) ELSE [c EXCEPT !.path = AtPath(a.at)]
Merged(t, c, make) ==
  LET user == c.location # Absent \/ c.filename # Absent
      x == IF user THEN ResolveEditTarget(t, c, make) ELSE ByPath(t, c.path.path, make)
  IN  IF c.tool = "refused" THEN c
      ELSE IF user \/ c.path.is = "path" THEN IF Fine(x) THEN c ELSE Misnamed(c)
      ELSE IF c.path # Absent THEN c
      ELSE Continued(c, ResolveRef(t, favored, make))

(* A path beside a directory and name must be that directory or that file; *)
(* a bare name in the path's field is a name.                              *)
PathFits(t, c, x, make) ==
  Fine(x) /\ IF c.path.is = "name" THEN UserRoot[x.dir] \o c.path.path = x.at
              ELSE DirectoryAlias(t, c.path.path, x.dir) \/ Lexical(SpecialPath(t, c.path.path, make)) = x.at
Unified(t, c, make) ==
  LET semantic == [c EXCEPT !.path = Absent]
  IN  IF c.tool = "refused" \/ c.path = Absent THEN c
      ELSE IF c.location = Absent /\ c.filename = Absent
        THEN IF c.path.is = "name" THEN [semantic EXCEPT !.filename = c.path] ELSE c
      ELSE IF PathFits(t, c, ResolveEditTarget(t, semantic, make), make) THEN semantic ELSE Misnamed(c)

(* The tools for an explicit path.  An append goes by where its directory  *)
(* is, to the path as it reads, and not over a link; its result tells the  *)
(* path as it reads.                                                       *)
EditFile(t, path) == Bare(ByPath(t, path, FALSE))
AppendFile(t, path) ==
  LET p == SpecialPath(t, path, TRUE)
      q == NearestReal(t, Lexical(p))
  IN  IF q = Nowhere \/ NodeAt(t, p).is = "link" THEN Fault("link") ELSE Found(0, p, q)

EditAt(t, u, make) ==
  IF u.tool = "refused" THEN Fault("argument")
  ELSE IF u.location # Absent \/ u.filename # Absent THEN ResolveEditTarget(t, u, make)
  ELSE IF make /\ Fine(EditFile(t, u.path.path)) THEN AppendFile(t, u.path.path) ELSE EditFile(t, u.path.path)
EditMerged(t, c, make) == EditAt(t, Unified(t, Merged(t, Structured(t, c, make), make), make), make)
Edit(t, c) == EditMerged(t, c, c.tool = "append")

Outcome(t, c) ==
  CASE c.tool \in HostTools -> HostArgs(t, c)
    [] c.tool \in {"edit", "append"} -> Edit(t, c)
    [] c.tool = "edit_user" -> ResolveEditTarget(t, c, FALSE)
    [] c.tool \in {"append_user", "replace"} -> ResolveEditTarget(t, c, TRUE)
    [] c.tool = "create" -> CreateTarget(t, c)
    [] c.tool = "write_user" -> WriteUserTarget(t, c)
    [] c.tool = "edit_file" -> EditFile(t, c.path.path)
    [] c.tool = "append_file" -> AppendFile(t, c.path.path)

-----------------------------------------------------------------------------
(* What the tool can do there: a directory is not read or written, a link  *)
(* not written over, and what is made needs a directory to be in.          *)
Allows(t, tool, p) ==
  IF tool = "stat" THEN TRUE
  ELSE IF tool = "list" THEN Holding(t, p)
  ELSE IF Makes(tool) /\ tool # "replace" THEN Holding(t, Parent(p)) /\ NodeAt(t, p).is \in {"none", "file"}
  ELSE NodeAt(t, p).is = "file"
Touched(t, tool, p) == IF Makes(tool) THEN (p :> [is |-> "file", to |-> <<>>]) @@ t ELSE t

(* The reference that goes with the result; the host works one out for a   *)
(* result that has none.                                                   *)
RefOf(x) == IF ~Fine(x) THEN Absent ELSE IF x.dir = 0 THEN AtPath(x.at) ELSE PlaceIn(x.dir, x.rel)
Tagged(t, p, x) == RefOf(IF x.err = "directory" THEN DirectoryAt(t, p) ELSE x)
TagFile(t, p, make) == Tagged(t, p, Describe(t, p, make))
TagUserFile(t, x) == RefOf(ResolveTarget(t, x.dir, x.rel, FALSE))
Told(t, tool, x) ==
  IF x.dir # 0 THEN TagUserFile(t, x)
    ELSE TagFile(t, IF x.rel = <<>> THEN x.at ELSE x.rel, Makes(tool))

(* Later calls, which the bound counts, only name the conversation's file. *)
MaySay(c) == sayings = 0 \/ (favored # Absent /\ {c.target, c.location, c.filename, c.path} = {Absent})
EndWith(c, x) ==
  LET lands == Fine(x) /\ Allows(house, c.tool, x.at)
  IN  /\ house' = IF lands THEN Touched(house, c.tool, x.at) ELSE house
      /\ served' = [at |-> "over", call |-> c, before |-> house,
                    landed |-> IF lands THEN x.at ELSE Nowhere,
                    told |-> IF lands THEN Told(house', c.tool, x) ELSE Absent]
Serve(c) == sayings' = sayings + 1 /\ UNCHANGED favored /\ EndWith(c, Outcome(house, c))

(* The turn is over: what it told is what the conversation is about.       *)
RememberFile ==
  /\ served.at = "over" /\ served' = Unserved /\ UNCHANGED <<house, sayings>>
  /\ LET guess == IF served.landed = Nowhere THEN Absent
                    ELSE RefOf(Describe(house, served.landed, served.call.tool \in {"create", "write", "write_user"}))
     IN  favored' = IF served.told # Absent THEN served.told ELSE IF guess # Absent THEN guess ELSE favored

(* Other programs rearrange the files.                                     *)
Rearrange ==
  /\ served.at = "idle" /\ sayings \in 1..(MaxSayings - 1) /\ favored # Absent
  /\ house' \in Houses /\ UNCHANGED <<favored, served, sayings>>

SelectorsInit == house \in Houses /\ favored = Absent /\ served = Unserved /\ sayings = 0
SelectorsNext ==
  \/ served.at = "idle" /\ sayings < MaxSayings /\ \E c \in Saying : MaySay(c) /\ Serve(c)
  \/ RememberFile \/ Rearrange
SelectorsSpec == SelectorsInit /\ [][SelectorsNext]_selectorVars

-----------------------------------------------------------------------------
SelectorsTypeOK ==
  /\ house \in [DOMAIN house -> [is : {"none", "file", "dir", "link"}, to : Seq(STRING)]]
  /\ favored.is \in {"none", "place", "path"} /\ sayings \in 0..MaxSayings
  /\ served.at \in {"idle", "over"} /\ (served.at = "idle" => served = Unserved)
  /\ served.told.is \in {"none", "place", "path"}

(* What each selector says of the file p, worked out from the arrangement  *)
(* alone: a path is also the file of that name where the directory it runs *)
(* through really is, and a path of a directory the files below it.        *)
PlaceOf(t, i, name) == NearestReal(t, UserRoot[i] \o name)
PathSays(t, q, p) ==
  \/ p = NearestReal(t, q)
  \/ \E i \in DOMAIN UserRoot :
       \/ q # <<>> /\ Parent(q) = Usual[i] /\ p = PlaceOf(t, i, <<Last(q)>>)
       \/ (q = Usual[i] \/ NearestReal(t, q) = PlaceOf(t, i, <<>>)) /\ Within(p, PlaceOf(t, i, <<>>))
RefSays(t, c, r, p) ==
  LET path == IF r.is = "path" THEN r.path ELSE UserRoot[r.dir] \o r.path
      asPath == c.tool \in {"edit", "append"} /\ (r.is = "path" \/ r.path = <<>>)
  IN  IF asPath THEN PathSays(t, path, p) ELSE p = NearestReal(t, path)
LocationSays(t, l, p) ==
  \/ \E i \in DOMAIN UserRoot :
       /\ l \in {PlaceIn(i, <<>>), AtPath(UserRoot[i]), NameOf(<<Last(UserRoot[i])>>)}
       /\ Within(p, PlaceOf(t, i, <<>>))
  \/ l.is = "path" /\ p = NearestReal(t, l.path)
NameSays(t, f, p) ==
  IF f.is = "path" THEN p = NearestReal(t, f.path)
    ELSE Last(p) = Last(f.path) \/ \E i \in DOMAIN UserRoot : p = PlaceOf(t, i, f.path)

Sure(c) == c.ref \notin {Absent, Bad} \/ c.target # Absent
Silent(c) == {c.ref, c.target, c.location, c.filename, c.path} \subseteq {Absent, Bad}

(* The file that a call reaches is the one that each of its selectors      *)
(* names, whatever they are copies of and whatever links lie between: two  *)
(* that disagree reach nothing, a name alone is the only file of that name *)
(* and a call without any reaches the file of the conversation.  The tools *)
(* for user directories stay in them, but take a reference or a place      *)
(* before a directory and a name; an edit takes a reference to a path or a *)
(* directory as if it were the path; and a file given as the directory     *)
(* replaces the name.  The reference in the result leads back to the file. *)
SelectorsAreHeeded ==
  served.at = "over" /\ served.landed # Nowhere =>
    LET c == served.call
        t == served.before
        p == served.landed
        pathed == c.tool \in HostTools \cup {"edit_file", "append_file"}
                  \/ (c.tool \in {"edit", "append"} /\ c.ref.is # "path")
        overruled == c.tool \in UserTools /\ Sure(c)
    IN  /\ c.ref \notin {Absent, Bad} => RefSays(t, c, c.ref, p)
        /\ c.target # Absent => p = PlaceOf(t, c.target.dir, c.target.path)
        /\ pathed /\ c.path.is = "path" => PathSays(t, c.path.path, p)
        /\ c.location # Absent /\ ~overruled => LocationSays(t, c.location, p)
        /\ c.filename # Absent /\ ~overruled /\ ~(c.location.is = "path" /\ p = NearestReal(t, c.location.path))
             => NameSays(t, c.filename, p)
        /\ c.filename.is = "name" /\ Silent([c EXCEPT !.filename = Absent]) =>
             \A i \in DOMAIN UserRoot : IsFile(t, UserRoot[i] \o c.filename.path) => p = PlaceOf(t, i, c.filename.path)
        /\ Silent(c) => RefSays(t, c, favored, p)
        /\ c.tool \in UserTools => \E i \in DOMAIN UserRoot : Within(p, PlaceOf(t, i, <<>>))
        /\ served.told # Absent => ResolveRef(house, served.told, FALSE).at = p
=============================================================================
