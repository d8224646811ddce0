------------------------------- MODULE MCTools -------------------------------
(* Instances of what a model's turn uses: the provider's stream, the file  *)
(* tools, the desktop control tools, the frames of a shared screen, the    *)
(* one call of any tool, an HTTP request, an archive, the path of a file   *)
(* call and the file that a call is about.                                 *)
(* One run checks them all: "part" is the one that moves, the others rest  *)
(* in an initial state.                                                    *)
EXTENDS ModelStream, FileEdits, DesktopInput, ScreenFrames, ToolCalls,
        HttpFetch, ArchiveJobs, FileSelectors

(* Addresses on two hosts: two pages of one origin, another scheme, and a  *)
(* target no tool fetches.                                                 *)
Addresses == {<<"a", "https", 1>>, <<"a", "https", 2>>, <<"a", "http", 1>>, <<"b", "https", 1>>,
              <<"b", "file", 1>>}
HomePage == <<"a", "https", 1>>

(* Two user directories "a" and "b": each may be missing, "a" may be a link *)
(* to "b", and below them are files, a directory and links back and forth. *)
OfKind(kind) == [is |-> kind, to |-> <<>>]
Link(path) == [is |-> "link", to |-> path]
Directories == <<<<"a">>, <<"b">>>>
Arrangements ==
  {v \in {(<<"a">> :> a) @@ (<<"b">> :> b) @@ (<<"a", "a">> :> aa) @@ (<<"a", "b">> :> ab) @@ (<<"b", "a">> :> ba) :
          a \in {NoNode, OfKind("dir"), Link(<<"b">>)}, b \in {NoNode, OfKind("dir")},
          aa \in {NoNode, OfKind("file"), OfKind("dir"), Link(<<"b">>)}, ab \in {NoNode, Link(<<"b", "a">>)},
          ba \in {NoNode, OfKind("file"), Link(<<"a">>)}} :
     \A p \in DOMAIN v : v[p] # NoNode /\ Len(p) = 2 => v[SubSeq(p, 1, 1)].is = "dir"}
NamedPaths ==
  {<<"a">>, <<"b">>, <<"a", "a">>, <<"a", "b">>, <<"b", "a">>, <<"a", "a", "a">>, <<"a", "b", "a">>,
   <<"a", "a", "..", "b">>, <<"b", "..", "a">>}

(* The first user directory is called "c" by convention; "a" may be a link *)
(* to "b", and files and links lie below all three.                        *)
UsualNames == <<<<"c">>, <<"b">>>>
Homes ==
  {v \in {(<<"a">> :> a) @@ (<<"b">> :> b) @@ (<<"c">> :> c) @@ (<<"a", "n">> :> an) @@ (<<"b", "n">> :> bn)
            @@ (<<"c", "n">> :> cn) @@ (<<"a", "m">> :> am) :
          a \in {OfKind("dir"), Link(<<"b">>)}, b \in {NoNode, OfKind("dir")}, c \in {NoNode, OfKind("dir")},
          an \in {NoNode, OfKind("file"), Link(<<"b", "n">>)}, bn \in {NoNode, OfKind("file")},
          cn \in {NoNode, OfKind("file")}, am \in {NoNode, OfKind("file"), Link(<<"c", "n">>)}} :
     \A p \in DOMAIN v : v[p] # NoNode /\ Len(p) = 2 => v[SubSeq(p, 1, 1)].is = "dir"}

(* The selectors a call may give, two or three at a time.                  *)
Refs == {Bad, PlaceIn(1, <<"n">>), PlaceIn(2, <<"n">>), PlaceIn(1, <<>>), AtPath(<<"a", "n">>), AtPath(<<"c", "n">>)}
Targets == {PlaceIn(1, <<"n">>), PlaceIn(2, <<"n">>), PlaceIn(1, <<>>)}
Locations == {PlaceIn(1, <<>>), AtPath(<<"a">>), AtPath(<<"a", "n">>), NameOf(<<"b">>)}
FileNames == {NameOf(<<"n">>), NameOf(<<"m">>), AtPath(<<"a", "n">>), AtPath(<<"c", "n">>)}
Paths == {AtPath(<<"a", "n">>), AtPath(<<"b", "n">>), AtPath(<<"c", "n">>), AtPath(<<"c">>), AtPath(<<"a">>), NameOf(<<"n">>)}
No == {Absent}
Calling(tools, refs, targets, locations, names, paths) ==
  [tool : tools, ref : refs, target : targets, location : locations, filename : names, path : paths]
Sayings ==
  LET changing == {"edit", "append", "edit_user", "append_user"}
      semantic == changing \cup {"create", "write_user", "replace"}
      any == HostTools \cup changing
  IN  UNION {Calling(any, Refs \cup No, Targets \cup No, No, No, No), Calling(any, Refs \cup No, No, No, No, Paths),
             Calling(any, No, Targets, No, No, Paths), Calling(semantic, Refs, No, Locations, FileNames \cup No, No),
             Calling(semantic, Refs, No, No, FileNames, No), Calling(semantic, No, Targets, Locations \cup No, No, No),
             Calling(semantic, No, Targets, No, FileNames, No), Calling(semantic, No, No, Locations \cup No, FileNames \cup No, No),
             Calling(changing, No, No, Locations \cup No, FileNames \cup No, Paths),
             Calling({"edit_file", "append_file"}, No, No, No, No, Paths)}

VARIABLE part

(* Screens begin either with one stream left to start or with one frame    *)
(* and one request left.                                                   *)
BoundedFrames ==
  \/ made = <<>> /\ shots.starts = MaxStarts - 1 /\ shots.asked = 0
  \/ /\ Len(made) = MaxFrames - 1 /\ Cardinality({made[n][2] : n \in DOMAIN made}) = 1
     /\ made[1][2] = CHOOSE p \in Picture : TRUE
     /\ shots.starts = 0 /\ shots.asked = MaxObservations - 1

(* Operations that send one event that holds nothing, after the same       *)
(* checks, are alike: only an invocation overlaps another call, and none   *)
(* that the portal refuses.  Windows and macOS begin with a share under    *)
(* control.                                                                *)
PortalRefuses == {op \in Operations : platform = "portal" /\ PortalCall(op, <<>>) = <<Step("refuse")>>}
AlikeOps == {"set value", "focus", "window", "move"} \cup PortalRefuses
BoundedInput == acts.calls > 1 => \A a \in Actor : acting[a].op \notin AlikeOps

(* Callers are alike: the first call is the first one's.                   *)
FirstActor == acts.calls <= 1 => acting["a2"] = Idle

(* A third edit is made only if no other program saves.                    *)
BoundedFiles == edits + saves <= 3

(* Files are alike: at first the conversation is about no file or the      *)
(* first one.                                                              *)
FirstFile == active \in {NoFile, "f"}

ToolsInit ==
  /\ part \in {"stream", "files", "input", "frames", "calls", "web", "archive", "paths", "selectors"}
  /\ StreamInit /\ FilesInit /\ InputInit /\ FramesInit
  /\ part # "stream" => adapter = "openai"
  /\ IF part = "files" THEN FirstFile ELSE active = NoFile
  /\ part # "input" => platform = "x11"
  /\ part # "input" \/ platform \in {"windows", "macos"} => sharing /\ inputGate
  /\ IF part = "frames" THEN BoundedFrames
       ELSE server = "x11" /\ made = <<>> /\ shots.starts = 0 /\ shots.asked = 0
  /\ part # "calls" => call = CHOOSE c \in CallArguments : c.tool = "browser.status"
  /\ CallsInit
  /\ IF part = "web" THEN WebInit ELSE WebStarts({"GET"}, {FALSE}, {{}})
  /\ IF part = "archive" THEN ArchiveInit ELSE ArchiveStarts({NoArchive})
  /\ IF part = "paths" THEN PathsInit
       ELSE volume = <<>> /\ shifts = 0 /\ deed = [at |-> "over"]
  /\ IF part = "selectors" THEN SelectorsInit
       ELSE house = <<>> /\ favored = Absent /\ served = Unserved /\ sayings = 0

Wire == <<streamVars, webVars>>
Desktop == <<inputVars, frameVars>>
Disk == <<fileVars, archiveVars, pathVars, selectorVars>>
OnlyStream == UNCHANGED <<Desktop, Disk, callVars, webVars>>
OnlyWeb == UNCHANGED <<Desktop, Disk, callVars, streamVars>>
OnlyFiles == UNCHANGED <<Desktop, Wire, callVars, archiveVars, pathVars, selectorVars>>
OnlyArchive == UNCHANGED <<Desktop, Wire, callVars, fileVars, pathVars, selectorVars>>
OnlyPaths == UNCHANGED <<Desktop, Wire, callVars, fileVars, archiveVars, selectorVars>>
OnlySelectors == UNCHANGED <<Desktop, Wire, callVars, fileVars, archiveVars, pathVars>>
OnlyInput == UNCHANGED <<Wire, Disk, callVars, frameVars>>
OnlyFrames == UNCHANGED <<Wire, Disk, callVars, inputVars>>
OnlyCalls == UNCHANGED <<Wire, Disk, Desktop>>

ToolsNext ==
  /\ UNCHANGED part
  /\ \/ part = "stream" /\ StreamNext /\ OnlyStream
     \/ part = "files" /\ FilesNext /\ OnlyFiles /\ BoundedFiles'
     \/ part = "input" /\ InputNext /\ OnlyInput /\ BoundedInput' /\ FirstActor'
     \/ part = "frames" /\ FramesNext /\ OnlyFrames
     \/ part = "calls" /\ CallsNext /\ OnlyCalls
     \/ part = "web" /\ WebNext /\ OnlyWeb
     \/ part = "archive" /\ ArchiveNext /\ OnlyArchive
     \/ part = "paths" /\ PathsNext /\ OnlyPaths
     \/ part = "selectors" /\ SelectorsNext /\ OnlySelectors

toolsVars == <<part, Wire, Disk, Desktop, callVars>>
ToolsSpec == ToolsInit /\ [][ToolsNext]_toolsVars

-----------------------------------------------------------------------------
(* The variables of the part that moves keep their types.                  *)
ToolsTypeOK ==
  /\ part = "stream" => StreamTypeOK
  /\ part = "files" => FilesTypeOK
  /\ part = "input" => InputTypeOK
  /\ part = "frames" => FramesTypeOK
  /\ part = "calls" => CallsTypeOK
  /\ part = "web" => WebTypeOK
  /\ part = "archive" => ArchiveTypeOK
  /\ part = "paths" => PathsTypeOK
  /\ part = "selectors" => SelectorsTypeOK

(* Nothing is touched, asked, fetched or opened beyond what was granted.   *)
CallsStayGranted == EffectsAreAsked /\ FetchStaysGranted /\ (part = "paths" => PathsStayGranted)

(* What the tools leave in the user's files is what they were asked to put *)
(* there, whole, in the file that every selector of the call names.        *)
FilesStayTrue == EditsStayTrue /\ ArchiveIsWhole /\ SelectorsAreHeeded
=============================================================================
