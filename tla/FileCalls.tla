----------------------------- MODULE FileCalls ------------------------------
(* The tools on files, archives, repositories and URLs.  The filesystem    *)
(* tools ask for, and check, the place a path leads to at that moment; the *)
(* others ask for the path as it was written.                              *)
EXTENDS CallTerms

OnPath(cap, id) == Need(cap, "path", id)
Place(v) == IF Present(v.one) THEN v.at[v.one] ELSE v.one

(* Without a ticket the path is not even looked at.                        *)
OnPlace(v, cap, more) ==
  Guarded(Present(v.one), OnPath(cap, Place(v)), Valid(more), <<>>)
ListDir(v) == OnPlace(v, "FilesystemRead", TRUE)
Stat(v) == OnPlace(v, "FilesystemRead", TRUE)
ReadFile(v) == OnPlace(v, "FilesystemRead", TRUE)
ReadRange(v) == OnPlace(v, "FilesystemRead", v.args)
SearchText(v) == OnPlace(v, "FilesystemRead", v.args)
Glob(v) == OnPlace(v, "FilesystemRead", v.args)
Patch(v) == OnPlace(v, "FilesystemWrite", v.args)

(* A write that may make directories is about the nearest one there is; no *)
(* write goes through a link.                                              *)
Beneath(v) == IF v.image THEN "parent" ELSE Place(v)
WriteFile(v) ==
  Tool(When(Present(v.one), {OnPath("FilesystemWrite", Beneath(v))}),
       Valid(v.args) \o Valid(Present(v.one)) \o Barred(Place(v) # v.one)
         \o Holds({OnPath("FilesystemWrite", Beneath(v))})
         \o Touches({OnPath("FilesystemWrite", Beneath(v))}))

(* Several requirements are demanded one after the other, before anything  *)
(* is touched.                                                             *)
HoldsEach(ns) == [i \in DOMAIN ns |-> Holds({ns[i]})[1]]
TouchesEach(ns) == [i \in DOMAIN ns |-> Touches({ns[i]})[1]]
InAll(ns, checks) == checks \o HoldsEach(ns) \o TouchesEach(ns)
Needed(ns) == {ns[i] : i \in DOMAIN ns}

ArchiveList(v) == Plain(Present(v.one), OnPath("FilesystemRead", v.one))
Moved(from, to) ==
  <<OnPath("FilesystemRead", from), OnPath("FilesystemCreate", to), OnPath("FilesystemWrite", to)>>
(* "one" is the archive, "two" the destination.                            *)
ArchiveExtract(v) ==
  Compound(IF v.one # None /\ v.two # None THEN Needed(Moved(v.one, v.two))
             ELSE When(v.two # None, {OnPath("FilesystemWrite", v.two)}),
           When(v.two # None, {OnPath("FilesystemWrite", v.two)}),
           InAll(Moved(v.one, v.two), Valid(Present(v.one)) \o Valid(Present(v.two))))
(* "one" is the archive, "two" the directory its files come from.          *)
ArchiveCreate(v) ==
  Compound(IF v.one # None /\ v.two # None THEN Needed(Moved(v.two, v.one))
             ELSE When(v.one # None, {OnPath("FilesystemCreate", v.one)}),
           When(v.one # None, {OnPath("FilesystemCreate", v.one)}),
           Valid(Present(v.one)) \o Valid(Present(v.two)) \o HoldsEach(Moved(v.two, v.one))
             \o Valid(v.args) \o TouchesEach(Moved(v.two, v.one)))

(* "one" is the repository.  A remote's host is read from the repository's *)
(* own configuration, after the tickets for the repository; git's own      *)
(* arguments are built, and refused, last.                                 *)
InRepo(v) == <<OnPath("FilesystemRead", v.one), OnPath("FilesystemWrite", v.one)>>
Remote == Need("NetworkConnect", "host", "remote")
RemoteHost(v) == Valid(Fits(v.two))
Argv(v) == Valid(v.args)
GitRead(v) ==
  Tool(When(v.one # None, {OnPath("FilesystemRead", v.one)}),
       Valid(Present(v.one)) \o Holds({OnPath("FilesystemRead", v.one)}) \o Argv(v)
         \o Touches({OnPath("FilesystemRead", v.one)}))
GitChange(v) ==
  Compound(When(v.one # None, Needed(InRepo(v))), When(v.one # None, {InRepo(v)[2]}),
           Valid(Present(v.one)) \o HoldsEach(InRepo(v)) \o Argv(v) \o TouchesEach(InRepo(v)))
GitSync(v) ==
  Compound(When(v.one # None, Needed(InRepo(v))), When(v.one # None, {InRepo(v)[2]}),
           Valid(Present(v.one)) \o HoldsEach(InRepo(v)) \o RemoteHost(v) \o Holds({Remote})
             \o Argv(v) \o TouchesEach(InRepo(v)) \o Touches({Remote}))

(* "one" is the URL's origin; "two", when the server answers with a        *)
(* redirect, the origin it leads to.                                       *)
Origin(id) == Need("NetworkConnect", "host", id)
HttpRequest(v) ==
  Tool(When(Present(v.one), {Origin(v.one)}),
       Valid(Present(v.one)) \o Valid(v.args) \o Holds({Origin(v.one)}) \o Touches({Origin(v.one)})
         \o IF Present(v.two) THEN Holds({Origin(v.two)}) \o Touches({Origin(v.two)}) ELSE <<>>)

FileTool == {"filesystem.list", "filesystem.stat", "filesystem.read", "filesystem.read_range",
             "filesystem.search_text", "filesystem.glob", "filesystem.patch", "filesystem.write",
             "archive.list", "archive.extract", "archive.create", "git.status", "git.commit",
             "git.fetch", "http.get"}
FileCall(t, v) ==
  CASE t = "filesystem.list" -> ListDir(v)
    [] t = "filesystem.stat" -> Stat(v)
    [] t = "filesystem.read" -> ReadFile(v)
    [] t = "filesystem.read_range" -> ReadRange(v)
    [] t = "filesystem.search_text" -> SearchText(v)
    [] t = "filesystem.glob" -> Glob(v)
    [] t = "filesystem.patch" -> Patch(v)
    [] t = "filesystem.write" -> WriteFile(v)
    [] t = "archive.list" -> ArchiveList(v)
    [] t = "archive.extract" -> ArchiveExtract(v)
    [] t = "archive.create" -> ArchiveCreate(v)
    [] t = "git.status" -> GitRead(v)
    [] t = "git.commit" -> GitChange(v)
    [] t = "git.fetch" -> GitSync(v)
    [] t = "http.get" -> HttpRequest(v)
=============================================================================
