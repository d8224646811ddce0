----------------------------- MODULE FilePaths ------------------------------
(* Where a file tool's path leads: the host resolves what the model names, *)
(* a path or a place in one of the user's directories, to a real location; *)
(* the ticket is asked for that location; and at the invocation both are   *)
(* worked out again before a file is opened.  Links and directories change *)
(* in between, by the hand of other programs.                              *)
EXTENDS Naturals, Sequences, FiniteSets, SequencesExt

CONSTANTS Volumes,      \* arrangements of files, directories and links
          GivenPath,    \* paths a call may name
          UserRoot,     \* the user's directories, in order
          MaxLinks,     \* links followed in a row
          MaxShifts     \* changes by other programs

VARIABLES volume,   \* what is where
          deed,     \* the call
          shifts    \* changes so far
pathVars == <<volume, deed, shifts>>

Nowhere == <<"nowhere">>
NoNode == [is |-> "none", to |-> <<>>]
NodeAt(t, p) == IF p \in DOMAIN t THEN t[p] ELSE NoNode
Holding(t, p) == p = <<>> \/ NodeAt(t, p).is = "dir"
Within(p, root) == IsPrefix(root, p)
Parent(p) == IF p = <<>> THEN p ELSE Front(p)

(* The real location of what exists: every link followed, ".." taken where *)
(* the walk has come to.                                                   *)
Real(t, path) ==
  LET walk[k \in Nat, p \in Seq(STRING)] ==
        IF p = <<>> THEN <<>>
        ELSE LET d == walk[k, Front(p)]
                 n == NodeAt(t, Append(d, Last(p)))
             IN  IF d = Nowhere \/ ~Holding(t, d) THEN Nowhere
                 ELSE IF Last(p) = ".." THEN Parent(d)
                 ELSE IF n.is = "none" \/ (n.is = "link" /\ k = 0) THEN Nowhere
                 ELSE IF n.is = "link" THEN walk[k - 1, n.to] ELSE Append(d, Last(p))
  IN  walk[MaxLinks, path]
Exists(t, p) == Real(t, p) # Nowhere

(* ".." taken away by the look of the path alone.                          *)
Lexical(path) == FoldLeft(LAMBDA p, n : IF n = ".." THEN Parent(p) ELSE Append(p, n), <<>>, path)

(* What does not exist is placed below the nearest ancestor that does,     *)
(* unless the walk up meets "..".                                          *)
NearestReal(t, path) ==
  LET k == CHOOSE i \in 0..Len(path) :
             /\ Exists(t, SubSeq(path, 1, i))
             /\ \A j \in (i + 1)..Len(path) : ~Exists(t, SubSeq(path, 1, j))
      rest == SubSeq(path, k + 1, Len(path))
  IN  IF ".." \in ToSet(rest) THEN Nowhere ELSE Real(t, SubSeq(path, 1, k)) \o rest

(* A file that is to exist must, and be no directory; one that is to be    *)
(* made must have a name.                                                  *)
CanonicalFor(t, path, make) ==
  IF make THEN IF path = <<>> \/ Last(path) = ".." THEN Nowhere ELSE NearestReal(t, path)
    ELSE IF Holding(t, Real(t, path)) THEN Nowhere ELSE Real(t, path)

(* A place in a user's directory must stay inside it.                      *)
InDirectory(t, root, relative, make) ==
  LET r == Real(t, root)
      p == CanonicalFor(t, r \o relative, make)
  IN  IF r = Nowhere \/ p = Nowhere THEN Nowhere ELSE IF Within(p, r) THEN p ELSE Nowhere

(* A path whose real location is in a user's directory is that place; one  *)
(* that only looks as if it were is refused; any other stands for itself.  *)
(* A directory that is missing stops the search for what is to be made.    *)
Takes(t, i, p) == LET r == Real(t, UserRoot[i]) IN r # Nowhere /\ p # r /\ Within(p, r)
ForAbsolute(t, path, make) ==
  LET p == CanonicalFor(t, path, make)
      roots == DOMAIN UserRoot
      stops == {i \in roots : make /\ ~Exists(t, UserRoot[i]) /\ \A j \in 1..(i - 1) : ~Takes(t, j, p)}
      looksInside == \E i \in roots : Exists(t, UserRoot[i]) /\ Within(Lexical(path), Real(t, UserRoot[i]))
  IN  IF p = Nowhere \/ stops # {} THEN Nowhere
      ELSE IF looksInside /\ \A i \in roots : ~Takes(t, i, p) THEN Nowhere
      ELSE p
Normalized(t, d) ==
  IF d.root = Nowhere THEN ForAbsolute(t, d.path, d.kind # "read")
    ELSE InDirectory(t, d.root, d.path, d.kind # "read")

(* What a ticket is asked for: the real place, or, when directories are to *)
(* be made on the way, the nearest one that exists.                        *)
Requirement(t, d, p) ==
  IF d.kind = "make" /\ ~Holding(t, Real(t, Parent(p)))
    THEN LET k == CHOOSE i \in 0..(Len(p) - 1) :
                    /\ Holding(t, Real(t, SubSeq(p, 1, i)))
                    /\ \A j \in (i + 1)..(Len(p) - 1) : ~Holding(t, Real(t, SubSeq(p, 1, j)))
         IN  Real(t, SubSeq(p, 1, k))
    ELSE NearestReal(t, Lexical(p))

PathsInit ==
  /\ volume \in Volumes /\ shifts = 0
  /\ \E k \in {"read", "write", "make"}, p \in GivenPath, r \in ToSet(UserRoot) \cup {Nowhere} :
       /\ r # Nowhere => ".." \notin ToSet(p)
       /\ deed = [kind |-> k, path |-> p, root |-> r, at |-> "new", scope |-> Nowhere, place |-> Nowhere,
                  moved |-> FALSE, landed |-> Nowhere, said |-> "none"]

Stay == UNCHANGED <<volume, shifts>>
Says(what) == deed' = [deed EXCEPT !.at = "over", !.said = what] /\ Stay

(* The location is worked out and asked for; the user agrees.  Nothing is  *)
(* asked for a path that leads nowhere, and the call goes on without.      *)
AskPlace ==
  /\ deed.at = "new" /\ Stay
  /\ LET p == Normalized(volume, deed)
     IN  deed' = [deed EXCEPT !.at = "asked",
                    !.scope = IF p = Nowhere THEN Nowhere ELSE Requirement(volume, deed, p)]

(* It is worked out again when the call runs.                              *)
NormalizeArgs ==
  /\ deed.at = "asked"
  /\ LET p == Normalized(volume, deed)
     IN  IF p = Nowhere THEN Says("target")
           ELSE deed' = [deed EXCEPT !.at = "named", !.place = p] /\ Stay

(* The ticket's scope is resolved too: the location must lie in it as it   *)
(* reads and as it is now.                                                 *)
Covers(t, scope, p) == scope # Nowhere /\ Within(p, scope) /\ Within(p, NearestReal(t, scope))
AuthorizeRead ==
  /\ deed.at = "named" /\ deed.kind = "read"
  /\ LET p == Real(volume, deed.place)
     IN  IF deed.scope = Nowhere THEN Says("ticket")
         ELSE IF p = Nowhere THEN Says("gone")
         ELSE IF ~Covers(volume, deed.scope, p) THEN Says("scope")
         ELSE deed' = [deed EXCEPT !.at = "open", !.place = p, !.moved = FALSE] /\ Stay
AuthorizeWrite ==
  /\ deed.at = "named" /\ deed.kind # "read"
  /\ LET p == NearestReal(volume, Lexical(deed.place))
     IN  IF deed.scope = Nowhere THEN Says("ticket")
         ELSE IF NodeAt(volume, deed.place).is = "link" THEN Says("link")
         ELSE IF ~Covers(volume, deed.scope, p) THEN Says("scope")
         ELSE IF Holding(volume, p) THEN Says("directory")
         ELSE deed' = [deed EXCEPT !.at = "open", !.place = p, !.moved = FALSE] /\ Stay

(* Opening follows whatever the path leads to by then.                     *)
OpensAt(t, p) == IF NodeAt(t, p).is = "link" THEN NearestReal(t, NodeAt(t, p).to) ELSE NearestReal(t, p)
Touch ==
  /\ deed.at = "open" /\ Stay
  /\ LET p == IF deed.kind = "read" THEN Real(volume, deed.place) ELSE OpensAt(volume, deed.place)
         blocked == deed.kind = "write" /\ ~Holding(volume, Real(volume, Parent(deed.place)))
     IN  deed' = [deed EXCEPT !.at = "over", !.landed = IF blocked THEN Nowhere ELSE p,
                    !.said = IF blocked \/ p = Nowhere THEN "failed" ELSE "ok"]

(* Another program changes what one name stands for.                       *)
Shift(t) ==
  /\ deed.at # "over" /\ shifts < MaxShifts
  /\ \E p \in DOMAIN volume : Len(p) = 1 /\ \A q \in DOMAIN volume : ~Within(q, p) => t[q] = volume[q]
  /\ t # volume /\ volume' = t /\ shifts' = shifts + 1 /\ deed' = [deed EXCEPT !.moved = TRUE]

PathsNext ==
  AskPlace \/ NormalizeArgs \/ AuthorizeRead \/ AuthorizeWrite \/ Touch \/ \E t \in Volumes : Shift(t)
PathsSpec == PathsInit /\ [][PathsNext]_pathVars

-----------------------------------------------------------------------------
PathsTypeOK ==
  /\ volume \in Volumes /\ shifts \in 0..MaxShifts
  /\ deed.at \in {"new", "asked", "named", "open", "over"}
  /\ deed.said \in {"none", "target", "ticket", "gone", "scope", "link", "directory", "failed", "ok"}

(* Whatever links the path runs through and whoever changes them up to the *)
(* moment the ticket is looked at: the file that is opened lies where the  *)
(* ticket says, and, named by a user's directory, in that directory; the   *)
(* place asked for is the place used, so a granted call whose world stood  *)
(* still is not refused for its ticket or its scope.                       *)
PathsStayGranted ==
  /\ deed.landed # Nowhere /\ ~deed.moved => deed.landed = deed.place /\ Within(deed.place, deed.scope)
  /\ deed.landed # Nowhere /\ shifts = 0 /\ deed.root # Nowhere =>
       Within(deed.landed, Real(volume, deed.root))
  /\ shifts = 0 => deed.said \notin {"ticket", "scope"}
=============================================================================
