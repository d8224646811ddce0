------------------------------ MODULE DesktopTree ------------------------------
(***************************************************************************)
(* How the model reads the windows of the desktop: the availability probe  *)
(* and the one cached connection to the accessibility registry that every  *)
(* live operation shares (desktop-linux-atspi), the native look at a       *)
(* window that keeps nothing (desktop-windows, desktop-macos), the bounded *)
(* walk over objects that may vanish, and the snapshots of tool-desktop,   *)
(* which tell a reader only what changed since the snapshot that it names. *)
(*                                                                         *)
(* A window's tree gives every node that is there its value; one window.   *)
(***************************************************************************)
EXTENDS Naturals, FiniteSets, Functions

CONSTANTS
  Element,      \* nodes of the window
  Secret,       \* those whose value is masked
  Value,        \* what a node may show
  Reader,       \* calls that may run at the same time
  MaxReads,     \* bound on the calls
  MaxChanges,   \* bound on the changes of the tree
  MaxRestarts   \* bound on the restarts of the registry

ASSUME TreeAssumption ==
  /\ Secret \subseteq Element /\ "mask" \notin Value
  /\ MaxReads \in Nat /\ MaxChanges \in Nat /\ MaxRestarts \in Nat

VARIABLES
  probe,     \* what is known of the registry; "native" where there is none
  registry,  \* how often it was started
  conn,      \* the cached connection, 0 for none
  conns,     \* the registry that each connection so far was made to
  connLock,  \* who has the mutex of the cache
  failed,    \* connections that an operation has failed on
  given_up,  \* has a call been aborted before it dropped its connection?
  window,    \* the tree that is there
  record,    \* the last snapshot: its number, generation and nodes
  walking,   \* what every call does
  view,      \* what its reader made of the snapshots so far
  reads      \* calls, changes and snapshots so far

treeVars == <<probe, registry, conn, conns, connLock, failed, given_up, window, record, walking,
              view, reads>>

Tree == UNION {[ns -> Value] : ns \in SUBSET Element}
NoNodes == [n \in {} |-> "mask"]
NoConn == 0
NotWalking == [step |-> "none", conn |-> NoConn, since |-> 0, nodes |-> NoNodes]
NoView == [id |-> 0, nodes |-> NoNodes, read |-> NoNodes]
NoCaller == "nobody"

TreeInit ==
  /\ probe \in {"unknown", "native"} /\ registry = 1
  /\ conn = NoConn /\ conns = <<>> /\ connLock = NoCaller /\ failed = {} /\ given_up = FALSE
  /\ window \in Tree /\ record = [id |-> 0, generation |-> 0, nodes |-> NoNodes]
  /\ walking = [r \in Reader |-> NotWalking] /\ view = [r \in Reader |-> NoView]
  /\ reads = [calls |-> 0, changes |-> 0]

TreeTypeOK ==
  /\ probe \in {"unknown", "probing", "available", "unavailable", "native"}
  /\ conn \in {NoConn} \cup DOMAIN conns /\ failed \subseteq DOMAIN conns
  /\ connLock \in Reader \cup {NoCaller} /\ window \in Tree
  /\ record.nodes \in Tree /\ record.generation <= record.id
  /\ \A r \in Reader : view[r].id <= record.id /\ walking[r].since <= record.id

Bus == <<probe, registry, conn, conns, connLock, failed, given_up>>

-----------------------------------------------------------------------------
(* One probe, on a thread of its own.                                      *)
ProbeStarts ==
  /\ probe = "unknown" /\ probe' \in {"probing", "unavailable"}
  /\ UNCHANGED <<registry, conn, conns, connLock, failed, given_up, window, record, walking,
                 view, reads>>
ProbeEnds ==
  /\ probe = "probing" /\ probe' \in {"available", "unavailable"}
  /\ UNCHANGED <<registry, conn, conns, connLock, failed, given_up, window, record, walking,
                 view, reads>>

FirstStep == IF probe = "native" THEN "look" ELSE "connect"
(* A call names the snapshot that its reader has, or one that it has seen  *)
(* elsewhere, or none.                                                     *)
ReadBegins(r) ==
  /\ walking[r] = NotWalking /\ reads.calls < MaxReads /\ probe \in {"available", "native"}
  /\ \E since \in {0, view[r].id} \cup {view[q].id : q \in Reader} :
       walking' = [walking EXCEPT ![r] = [NotWalking EXCEPT !.step = FirstStep, !.since = since]]
  /\ reads' = [reads EXCEPT !.calls = @ + 1]
  /\ UNCHANGED <<Bus, window, record, view>>

ReadStep(r, step) == walking' = [walking EXCEPT ![r].step = step]
ReadEnds(r) == walking' = [walking EXCEPT ![r] = NotWalking]

(* The cached connection, or a new one, made under the mutex.              *)
Connect(r) ==
  /\ walking[r].step = "connect" /\ connLock = NoCaller
  /\ IF conn # NoConn
       THEN walking' = [walking EXCEPT ![r].step = "walk", ![r].conn = conn] /\ UNCHANGED connLock
       ELSE ReadStep(r, "connecting") /\ connLock' = r
  /\ UNCHANGED <<probe, registry, conn, conns, failed, given_up, window, record, view, reads>>
Connected(r) ==
  /\ walking[r].step = "connecting" /\ connLock' = NoCaller
  /\ \/ /\ conns' = [k \in 1 .. Cardinality(DOMAIN conns) + 1 |->
                       IF k \in DOMAIN conns THEN conns[k] ELSE registry]
        /\ conn' = Cardinality(DOMAIN conns) + 1
        /\ walking' = [walking EXCEPT ![r].step = "walk", ![r].conn = conn']
     \/ ReadEnds(r) /\ UNCHANGED <<conn, conns>>
  /\ UNCHANGED <<probe, registry, failed, given_up, window, record, view, reads>>

(* The walk: what vanishes on the way is left out with all below it, and   *)
(* so is what is beyond the bounds.                                        *)
Walk(r) ==
  /\ walking[r].step = "walk" /\ conns[walking[r].conn] = registry
  /\ \E ns \in SUBSET DOMAIN window :
       walking' = [walking EXCEPT ![r].step = "record", ![r].nodes = Restrict(window, ns)]
  /\ UNCHANGED <<Bus, window, record, view, reads>>

(* A call that acts on an element goes the same way: the element changes,  *)
(* with what hangs on it, or it cannot do that.                            *)
ActOnElement(r) ==
  /\ walking[r].step = "walk" /\ conns[walking[r].conn] = registry
  /\ reads.changes < MaxChanges /\ reads' = [reads EXCEPT !.changes = @ + 1]
  /\ window # NoNodes /\ window' \in Tree
  /\ ReadEnds(r)
  /\ UNCHANGED <<Bus, record, view>>
ElementRefuses(r) ==
  /\ walking[r].step = "walk" /\ conns[walking[r].conn] = registry
  /\ ReadEnds(r)
  /\ UNCHANGED <<Bus, window, record, view, reads>>

(* A failure of the bus, or no end in time: the cache is emptied.          *)
WalkFailsOnly(r) ==
  /\ walking[r].step = "walk" /\ failed' = failed \cup {walking[r].conn}
  /\ ReadEnds(r)
  /\ UNCHANGED <<probe, registry, conn, conns, connLock, given_up, window, record, view, reads>>
WalkFails(r) ==
  /\ walking[r].step = "walk" /\ failed' = failed \cup {walking[r].conn}
  /\ ReadStep(r, "drop")
  /\ UNCHANGED <<probe, registry, conn, conns, connLock, given_up, window, record, view, reads>>
Invalidate(r) ==
  /\ walking[r].step = "drop" /\ connLock = NoCaller /\ conn' = NoConn /\ ReadEnds(r)
  /\ UNCHANGED <<probe, registry, conns, connLock, failed, given_up, window, record, view, reads>>

(* Windows and macOS: every call looks the window up again, then walks     *)
(* down from it, or follows the child numbers that an element's id is made *)
(* of to whatever is at that place by now, which may refuse.  None waits.  *)
Locate(r) ==
  /\ walking[r].step = "look"
  /\ ReadStep(r, "seen") \/ ReadEnds(r)
  /\ UNCHANGED <<Bus, window, record, view, reads>>
NativeNodes == {Restrict(window, ns) : ns \in SUBSET DOMAIN window}
ReadNative(r) ==
  /\ walking[r].step = "seen"
  /\ \E nodes \in NativeNodes :
       walking' = [walking EXCEPT ![r].step = "record", ![r].nodes = nodes]
  /\ UNCHANGED <<Bus, window, record, view, reads>>
ActByRoute(r) ==
  /\ walking[r].step = "seen"
  /\ reads.changes < MaxChanges /\ reads' = [reads EXCEPT !.changes = @ + 1]
  /\ window # NoNodes /\ window' \in Tree
  /\ ReadEnds(r)
  /\ UNCHANGED <<Bus, record, view>>
RouteRefuses(r) ==
  /\ walking[r].step = "seen" /\ ReadEnds(r)
  /\ UNCHANGED <<Bus, window, record, view, reads>>

-----------------------------------------------------------------------------
(* The snapshot: the changes since the one that the reader named, when it  *)
(* is the last one, else everything.  Values are compared before they are  *)
(* masked.                                                                 *)
Masked(nodes) == [n \in DOMAIN nodes |-> IF n \in Secret THEN "mask" ELSE nodes[n]]
Previous(r) == record.id # 0 /\ walking[r].since = record.id
Generation(r) == IF Previous(r) THEN record.generation + 1 ELSE 1
ChangedNodes(r) ==
  LET nodes == walking[r].nodes
  IN IF ~Previous(r) THEN nodes
       ELSE Restrict(nodes, {n \in DOMAIN nodes :
                               n \in DOMAIN record.nodes => record.nodes[n] # nodes[n]})
RemovedNodes(r) ==
  IF Previous(r) THEN DOMAIN record.nodes \ DOMAIN walking[r].nodes ELSE {}

(* The reader's side: a first generation replaces what it has, another one *)
(* changes what it had got with the snapshot that it named.                *)
Held(r) == CHOOSE nodes \in {view[q].nodes : q \in {p \in Reader : view[p].id = walking[r].since}} : TRUE
Rebuilt(r) ==
  IF Generation(r) = 1 THEN Masked(ChangedNodes(r))
    ELSE LET kept == Restrict(Held(r), DOMAIN Held(r) \ (RemovedNodes(r) \cup DOMAIN ChangedNodes(r)))
             new == Masked(ChangedNodes(r))
         IN [n \in DOMAIN kept \cup DOMAIN new |-> IF n \in DOMAIN new THEN new[n] ELSE kept[n]]

Records(r) ==
  /\ walking[r].step = "record"
  /\ record' = [id |-> record.id + 1, generation |-> Generation(r), nodes |-> walking[r].nodes]
  /\ view' = [view EXCEPT ![r] = [id |-> record.id + 1, nodes |-> Rebuilt(r),
                                  read |-> walking[r].nodes]]
  /\ ReadEnds(r)
  /\ UNCHANGED <<Bus, window, reads>>

(* The turn is aborted where its call waits.                               *)
ReadAborted(r) ==
  /\ walking[r].step \notin {"none", "look", "seen"} /\ ReadEnds(r)
  /\ connLock' = IF connLock = r THEN NoCaller ELSE connLock
  /\ given_up' = (given_up \/ walking[r].step = "drop")
  /\ UNCHANGED <<probe, registry, conn, conns, failed, window, record, view, reads>>

WindowChanges ==
  /\ reads.changes < MaxChanges /\ reads' = [reads EXCEPT !.changes = @ + 1]
  /\ window' \in Tree
  /\ UNCHANGED <<Bus, record, walking, view>>
RegistryRestarts ==
  /\ probe # "native" /\ registry <= MaxRestarts /\ registry' = registry + 1
  /\ UNCHANGED <<probe, conn, conns, connLock, failed, given_up, window, record, walking, view, reads>>

TreeNext ==
  \/ ProbeStarts \/ ProbeEnds \/ WindowChanges \/ RegistryRestarts
  \/ \E r \in Reader :
       \/ ReadBegins(r) \/ Connect(r) \/ Connected(r) \/ Walk(r) \/ WalkFails(r)
       \/ ActOnElement(r) \/ ElementRefuses(r)
       \/ Locate(r) \/ ReadNative(r) \/ ActByRoute(r) \/ RouteRefuses(r)
       \/ Invalidate(r) \/ Records(r) \/ ReadAborted(r)

TreeSpec == TreeInit /\ [][TreeNext]_treeVars

-----------------------------------------------------------------------------
(* DeltaRebuildsTree: whatever calls of several readers crossed, a reader  *)
(* that applies what it is told to the snapshot that it named has the tree *)
(* that was read for it, with the secrets masked.                          *)
DeltaRebuildsTree == \A r \in Reader : view[r].nodes = Masked(view[r].read)

(* ConnectionHeals: a connection that an operation has failed on is not in *)
(* the cache, unless the call that failed is about to empty it or was      *)
(* aborted before: a registry that comes back is found again.              *)
ConnectionHeals ==
  conn \in failed => given_up \/ \E r \in Reader : walking[r].step = "drop"

(* TreeIsTold: what readers learn of the desktop's windows is what was     *)
(* there, through a registry that may be restarted under them.             *)
TreeIsTold == DeltaRebuildsTree /\ ConnectionHeals
================================================================================
