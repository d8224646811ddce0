--------------------------- MODULE ToolParts_proofs ---------------------------
(***************************************************************************)
(* Theorems about the model's tools: what they show it of the user's       *)
(* desktop, and what they ask before they touch anything.                  *)
(*                                                                         *)
(* The element tree.  A reader drops the mutex of the bus while it walks   *)
(* the tree, and records what it read later; what it answers is a delta    *)
(* against the last snapshot recorded.  That the delta rebuilds the tree   *)
(* rests on the last snapshot being the one some reader's view was made    *)
(* from, and on every view older than it being known by its number.        *)
(*                                                                         *)
(* The frames of the shared screen.  Three mutexes are taken and dropped   *)
(* in turn by the worker that makes frames, by the observers that answer   *)
(* with them and by the stop.  A frame is new exactly when nothing newer   *)
(* was handed out, because whoever is between the mutex and its answer     *)
(* holds the mutex and what waits in the slot is newer than what it took.  *)
(* A restore token lives in one hand, one write that waits, or the store;  *)
(* one that was turned down stays only if the store refused to delete it.  *)
(*                                                                         *)
(* One call of any tool.  What a tool does is a sequence of steps; that    *)
(* every effect in it has its ticket before it, and that the tickets it    *)
(* demands are those it asks for, is shown once for the ways sequences are *)
(* put together and then for each of the tools.  Both survive the taking   *)
(* of steps; the rest is what the world may do in between.                 *)
(*                                                                         *)
(* The input of the desktop.  An operation is a sequence of steps too, the *)
(* checks and then up to four calls of the backend.  That it looks at the  *)
(* gate between its calls and lets go what it presses is shown of one call *)
(* of each backend, of the calls of each operation, and of their joining;  *)
(* it is true of whatever is left of a plan, so that a stop finds at most  *)
(* one backend call ahead and a key that is down has a call that waits.    *)
(***************************************************************************)
EXTENDS DesktopInput, DesktopTree, ScreenFrames, ToolCalls, FiniteSetTheorems, TLAPS

-----------------------------------------------------------------------------
(* The element tree.                                                       *)
ReadSteps == {"none", "connect", "connecting", "walk", "record", "drop", "look", "seen"}
ReadRecord == [step : ReadSteps, conn : Nat, since : Nat, nodes : Tree]
ViewRecord == [id : Nat, nodes : UNION {[ns -> Value \cup {"mask"}] : ns \in SUBSET Element}, read : Tree]

(* Types, and that a connection in use was made.                           *)
BusInv ==
  /\ probe \in {"unknown", "probing", "available", "unavailable", "native"}
  /\ \E c \in Nat : DOMAIN conns = 1 .. c
  /\ conn \in {NoConn} \cup DOMAIN conns /\ failed \subseteq DOMAIN conns
  /\ connLock \in Reader \cup {NoCaller} /\ window \in Tree
  /\ walking \in [Reader -> ReadRecord]
  /\ \A r \in Reader : walking[r].step = "walk" => walking[r].conn \in DOMAIN conns
(* The last snapshot is the one that somebody's view was made from.        *)
SnapshotInv ==
  /\ record \in [id : Nat, generation : Nat, nodes : Tree] /\ record.generation <= record.id
  /\ view \in [Reader -> ViewRecord]
  /\ \A r \in Reader : view[r].id <= record.id /\ walking[r].since <= record.id
  /\ record.id # 0 => record.generation # 0 /\ \E r \in Reader : view[r].id = record.id
  /\ \A r \in Reader : record.id # 0 /\ view[r].id = record.id => view[r].read = record.nodes
TreeInv == BusInv /\ SnapshotInv /\ TreeIsTold
LEMMA RestrictedTree ==
  ASSUME NEW t \in Tree, NEW ns \in SUBSET DOMAIN t
  PROVE  Restrict(t, ns) \in Tree
<1>1. PICK ms \in SUBSET Element : t \in [ms -> Value] BY DEF Tree
<1>2. ns \in SUBSET Element /\ Restrict(t, ns) \in [ns -> Value] BY <1>1 DEF Restrict
<1> QED BY <1>2 DEF Tree

LEMMA NoNodesTree == NoNodes \in Tree
<1>1. NoNodes \in [{} -> Value] BY DEF NoNodes
<1> QED BY <1>1 DEF Tree

LEMMA TreeInitially == TreeInit => TreeInv
<1> SUFFICES ASSUME TreeInit PROVE TreeInv OBVIOUS
<1> USE NoNodesTree DEF TreeInit
<1>1. BusInv
  <2>1. NotWalking \in ReadRecord BY DEF NotWalking, ReadRecord, ReadSteps, NoConn
  <2>2. DOMAIN conns = 1 .. 0 OBVIOUS
  <2>3. \A r \in Reader : walking[r].step # "walk" BY DEF NotWalking
  <2>4. walking \in [Reader -> ReadRecord] BY <2>1
  <2> QED BY <2>2, <2>3, <2>4 DEF BusInv
<1>2. SnapshotInv
  <2>1. NoNodes \in [{} -> Value \cup {"mask"}] BY DEF NoNodes
  <2>2. NoNodes \in UNION {[ns -> Value \cup {"mask"}] : ns \in SUBSET Element} BY <2>1
  <2>3. NoView \in ViewRecord BY <2>2 DEF NoView, ViewRecord
  <2>4. \A r \in Reader : view[r] = NoView /\ walking[r] = NotWalking OBVIOUS
  <2>5. NoView.id = 0 /\ NotWalking.since = 0 BY DEF NoView, NotWalking
  <2>6. view \in [Reader -> ViewRecord] BY <2>3
  <2> QED BY <2>4, <2>5, <2>6 DEF SnapshotInv
<1>3. DeltaRebuildsTree
  <2>1. NoNodes = Masked(NoNodes) BY DEF NoNodes, Masked
  <2> QED BY <2>1 DEF DeltaRebuildsTree, NoView
<1>4. ConnectionHeals BY DEF ConnectionHeals
<1> QED BY <1>1, <1>2, <1>3, <1>4 DEF TreeInv, TreeIsTold

(* A call goes on without a snapshot: only the bus and its own record move. *)
LEMMA CallsMove ==
  ASSUME TreeInv, NEW r \in Reader, NEW rec \in ReadRecord,
         walking' = [walking EXCEPT ![r] = rec], rec.since <= record.id,
         rec.step = "walk" => rec.conn \in DOMAIN conns',
         \E c \in Nat : DOMAIN conns' = 1 .. c, DOMAIN conns \subseteq DOMAIN conns',
         conn' \in {NoConn} \cup DOMAIN conns', failed' \subseteq DOMAIN conns',
         connLock' \in Reader \cup {NoCaller}, window' \in Tree, UNCHANGED <<probe, record, view>>,
         ConnectionHeals'
  PROVE  TreeInv'
<1>1. BusInv' BY DEF TreeInv, BusInv
<1>2. SnapshotInv' BY DEF TreeInv, SnapshotInv, BusInv
<1>3. DeltaRebuildsTree' BY DEF TreeInv, TreeIsTold, DeltaRebuildsTree
<1> QED BY <1>1, <1>2, <1>3 DEF TreeInv, TreeIsTold

(* What a call may do but take a snapshot.                                  *)
ReaderActs(r) ==
  \/ ReadBegins(r) \/ Connect(r) \/ Connected(r) \/ Walk(r) \/ WalkFails(r)
  \/ ActOnElement(r) \/ ElementRefuses(r) \/ Invalidate(r) \/ ReadAborted(r)
  \/ Locate(r) \/ ReadNative(r) \/ ActByRoute(r) \/ RouteRefuses(r)

LEMMA CallActs ==
  ASSUME TreeInv, NEW r \in Reader, ReaderActs(r) PROVE TreeInv'
<1> DEFINE q == walking[r]
<1>0. /\ q \in ReadRecord /\ walking \in [Reader -> ReadRecord] /\ NotWalking \in ReadRecord
      /\ record.id \in Nat /\ q.since <= record.id /\ NotWalking.step = "none"
      /\ NotWalking.since <= record.id /\ NotWalking.step # "walk"
  BY NoNodesTree DEF TreeInv, BusInv, SnapshotInv, NotWalking, ReadRecord, ReadSteps, NoConn
<1> HIDE DEF q
<1>a. /\ \E c \in Nat : DOMAIN conns = 1 .. c
      /\ conn \in {NoConn} \cup DOMAIN conns /\ failed \subseteq DOMAIN conns
      /\ connLock \in Reader \cup {NoCaller} /\ window \in Tree
      /\ q.step = "walk" => q.conn \in DOMAIN conns
  BY DEF TreeInv, BusInv, q
<1>b. ConnectionHeals BY DEF TreeInv, TreeIsTold
<1>1. CASE ReadBegins(r)
  <2>1. PICK since \in {0, view[r].id} \cup {view[p].id : p \in Reader} :
          walking' = [walking EXCEPT ![r] = [NotWalking EXCEPT !.step = FirstStep, !.since = since]]
    BY <1>1 DEF ReadBegins
  <2>2. since \in Nat /\ since <= record.id BY <1>0 DEF TreeInv, SnapshotInv, ViewRecord
  <2> DEFINE rec == [NotWalking EXCEPT !.step = FirstStep, !.since = since]
  <2>f. FirstStep \in {"connect", "look"} BY DEF FirstStep
  <2>3. rec \in ReadRecord /\ rec.since = since /\ rec.step # "walk"
    BY <1>0, <2>2, <2>f DEF NotWalking, ReadRecord, ReadSteps
  <2>4. ConnectionHeals'
    BY <1>0, <1>1, <1>b, <2>1 DEF ReadBegins, ConnectionHeals, Bus, ReadRecord, NotWalking
  <2> HIDE DEF rec
  <2> QED BY <1>1, <1>a, <2>1, <2>2, <2>3, <2>4, CallsMove DEF ReadBegins, Bus, rec
<1>2. CASE Connect(r)
  <2>1. CASE conn # NoConn
    <3>1. walking' = [walking EXCEPT ![r] = [q EXCEPT !.step = "walk", !.conn = conn]] /\ UNCHANGED connLock
      BY <1>2, <2>1, <1>0 DEF Connect, q
    <3> DEFINE rec == [q EXCEPT !.step = "walk", !.conn = conn]
    <3>2. conn \in DOMAIN conns /\ conn \in Nat BY <1>a, <2>1
    <3>3. rec \in ReadRecord /\ rec.since = q.since /\ rec.step = "walk" /\ rec.conn = conn
      BY <1>0, <3>2 DEF ReadRecord, ReadSteps
    <3>4. ConnectionHeals'
      BY <1>0, <1>2, <1>b, <3>1, <3>3 DEF Connect, ConnectionHeals, q
    <3> HIDE DEF rec
    <3> QED BY <1>0, <1>2, <1>a, <3>1, <3>2, <3>3, <3>4, CallsMove DEF Connect, rec
  <2>2. CASE conn = NoConn
    <3>1. walking' = [walking EXCEPT ![r] = [q EXCEPT !.step = "connecting"]] /\ connLock' = r
      BY <1>2, <2>2, <1>0 DEF Connect, ReadStep, q
    <3> DEFINE rec == [q EXCEPT !.step = "connecting"]
    <3>2. rec \in ReadRecord /\ rec.since = q.since /\ rec.step # "walk"
      BY <1>0 DEF ReadRecord, ReadSteps
    <3>3. ConnectionHeals'
      BY <1>0, <1>2, <1>b, <3>1, <3>2 DEF Connect, ConnectionHeals, q
    <3> HIDE DEF rec
    <3> QED BY <1>0, <1>2, <1>a, <3>1, <3>2, <3>3, CallsMove DEF Connect, rec
  <2> QED BY <2>1, <2>2
<1>3. CASE Connected(r)
  <2>1. CASE ReadEnds(r) /\ UNCHANGED <<conn, conns>>
    <3>1. ConnectionHeals'
      BY <1>0, <1>3, <1>b, <2>1 DEF Connected, ReadEnds, ConnectionHeals, q, NotWalking
    <3>2. /\ walking' = [walking EXCEPT ![r] = NotWalking] /\ connLock' = NoCaller
          /\ UNCHANGED <<conn, conns, failed, window, probe, record, view>>
      BY <1>3, <2>1 DEF Connected, ReadEnds
    <3> QED BY <1>0, <1>a, <3>1, <3>2, CallsMove
  <2>2. CASE ~(ReadEnds(r) /\ UNCHANGED <<conn, conns>>)
    <3>1. PICK c \in Nat : DOMAIN conns = 1 .. c BY <1>a
    <3>0. c + 1 \in Nat OBVIOUS
    <3>2. Cardinality(DOMAIN conns) = c BY <3>1, FS_Interval
    <3>3. /\ conn' = c + 1 /\ DOMAIN conns' = 1 .. c + 1
          /\ walking' = [walking EXCEPT ![r] = [q EXCEPT !.step = "walk", !.conn = c + 1]]
      BY <1>0, <1>3, <2>2, <3>2 DEF Connected, q
    <3> DEFINE rec == [q EXCEPT !.step = "walk", !.conn = c + 1]
    <3>4. rec \in ReadRecord /\ rec.since = q.since /\ rec.step = "walk" /\ rec.conn = c + 1
      BY <1>0, <3>0 DEF ReadRecord, ReadSteps
    <3>5. c + 1 \notin failed' /\ failed' \subseteq DOMAIN conns' /\ DOMAIN conns \subseteq DOMAIN conns'
          /\ c + 1 \in DOMAIN conns'
      BY <1>3, <1>a, <3>1, <3>3 DEF Connected
    <3>6. ConnectionHeals' BY <3>3, <3>5 DEF ConnectionHeals
    <3>7. \E d \in Nat : DOMAIN conns' = 1 .. d BY <3>0, <3>3
    <3>8. connLock' \in Reader \cup {NoCaller} /\ window' \in Tree /\ UNCHANGED <<probe, record, view>>
      BY <1>3, <1>a DEF Connected
    <3> HIDE DEF rec
    <3> QED BY <1>0, <3>3, <3>4, <3>5, <3>6, <3>7, <3>8, CallsMove DEF rec
  <2> QED BY <2>1, <2>2
<1>4. CASE Walk(r)
  <2>1. PICK ns \in SUBSET DOMAIN window :
          walking' = [walking EXCEPT ![r] = [q EXCEPT !.step = "record", !.nodes = Restrict(window, ns)]]
    BY <1>0, <1>4 DEF Walk, q
  <2> DEFINE rec == [q EXCEPT !.step = "record", !.nodes = Restrict(window, ns)]
  <2>2. Restrict(window, ns) \in Tree BY <1>a, RestrictedTree
  <2>3. rec \in ReadRecord /\ rec.since = q.since /\ rec.step # "walk"
    BY <1>0, <2>2 DEF ReadRecord, ReadSteps
  <2>4. ConnectionHeals'
    BY <1>0, <1>4, <1>b, <2>1, <2>3 DEF Walk, Bus, ConnectionHeals, q
  <2> HIDE DEF rec
  <2> QED BY <1>0, <1>4, <1>a, <2>1, <2>3, <2>4, CallsMove DEF Walk, Bus, rec
<1>5. CASE WalkFails(r)
  <2>1. walking' = [walking EXCEPT ![r] = [q EXCEPT !.step = "drop"]] /\ failed' = failed \cup {q.conn}
    BY <1>0, <1>5 DEF WalkFails, ReadStep, q
  <2> DEFINE rec == [q EXCEPT !.step = "drop"]
  <2>2. rec \in ReadRecord /\ rec.since = q.since /\ rec.step = "drop"
    BY <1>0 DEF ReadRecord, ReadSteps
  <2>3. ConnectionHeals' BY <1>0, <2>1, <2>2 DEF ConnectionHeals
  <2>4. q.conn \in DOMAIN conns BY <1>5, <1>a DEF WalkFails, q
  <2> HIDE DEF rec
  <2> QED BY <1>0, <1>5, <1>a, <2>1, <2>2, <2>3, <2>4, CallsMove DEF WalkFails, rec
<1>6. CASE ActOnElement(r) \/ ElementRefuses(r)
  <2>1. /\ walking' = [walking EXCEPT ![r] = NotWalking] /\ window' \in Tree /\ q.step = "walk"
        /\ UNCHANGED <<Bus, record, view>>
    BY <1>6, <1>a DEF ActOnElement, ElementRefuses, ReadEnds, q
  <2>2. ConnectionHeals'
    BY <1>0, <1>b, <2>1 DEF Bus, ConnectionHeals, q
  <2> QED BY <1>0, <1>a, <2>1, <2>2, CallsMove DEF Bus
<1>7. CASE Invalidate(r)
  <2>1. walking' = [walking EXCEPT ![r] = NotWalking] /\ conn' = NoConn
    BY <1>7 DEF Invalidate, ReadEnds
  <2>2. NoConn \notin failed' BY <1>7, <1>a DEF Invalidate, NoConn
  <2>3. ConnectionHeals' BY <2>1, <2>2 DEF ConnectionHeals
  <2> QED BY <1>0, <1>7, <1>a, <2>1, <2>3, CallsMove DEF Invalidate
<1>8. CASE ReadAborted(r)
  <2>1. walking' = [walking EXCEPT ![r] = NotWalking] /\ given_up' = (given_up \/ q.step = "drop")
    BY <1>8 DEF ReadAborted, ReadEnds, q
  <2>2. ConnectionHeals'
    BY <1>0, <1>8, <1>b, <2>1 DEF ReadAborted, ConnectionHeals, q
  <2>3. connLock' \in Reader \cup {NoCaller} BY <1>8, <1>a DEF ReadAborted
  <2> QED BY <1>0, <1>8, <1>a, <2>1, <2>2, <2>3, CallsMove DEF ReadAborted
<1>9. CASE Locate(r)
  <2>1. CASE ReadEnds(r)
    <3>1. walking' = [walking EXCEPT ![r] = NotWalking] /\ q.step = "look"
          /\ UNCHANGED <<Bus, window, record, view>>
      BY <1>9, <2>1 DEF Locate, ReadEnds, q
    <3>2. ConnectionHeals' BY <1>0, <1>b, <3>1 DEF Bus, ConnectionHeals, q
    <3> QED BY <1>0, <1>a, <3>1, <3>2, CallsMove DEF Bus
  <2>2. CASE ~ReadEnds(r)
    <3> DEFINE rec == [q EXCEPT !.step = "seen"]
    <3>1. walking' = [walking EXCEPT ![r] = rec] /\ UNCHANGED <<Bus, window, record, view>>
          /\ q.step = "look"
      BY <1>0, <1>9, <2>2 DEF Locate, ReadStep, q
    <3>2. rec \in ReadRecord /\ rec.since = q.since /\ rec.step # "walk"
      BY <1>0 DEF ReadRecord, ReadSteps
    <3>3. ConnectionHeals' BY <1>0, <1>b, <3>1, <3>2 DEF Bus, ConnectionHeals, q
    <3> HIDE DEF rec
    <3> QED BY <1>0, <1>a, <3>1, <3>2, <3>3, CallsMove DEF Bus
  <2> QED BY <2>1, <2>2
<1>10. CASE ReadNative(r)
  <2>1. PICK nodes \in NativeNodes :
          walking' = [walking EXCEPT ![r] = [q EXCEPT !.step = "record", !.nodes = nodes]]
    BY <1>0, <1>10 DEF ReadNative, q
  <2> DEFINE rec == [q EXCEPT !.step = "record", !.nodes = nodes]
  <2>2. nodes \in Tree BY <1>a, RestrictedTree DEF NativeNodes
  <2>3. rec \in ReadRecord /\ rec.since = q.since /\ rec.step # "walk"
    BY <1>0, <2>2 DEF ReadRecord, ReadSteps
  <2>4. ConnectionHeals'
    BY <1>0, <1>10, <1>b, <2>1, <2>3 DEF ReadNative, Bus, ConnectionHeals, q
  <2> HIDE DEF rec
  <2> QED BY <1>0, <1>10, <1>a, <2>1, <2>3, <2>4, CallsMove DEF ReadNative, Bus, rec
<1>11. CASE ActByRoute(r) \/ RouteRefuses(r)
  <2>1. /\ walking' = [walking EXCEPT ![r] = NotWalking] /\ window' \in Tree /\ q.step = "seen"
        /\ UNCHANGED <<Bus, record, view>>
    BY <1>11, <1>a DEF ActByRoute, RouteRefuses, ReadEnds, q
  <2>2. ConnectionHeals'
    BY <1>0, <1>b, <2>1 DEF Bus, ConnectionHeals, q
  <2> QED BY <1>0, <1>a, <2>1, <2>2, CallsMove DEF Bus
<1> QED BY <1>1, <1>2, <1>3, <1>4, <1>5, <1>6, <1>7, <1>8, <1>9, <1>10, <1>11 DEF ReaderActs

(* What a reader makes of the changes since the last snapshot, if that is  *)
(* the one it has, is the masked tree.                                     *)
LEMMA DeltaApplies ==
  ASSUME NEW r \in Reader, NEW nodes \in Tree, walking[r].nodes = nodes,
         record.nodes \in Tree, Previous(r), Generation(r) # 1, Held(r) = Masked(record.nodes)
  PROVE  Rebuilt(r) = Masked(nodes)
<1> DEFINE old == record.nodes
           changed == {n \in DOMAIN nodes : n \in DOMAIN old => old[n] # nodes[n]}
           kept == Restrict(Held(r), DOMAIN Held(r) \ (RemovedNodes(r) \cup DOMAIN ChangedNodes(r)))
           new == Masked(ChangedNodes(r))
<1>1. ChangedNodes(r) = [n \in changed |-> nodes[n]] BY DEF ChangedNodes, Restrict
<1>2. RemovedNodes(r) = DOMAIN old \ DOMAIN nodes BY DEF RemovedNodes
<1>3. Held(r) = [n \in DOMAIN old |-> IF n \in Secret THEN "mask" ELSE old[n]] BY DEF Masked
<1>4. new = [n \in changed |-> IF n \in Secret THEN "mask" ELSE nodes[n]] BY <1>1 DEF Masked
<1>5. kept = [n \in DOMAIN old \ ((DOMAIN old \ DOMAIN nodes) \cup changed) |->
                IF n \in Secret THEN "mask" ELSE old[n]]
  BY <1>1, <1>2, <1>3 DEF Restrict
<1>6. Rebuilt(r) = [n \in DOMAIN kept \cup DOMAIN new |-> IF n \in DOMAIN new THEN new[n] ELSE kept[n]]
  BY DEF Rebuilt
<1>7. DOMAIN kept \cup DOMAIN new = DOMAIN nodes BY <1>4, <1>5
<1>8. \A n \in DOMAIN nodes : (IF n \in DOMAIN new THEN new[n] ELSE kept[n])
                                = IF n \in Secret THEN "mask" ELSE nodes[n]
  BY <1>4, <1>5
<1> HIDE DEF kept, new
<1> QED BY <1>6, <1>7, <1>8 DEF Masked

LEMMA RecordTells ==
  ASSUME TreeInv, NEW r \in Reader, Records(r) PROVE TreeInv'
<1> DEFINE q == walking[r]
<1>0. /\ q \in ReadRecord /\ q.nodes \in Tree /\ walking \in [Reader -> ReadRecord] /\ NotWalking \in ReadRecord
      /\ NotWalking.since = 0 /\ NotWalking.step = "none" /\ q.step = "record"
  BY NoNodesTree DEF TreeInv, BusInv, NotWalking, ReadRecord, ReadSteps, NoConn, Records
<1>1. /\ record \in [id : Nat, generation : Nat, nodes : Tree] /\ record.generation <= record.id
      /\ view \in [Reader -> ViewRecord]
      /\ \A p \in Reader : view[p].id <= record.id /\ view[p].id \in Nat /\ walking[p].since <= record.id /\ walking[p].since \in Nat
      /\ record.id # 0 => record.generation # 0 /\ \E p \in Reader : view[p].id = record.id
      /\ \A p \in Reader : record.id # 0 /\ view[p].id = record.id => view[p].read = record.nodes
      /\ \A p \in Reader : view[p].nodes = Masked(view[p].read)
  BY DEF TreeInv, SnapshotInv, TreeIsTold, DeltaRebuildsTree, BusInv, ReadRecord, ViewRecord
<1>2. /\ record' = [id |-> record.id + 1, generation |-> Generation(r), nodes |-> q.nodes]
      /\ view' = [view EXCEPT ![r] = [id |-> record.id + 1, nodes |-> Rebuilt(r), read |-> q.nodes]]
      /\ walking' = [walking EXCEPT ![r] = NotWalking]
      /\ UNCHANGED <<Bus, window>>
  BY DEF Records, ReadEnds
<1> HIDE DEF q
<1>3. Generation(r) \in Nat /\ Generation(r) # 0 /\ Generation(r) <= record.id + 1
  BY <1>1 DEF Generation
<1>4. Rebuilt(r) = Masked(q.nodes)
  <2>1. CASE ~Previous(r)
    BY <2>1 DEF Rebuilt, Generation, ChangedNodes, q
  <2>2. CASE Previous(r)
    <3>1. Generation(r) # 1 /\ record.id # 0 /\ walking[r].since = record.id
      BY <1>1, <2>2 DEF Previous, Generation
    <3>2. {view[p].nodes : p \in {p \in Reader : view[p].id = walking[r].since}} = {Masked(record.nodes)}
      BY <1>1, <3>1
    <3>3. Held(r) = Masked(record.nodes) BY <3>2 DEF Held
    <3> QED BY <1>0, <1>1, <2>2, <3>1, <3>3, DeltaApplies DEF q
  <2> QED BY <2>1, <2>2
<1>5. Masked(q.nodes) \in UNION {[ns -> Value \cup {"mask"}] : ns \in SUBSET Element}
  <2>1. PICK ns \in SUBSET Element : q.nodes \in [ns -> Value] BY <1>0 DEF Tree
  <2>2. Masked(q.nodes) \in [ns -> Value \cup {"mask"}] BY <2>1 DEF Masked
  <2> QED BY <2>2
<1>6. BusInv'
  BY <1>0, <1>2 DEF TreeInv, BusInv, Bus
<1>7. SnapshotInv'
  <2>1. record' \in [id : Nat, generation : Nat, nodes : Tree] /\ record'.generation <= record'.id
        /\ record'.id = record.id + 1 /\ record'.generation # 0 /\ record'.nodes = q.nodes
    BY <1>0, <1>1, <1>2, <1>3
  <2>2. view' \in [Reader -> ViewRecord] BY <1>0, <1>1, <1>2, <1>4, <1>5 DEF ViewRecord
  <2>3. view'[r].id = record.id + 1 /\ view'[r].read = q.nodes /\ \A p \in Reader : p # r => view'[p] = view[p]
    BY <1>1, <1>2
  <2>4. \A p \in Reader : view'[p].id <= record'.id /\ walking'[p].since <= record'.id
    BY <1>0, <1>1, <1>2, <2>1, <2>3
  <2>5. \A p \in Reader : view'[p].id = record'.id => view'[p].read = record'.nodes
    BY <1>1, <2>1, <2>3
  <2> QED BY <2>1, <2>2, <2>3, <2>4, <2>5 DEF SnapshotInv
<1>8. DeltaRebuildsTree' BY <1>1, <1>2, <1>4 DEF DeltaRebuildsTree
<1>9. ConnectionHeals'
  BY <1>0, <1>2 DEF TreeInv, TreeIsTold, ConnectionHeals, Bus, q
<1> QED BY <1>6, <1>7, <1>8, <1>9 DEF TreeInv, TreeIsTold

LEMMA TreeStep == TreeInv /\ [TreeNext]_treeVars => TreeInv'
<1> SUFFICES ASSUME TreeInv, [TreeNext]_treeVars PROVE TreeInv' OBVIOUS
<1>1. CASE ProbeStarts \/ ProbeEnds \/ WindowChanges \/ RegistryRestarts \/ UNCHANGED treeVars
  <2>1. /\ UNCHANGED <<conn, conns, connLock, failed, given_up, record, walking, view>>
        /\ probe' \in {"unknown", "probing", "available", "unavailable", "native"} /\ window' \in Tree
    BY <1>1 DEF ProbeStarts, ProbeEnds, WindowChanges, RegistryRestarts, treeVars, Bus, TreeInv, BusInv
  <2>2. BusInv' BY <2>1 DEF TreeInv, BusInv
  <2>3. SnapshotInv' BY <2>1 DEF TreeInv, SnapshotInv
  <2>4. TreeIsTold' BY <2>1 DEF TreeInv, TreeIsTold, DeltaRebuildsTree, ConnectionHeals
  <2> QED BY <2>2, <2>3, <2>4 DEF TreeInv
<1>2. CASE \E r \in Reader : ReaderActs(r) \/ Records(r) BY <1>2, CallActs, RecordTells
<1> QED BY <1>1, <1>2 DEF TreeNext, ReaderActs

(* Every variable of the window reader keeps its type.                     *)
THEOREM TreeTypeCorrect == TreeSpec => []TreeTypeOK
<1>1. TreeInv => TreeTypeOK BY DEF TreeInv, BusInv, SnapshotInv, TreeTypeOK
<1> QED BY <1>1, TreeInitially, TreeStep, PTL DEF TreeSpec

(* What the model is told of a window is what the window was when it was  *)
(* read: a delta rebuilds the tree it was made from, and a connection that *)
(* broke is not kept.                                                      *)
THEOREM TreeTold == TreeSpec => []TreeIsTold
<1>1. TreeInv => TreeIsTold BY DEF TreeInv
<1> QED BY <1>1, TreeInitially, TreeStep, PTL DEF TreeSpec

-----------------------------------------------------------------------------
(* The frames of the shared screen.                                        *)
StartSteps == {"none", "load", "restore", "clear", "ask", "store", "open", "ready", "live", "stop"}
Holding == {"wait", "put", "get"}
StreamShape ==
  /\ server \in {"x11", "portal"}
  /\ shots \in [starts : Nat, tokens : Nat, asked : Nat, revoked : Nat]
  /\ starting \in [Stream -> [step : StartSteps, token : Nat]]
  /\ granted \subseteq Stream /\ left \subseteq Stream /\ unclosed \subseteq granted
  /\ worker \in [Stream -> {"none", "running", "ended"}]
  /\ slot \in [Stream -> [frame : Nat, error : BOOLEAN]]
FrameShape ==
  /\ made \in Seq(Stream \X Picture) /\ Len(made) <= MaxFrames
  /\ session \in [active : BOOLEAN, paused : BOOLEAN, shown : Nat, handed : Nat]
  /\ stopper \in {"none", "lock", "join"} /\ lock \in Observer \cup {NoHolder, Stopper}
  /\ observing \in [Observer -> [step : {"none", "lock"} \cup Holding, frame : Nat]]
  /\ answer \in [kind : {"none", "frame", "unchanged"}, frame : Nat, before : Nat]

(* A token that is yet to be written is in nobody's hands and not in the   *)
(* store, so it was not turned down; and one in the store that was turned  *)
(* down is about to be deleted, or the store refused to.                   *)
TokenInv ==
  /\ token \in 0 .. shots.tokens /\ valid \subseteq 1 .. shots.tokens /\ rejected \subseteq 1 .. shots.tokens
  /\ undeleted \subseteq 1 .. shots.tokens
  /\ writes \subseteq Stream \X (0 .. shots.tokens)
  /\ \A s \in Stream : starting[s].token <= shots.tokens
                       /\ (starting[s].step = "restore" => starting[s].token # 0)
  /\ \A w \in writes : w[2] # 0 =>
       w[2] \notin rejected /\ w[2] # token /\ \A s \in Stream : starting[s].token # w[2]
  /\ \A w, v \in writes : w[2] = v[2] /\ w[2] # 0 => w = v
  /\ token \in rejected \ undeleted => \E w \in writes : w[2] = 0

(* Where the stream of a start is.                                         *)
OwnerInv ==
  /\ StreamsHaveOwners
  /\ \A s \in Stream :
       /\ worker[s] = "running" => s \in granted
       /\ starting[s].step \in {"load", "restore", "clear", "ask"} => s \notin granted
       /\ starting[s].step \in {"store", "open"} => s \in granted
       /\ server = "x11" => worker[s] = "none" /\ slot[s].frame = 0 /\ starting[s].step \in {"none", "live"}
  /\ starting["share"].step # "none" => ~session.active /\ stopper = "none"

(* Whoever is between the mutex and the answer has the mutex, and a frame  *)
(* that is newer than the last one handed out; what waits in the slot is   *)
(* newer still.                                                            *)
LockInv ==
  /\ \A o \in Observer : observing[o].step \in Holding => lock = o
  /\ stopper = "join" => lock = Stopper
FrameInv ==
  /\ \A s \in Stream : slot[s].frame <= Len(made)
  /\ session.shown = session.handed /\ session.handed <= Len(made)
  /\ \A o \in Observer : observing[o].step \in {"put", "get"} =>
       /\ observing[o].frame <= Len(made) /\ session.handed < observing[o].frame
       /\ slot["share"].frame # NoFrame => observing[o].frame < slot["share"].frame
  /\ slot["share"].frame # NoFrame => session.handed < slot["share"].frame
  /\ answer.kind = "unchanged" => {answer.frame, answer.before} \subseteq 1 .. Len(made)
  /\ UnchangedIsHonest

FramesInv == StreamShape /\ FrameShape /\ TokenInv /\ OwnerInv /\ LockInv /\ FrameInv

LEMMA FramesInitially == FramesInit => FramesInv
<1> SUFFICES ASSUME FramesInit PROVE FramesInv OBVIOUS
<1> USE DEF FramesInit
<1>1. PICK n \in 0 .. MaxFrames : made \in [1 .. n -> {"still"} \X Picture] OBVIOUS
<1>2. made \in Seq(Stream \X Picture) /\ Len(made) = n /\ n \in Nat /\ n <= MaxFrames
  BY <1>1, FramesAssumption DEF Stream
<1>3. shots \in [starts : Nat, tokens : {0}, asked : Nat, revoked : Nat] BY FramesAssumption
<1>4. StreamShape /\ FrameShape
  <2>1. /\ starting \in [Stream -> [step : StartSteps, token : Nat]]
        /\ worker \in [Stream -> {"none", "running", "ended"}]
        /\ slot \in [Stream -> [frame : Nat, error : BOOLEAN]]
    BY DEF NoStart, StartSteps, EmptySlot, NoFrame
  <2>2. /\ session \in [active : BOOLEAN, paused : BOOLEAN, shown : Nat, handed : Nat]
        /\ observing \in [Observer -> [step : {"none", "lock"} \cup Holding, frame : Nat]]
        /\ answer \in [kind : {"none", "frame", "unchanged"}, frame : Nat, before : Nat]
    BY DEF NoSession, NotAsking, NoAnswer, NoFrame
  <2> QED BY <1>2, <1>3, <2>1, <2>2 DEF FrameShape, StreamShape
<1>5. TokenInv BY <1>3 DEF TokenInv, NoStart
<1>6. OwnerInv BY DEF OwnerInv, StreamsHaveOwners, Owned, NoStart, EmptySlot, NoFrame, Stream
<1>7. LockInv BY DEF LockInv, NotAsking, Holding
<1>8. FrameInv
  <2>1. /\ \A s \in Stream : slot[s].frame = 0
        /\ answer.kind # "unchanged" /\ answer.kind # "frame" /\ session.shown = 0 /\ session.handed = 0 
        /\ \A o \in Observer : observing[o].step \notin {"put", "get"}
        /\ "share" \in Stream
    BY DEF NotAsking, NoSession, EmptySlot, NoFrame, NoAnswer, Stream
  <2> HIDE DEF FramesInit
  <2>2. UnchangedIsHonest BY <2>1 DEF UnchangedIsHonest, NoFrame
  <2> QED BY <1>2, <2>1, <2>2 DEF FrameInv, NoFrame
<1> QED BY <1>4, <1>5, <1>6, <1>7, <1>8 DEF FramesInv

LEMMA StreamShapeKept == FramesInv /\ FramesNext => StreamShape'
<1> SUFFICES ASSUME FramesInv, FramesNext PROVE StreamShape' OBVIOUS
<1>0. StreamShape /\ TokenInv BY DEF FramesInv
<1>a. /\ starting \in [Stream -> [step : StartSteps, token : Nat]]
      /\ NoStart \in [step : StartSteps, token : Nat] /\ EmptySlot \in [frame : Nat, error : BOOLEAN]
  BY <1>0 DEF StreamShape, NoStart, StartSteps, EmptySlot, NoFrame
<1>b. shots \in [starts : Nat, tokens : Nat, asked : Nat, revoked : Nat] BY <1>0 DEF StreamShape
<1>c. \A s \in Stream, step \in StartSteps :
        StartGoes(s, step) => starting' \in [Stream -> [step : StartSteps, token : Nat]]
  BY <1>a DEF StartGoes
<1>d. \A s \in Stream : StartEnds(s) => starting' \in [Stream -> [step : StartSteps, token : Nat]]
  BY <1>a DEF StartEnds
<1>e. \A s \in Stream :
        /\ StreamStops(s) => /\ worker' \in [Stream -> {"none", "running", "ended"}]
                             /\ slot' \in [Stream -> [frame : Nat, error : BOOLEAN]]
                             /\ granted' \subseteq Stream /\ unclosed' \subseteq granted'
        /\ left \cup {s} \subseteq Stream /\ granted \cup {s} \subseteq Stream
  <2> TAKE s \in Stream
  <2>1. StreamStops(s) => /\ worker' \in [Stream -> {"none", "running", "ended"}]
                          /\ slot' \in [Stream -> [frame : Nat, error : BOOLEAN]]
    BY <1>0, <1>a DEF StreamShape, StreamStops
  <2>2. StreamStops(s) => granted' \subseteq Stream /\ unclosed' \subseteq granted'
    BY <1>0 DEF StreamShape, StreamStops
  <2> QED BY <1>0, <2>1, <2>2 DEF StreamShape
<1>s. StartSteps = {"none", "load", "restore", "clear", "ask", "store", "open", "ready", "live", "stop"}
      /\ "share" \in Stream /\ "still" \in Stream
  BY DEF StartSteps, Stream
<1>1. ASSUME NEW s \in Stream, StartStream(s) PROVE StreamShape'
  <2>1. starting' \in [Stream -> [step : StartSteps, token : Nat]]
    BY <1>c, <1>s, <1>1 DEF StartStream
  <2>2. shots' \in [starts : Nat, tokens : Nat, asked : Nat, revoked : Nat]
    BY <1>b, <1>1 DEF StartStream
  <2> QED BY <1>0, <1>1, <2>1, <2>2 DEF StreamShape, StartStream
<1>2. ASSUME NEW s \in Stream, LoadToken(s) PROVE StreamShape'
  <2>1. PICK found \in {token, 0} :
          starting' = [starting EXCEPT ![s] = [step |-> IF found = 0 THEN "ask" ELSE "restore",
                                               token |-> found]]
    BY <1>2 DEF LoadToken
  <2>2. found \in Nat BY <1>0, <1>b DEF TokenInv
  <2>3. starting' \in [Stream -> [step : StartSteps, token : Nat]] BY <1>a, <1>s, <2>1, <2>2
  <2> QED BY <1>0, <1>2, <2>3 DEF StreamShape, LoadToken
<1>3. ASSUME NEW s \in Stream, Restore(s) \/ UserApproves(s) PROVE StreamShape'
  <2>1. CASE Grant(s)
    <3>1. shots' \in [starts : Nat, tokens : Nat, asked : Nat, revoked : Nat]
      BY <1>b, <2>1 DEF Grant
    <3>2. starting' \in [Stream -> [step : StartSteps, token : Nat]]
          /\ granted' \subseteq Stream /\ granted \subseteq granted'
      BY <1>c, <1>e, <1>s, <2>1 DEF Grant
    <3> QED BY <1>0, <1>3, <3>1, <3>2 DEF StreamShape, Restore, UserApproves
  <2>2. CASE ~Grant(s)
    <3>1. starting' \in [Stream -> [step : StartSteps, token : Nat]] /\ UNCHANGED <<shots, granted>>
      BY <1>c, <1>s, <1>3, <2>2 DEF Restore, UserApproves
    <3> QED BY <1>0, <1>3, <3>1 DEF StreamShape, Restore, UserApproves
  <2> QED BY <2>1, <2>2
<1>4. ASSUME NEW s \in Stream, TokenKept(s) \/ NegotiationFails(s) \/ StreamReady(s) PROVE StreamShape'
  <2>1. starting' \in [Stream -> [step : StartSteps, token : Nat]]
    BY <1>c, <1>d, <1>s, <1>4 DEF TokenKept, NegotiationFails, StreamReady
  <2> QED BY <1>0, <1>4, <2>1 DEF StreamShape, TokenKept, NegotiationFails, StreamReady
<1>5. ASSUME NEW s \in Stream, OpenStream(s) PROVE StreamShape'
  <2>1. starting' \in [Stream -> [step : StartSteps, token : Nat]]
    BY <1>c, <1>d, <1>s, <1>5 DEF OpenStream
  <2>2. worker' \in [Stream -> {"none", "running", "ended"}] /\ left' \subseteq Stream
    BY <1>0, <1>e, <1>5 DEF OpenStream, StreamShape
  <2> QED BY <1>0, <1>5, <2>1, <2>2 DEF StreamShape, OpenStream
<1>6. ASSUME NEW s \in Stream, NotReady(s) PROVE StreamShape'
  <2>1. /\ worker' \in [Stream -> {"none", "running", "ended"}]
        /\ slot' \in [Stream -> [frame : Nat, error : BOOLEAN]]
        /\ granted' \subseteq Stream /\ unclosed' \subseteq granted'
    BY <1>e, <1>6 DEF NotReady
  <2> QED BY <1>0, <1>d, <1>6, <2>1 DEF StreamShape, NotReady
<1>7. ASSUME NEW s \in Stream, StartAborted(s) PROVE StreamShape'
  BY <1>0, <1>d, <1>e, <1>7 DEF StreamShape, StartAborted
<1>8. ASSUME NEW s \in Stream, FrameMade(s) PROVE StreamShape'
  <2>1. Len(made) + 1 \in Nat BY DEF FramesInv, FrameShape
  <2>2. slot' \in [Stream -> [frame : Nat, error : BOOLEAN]]
    BY <1>0, <1>8, <2>1 DEF FrameMade, StoreFrame, StreamShape
  <2> QED BY <1>0, <1>8, <2>2 DEF StreamShape, FrameMade
<1>9. ASSUME NEW s \in Stream, WorkerFails(s) PROVE StreamShape'
  <2>1. /\ slot' \in [Stream -> [frame : Nat, error : BOOLEAN]]
        /\ worker' \in [Stream -> {"none", "running", "ended"}]
    BY <1>0, <1>9 DEF WorkerFails, StreamShape
  <2> QED BY <1>0, <1>9, <2>1 DEF StreamShape, WorkerFails
<1>10. CASE TokenWritten \/ SetPaused \/ StopBegins \/ StopLocks
  BY <1>0, <1>10 DEF StreamShape, Streams, TokenWritten, SetPaused, StopBegins, StopLocks
<1>11. CASE UserRevokes
  <2>1. shots' \in [starts : Nat, tokens : Nat, asked : Nat, revoked : Nat] BY <1>b, <1>11 DEF UserRevokes
  <2> QED BY <1>0, <1>11, <2>1 DEF StreamShape, Streams, UserRevokes
<1>12. CASE SessionBegins \/ StillTaken \/ StillFails \/ StillStops
  <2>1. starting' \in [Stream -> [step : StartSteps, token : Nat]]
    BY <1>c, <1>d, <1>s, <1>12 DEF SessionBegins, StillTaken, StillFails, StillStops
  <2>2. /\ worker' \in [Stream -> {"none", "running", "ended"}]
        /\ slot' \in [Stream -> [frame : Nat, error : BOOLEAN]]
        /\ granted' \subseteq Stream /\ unclosed' \subseteq granted' /\ left' \subseteq Stream
    <3>1. CASE StillStops BY <1>0, <1>e, <1>s, <3>1 DEF StillStops, StreamShape
    <3>2. CASE ~StillStops
      BY <1>0, <1>e, <1>s, <1>12, <3>2 DEF SessionBegins, StillTaken, StillFails, StreamShape
    <3> QED BY <3>1, <3>2
  <2> QED BY <1>0, <1>12, <2>1, <2>2 DEF StreamShape, SessionBegins, StillTaken, StillFails, StillStops
<1>13. CASE StopEnds \/ StopAborted
  BY <1>0, <1>e, <1>s, <1>13 DEF StreamShape, StopEnds, StopAborted
<1>14. ASSUME NEW o \in Observer,
              SessionLocked(o) \/ PutFrame(o) \/ Compare(o) \/ ObserveFails(o) PROVE StreamShape'
  BY <1>0, <1>14 DEF StreamShape, Streams, SessionLocked, PutFrame, Compare, ObserveFails
<1>15. ASSUME NEW o \in Observer, Observe(o) PROVE StreamShape'
  <2>1. shots' \in [starts : Nat, tokens : Nat, asked : Nat, revoked : Nat] BY <1>b, <1>15 DEF Observe
  <2> QED BY <1>0, <1>15, <2>1 DEF StreamShape, Streams, Observe
<1>16. ASSUME NEW o \in Observer, TakeFrame(o) \/ NoFrameCame(o) PROVE StreamShape'
  <2>1. slot' \in [Stream -> [frame : Nat, error : BOOLEAN]]
    <3>1. CASE TakeFrame(o)
      <4>1. CASE server = "x11" BY <1>0, <3>1, <4>1 DEF TakeFrame, StreamShape
      <4>2. CASE server # "x11"
        <5>1. slot' = [slot EXCEPT !["share"].frame = 0] BY <3>1, <4>2 DEF TakeFrame, NoFrame
        <5> QED BY <1>0, <5>1 DEF StreamShape
      <4> QED BY <4>1, <4>2
    <3>2. CASE NoFrameCame(o)
      <4>1. slot' = [slot EXCEPT !["share"].error = FALSE] BY <3>2 DEF NoFrameCame
      <4> QED BY <1>0, <4>1 DEF StreamShape
    <3> QED BY <1>16, <3>1, <3>2
  <2> QED BY <1>0, <1>16, <2>1 DEF StreamShape, TakeFrame, NoFrameCame
<1> QED BY <1>1, <1>2, <1>3, <1>4, <1>5, <1>6, <1>7, <1>8, <1>9, <1>10, <1>11, <1>12, <1>13, <1>14,
           <1>15, <1>16 DEF FramesNext

LEMMA FrameShapeKept == FramesInv /\ FramesNext => FrameShape'
<1> SUFFICES ASSUME FramesInv, FramesNext PROVE FrameShape' OBVIOUS
<1>0. StreamShape /\ FrameShape BY DEF FramesInv
<1> DEFINE Obs == [Observer -> [step : {"none", "lock"} \cup Holding, frame : Nat]]
           Ses == [active : BOOLEAN, paused : BOOLEAN, shown : Nat, handed : Nat]
           Ans == [kind : {"none", "frame", "unchanged"}, frame : Nat, before : Nat]
<1>a. /\ observing \in Obs /\ session \in Ses /\ answer \in Ans /\ Len(made) \in Nat
      /\ NotAsking \in [step : {"none", "lock"} \cup Holding, frame : Nat] /\ NoSession \in Ses /\ NoAnswer \in Ans
  BY <1>0 DEF FrameShape, NotAsking, NoSession, NoAnswer, NoFrame
<1>c. \A o \in Observer, step \in {"none", "lock"} \cup Holding : Asks(o, step) => observing' \in Obs
  <2> TAKE o \in Observer, step \in {"none", "lock"} \cup Holding
  <2>1. [observing[o] EXCEPT !.step = step] \in [step : {"none", "lock"} \cup Holding, frame : Nat] BY <1>a
  <2>2. Asks(o, step) => observing' = [observing EXCEPT ![o] = [observing[o] EXCEPT !.step = step]]
    BY <1>a DEF Asks
  <2> QED BY <1>a, <2>1, <2>2
<1>d. \A o \in Observer : Replies(o) => observing' \in Obs /\ lock' = NoHolder
  BY <1>a DEF Replies
<1>e. [session EXCEPT !.active = TRUE] \in Ses /\ [NoSession EXCEPT !.active = TRUE] \in Ses
      /\ [session EXCEPT !.paused = ~@] \in Ses
  BY <1>a
<1>f. [o \in Observer |-> NotAsking] \in Obs /\ \A o \in Observer : [observing EXCEPT ![o] = NotAsking] \in Obs
  BY <1>a
<1>g. ASSUME NEW s \in Stream, NEW p \in Picture, Len(made) < MaxFrames, made' = Append(made, <<s, p>>)
      PROVE  made' \in Seq(Stream \X Picture) /\ Len(made') <= MaxFrames
  BY <1>0, <1>g, FramesAssumption DEF FrameShape
<1>s. {"wait", "put", "get"} = Holding /\ "share" \in Stream BY DEF Holding, Stream
<1> HIDE DEF Obs, Ses, Ans
<1>h. ASSUME observing' \in Obs, session' \in Ses, answer' \in Ans,
             made' \in Seq(Stream \X Picture), Len(made') <= MaxFrames,
             stopper' \in {"none", "lock", "join"}, lock' \in Observer \cup {NoHolder, Stopper}
      PROVE  FrameShape'
  BY <1>h DEF FrameShape, Obs, Ses, Ans
<1>i. /\ made \in Seq(Stream \X Picture) /\ Len(made) <= MaxFrames
      /\ stopper \in {"none", "lock", "join"} /\ lock \in Observer \cup {NoHolder, Stopper}
  BY <1>0 DEF FrameShape
<1>1. ASSUME NEW s \in Stream, FrameMade(s) PROVE FrameShape'
  <2>1. made' \in Seq(Stream \X Picture) /\ Len(made') <= MaxFrames BY <1>g, <1>1 DEF FrameMade
  <2> QED BY <1>a, <1>h, <1>i, <1>1, <2>1 DEF FrameMade
<1>2. ASSUME NEW s \in Stream,
             StartStream(s) \/ LoadToken(s) \/ Restore(s) \/ TokenKept(s) \/ UserApproves(s)
             \/ NegotiationFails(s) \/ OpenStream(s) \/ StreamReady(s) \/ NotReady(s)
             \/ StartAborted(s) \/ WorkerFails(s)
      PROVE  FrameShape'
  <2>1. UNCHANGED <<Frames, stopper>>
    BY <1>2 DEF StartStream, LoadToken, Restore, TokenKept, UserApproves, NegotiationFails, OpenStream,
                StreamReady, NotReady, StartAborted, WorkerFails
  <2> QED BY <1>a, <1>h, <1>i, <2>1 DEF Frames
<1>3. CASE TokenWritten \/ StillTaken \/ StillFails \/ StillStops \/ UserRevokes
  <2>1. UNCHANGED <<Frames, stopper>>
    BY <1>3 DEF TokenWritten, StillTaken, StillFails, StillStops, UserRevokes
  <2> QED BY <1>a, <1>h, <1>i, <2>1 DEF Frames
<1>4. CASE SessionBegins BY <1>a, <1>e, <1>f, <1>h, <1>i, <1>4 DEF SessionBegins
<1>5. CASE SetPaused BY <1>a, <1>e, <1>h, <1>i, <1>5 DEF SetPaused
<1>6. CASE StopBegins \/ StopLocks \/ StopEnds \/ StopAborted
  BY <1>a, <1>h, <1>i, <1>6 DEF StopBegins, StopLocks, StopEnds, StopAborted
<1>7. ASSUME NEW o \in Observer, Observe(o) \/ SessionLocked(o) \/ NoFrameCame(o) \/ PutFrame(o)
      PROVE  FrameShape'
  <2>1. observing' \in Obs /\ lock' \in Observer \cup {NoHolder, Stopper}
    <3>1. CASE \E step \in {"lock", "wait", "get"} : Asks(o, step) /\ lock' \in {o, lock}
      BY <1>c, <1>i, <1>s, <3>1
    <3>2. CASE Replies(o) BY <1>d, <3>2
    <3> QED BY <1>7, <3>1, <3>2 DEF Observe, SessionLocked, NoFrameCame, PutFrame
  <2>2. UNCHANGED <<made, session, answer, stopper>>
    BY <1>7 DEF Observe, SessionLocked, NoFrameCame, PutFrame
  <2> QED BY <1>a, <1>h, <1>i, <2>1, <2>2
<1>8. ASSUME NEW o \in Observer, ObserveFails(o) PROVE FrameShape'
  BY <1>a, <1>f, <1>h, <1>i, <1>8 DEF ObserveFails
<1>9. ASSUME NEW o \in Observer, Compare(o) PROVE FrameShape'
  <2>1. observing[o].frame \in Nat /\ session.handed \in Nat BY <1>a DEF Obs, Ses
  <2>2. session' \in Ses BY <1>a, <1>9, <2>1 DEF Compare, Ses
  <2>3. answer' \in Ans BY <1>9, <2>1 DEF Compare, Ans
  <2> QED BY <1>d, <1>h, <1>i, <1>9, <2>2, <2>3 DEF Compare
<1>10. ASSUME NEW o \in Observer, TakeFrame(o) PROVE FrameShape'
  <2>1. CASE server = "x11"
    <3>1. /\ observing' = [observing EXCEPT ![o] = [step |-> "put", frame |-> Len(made) + 1]]
          /\ Len(made) < MaxFrames /\ \E p \in Picture : made' = Append(made, <<"share", p>>)
          /\ UNCHANGED <<session, answer, stopper, lock>>
      BY <1>10, <2>1 DEF TakeFrame
    <3>2. observing' \in Obs BY <1>a, <1>s, <3>1 DEF Obs
    <3>3. made' \in Seq(Stream \X Picture) /\ Len(made') <= MaxFrames BY <1>g, <1>s, <3>1
    <3> QED BY <1>a, <1>h, <1>i, <3>1, <3>2, <3>3
  <2>2. CASE server # "x11"
    <3>1. /\ observing' = [observing EXCEPT ![o] = [step |-> "put", frame |-> slot["share"].frame]]
          /\ UNCHANGED <<made, session, answer, stopper, lock>>
      BY <1>10, <2>2 DEF TakeFrame
    <3>2. slot["share"].frame \in Nat BY <1>0, <1>s DEF StreamShape
    <3>3. observing' \in Obs BY <1>a, <1>s, <3>1, <3>2 DEF Obs
    <3> QED BY <1>a, <1>h, <1>i, <3>1, <3>3
  <2> QED BY <2>1, <2>2
<1> QED BY <1>1, <1>2, <1>3, <1>4, <1>5, <1>6, <1>7, <1>8, <1>9, <1>10 DEF FramesNext

(* The tokens.                                                             *)
LEMMA TokensStay ==
  ASSUME TokenInv, StreamShape, StreamShape', UNCHANGED <<token, rejected, writes, undeleted>>, shots'.tokens = shots.tokens,
         valid' \subseteq valid,
         \A s \in Stream : \/ starting'[s].token = 0 /\ starting'[s].step # "restore"
                           \/ starting'[s].token = starting[s].token
                              /\ (starting'[s].step = "restore" => starting[s].step = "restore")
  PROVE  TokenInv'
BY DEF TokenInv, StreamShape

LEMMA TokensKept == FramesInv /\ FramesNext /\ StreamShape' => TokenInv'
<1> SUFFICES ASSUME FramesInv, FramesNext, StreamShape' PROVE TokenInv' OBVIOUS
<1>0. TokenInv /\ StreamShape BY DEF FramesInv
<1>a. /\ starting \in [Stream -> [step : StartSteps, token : Nat]] /\ shots.tokens \in Nat
      /\ shots \in [starts : Nat, tokens : Nat, asked : Nat, revoked : Nat]
      /\ NoStart.token = 0 /\ NoStart.step = "none"
  BY <1>0 DEF StreamShape, NoStart
<1>b. ASSUME NEW s \in Stream, StartEnds(s) \/ UNCHANGED starting \/ \E step \in StartSteps : step # "restore" /\ StartGoes(s, step)
      PROVE  \A t \in Stream : \/ starting'[t].token = 0 /\ starting'[t].step # "restore"
                               \/ starting'[t].token = starting[t].token
                                  /\ (starting'[t].step = "restore" => starting[t].step = "restore")
  BY <1>a, <1>b DEF StartEnds, StartGoes
<1>s. StartSteps = {"none", "load", "restore", "clear", "ask", "store", "open", "ready", "live", "stop"}
      /\ "share" \in Stream /\ "still" \in Stream
  BY DEF StartSteps, Stream
<1>c. ASSUME NEW s \in Stream, Grant(s), UNCHANGED <<token, rejected, undeleted>> PROVE TokenInv'
  <2> DEFINE n == shots.tokens + 1
  <2>1. /\ shots'.tokens = n /\ n \in Nat
        /\ valid' \subseteq valid \cup {n}
        /\ writes' = writes \/ writes' = writes \cup {<<s, n>>}
        /\ \A t \in Stream : starting'[t].token = starting[t].token /\ (starting'[t].step = "restore" => starting[t].step = "restore")
    BY <1>a, <1>c DEF Grant, StartGoes
  <2>2. \A w \in writes : w[2] \in Nat /\ w[2] < n BY <1>0, <1>a DEF TokenInv
  <2>3. \A t \in Stream : starting[t].token < n /\ starting[t].token \in Nat BY <1>0, <1>a DEF TokenInv
  <2>4. token < n /\ token \in 0 .. n /\ valid' \subseteq 1 .. n /\ rejected \subseteq 1 .. shots.tokens
    BY <1>0, <1>a, <2>1 DEF TokenInv
  <2>5. rejected \cup undeleted \subseteq 1 .. n /\ n \notin rejected BY <1>0, <1>a, <2>4 DEF TokenInv
  <2>6. writes' \subseteq Stream \X (0 .. n) BY <1>0, <1>a, <2>1 DEF TokenInv
  <2>7. \A w \in writes' : w \in writes \/ (w = <<s, n>> /\ w[2] = n) BY <2>1
  <2>8. \A t \in Stream : starting'[t].token <= n /\ (starting'[t].step = "restore" => starting'[t].token # 0)
    BY <1>0, <2>1, <2>3 DEF TokenInv
  <2>9. \A w \in writes' : w[2] # 0 =>
          w[2] \notin rejected /\ w[2] # token /\ \A t \in Stream : starting'[t].token # w[2]
    BY <1>0, <2>1, <2>3, <2>4, <2>5, <2>7 DEF TokenInv
  <2>10. \A w, v \in writes' : w[2] = v[2] /\ w[2] # 0 => w = v
    BY <1>0, <2>2, <2>7 DEF TokenInv
  <2>11. token \in rejected \ undeleted => \E w \in writes' : w[2] = 0 BY <1>0, <2>1 DEF TokenInv
  <2> HIDE DEF n
  <2> QED BY <1>c, <2>1, <2>4, <2>5, <2>6, <2>8, <2>9, <2>10, <2>11 DEF TokenInv
<1>1. ASSUME NEW s \in Stream, LoadToken(s) PROVE TokenInv'
  <2>1. /\ \A t \in Stream : t # s => starting'[t] = starting[t]
        /\ starting'[s].token \in {token, 0}
        /\ starting'[s].step = "restore" => starting'[s].token # 0
        /\ UNCHANGED <<Tokens, shots>>
    BY <1>a, <1>1 DEF LoadToken
  <2> QED BY <1>0, <1>a, <2>1 DEF TokenInv, Tokens
<1>2. ASSUME NEW s \in Stream, Restore(s) PROVE TokenInv'
  <2>1. CASE starting[s].token \in valid BY <1>2, <1>c, <2>1 DEF Restore
  <2>2. CASE starting[s].token \notin valid
    <3> DEFINE k == starting[s].token
    <3>1. /\ StartGoes(s, "clear") /\ rejected' = rejected \cup {k} /\ writes' = writes \cup {<<s, 0>>}
          /\ UNCHANGED <<token, shots, valid, undeleted>> /\ starting[s].step = "restore"
      BY <1>2, <2>2 DEF Restore, Deletes, StartAt
    <3>2. k \in 1 .. shots.tokens BY <1>0, <1>a, <3>1 DEF TokenInv
    <3>3. \A t \in Stream : starting'[t].token = starting[t].token /\ (starting'[t].step = "restore" => starting[t].step = "restore")
      BY <1>a, <3>1 DEF StartGoes
    <3>4. \A w \in writes' : w \in writes \/ (w = <<s, 0>> /\ w[2] = 0) BY <3>1
    <3>5. \E w \in writes' : w[2] = 0
      <4>1. <<s, 0>> \in writes' /\ <<s, 0>>[2] = 0 BY <3>1
      <4> QED BY <4>1
    <3>6. writes' \subseteq Stream \X (0 .. shots.tokens) BY <1>0, <1>a, <3>1 DEF TokenInv
    <3>7. \A w \in writes' : w[2] # 0 =>
            w[2] \notin rejected' /\ w[2] # token /\ \A t \in Stream : starting'[t].token # w[2]
      BY <1>0, <3>1, <3>3, <3>4 DEF TokenInv
    <3>8. \A w, v \in writes' : w[2] = v[2] /\ w[2] # 0 => w = v
      BY <1>0, <3>4 DEF TokenInv
    <3>9. \A t \in Stream : starting'[t].token <= shots.tokens
                             /\ (starting'[t].step = "restore" => starting'[t].token # 0)
      BY <1>0, <3>3 DEF TokenInv
    <3>10. rejected' \subseteq 1 .. shots.tokens /\ token \in 0 .. shots.tokens /\ valid \subseteq 1 .. shots.tokens
           /\ undeleted \subseteq 1 .. shots.tokens
      BY <1>0, <3>1, <3>2 DEF TokenInv
    <3> HIDE DEF k
    <3>11. token' = token /\ shots' = shots /\ valid' = valid /\ undeleted' = undeleted BY <3>1
    <3> QED BY <3>5, <3>6, <3>7, <3>8, <3>9, <3>10, <3>11, Zenon DEF TokenInv
  <2> QED BY <2>1, <2>2
<1>3. ASSUME NEW s \in Stream, UserApproves(s) PROVE TokenInv'
  BY <1>c, <1>3 DEF UserApproves
<1>4. CASE TokenWritten
  <2>1. PICK w \in writes :
          /\ writes' = writes \ {w} /\ UNCHANGED <<valid, rejected, starting, shots>>
          /\ \/ token' = w[2] /\ undeleted' = undeleted
             \/ /\ undeleted' = IF w[2] = 0 THEN undeleted \cup ({token} \ {0}) ELSE undeleted
                /\ token' = token
    BY <1>4 DEF TokenWritten, Streams
  <2>2. w[2] \in 0 .. shots.tokens /\ 0 \notin rejected BY <1>0, <1>a DEF TokenInv
  <2>3. w[2] \notin rejected BY <1>0, <2>2 DEF TokenInv
  <2>4. \A v \in writes' : v \in writes /\ v # w BY <2>1
  <2>5. CASE token' = w[2] /\ undeleted' = undeleted
    BY <1>0, <2>1, <2>2, <2>3, <2>4, <2>5 DEF TokenInv
  <2>6. CASE token' = token /\ w[2] # 0 /\ undeleted' = undeleted
    <3>1. token \in rejected \ undeleted => \E v \in writes' : v[2] = 0
      <4> SUFFICES ASSUME token \in rejected \ undeleted PROVE \E v \in writes' : v[2] = 0 OBVIOUS
      <4>1. PICK v \in writes : v[2] = 0 BY <1>0 DEF TokenInv
      <4> QED BY <2>1, <2>6, <4>1
    <3> QED BY <1>0, <2>1, <2>4, <2>6, <3>1 DEF TokenInv
  <2>7. CASE token' = token /\ undeleted' = undeleted \cup ({token} \ {0})
    <3>1. token' \notin rejected' \ undeleted' BY <2>1, <2>2, <2>7
    <3>2. undeleted' \subseteq 1 .. shots.tokens BY <1>0, <1>a, <2>7 DEF TokenInv
    <3> QED BY <1>0, <2>1, <2>4, <2>7, <3>1, <3>2 DEF TokenInv
  <2> QED BY <2>1, <2>5, <2>6, <2>7
<1>5. ASSUME NEW s \in Stream, StartStream(s) PROVE TokenInv'
  <2>1. shots'.tokens = shots.tokens /\ UNCHANGED Tokens BY <1>a, <1>5 DEF StartStream
  <2>2. \E step \in StartSteps : step # "restore" /\ StartGoes(s, step) BY <1>s, <1>5 DEF StartStream
  <2> QED BY <1>0, <1>b, <2>1, <2>2, TokensStay DEF Tokens
<1>6. ASSUME NEW s \in Stream,
             TokenKept(s) \/ NegotiationFails(s) \/ OpenStream(s) \/ StreamReady(s) \/ NotReady(s)
             \/ StartAborted(s) \/ FrameMade(s) \/ WorkerFails(s)
      PROVE  TokenInv'
  <2>1. UNCHANGED <<Tokens, shots>>
    BY <1>6 DEF TokenKept, NegotiationFails, OpenStream, StreamReady, NotReady, StartAborted, FrameMade, WorkerFails
  <2>2. StartEnds(s) \/ UNCHANGED starting \/ \E step \in StartSteps : step # "restore" /\ StartGoes(s, step)
    BY <1>s, <1>6 DEF TokenKept, NegotiationFails, OpenStream, StreamReady, NotReady, StartAborted, FrameMade, WorkerFails
  <2> QED BY <1>0, <1>b, <2>1, <2>2, TokensStay DEF Tokens
<1>7. CASE SessionBegins \/ StillTaken \/ StillFails \/ StillStops
  <2>1. UNCHANGED <<Tokens, shots>>
    BY <1>7 DEF SessionBegins, StillTaken, StillFails, StillStops
  <2>2. \E s \in Stream : StartEnds(s) \/ \E step \in StartSteps : step # "restore" /\ StartGoes(s, step)
    BY <1>s, <1>7 DEF SessionBegins, StillTaken, StillFails, StillStops
  <2> QED BY <1>0, <1>b, <2>1, <2>2, TokensStay DEF Tokens
<1>8. CASE \/ SetPaused \/ StopBegins \/ StopLocks \/ StopEnds \/ StopAborted
           \/ \E o \in Observer : SessionLocked(o) \/ TakeFrame(o) \/ NoFrameCame(o) \/ PutFrame(o)
                                  \/ Compare(o) \/ ObserveFails(o)
  <2>1. UNCHANGED <<Tokens, shots, starting>>
    <3>1. CASE SetPaused \/ StopBegins \/ StopLocks \/ StopEnds \/ StopAborted
      BY <3>1 DEF SetPaused, StopBegins, StopLocks, StopEnds, StopAborted, Streams
    <3>2. ASSUME NEW o \in Observer, TakeFrame(o) PROVE UNCHANGED <<Tokens, shots, starting>>
      BY <3>2 DEF TakeFrame
    <3>3. ASSUME NEW o \in Observer,
                 SessionLocked(o) \/ NoFrameCame(o) \/ PutFrame(o) \/ Compare(o) \/ ObserveFails(o)
          PROVE  UNCHANGED <<Tokens, shots, starting>>
      BY <3>3 DEF SessionLocked, NoFrameCame, PutFrame, Compare, ObserveFails, Streams
    <3> QED BY <1>8, <3>1, <3>2, <3>3
  <2>2. UNCHANGED <<token, rejected, writes, undeleted, starting>> /\ valid' \subseteq valid
    BY <2>1 DEF Tokens
  <2> QED BY <1>0, <2>1, <2>2, TokensStay
<1>9. ASSUME NEW o \in Observer, Observe(o) PROVE TokenInv'
  <2>1. shots'.tokens = shots.tokens /\ UNCHANGED <<Tokens, starting>> BY <1>a, <1>9 DEF Observe, Streams
  <2>2. /\ valid' \subseteq valid /\ UNCHANGED <<token, rejected, writes, undeleted, starting>> BY <2>1 DEF Tokens
  <2> QED BY <1>0, <2>1, <2>2, TokensStay
<1>10. CASE UserRevokes
  <2>1. shots'.tokens = shots.tokens /\ UNCHANGED <<token, rejected, writes, undeleted, starting>> /\ valid' = {}
    BY <1>a, <1>10 DEF UserRevokes, Streams
  <2>2. valid' \subseteq valid BY <2>1
  <2> QED BY <1>0, <2>1, <2>2, TokensStay
<1> QED BY <1>1, <1>2, <1>3, <1>4, <1>5, <1>6, <1>7, <1>8, <1>9, <1>10 DEF FramesNext

(* The mutex.                                                              *)
LEMMA LockKept == FramesInv /\ FramesNext => LockInv'
<1> SUFFICES ASSUME FramesInv, FramesNext PROVE LockInv' OBVIOUS
<1>0. /\ observing \in [Observer -> [step : {"none", "lock"} \cup Holding, frame : Nat]]
      /\ \A o \in Observer : observing[o].step \in Holding => lock = o
      /\ stopper = "join" => lock = Stopper
      /\ NoHolder \notin Observer /\ Stopper \notin Observer /\ NoHolder # Stopper
      /\ Holding = {"wait", "put", "get"}
      /\ NotAsking.step = "none"
  BY FramesAssumption DEF FramesInv, FrameShape, LockInv, NoHolder, Stopper, Holding, NotAsking
<1>1. CASE UNCHANGED <<observing, lock, stopper>> BY <1>0, <1>1 DEF LockInv
<1>2. CASE SessionBegins
  <2>1. stopper' # "join"
    BY <1>2 DEF SessionBegins, FramesInv, OwnerInv, StartAt
  <2>2. \A o \in Observer : observing'[o].step = "none" BY <1>0, <1>2 DEF SessionBegins
  <2> QED BY <1>0, <2>1, <2>2 DEF LockInv
<1>3. ASSUME NEW o \in Observer,
             Observe(o) \/ SessionLocked(o) \/ NoFrameCame(o) \/ PutFrame(o) \/ Compare(o)
      PROVE  LockInv'
  <2>1. stopper' = stopper /\ \A p \in Observer : p # o => observing'[p] = observing[p]
    BY <1>0, <1>3 DEF Observe, SessionLocked, NoFrameCame, PutFrame, Compare, Asks, Replies
  <2>2. CASE Replies(o) /\ (lock = NoHolder \/ observing[o].step \in Holding)
    <3>1. observing'[o].step = "none" /\ lock' = NoHolder BY <1>0, <2>2 DEF Replies
    <3> QED BY <1>0, <2>1, <2>2, <3>1 DEF LockInv
  <2>3. CASE observing[o].step = "lock" /\ lock = NoHolder /\ lock' = o
    BY <1>0, <2>1, <2>3 DEF LockInv
  <2>4. CASE lock' = lock /\ (observing'[o].step = "lock" \/ observing[o].step \in Holding)
    BY <1>0, <2>1, <2>4 DEF LockInv
  <2> QED BY <1>0, <1>3, <2>2, <2>3, <2>4
      DEF Observe, SessionLocked, NoFrameCame, PutFrame, Compare, Asks
<1>4. ASSUME NEW o \in Observer, ObserveFails(o) PROVE LockInv'
  <2>1. /\ stopper' = stopper /\ \A p \in Observer : p # o => observing'[p] = observing[p]
        /\ observing'[o].step = "none" /\ lock' = IF lock = o THEN NoHolder ELSE lock
    BY <1>0, <1>4 DEF ObserveFails
  <2> QED BY <1>0, <2>1 DEF LockInv
<1>5. ASSUME NEW o \in Observer, TakeFrame(o) PROVE LockInv'
  <2>1. UNCHANGED <<stopper, lock>> /\ observing[o].step \in Holding BY <1>0, <1>5 DEF TakeFrame
  <2>2. \A p \in Observer : p # o => observing'[p] = observing[p]
    <3>1. CASE server = "x11" BY <1>0, <1>5, <3>1 DEF TakeFrame
    <3>2. CASE server # "x11" BY <1>0, <1>5, <3>2 DEF TakeFrame
    <3> QED BY <3>1, <3>2
  <2> QED BY <1>0, <2>1, <2>2 DEF LockInv
<1>6. CASE StopBegins \/ StopLocks \/ StopEnds \/ StopAborted
  BY <1>0, <1>6 DEF LockInv, StopBegins, StopLocks, StopEnds, StopAborted
<1>7. ASSUME NEW s \in Stream,
             \/ StartStream(s) \/ LoadToken(s) \/ Restore(s) \/ TokenKept(s) \/ UserApproves(s)
             \/ NegotiationFails(s) \/ OpenStream(s) \/ StreamReady(s)
             \/ NotReady(s) \/ StartAborted(s) \/ FrameMade(s) \/ WorkerFails(s)
      PROVE  LockInv'
  <2>1. UNCHANGED <<observing, lock, stopper>>
    BY <1>7 DEF StartStream, LoadToken, Restore, TokenKept, UserApproves, NegotiationFails, OpenStream,
                StreamReady, NotReady, StartAborted, FrameMade, WorkerFails, Frames
  <2> QED BY <1>1, <2>1
<1>8. CASE TokenWritten \/ StillTaken \/ StillFails \/ StillStops \/ UserRevokes \/ SetPaused
  <2>1. UNCHANGED <<observing, lock, stopper>>
    BY <1>8 DEF TokenWritten, StillTaken, StillFails, StillStops, UserRevokes, SetPaused, Frames
  <2> QED BY <1>1, <2>1
<1> QED BY <1>2, <1>3, <1>4, <1>5, <1>6, <1>7, <1>8 DEF FramesNext

(* Whose the streams are.                                                  *)
LEMMA OwnersKept == FramesInv /\ FramesNext /\ StreamShape' => OwnerInv'
<1> SUFFICES ASSUME FramesInv, FramesNext, StreamShape' PROVE OwnerInv' OBVIOUS
<1> DEFINE
      On(s) == starting[s].step
      Owed(s) == /\ worker[s] = "running" => Owned(s) \/ s \in left
                 /\ s \in granted => Owned(s) \/ s \in left \cup unclosed
                 /\ worker[s] = "running" => s \in granted
                 /\ On(s) \in {"load", "restore", "clear", "ask"} => s \notin granted
                 /\ On(s) \in {"store", "open"} => s \in granted
                 /\ server = "x11" => worker[s] = "none" /\ slot[s].frame = 0 /\ On(s) \in {"none", "live"}
      Shared == On("share") # "none" => ~session.active /\ stopper = "none"
<1>s. "share" \in Stream /\ "still" \in Stream /\ Stream = {"share", "still"} BY DEF Stream
<1>a. (\A s \in Stream : Owed(s)) /\ Shared
  BY DEF FramesInv, OwnerInv, StreamsHaveOwners
<1>b. ASSUME \A s \in Stream : Owed(s)', Shared' PROVE OwnerInv'
  BY <1>b DEF OwnerInv, StreamsHaveOwners
<1>c. StreamShape /\ FrameShape BY DEF FramesInv
<1>d. /\ starting \in [Stream -> [step : StartSteps, token : Nat]]
      /\ worker \in [Stream -> {"none", "running", "ended"}] /\ slot \in [Stream -> [frame : Nat, error : BOOLEAN]]
      /\ granted \subseteq Stream /\ NoStart.step = "none" /\ EmptySlot.frame = 0
      /\ session \in [active : BOOLEAN, paused : BOOLEAN, shown : Nat, handed : Nat]
  BY <1>c DEF StreamShape, FrameShape, NoStart, EmptySlot, NoFrame
<1>e. ASSUME NEW s \in Stream, NEW step \in StartSteps, StartGoes(s, step)
      PROVE  starting'[s].step = step /\ \A t \in Stream : t # s => starting'[t] = starting[t]
  BY <1>d, <1>e DEF StartGoes
<1>f. ASSUME NEW s \in Stream, StartEnds(s)
      PROVE  starting'[s].step = "none" /\ \A t \in Stream : t # s => starting'[t] = starting[t]
  BY <1>d, <1>f DEF StartEnds
<1>g. ASSUME NEW s \in Stream, StreamStops(s)
      PROVE  /\ worker'[s] = "none" /\ slot'[s].frame = 0
             /\ s \in granted' => s \in unclosed'
             /\ \A t \in Stream : t # s =>
                  /\ worker'[t] = worker[t] /\ slot'[t] = slot[t]
                  /\ t \in granted' <=> t \in granted
                  /\ t \in unclosed' <=> t \in unclosed
  BY <1>d, <1>g DEF StreamStops
<1>t. StartSteps = {"none", "load", "restore", "clear", "ask", "store", "open", "ready", "live", "stop"}
  BY DEF StartSteps
<1> HIDE DEF StartSteps
<1> USE DEF StartAt, Owned
<1>1. ASSUME NEW s \in Stream, StartStream(s) PROVE OwnerInv'
  <2>1. /\ On(s)' \in {"live", "load"} /\ (server = "x11" => On(s)' = "live" /\ s = "share")
        /\ \A t \in Stream : t # s => starting'[t] = starting[t]
    BY <1>e, <1>t, <1>1 DEF StartStream
  <2> QED BY <1>a, <1>b, <1>s, <1>1, <2>1 DEF StartStream, Frames
<1>2. ASSUME NEW s \in Stream, LoadToken(s) PROVE OwnerInv'
  <2>1. /\ On(s)' \in {"ask", "restore"} /\ \A t \in Stream : t # s => starting'[t] = starting[t]
    BY <1>d, <1>2 DEF LoadToken
  <2> QED BY <1>a, <1>b, <1>s, <1>2, <2>1 DEF LoadToken, Frames
<1>3. ASSUME NEW s \in Stream, Restore(s) \/ UserApproves(s) PROVE OwnerInv'
  <2>0. On(s) \in {"restore", "ask"} /\ UNCHANGED <<server, worker, slot, left, unclosed, session, stopper>>
    BY <1>3 DEF Restore, UserApproves, Frames
  <2>1. CASE Grant(s)
    <3>1. /\ On(s)' = "store" /\ \A t \in Stream : t # s => starting'[t] = starting[t]
          /\ granted' = granted \cup {s}
      BY <1>e, <1>t, <2>1 DEF Grant
    <3> QED BY <1>a, <1>b, <1>s, <2>0, <3>1
  <2>2. CASE ~Grant(s)
    <3>1. /\ On(s)' = "clear" /\ \A t \in Stream : t # s => starting'[t] = starting[t]
          /\ granted' = granted
      BY <1>e, <1>t, <1>3, <2>2 DEF Restore, UserApproves
    <3> QED BY <1>a, <1>b, <1>s, <2>0, <3>1
  <2> QED BY <2>1, <2>2
<1>4. ASSUME NEW s \in Stream, TokenKept(s) PROVE OwnerInv'
  <2>1. /\ \/ On(s) = "clear" /\ On(s)' = "ask" 
           \/ On(s) = "store" /\ On(s)' = "open"
        /\ \A t \in Stream : t # s => starting'[t] = starting[t]
    BY <1>e, <1>t, <1>4 DEF TokenKept
  <2> QED BY <1>a, <1>b, <1>s, <1>4, <2>1 DEF TokenKept, Frames
<1>5. ASSUME NEW s \in Stream, NegotiationFails(s) PROVE OwnerInv'
  <2>1. On(s)' = "none" /\ \A t \in Stream : t # s => starting'[t] = starting[t]
    BY <1>f, <1>5 DEF NegotiationFails
  <2> QED BY <1>a, <1>b, <1>s, <1>5, <2>1 DEF NegotiationFails, Frames
<1>6. ASSUME NEW s \in Stream, OpenStream(s) PROVE OwnerInv'
  <2>1. CASE StartGoes(s, "ready") /\ worker' = [worker EXCEPT ![s] = "running"] /\ UNCHANGED left
    <3>1. /\ On(s)' = "ready" /\ \A t \in Stream : t # s => starting'[t] = starting[t] /\ worker'[t] = worker[t]
          /\ worker'[s] = "running"
      BY <1>d, <1>e, <1>t, <2>1
    <3> QED BY <1>a, <1>b, <1>s, <1>6, <2>1, <3>1 DEF OpenStream, Frames
  <2>2. CASE StartEnds(s) /\ left' = left \cup {s} /\ UNCHANGED worker
    <3>1. On(s)' = "none" /\ \A t \in Stream : t # s => starting'[t] = starting[t]
      BY <1>f, <2>2
    <3> QED BY <1>a, <1>b, <1>s, <1>6, <2>2, <3>1 DEF OpenStream, Frames
  <2> QED BY <1>6, <2>1, <2>2 DEF OpenStream
<1>7. ASSUME NEW s \in Stream, StreamReady(s) PROVE OwnerInv'
  <2>1. On(s)' = "live" /\ \A t \in Stream : t # s => starting'[t] = starting[t]
    BY <1>e, <1>t, <1>7 DEF StreamReady
  <2> QED BY <1>a, <1>b, <1>s, <1>7, <2>1 DEF StreamReady, Frames
<1>8. ASSUME NEW s \in Stream, NotReady(s) PROVE OwnerInv'
  <2>1. On(s)' = "none" /\ \A t \in Stream : t # s => starting'[t] = starting[t]
    BY <1>f, <1>8 DEF NotReady
  <2>2. StreamStops(s) BY <1>8 DEF NotReady
  <2> QED BY <1>a, <1>b, <1>g, <1>s, <1>8, <2>1, <2>2 DEF NotReady, Frames
<1>9. ASSUME NEW s \in Stream, StartAborted(s) PROVE OwnerInv'
  <2>1. On(s)' = "none" /\ \A t \in Stream : t # s => starting'[t] = starting[t]
    BY <1>f, <1>9 DEF StartAborted
  <2> QED BY <1>a, <1>b, <1>s, <1>9, <2>1 DEF StartAborted, Frames
<1>10. ASSUME NEW s \in Stream, FrameMade(s) PROVE OwnerInv'
  <2>1. \A t \in Stream : t # s => slot'[t] = slot[t] BY <1>d, <1>10 DEF FrameMade, StoreFrame
  <2> QED BY <1>a, <1>b, <1>s, <1>10, <2>1 DEF FrameMade
<1>11. ASSUME NEW s \in Stream, WorkerFails(s) PROVE OwnerInv'
  <2>1. /\ \A t \in Stream : slot'[t].frame = slot[t].frame
        /\ \A t \in Stream : t # s => worker'[t] = worker[t]
        /\ worker'[s] \in {"running", "ended"} /\ worker[s] = "running"
    BY <1>d, <1>11 DEF WorkerFails
  <2> QED BY <1>a, <1>b, <1>s, <1>11, <2>1 DEF WorkerFails, Frames
<1>12. CASE SessionBegins
  <2>1. /\ On("share")' = "none" /\ starting'["still"] = starting["still"] /\ session'.active
    BY <1>f, <1>s, <1>12 DEF SessionBegins, NoSession
  <2> QED BY <1>a, <1>b, <1>s, <1>12, <2>1 DEF SessionBegins
<1>13. CASE StillTaken
  <2>1. /\ On("still")' = "stop" /\ starting'["share"] = starting["share"]
    BY <1>e, <1>s, <1>t, <1>13 DEF StillTaken
  <2>2. server # "x11" BY <1>a, <1>s, <1>13 DEF StillTaken, NoFrame
  <2> QED BY <1>a, <1>b, <1>s, <1>13, <2>1, <2>2 DEF StillTaken, Frames
<1>14. CASE StillFails
  <2>1. /\ On("still")' = "none" /\ starting'["share"] = starting["share"]
    BY <1>f, <1>s, <1>14 DEF StillFails
  <2> QED BY <1>a, <1>b, <1>s, <1>14, <2>1 DEF StillFails, Frames
<1>15. CASE StillStops
  <2>1. /\ On("still")' = "none" /\ starting'["share"] = starting["share"]
    BY <1>f, <1>s, <1>15 DEF StillStops
  <2> QED BY <1>a, <1>b, <1>g, <1>s, <1>15, <2>1 DEF StillStops, Frames
<1>16. CASE StopBegins
  BY <1>a, <1>b, <1>s, <1>16 DEF StopBegins, NoSession, Streams
<1>17. CASE StopLocks
  BY <1>a, <1>b, <1>s, <1>17 DEF StopLocks, Streams
<1>18. CASE StopEnds
  BY <1>a, <1>b, <1>g, <1>s, <1>18 DEF StopEnds
<1>19. CASE StopAborted
  BY <1>a, <1>b, <1>s, <1>19 DEF StopAborted
<1>20. CASE TokenWritten \/ UserRevokes
  <2>1. UNCHANGED <<server, Streams, session, stopper>> BY <1>20 DEF TokenWritten, UserRevokes, Frames
  <2> QED BY <1>a, <1>b, <2>1 DEF Streams
<1>21. CASE SetPaused
  <2>1. UNCHANGED <<server, Streams, stopper>> /\ session'.active = session.active BY <1>d, <1>21 DEF SetPaused
  <2> QED BY <1>a, <1>b, <2>1 DEF Streams
<1>22. ASSUME NEW o \in Observer, Observe(o) \/ SessionLocked(o) \/ PutFrame(o) \/ ObserveFails(o)
       PROVE  OwnerInv'
  <2>1. UNCHANGED <<server, Streams, session, stopper>>
    BY <1>22 DEF Observe, SessionLocked, PutFrame, ObserveFails
  <2> QED BY <1>a, <1>b, <2>1 DEF Streams
<1>23. ASSUME NEW o \in Observer, Compare(o) PROVE OwnerInv'
  <2>1. UNCHANGED <<server, Streams, stopper>> /\ session'.active = session.active BY <1>d, <1>23 DEF Compare
  <2> QED BY <1>a, <1>b, <2>1 DEF Streams
<1>24. ASSUME NEW o \in Observer, TakeFrame(o) \/ NoFrameCame(o) PROVE OwnerInv'
  <2>1. server = "x11" => \A t \in Stream : slot'[t].frame = slot[t].frame
    <3>1. CASE TakeFrame(o) BY <3>1 DEF TakeFrame
    <3>2. CASE NoFrameCame(o) BY <1>d, <3>2 DEF NoFrameCame
    <3> QED BY <1>24, <3>1, <3>2
  <2>2. UNCHANGED <<server, starting, granted, worker, left, unclosed, session, stopper>>
    BY <1>24 DEF TakeFrame, NoFrameCame
  <2> QED BY <1>a, <1>b, <2>1, <2>2
<1> QED BY <1>1, <1>2, <1>3, <1>4, <1>5, <1>6, <1>7, <1>8, <1>9, <1>10, <1>11, <1>12, <1>13, <1>14, <1>15,
           <1>16, <1>17, <1>18, <1>19, <1>20, <1>21, <1>22, <1>23, <1>24 DEF FramesNext

(* The frames.                                                             *)
LEMMA FramesKept == FramesInv /\ FramesNext /\ FrameShape' /\ StreamShape' => FrameInv'
<1> SUFFICES ASSUME FramesInv, FramesNext, FrameShape', StreamShape' PROVE FrameInv' OBVIOUS
<1> DEFINE Has(o) == observing[o].step \in {"put", "get"}
<1>0. /\ FrameInv /\ FrameShape /\ StreamShape /\ OwnerInv /\ LockInv
      /\ slot \in [Stream -> [frame : Nat, error : BOOLEAN]] /\ Len(made) \in Nat
      /\ observing \in [Observer -> [step : {"none", "lock"} \cup Holding, frame : Nat]]
      /\ session \in [active : BOOLEAN, paused : BOOLEAN, shown : Nat, handed : Nat]
      /\ answer \in [kind : {"none", "frame", "unchanged"}, frame : Nat, before : Nat]
      /\ made \in Seq(Stream \X Picture) /\ "share" \in Stream
  <2>1. FrameShape /\ StreamShape /\ FrameInv /\ OwnerInv /\ LockInv BY DEF FramesInv
  <2>2. "share" \in Stream BY DEF Stream
  <2>3. made \in Seq(Stream \X Picture) /\ Len(made) \in Nat BY <2>1 DEF FrameShape
  <2> QED BY <2>1, <2>2, <2>3 DEF FrameShape, StreamShape
<1>f. /\ \A s \in Stream : slot[s].frame \in Nat /\ slot[s].frame <= Len(made)
      /\ session.handed \in Nat /\ session.shown = session.handed /\ session.handed <= Len(made)
      /\ \A o \in Observer : observing[o].frame \in Nat
      /\ \A o \in Observer : Has(o) =>
           /\ observing[o].frame <= Len(made) /\ session.handed < observing[o].frame
           /\ slot["share"].frame # 0 => observing[o].frame < slot["share"].frame
      /\ slot["share"].frame # 0 => session.handed < slot["share"].frame
      /\ answer.kind = "unchanged" => {answer.frame, answer.before} \subseteq 1 .. Len(made)
      /\ UnchangedIsHonest
  BY <1>0 DEF FrameInv, NoFrame
<1>z. EmptySlot.frame = 0 /\ NoFrame = 0 /\ NotAsking.step = "none" /\ NoSession.shown = 0 /\ NoSession.handed = 0
      /\ NoAnswer.kind = "none" /\ NotAsking.frame = 0
  BY DEF EmptySlot, NoFrame, NotAsking, NoSession, NoAnswer
\* Nothing is made: slots are emptied or kept, requests end or go on.
<1>a. ASSUME made' = made, session'.shown = session'.handed,
             session'.handed = session.handed \/ session'.handed = 0,
             \A s \in Stream : slot'[s].frame \in {0, slot[s].frame},
             \A o \in Observer : Has(o)' => Has(o) /\ observing'[o].frame = observing[o].frame,
             answer' = answer \/ answer' = NoAnswer
      PROVE  FrameInv'
  <2>1. \A s \in Stream : slot'[s].frame <= Len(made)
    <3> SUFFICES ASSUME NEW s \in Stream PROVE slot'[s].frame <= Len(made) OBVIOUS
    <3>1. slot'[s].frame = 0 \/ slot'[s].frame = slot[s].frame BY <1>a
    <3>2. slot[s].frame <= Len(made) BY <1>f
    <3> QED BY <1>0, <3>1, <3>2
  <2>2. session.handed \in Nat /\ session'.handed <= Len(made) /\ session'.handed <= session.handed
    BY <1>f, <1>a
  <2>3. \A o \in Observer : Has(o)' =>
          /\ observing[o].frame \in Nat /\ observing'[o].frame <= Len(made) /\ session'.handed < observing'[o].frame
          /\ slot'["share"].frame # NoFrame => observing'[o].frame < slot'["share"].frame
    BY <1>f, <1>0, <1>a, <1>z, <2>2
  <2>4. slot'["share"].frame # NoFrame => session'.handed < slot'["share"].frame
    BY <1>f, <1>0, <1>a, <1>z, <2>2
  <2>5. answer'.kind = "unchanged" => {answer'.frame, answer'.before} \subseteq 1 .. Len(made)
    BY <1>f, <1>a, <1>z
  <2>6. UnchangedIsHonest'
    BY <1>f, <1>a, <1>z DEF UnchangedIsHonest, PictureOf
  <2> QED BY <1>a, <2>1, <2>2, <2>3, <2>4, <2>5, <2>6 DEF FrameInv
<1>b. CASE UNCHANGED <<made, session, slot, observing, answer>>
  BY <1>0, <1>a, <1>b DEF FrameInv
\* A picture is made for s.
<1>c. ASSUME NEW s \in Stream, NEW p \in Picture, made' = Append(made, <<s, p>>)
      PROVE  /\ Len(made') = Len(made) + 1 /\ DOMAIN made' = 1 .. Len(made) + 1 /\ DOMAIN made = 1 .. Len(made)
             /\ \A n \in 1 .. Len(made) : made'[n] = made[n]
             /\ made'[Len(made) + 1][1] = s
  BY <1>0, <1>c
<1>d. ASSUME NEW s \in Stream, NEW p \in Picture, made' = Append(made, <<s, p>>), answer' = answer
      PROVE  /\ answer'.kind = "unchanged" => {answer'.frame, answer'.before} \subseteq 1 .. Len(made')
             /\ answer.kind = "unchanged" => answer.before # NoFrame /\ made'[answer.frame][2] = made'[answer.before][2]
             /\ answer.kind = "frame" => answer.before < answer.frame
  BY <1>0, <1>f, <1>c, <1>d DEF UnchangedIsHonest, PictureOf
<1>1. ASSUME NEW s \in Stream, FrameMade(s) PROVE FrameInv'
  <2> DEFINE n == Len(made) + 1
  <2>1. PICK p \in Picture : made' = Append(made, <<s, p>>) BY <1>1 DEF FrameMade
  <2>2. /\ slot'[s].frame = n /\ \A t \in Stream : t # s => slot'[t] = slot[t]
        /\ UNCHANGED <<session, observing, answer>>
    BY <1>0, <1>1 DEF FrameMade, StoreFrame
  <2>3. /\ n \in Nat /\ Len(made') = n /\ DOMAIN made' = 1 .. n /\ DOMAIN made = 1 .. n - 1
        /\ \A k \in 1 .. n - 1 : made'[k] = made[k]
        /\ made'[n][1] = s
    BY <1>0, <1>c, <2>1
  <2>4. \A t \in Stream : slot'[t].frame <= n /\ slot[t].frame \in Nat BY <1>f, <2>2, <2>3
  <2>5. session.handed \in Nat /\ session.handed < n BY <1>0, <1>f
  <2>6. \A o \in Observer : Has(o) =>
          /\ observing[o].frame \in Nat /\ observing[o].frame < n /\ session.handed < observing[o].frame
          /\ slot'["share"].frame # NoFrame => observing[o].frame < slot'["share"].frame
    <3> SUFFICES ASSUME NEW o \in Observer, Has(o)
                 PROVE  /\ observing[o].frame \in Nat /\ observing[o].frame < n /\ session.handed < observing[o].frame
                        /\ slot'["share"].frame # NoFrame => observing[o].frame < slot'["share"].frame
      OBVIOUS
    <3>1. observing[o].frame \in Nat /\ observing[o].frame < n /\ session.handed < observing[o].frame
      BY <1>f, <1>0
    <3>2. CASE s = "share" BY <2>2, <3>1, <3>2
    <3>3. CASE s # "share" BY <1>0, <1>f, <1>z, <2>2, <3>1, <3>3
    <3> QED BY <3>2, <3>3
  <2>7. slot'["share"].frame # NoFrame => session.handed < slot'["share"].frame
    <3>1. CASE s = "share" BY <2>2, <2>5, <3>1
    <3>2. CASE s # "share" BY <1>0, <1>f, <1>z, <2>2, <3>2
    <3> QED BY <3>1, <3>2
  <2>8. \A t \in Stream, k \in DOMAIN made' : slot'[t].frame # NoFrame /\ made'[k][1] = t => k <= slot'[t].frame
    <3> SUFFICES ASSUME NEW t \in Stream, NEW k \in 1 .. n, slot'[t].frame # NoFrame, made'[k][1] = t
                 PROVE  k <= slot'[t].frame
      BY <2>3
    <3>1. CASE t = s BY <2>2, <3>1
    <3>2. CASE t # s
      <4>1. k # n BY <2>3, <3>2
      <4>2. k \in DOMAIN made /\ made[k][1] = t BY <2>3, <4>1
      <4> QED BY <1>f, <2>2, <3>2, <4>2 DEF UnchangedIsHonest
    <3> QED BY <3>1, <3>2
  <2>9. UnchangedIsHonest' BY <1>d, <2>1, <2>2, <2>8 DEF UnchangedIsHonest, PictureOf
  <2>10. /\ session'.shown = session'.handed /\ \A o \in Observer : Has(o)' <=> Has(o) BY <1>f, <2>2
  <2>11. answer'.kind = "unchanged" => {answer'.frame, answer'.before} \subseteq 1 .. Len(made') BY <1>d, <2>1, <2>2
  <2> HIDE DEF n
  <2> QED BY <2>2, <2>3, <2>4, <2>5, <2>6, <2>7, <2>9, <2>10, <2>11 DEF FrameInv
<1>2. ASSUME NEW o \in Observer, TakeFrame(o), server = "x11" PROVE FrameInv'
  <2> DEFINE n == Len(made) + 1
  <2>1. PICK p \in Picture : made' = Append(made, <<"share", p>>) BY <1>2 DEF TakeFrame
  <2>2. /\ observing'[o] = [step |-> "put", frame |-> n] /\ \A q \in Observer : q # o => observing'[q] = observing[q]
        /\ UNCHANGED <<session, slot, answer>>
    BY <1>0, <1>2 DEF TakeFrame
  <2>3. /\ n \in Nat /\ Len(made') = n /\ \A k \in 1 .. n - 1 : made'[k] = made[k]
    BY <1>0, <1>c, <2>1
  <2>4. \A t \in Stream : slot[t].frame = 0 BY <1>0, <1>2 DEF OwnerInv
  <2>5. session.handed \in Nat /\ session.handed < n /\ session.shown = session.handed BY <1>0, <1>f
  <2>6. \A q \in Observer : Has(q)' => /\ observing'[q].frame \in Nat /\ observing'[q].frame <= n
                                      /\ session.handed < observing'[q].frame
    <3> SUFFICES ASSUME NEW q \in Observer, Has(q)'
                 PROVE  /\ observing'[q].frame \in Nat /\ observing'[q].frame <= n
                        /\ session.handed < observing'[q].frame
      OBVIOUS
    <3>1. CASE q = o BY <2>2, <2>3, <2>5, <3>1
    <3>2. CASE q # o BY <1>0, <1>f, <2>2, <3>2
    <3> QED BY <3>1, <3>2
  <2>7. UnchangedIsHonest' BY <1>0, <1>d, <1>z, <2>1, <2>2, <2>4 DEF UnchangedIsHonest, PictureOf
  <2>8. answer'.kind = "unchanged" => {answer'.frame, answer'.before} \subseteq 1 .. Len(made')
    BY <1>0, <1>d, <2>1, <2>2
  <2> HIDE DEF n
  <2> QED BY <1>0, <1>z, <2>2, <2>3, <2>4, <2>5, <2>6, <2>7, <2>8 DEF FrameInv
<1>3. ASSUME NEW o \in Observer, TakeFrame(o), server # "x11" PROVE FrameInv'
  <2> DEFINE n == slot["share"].frame
  <2>1. /\ slot'["share"].frame = 0 /\ \A t \in Stream : t # "share" => slot'[t] = slot[t]
        /\ observing'[o] = [step |-> "put", frame |-> n] /\ \A q \in Observer : q # o => observing'[q] = observing[q]
        /\ n # NoFrame /\ UNCHANGED <<made, session, answer>>
    BY <1>0, <1>3, <1>z DEF TakeFrame
  <2>2. /\ n \in Nat /\ n <= Len(made) /\ session.handed < n /\ session.handed \in Nat
    BY <1>f, <1>0, <1>z, <2>1
  <2>3. \A q \in Observer : Has(q)' => observing'[q].frame <= Len(made) /\ session.handed < observing'[q].frame
    <3> SUFFICES ASSUME NEW q \in Observer, Has(q)'
                 PROVE  observing'[q].frame <= Len(made) /\ session.handed < observing'[q].frame
      OBVIOUS
    <3>1. CASE q = o BY <2>1, <2>2, <3>1
    <3>2. CASE q # o BY <1>f, <2>1, <3>2
    <3> QED BY <3>1, <3>2
  <2>4. UnchangedIsHonest' BY <1>f, <1>z, <2>1 DEF UnchangedIsHonest, PictureOf
  <2>5. \A t \in Stream : slot'[t].frame <= Len(made)
    <3> SUFFICES ASSUME NEW t \in Stream PROVE slot'[t].frame <= Len(made) OBVIOUS
    <3>1. slot'[t].frame = 0 \/ slot'[t].frame = slot[t].frame BY <2>1
    <3>2. slot[t].frame <= Len(made) BY <1>f
    <3> QED BY <1>0, <3>1, <3>2
  <2>6. answer'.kind = "unchanged" => {answer'.frame, answer'.before} \subseteq 1 .. Len(made')
    BY <1>f, <1>z, <2>1
  <2> HIDE DEF n
  <2> QED BY <1>0, <1>z, <2>1, <2>2, <2>3, <2>4, <2>5, <2>6 DEF FrameInv
<1>4. ASSUME NEW o \in Observer, Compare(o) PROVE FrameInv'
  <2> DEFINE n == observing[o].frame
  <2>1. /\ observing'[o].step = "none" /\ \A q \in Observer : q # o => observing'[q] = observing[q]
        /\ Has(o) /\ UNCHANGED <<made, slot>>
    BY <1>0, <1>4, <1>z DEF Compare, Replies, Streams
  <2>2. \A q \in Observer : ~Has(q)'
    <3>1. \A q \in Observer : Has(q) => lock = q BY <1>0 DEF LockInv, Holding
    <3> QED BY <2>1, <3>1
  <2>3. /\ n \in Nat /\ n <= Len(made) /\ session.handed < n /\ session.handed \in Nat /\ session.handed <= Len(made)
        /\ session.shown = session.handed
        /\ slot["share"].frame # NoFrame => n < slot["share"].frame /\ session.handed < slot["share"].frame
    BY <1>f, <1>z, <2>1
  <2>4. \/ /\ session' = session /\ answer' = [kind |-> "unchanged", frame |-> n, before |-> session.handed]
           /\ session.handed # 0 /\ made[session.handed][2] = made[n][2]
        \/ /\ session' = [session EXCEPT !.shown = n, !.handed = n]
           /\ answer' = [kind |-> "frame", frame |-> n, before |-> session.handed]
    BY <1>4, <1>z, <2>3 DEF Compare, Unchanged, PictureOf
  <2>5. session'.shown = session'.handed /\ session'.handed \in {n, session.handed} BY <1>0, <2>3, <2>4
  <2>6. answer'.kind = "unchanged" => {answer'.frame, answer'.before} \subseteq 1 .. Len(made) BY <2>3, <2>4
  <2>7. UnchangedIsHonest'
    <3>1. \A s \in Stream, k \in DOMAIN made : slot[s].frame # NoFrame /\ made[k][1] = s => k <= slot[s].frame
      BY <1>0 DEF FrameInv, UnchangedIsHonest
    <3> QED BY <1>z, <2>1, <2>3, <2>4, <3>1 DEF UnchangedIsHonest, PictureOf
  <2>8. \A s \in Stream : slot[s].frame <= Len(made) BY <1>0 DEF FrameInv
  <2> HIDE DEF n
  <2> QED BY <2>1, <2>2, <2>3, <2>5, <2>6, <2>7, <2>8 DEF FrameInv
<1>5. ASSUME NEW o \in Observer,
             Observe(o) \/ SessionLocked(o) \/ PutFrame(o) \/ ObserveFails(o) \/ NoFrameCame(o)
      PROVE  FrameInv'
  <2>1. UNCHANGED <<made, session, answer>>
    BY <1>5 DEF Observe, SessionLocked, PutFrame, ObserveFails, NoFrameCame
  <2>2. \A s \in Stream : slot'[s].frame = slot[s].frame
    <3>1. CASE NoFrameCame(o) BY <1>0, <3>1 DEF NoFrameCame
    <3>2. CASE ~NoFrameCame(o)
      BY <1>5, <3>2 DEF Observe, SessionLocked, PutFrame, ObserveFails, Streams
    <3> QED BY <3>1, <3>2
  <2>3. \A q \in Observer : Has(q)' => Has(q) /\ observing'[q].frame = observing[q].frame
    <3>1. CASE observing' = [observing EXCEPT ![o] = NotAsking] BY <1>0, <1>z, <3>1
    <3>2. CASE \E step \in {"lock", "wait"} : Asks(o, step) BY <1>0, <3>2 DEF Asks
    <3>3. CASE observing[o].step = "put" /\ Asks(o, "get") BY <1>0, <3>3 DEF Asks
    <3> QED BY <1>5, <3>1, <3>2, <3>3 DEF Observe, SessionLocked, PutFrame, ObserveFails, NoFrameCame, Replies
  <2>4. session'.shown = session'.handed BY <1>0, <2>1 DEF FrameInv
  <2> QED BY <1>0, <1>a, <2>1, <2>2, <2>3, <2>4
<1>6. CASE SessionBegins
  <2>1. \A o \in Observer : observing'[o].step = "none" BY <1>6, <1>z DEF SessionBegins
  <2>2. UNCHANGED <<made, slot>> /\ session'.shown = 0 /\ session'.handed = 0 /\ answer' = NoAnswer
    BY <1>6, <1>z DEF SessionBegins, NoSession
  <2> QED BY <1>0, <1>a, <2>1, <2>2
<1>7. CASE SetPaused
  <2>1. UNCHANGED <<made, slot, observing, answer>> /\ session'.shown = session.shown /\ session'.handed = session.handed
    BY <1>0, <1>7 DEF SetPaused, Streams
  <2> QED BY <1>0, <1>a, <2>1 DEF FrameInv
<1>8. CASE StopBegins
  <2>1. UNCHANGED <<made, slot, observing>> /\ session'.shown = 0 /\ session'.handed = 0 /\ answer' = NoAnswer
    BY <1>8, <1>z DEF StopBegins, Streams
  <2> QED BY <1>0, <1>a, <2>1
<1>9. ASSUME NEW s \in Stream, StreamStops(s), UNCHANGED <<made, session, observing, answer>> PROVE FrameInv'
  <2>1. \A t \in Stream : slot'[t].frame \in {0, slot[t].frame} BY <1>0, <1>9, <1>z DEF StreamStops
  <2>2. session'.shown = session'.handed BY <1>0, <1>9 DEF FrameInv
  <2> QED BY <1>0, <1>a, <1>9, <2>1, <2>2
<1>10. CASE StopEnds \/ StillStops \/ \E s \in Stream : NotReady(s)
  <2>1. PICK s \in Stream : StreamStops(s)
    BY <1>0, <1>10 DEF StopEnds, StillStops, NotReady, Stream
  <2>2. UNCHANGED <<made, session, observing, answer>> BY <1>10 DEF StopEnds, StillStops, NotReady, Frames
  <2> QED BY <1>9, <2>1, <2>2
<1>11. ASSUME NEW s \in Stream, WorkerFails(s) PROVE FrameInv'
  <2>1. \A t \in Stream : slot'[t].frame = slot[t].frame BY <1>0, <1>11 DEF WorkerFails
  <2>2. session'.shown = session'.handed /\ UNCHANGED <<made, session, observing, answer>>
    BY <1>0, <1>11 DEF WorkerFails, Frames, FrameInv
  <2> QED BY <1>0, <1>a, <2>1, <2>2
<1>12. ASSUME NEW s \in Stream,
              \/ StartStream(s) \/ LoadToken(s) \/ Restore(s) \/ TokenKept(s) \/ UserApproves(s)
              \/ NegotiationFails(s) \/ OpenStream(s) \/ StreamReady(s) \/ StartAborted(s)
       PROVE  FrameInv'
  <2>1. UNCHANGED <<made, session, slot, observing, answer>>
    BY <1>12 DEF StartStream, LoadToken, Restore, TokenKept, UserApproves, NegotiationFails, OpenStream,
                 StreamReady, StartAborted, Frames
  <2> QED BY <1>b, <2>1
<1>13. CASE TokenWritten \/ StillTaken \/ StillFails \/ UserRevokes \/ StopLocks \/ StopAborted
  <2>1. UNCHANGED <<made, session, slot, observing, answer>>
    BY <1>13 DEF TokenWritten, StillTaken, StillFails, UserRevokes, StopLocks, StopAborted, Frames, Streams
  <2> QED BY <1>b, <2>1
<1> QED BY <1>1, <1>2, <1>3, <1>4, <1>5, <1>6, <1>7, <1>8, <1>10, <1>11, <1>12, <1>13 DEF FramesNext

LEMMA FramesStep == FramesInv /\ [FramesNext]_frameVars => FramesInv'
<1> SUFFICES ASSUME FramesInv, [FramesNext]_frameVars PROVE FramesInv' OBVIOUS
<1>1. CASE UNCHANGED frameVars
  <2>1. StreamShape' /\ FrameShape' BY <1>1 DEF FramesInv, frameVars, StreamShape, FrameShape
  <2>2. TokenInv' /\ LockInv' BY <1>1 DEF FramesInv, frameVars, TokenInv, LockInv
  <2>3. OwnerInv' BY <1>1 DEF FramesInv, frameVars, OwnerInv, StreamsHaveOwners, Owned, StartAt
  <2>4. FrameInv' BY <1>1 DEF FramesInv, frameVars, FrameInv, UnchangedIsHonest, PictureOf
  <2> QED BY <2>1, <2>2, <2>3, <2>4 DEF FramesInv
<1>2. CASE FramesNext
  BY <1>2, StreamShapeKept, FrameShapeKept, TokensKept, OwnersKept, LockKept, FramesKept DEF FramesInv
<1> QED BY <1>1, <1>2

(* Every variable of the frames of a shared screen keeps its type.         *)
THEOREM FramesTypeCorrect == FramesSpec => []FramesTypeOK
<1>1. FramesInv => FramesTypeOK
  <2> SUFFICES ASSUME FramesInv PROVE FramesTypeOK OBVIOUS
  <2>1. StreamShape /\ FrameShape /\ TokenInv /\ FrameInv BY DEF FramesInv
  <2>2. \A n \in DOMAIN made : made[n] \in Stream \X Picture BY <2>1 DEF FrameShape
  <2>3. \A s \in Stream : worker[s] \in {"none", "running", "ended"} /\ slot[s].frame \in 0 .. Len(made)
    BY <2>1 DEF StreamShape, FrameShape, FrameInv
  <2>4. session.shown \in 0 .. Len(made) /\ session.handed \in 0 .. Len(made)
    BY <2>1 DEF FrameShape, FrameInv
  <2>5. granted \cup left \subseteq Stream /\ unclosed \subseteq granted /\ server \in {"x11", "portal"} BY <2>1 DEF StreamShape
  <2>6. /\ token \in 0 .. shots.tokens /\ valid \cup rejected \cup undeleted \subseteq 1 .. shots.tokens
        /\ writes \subseteq Stream \X (0 .. shots.tokens)
    BY <2>1 DEF TokenInv
  <2> QED BY <2>1, <2>2, <2>3, <2>4, <2>5, <2>6 DEF FramesTypeOK, FrameShape
<1> QED BY <1>1, FramesInitially, FramesStep, PTL DEF FramesSpec

(* What is told of a shared screen is so: "unchanged" is the picture that  *)
(* was handed out last, frames come in order, and none overtaken; a stream *)
(* has an owner, was left behind by an abort or a failure that cannot stop *)
(* it, or is a session of the portal that could not be closed; and a token *)
(* that the portal turned down goes, unless the store refused to delete it.*)
THEOREM ScreenHonest == FramesSpec => []ScreenIsHonest
<1>1. FramesInv => ScreenIsHonest
  <2> SUFFICES ASSUME FramesInv PROVE ScreenIsHonest OBVIOUS
  <2>1. RejectedTokenGoes BY DEF FramesInv, TokenInv, RejectedTokenGoes
  <2> QED BY <2>1 DEF FramesInv, FrameInv, OwnerInv, ScreenIsHonest
<1> QED BY <1>1, FramesInitially, FramesStep, PTL DEF FramesSpec

-----------------------------------------------------------------------------
(* One call of any tool.                                                   *)
(* A step that touches something comes after a ticket that is good for it. *)
Sequence(s) == \E S : s \in Seq(S)
Covered(s) ==
  \A k \in DOMAIN s : s[k].do = "effect" =>
    s[k].needs = {} \/ \E j \in 1 .. k - 1 : s[j].do = "ticket" /\ s[j].needs \subseteq s[k].needs

(* Tickets for the needs are all that the steps demand, unless a check     *)
(* fails before.                                                           *)
Fails(step) == step.do = "check" /\ ~step.ok
Demands(step, needs) ==
  \/ step.do \in {"bar", "ticket"} /\ ~step.ok
  \/ step.do = "ticket" /\ step.needs \cap needs = {}
Enough(s, needs) ==
  \A k \in DOMAIN s : Demands(s[k], needs) => \E j \in 1 .. k - 1 : Fails(s[j])

Quiet(s) == Sequence(s) /\ \A k \in DOMAIN s : s[k].do \in {"check", "gate"}
Broken(s) == \E k \in DOMAIN s : Fails(s[k])
HasTicket(s, needs) == \E k \in DOMAIN s : s[k].do = "ticket" /\ s[k].needs \subseteq needs

LEMMA Joined ==
  ASSUME NEW s, NEW t, Sequence(s), Sequence(t)
  PROVE  /\ Sequence(s \o t)
         /\ Len(s) \in Nat /\ Len(t) \in Nat /\ DOMAIN s = 1 .. Len(s) /\ DOMAIN t = 1 .. Len(t)
         /\ DOMAIN (s \o t) = 1 .. Len(s) + Len(t)
         /\ \A k \in 1 .. Len(s) : (s \o t)[k] = s[k]
         /\ \A k \in 1 .. Len(t) : (s \o t)[Len(s) + k] = t[k]
<1>1. PICK S : s \in Seq(S) BY DEF Sequence
<1>2. PICK T : t \in Seq(T) BY DEF Sequence
<1>3. s \in Seq(S \cup T) /\ t \in Seq(S \cup T) BY <1>1, <1>2
<1>4. s \o t \in Seq(S \cup T) BY <1>3
<1>5. Sequence(s \o t) BY <1>4 DEF Sequence
<1>6. /\ Len(s) \in Nat /\ Len(t) \in Nat /\ DOMAIN s = 1 .. Len(s) /\ DOMAIN t = 1 .. Len(t)
      /\ DOMAIN (s \o t) = 1 .. Len(s) + Len(t)
  BY <1>3, <1>4
<1>7. \A k \in 1 .. Len(s) : (s \o t)[k] = s[k] BY <1>3
<1>8. \A k \in 1 .. Len(t) : (s \o t)[Len(s) + k] = t[k] BY <1>3
<1> QED BY <1>5, <1>6, <1>7, <1>8

\* A step of the whole is one of the first part or of the second.
LEMMA Parts ==
  ASSUME NEW s, NEW t, Sequence(s), Sequence(t), NEW k \in DOMAIN (s \o t)
  PROVE  \/ k \in DOMAIN s /\ (s \o t)[k] = s[k] /\ 1 .. k - 1 \subseteq DOMAIN s
         \/ \E i \in DOMAIN t : k = Len(s) + i /\ (s \o t)[k] = t[i]
<1> USE Joined
<1>1. Len(s) \in Nat /\ Len(t) \in Nat /\ k \in 1 .. Len(s) + Len(t) OBVIOUS
<1>2. CASE k <= Len(s) BY <1>1, <1>2
<1>3. CASE k > Len(s)
  <2>1. k - Len(s) \in 1 .. Len(t) /\ k = Len(s) + (k - Len(s)) BY <1>1, <1>3
  <2> QED BY <2>1
<1> QED BY <1>1, <1>2, <1>3

LEMMA CoveredJoins ==
  ASSUME NEW s, NEW t, Sequence(s), Sequence(t), Covered(s),
         \A k \in DOMAIN t : t[k].do = "effect" =>
           \/ t[k].needs = {} \/ HasTicket(s, t[k].needs)
           \/ \E j \in 1 .. k - 1 : t[j].do = "ticket" /\ t[j].needs \subseteq t[k].needs
  PROVE  Sequence(s \o t) /\ Covered(s \o t)
<1> DEFINE u == s \o t
<1>1. /\ Sequence(u) /\ Len(s) \in Nat /\ Len(t) \in Nat /\ DOMAIN s = 1 .. Len(s) /\ DOMAIN t = 1 .. Len(t)
      /\ \A k \in 1 .. Len(s) : u[k] = s[k] /\ \A i \in 1 .. Len(t) : u[Len(s) + i] = t[i]
  BY Joined
<1>2. \A i \in 1 .. Len(t) : u[Len(s) + i] = t[i] BY Joined
<1> SUFFICES ASSUME NEW k \in DOMAIN u, u[k].do = "effect", u[k].needs # {}
             PROVE  \E j \in 1 .. k - 1 : u[j].do = "ticket" /\ u[j].needs \subseteq u[k].needs
  BY <1>1 DEF Covered
<1>3. CASE k \in DOMAIN s /\ u[k] = s[k] /\ 1 .. k - 1 \subseteq DOMAIN s
  <2>1. PICK j \in 1 .. k - 1 : s[j].do = "ticket" /\ s[j].needs \subseteq s[k].needs BY <1>3 DEF Covered
  <2>2. u[j] = s[j] BY <1>1, <1>3, <2>1
  <2> QED BY <2>1, <2>2, <1>3
<1>4. ASSUME NEW i \in DOMAIN t, k = Len(s) + i, u[k] = t[i]
      PROVE  \E j \in 1 .. k - 1 : u[j].do = "ticket" /\ u[j].needs \subseteq u[k].needs
  <2>1. CASE HasTicket(s, t[i].needs)
    <3>1. PICK j \in DOMAIN s : s[j].do = "ticket" /\ s[j].needs \subseteq t[i].needs BY <2>1 DEF HasTicket
    <3>2. j \in 1 .. k - 1 /\ u[j] = s[j] BY <1>1, <1>4, <3>1
    <3> QED BY <3>1, <3>2, <1>4
  <2>2. CASE \E j \in 1 .. i - 1 : t[j].do = "ticket" /\ t[j].needs \subseteq t[i].needs
    <3>1. PICK j \in 1 .. i - 1 : t[j].do = "ticket" /\ t[j].needs \subseteq t[i].needs BY <2>2
    <3>2. j \in 1 .. Len(t) /\ Len(s) + j \in 1 .. k - 1 BY <1>1, <1>4
    <3>3. u[Len(s) + j] = t[j] BY <1>2, <3>2
    <3>4. u[Len(s) + j].do = "ticket" /\ u[Len(s) + j].needs \subseteq u[k].needs BY <3>1, <3>3, <1>4
    <3> QED BY <3>2, <3>4
  <2>3. t[i].do = "effect" /\ t[i].needs # {} BY <1>4
  <2> QED BY <2>1, <2>2, <2>3, <1>4
<1>5. \/ k \in DOMAIN s /\ u[k] = s[k] /\ 1 .. k - 1 \subseteq DOMAIN s
      \/ \E i \in DOMAIN t : k = Len(s) + i /\ u[k] = t[i]
  BY Parts
<1> QED BY <1>3, <1>4, <1>5

LEMMA CoveredAppends ==
  ASSUME NEW s, NEW t, Sequence(s), Sequence(t), Covered(s), Covered(t)
  PROVE  Sequence(s \o t) /\ Covered(s \o t)
<1>1. \A k \in DOMAIN t : t[k].do = "effect" =>
        \/ t[k].needs = {} \/ HasTicket(s, t[k].needs)
        \/ \E j \in 1 .. k - 1 : t[j].do = "ticket" /\ t[j].needs \subseteq t[k].needs
  BY DEF Covered
<1> QED BY <1>1, CoveredJoins

LEMMA EnoughJoins ==
  ASSUME NEW s, NEW t, NEW needs, Sequence(s), Sequence(t), Enough(s, needs),
         Broken(s) \/ Enough(t, needs)
  PROVE  Enough(s \o t, needs)
<1> DEFINE u == s \o t
<1>1. /\ Len(s) \in Nat /\ Len(t) \in Nat /\ DOMAIN s = 1 .. Len(s) /\ DOMAIN t = 1 .. Len(t)
      /\ \A k \in 1 .. Len(s) : u[k] = s[k]
  BY Joined
<1>2. \A i \in 1 .. Len(t) : u[Len(s) + i] = t[i] BY Joined
<1> SUFFICES ASSUME NEW k \in DOMAIN u, Demands(u[k], needs) PROVE \E j \in 1 .. k - 1 : Fails(u[j])
  BY DEF Enough
<1>3. CASE k \in DOMAIN s /\ u[k] = s[k] /\ 1 .. k - 1 \subseteq DOMAIN s
  <2>1. PICK j \in 1 .. k - 1 : Fails(s[j]) BY <1>3 DEF Enough
  <2>2. u[j] = s[j] BY <1>1, <1>3, <2>1
  <2> QED BY <2>1, <2>2
<1>4. ASSUME NEW i \in DOMAIN t, k = Len(s) + i, u[k] = t[i]
      PROVE  \E j \in 1 .. k - 1 : Fails(u[j])
  <2>1. CASE Broken(s)
    <3>1. PICK j \in DOMAIN s : Fails(s[j]) BY <2>1 DEF Broken
    <3>2. j \in 1 .. k - 1 /\ u[j] = s[j] BY <1>1, <1>4, <3>1
    <3> QED BY <3>1, <3>2
  <2>2. CASE Enough(t, needs)
    <3>1. PICK j \in 1 .. i - 1 : Fails(t[j]) BY <2>2, <1>4 DEF Enough
    <3>2. j \in 1 .. Len(t) /\ Len(s) + j \in 1 .. k - 1 BY <1>1, <1>4, <3>1
    <3>3. u[Len(s) + j] = t[j] BY <1>2, <3>2
    <3> QED BY <3>1, <3>2, <3>3
  <2> QED BY <2>1, <2>2
<1>5. \/ k \in DOMAIN s /\ u[k] = s[k] /\ 1 .. k - 1 \subseteq DOMAIN s
      \/ \E i \in DOMAIN t : k = Len(s) + i /\ u[k] = t[i]
  BY Parts
<1> QED BY <1>3, <1>4, <1>5

LEMMA MarksStay ==
  ASSUME NEW s, NEW t, Sequence(s), Sequence(t)
  PROVE  /\ Broken(s) => Broken(s \o t)
         /\ Broken(t) => Broken(s \o t)
         /\ \A needs : HasTicket(s, needs) \/ HasTicket(t, needs) => HasTicket(s \o t, needs)
         /\ Quiet(s) /\ Quiet(t) => Quiet(s \o t)
<1> DEFINE u == s \o t
<1>1. /\ Sequence(u) /\ Len(s) \in Nat /\ Len(t) \in Nat /\ DOMAIN s = 1 .. Len(s) /\ DOMAIN t = 1 .. Len(t)
      /\ DOMAIN u = 1 .. Len(s) + Len(t)
  BY Joined
<1>2. \A k \in DOMAIN s : k \in DOMAIN u /\ u[k] = s[k] BY <1>1, Joined
<1>3. \A i \in DOMAIN t : Len(s) + i \in DOMAIN u /\ u[Len(s) + i] = t[i]
  <2> TAKE i \in DOMAIN t
  <2>1. Len(s) + i \in DOMAIN u BY <1>1
  <2>2. u[Len(s) + i] = t[i] BY <1>1, Joined
  <2> QED BY <2>1, <2>2
<1>4. Broken(s) => Broken(u) BY <1>2 DEF Broken
<1>5. Broken(t) => Broken(u) BY <1>3, Zenon DEF Broken
<1>6. \A needs : HasTicket(s, needs) => HasTicket(u, needs) BY <1>2 DEF HasTicket
<1>7. \A needs : HasTicket(t, needs) => HasTicket(u, needs) BY <1>3, Zenon DEF HasTicket
<1>8. Quiet(s) /\ Quiet(t) => Quiet(u)
  <2> SUFFICES ASSUME Quiet(s), Quiet(t), NEW k \in DOMAIN u PROVE u[k].do \in {"check", "gate"}
    BY <1>1 DEF Quiet
  <2>1. \/ k \in DOMAIN s /\ u[k] = s[k]
        \/ \E i \in DOMAIN t : u[k] = t[i]
    BY Parts
  <2> QED BY <2>1 DEF Quiet
<1> QED BY <1>4, <1>5, <1>6, <1>7, <1>8

-----------------------------------------------------------------------------
LEMMA OneStep ==
  ASSUME NEW step
  PROVE  /\ Sequence(<<step>>) /\ <<step>> # <<>>
         /\ DOMAIN <<step>> = {1} /\ <<step>>[1] = step
<1>1. <<step>> \in Seq({step}) OBVIOUS
<1>2. Sequence(<<step>>) BY <1>1 DEF Sequence
<1>3. Len(<<step>>) = 1 /\ <<step>>[1] = step /\ <<step>> # <<>> OBVIOUS
<1>4. DOMAIN <<step>> = {1} OBVIOUS
<1> QED BY <1>2, <1>3, <1>4

LEMMA NoStep == Sequence(<<>>) /\ DOMAIN <<>> = {} /\ Quiet(<<>>)
<1>1. <<>> \in Seq({}) OBVIOUS
<1>2. DOMAIN <<>> = {} OBVIOUS
<1> QED BY <1>1, <1>2 DEF Sequence, Quiet

LEMMA QuietSteps ==
  /\ \A b : Quiet(Valid(b))
  /\ Quiet(Stoppable) /\ \A b \in BOOLEAN : Quiet(InScope(b))
<1>1. \A b : Quiet(Valid(b)) BY OneStep DEF Quiet, Valid
<1>2. Quiet(Stoppable) BY OneStep DEF Quiet, Stoppable
<1> QED BY <1>1, <1>2, NoStep DEF InScope

LEMMA QuietIsFine ==
  ASSUME NEW s, Quiet(s)
  PROVE  Sequence(s) /\ Covered(s) /\ \A needs : Enough(s, needs)
BY DEF Quiet, Covered, Enough, Demands

LEMMA FailedCheck == Broken(Valid(FALSE))
BY OneStep DEF Broken, Valid, Fails

\* What one more step adds.
LEMMA AddQuiet ==
  ASSUME NEW s, Sequence(s), Covered(s), NEW t, Quiet(t)
  PROVE  /\ Sequence(s \o t) /\ Covered(s \o t)
         /\ \A needs : Enough(s, needs) => Enough(s \o t, needs)
<1>1. Sequence(t) BY DEF Quiet
<1>2. \A k \in DOMAIN t : t[k].do # "effect" BY DEF Quiet
<1>3. Sequence(s \o t) /\ Covered(s \o t) BY <1>1, <1>2, CoveredJoins
<1>4. \A needs : Enough(t, needs) BY QuietIsFine
<1> QED BY <1>1, <1>3, <1>4, EnoughJoins

LEMMA AddHolds ==
  ASSUME NEW s, Sequence(s), Covered(s), NEW n
  PROVE  /\ Sequence(s \o Holds(n)) /\ Covered(s \o Holds(n)) /\ s \o Holds(n) # <<>>
         /\ HasTicket(s \o Holds(n), n)
         /\ \A needs : Enough(s, needs) /\ (Broken(s) \/ n \cap needs # {}) => Enough(s \o Holds(n), needs)
<1> DEFINE t == Holds(n)
<1>1. /\ Sequence(t) /\ DOMAIN t = {1}
      /\ t[1].do = "ticket" /\ t[1].ok /\ t[1].needs = n
  BY OneStep DEF Holds
<1>2. Sequence(s \o t) /\ Covered(s \o t) BY <1>1, CoveredJoins
<1>3. HasTicket(t, n) BY <1>1 DEF HasTicket
<1>4. \A needs : n \cap needs # {} => Enough(t, needs) BY <1>1 DEF Enough, Demands
<1>5. \A needs : Enough(s, needs) /\ (Broken(s) \/ n \cap needs # {}) => Enough(s \o t, needs)
  BY <1>1, <1>4, EnoughJoins
<1>6. HasTicket(s \o t, n) BY <1>1, <1>3, MarksStay
<1>7. s \o t # <<>> BY <1>6 DEF HasTicket
<1> QED BY <1>2, <1>5, <1>6, <1>7

LEMMA AddTouches ==
  ASSUME NEW s, Sequence(s), Covered(s), NEW n, n = {} \/ HasTicket(s, n)
  PROVE  /\ Sequence(s \o Touches(n)) /\ Covered(s \o Touches(n)) /\ s \o Touches(n) # <<>>
         /\ \A needs : Enough(s, needs) => Enough(s \o Touches(n), needs)
<1> DEFINE t == Touches(n)
<1>1. /\ Sequence(t) /\ DOMAIN t = {1} /\ t[1].do = "effect" /\ t[1].needs = n BY OneStep DEF Touches
<1>2. Sequence(s \o t) /\ Covered(s \o t) BY <1>1, CoveredJoins
<1>3. \A needs : Enough(t, needs) BY <1>1 DEF Enough, Demands
<1>4. \A needs : Enough(s, needs) => Enough(s \o t, needs) BY <1>1, <1>3, EnoughJoins
<1>5. s \o t # <<>> BY <1>1, Joined
<1> QED BY <1>2, <1>4, <1>5

-----------------------------------------------------------------------------
(* A call is honest when it touches nothing without a ticket; what it says *)
(* beforehand suffices when tickets for it, or, of a step, for the one     *)
(* requirement there is, are all it demands.                               *)
Honest(d) == Sequence(d.does) /\ d.does # <<>> /\ Covered(d.does)
Suffices(d) ==
  Enough(d.does, d.asks) /\ (Cardinality(d.asks) > 1 \/ Enough(d.does, d.single))
Regular(d) == Honest(d) /\ Suffices(d)

\* The steps of a tool with one requirement, up to its effect.
Prepared(s, cond, n) ==
  Sequence(s) /\ Covered(s) /\ HasTicket(s, {n}) /\ Enough(s, When(cond, {n}))

LEMMA TicketPrepares ==
  ASSUME NEW s, Quiet(s), NEW cond \in BOOLEAN, cond \/ Broken(s), NEW n
  PROVE  Prepared(s \o Holds({n}), cond, n)
<1>1. Sequence(s) /\ Covered(s) /\ Enough(s, When(cond, {n})) BY QuietIsFine
<1>2. Broken(s) \/ {n} \cap When(cond, {n}) # {} BY DEF When
<1> QED BY <1>1, <1>2, AddHolds DEF Prepared

LEMMA QuietPrepares ==
  ASSUME NEW s, NEW cond \in BOOLEAN, NEW n, Prepared(s, cond, n), NEW t, Quiet(t)
  PROVE  Prepared(s \o t, cond, n)
<1>1. Sequence(t) BY DEF Quiet
<1>2. HasTicket(s \o t, {n}) BY <1>1, MarksStay DEF Prepared
<1> QED BY <1>2, AddQuiet DEF Prepared

LEMMA EffectEnds ==
  ASSUME NEW s, NEW cond \in BOOLEAN, NEW n, Prepared(s, cond, n)
  PROVE  Regular(Tool(When(cond, {n}), s \o Touches({n})))
<1> DEFINE d == Tool(When(cond, {n}), s \o Touches({n}))
<1>1. d.asks = When(cond, {n}) /\ d.single = When(cond, {n}) /\ d.does = s \o Touches({n})
  BY DEF Tool
<1>2. /\ Sequence(s \o Touches({n})) /\ Covered(s \o Touches({n})) /\ s \o Touches({n}) # <<>>
      /\ Enough(s \o Touches({n}), When(cond, {n}))
  BY AddTouches DEF Prepared
<1> QED BY <1>1, <1>2 DEF Regular, Honest, Suffices

LEMMA QuietBreaks ==
  ASSUME NEW b \in BOOLEAN, NEW t, Quiet(t)
  PROVE  /\ Quiet(Valid(b) \o t) /\ Quiet(t \o Valid(b))
         /\ b \/ Broken(Valid(b) \o t)
         /\ b \/ Broken(t \o Valid(b))
<1>1. Quiet(Valid(b)) /\ Sequence(Valid(b)) /\ Sequence(t) BY QuietSteps DEF Quiet
<1>2. b \/ Broken(Valid(b)) BY FailedCheck
<1> QED BY <1>1, <1>2, MarksStay

LEMMA GuardedIsRegular ==
  ASSUME NEW named \in BOOLEAN, NEW n, NEW before, Quiet(before), NEW after, Quiet(after)
  PROVE  Regular(Guarded(named, n, before, after))
<1>1. Quiet(Valid(named) \o before) /\ (named \/ Broken(Valid(named) \o before)) BY QuietBreaks
<1>2. Prepared(Valid(named) \o before \o Holds({n}), named, n) BY <1>1, TicketPrepares
<1>3. Prepared(Valid(named) \o before \o Holds({n}) \o after, named, n) BY <1>2, QuietPrepares
<1> QED BY <1>3, EffectEnds DEF Guarded

LEMMA PlainIsRegular ==
  ASSUME NEW named \in BOOLEAN, NEW n
  PROVE  Regular(Plain(named, n))
BY GuardedIsRegular, NoStep DEF Plain

LEMMA UnguardedIsRegular ==
  ASSUME NEW s, Quiet(s)
  PROVE  Regular(Unguarded(s))
<1> DEFINE d == Unguarded(s)
<1>1. d.asks = {} /\ d.single = {} /\ d.does = s \o Touches({}) BY DEF Unguarded, Tool, Acts
<1>2. /\ Sequence(s \o Touches({})) /\ Covered(s \o Touches({})) /\ s \o Touches({}) # <<>>
      /\ Enough(s \o Touches({}), {})
  BY AddTouches, QuietIsFine
<1> QED BY <1>1, <1>2 DEF Regular, Honest, Suffices

LEMMA BooleanWords == \A x : Present(x) \in BOOLEAN /\ Fits(x) \in BOOLEAN
BY DEF Present, Fits

-----------------------------------------------------------------------------
LEMMA TwoOf ==
  ASSUME NEW S, IsFiniteSet(S), NEW a \in S, NEW b \in S, a # b
  PROVE  Cardinality(S) > 1
<1>1. IsFiniteSet({a}) /\ Cardinality({a}) = 1 BY FS_Singleton
<1>2. IsFiniteSet({a} \cup {b}) /\ Cardinality({a} \cup {b}) = 2
  <2>1. b \notin {a} OBVIOUS
  <2>2. IsFiniteSet({a} \cup {b}) BY <1>1, FS_AddElement
  <2>3. Cardinality({a} \cup {b}) = Cardinality({a}) + 1 BY <1>1, <2>1, FS_AddElement
  <2> QED BY <1>1, <2>2, <2>3
<1>3. {a} \cup {b} \subseteq S OBVIOUS
<1>4. 2 <= Cardinality(S) /\ Cardinality(S) \in Nat BY <1>2, <1>3, FS_Subset, FS_CardinalityType
<1> QED BY <1>4

LEMMA SmallSets ==
  ASSUME NEW a, NEW b, NEW c
  PROVE  IsFiniteSet({a, b}) /\ IsFiniteSet({a, b, c})
<1>1. IsFiniteSet({a}) BY FS_Singleton
<1>2. IsFiniteSet({a} \cup {b}) BY <1>1, FS_AddElement
<1>3. IsFiniteSet(({a} \cup {b}) \cup {c}) BY <1>2, FS_AddElement
<1>4. {a, b} = {a} \cup {b} /\ {a, b, c} = ({a} \cup {b}) \cup {c} OBVIOUS
<1> QED BY <1>2, <1>3, <1>4

LEMMA EachIsSequence ==
  ASSUME NEW ns, Sequence(ns)
  PROVE  /\ Sequence(HoldsEach(ns)) /\ Sequence(TouchesEach(ns))
         /\ ns # <<>> => 1 \in DOMAIN HoldsEach(ns) /\ 1 \in DOMAIN TouchesEach(ns)
<1>1. PICK S : ns \in Seq(S) BY DEF Sequence
<1>2. DOMAIN ns = 1 .. Len(ns) /\ Len(ns) \in Nat /\ (ns # <<>> => Len(ns) # 0) BY <1>1
<1>3. HoldsEach(ns) \in Seq({HoldsEach(ns)[i] : i \in DOMAIN ns})
  <2> DEFINE t == HoldsEach(ns)
  <2>1. [i \in 1 .. Len(ns) |-> t[i]] \in Seq({t[i] : i \in DOMAIN ns}) BY <1>2
  <2>2. t = [i \in 1 .. Len(ns) |-> t[i]] BY <1>2 DEF HoldsEach
  <2> QED BY <2>1, <2>2
<1>4. TouchesEach(ns) \in Seq({TouchesEach(ns)[i] : i \in DOMAIN ns})
  <2> DEFINE t == TouchesEach(ns)
  <2>1. [i \in 1 .. Len(ns) |-> t[i]] \in Seq({t[i] : i \in DOMAIN ns}) BY <1>2
  <2>2. t = [i \in 1 .. Len(ns) |-> t[i]] BY <1>2 DEF TouchesEach
  <2> QED BY <2>1, <2>2
<1>5. DOMAIN HoldsEach(ns) = DOMAIN ns /\ DOMAIN TouchesEach(ns) = DOMAIN ns BY DEF HoldsEach, TouchesEach
<1>6. ns # <<>> => 1 \in DOMAIN ns BY <1>2
<1> QED BY <1>3, <1>4, <1>5, <1>6 DEF Sequence

\* Tickets for several requirements, then the effects under each.
LEMMA AddHoldsEach ==
  ASSUME NEW s, Sequence(s), Covered(s), NEW ns, Sequence(ns)
  PROVE  /\ Sequence(s \o HoldsEach(ns)) /\ Covered(s \o HoldsEach(ns))
         /\ \A i \in DOMAIN ns : HasTicket(s \o HoldsEach(ns), {ns[i]})
         /\ \A needs : Enough(s, needs) /\ (Broken(s) \/ Needed(ns) \subseteq needs)
                         => Enough(s \o HoldsEach(ns), needs)
<1> DEFINE t == HoldsEach(ns)
<1>1. DOMAIN t = DOMAIN ns BY DEF HoldsEach
<1>2. \A i \in DOMAIN ns : t[i].do = "ticket" /\ t[i].ok /\ t[i].needs = {ns[i]} BY DEF HoldsEach, Holds
<1>3. Sequence(t) BY EachIsSequence
<1>4. Sequence(s \o t) /\ Covered(s \o t) BY <1>1, <1>2, <1>3, CoveredJoins
<1>5. \A i \in DOMAIN ns : HasTicket(t, {ns[i]}) BY <1>1, <1>2 DEF HasTicket
<1>6. \A i \in DOMAIN ns : HasTicket(s \o t, {ns[i]}) BY <1>3, <1>5, MarksStay
<1>7. \A needs : Needed(ns) \subseteq needs => Enough(t, needs)
  BY <1>1, <1>2 DEF Enough, Demands, Needed
<1>8. \A needs : Enough(s, needs) /\ (Broken(s) \/ Needed(ns) \subseteq needs) => Enough(s \o t, needs)
  BY <1>3, <1>7, EnoughJoins
<1> QED BY <1>4, <1>6, <1>8

LEMMA AddTouchesEach ==
  ASSUME NEW s, Sequence(s), Covered(s), NEW ns, Sequence(ns), ns # <<>>,
         \A i \in DOMAIN ns : HasTicket(s, {ns[i]})
  PROVE  /\ Sequence(s \o TouchesEach(ns)) /\ Covered(s \o TouchesEach(ns))
         /\ s \o TouchesEach(ns) # <<>>
         /\ \A i \in DOMAIN ns : HasTicket(s \o TouchesEach(ns), {ns[i]})
         /\ \A needs : Enough(s, needs) => Enough(s \o TouchesEach(ns), needs)
<1> DEFINE t == TouchesEach(ns)
<1>1. DOMAIN t = DOMAIN ns BY DEF TouchesEach
<1>2. \A i \in DOMAIN ns : t[i].do = "effect" /\ t[i].needs = {ns[i]} BY DEF TouchesEach, Touches
<1>3. Sequence(t) /\ 1 \in DOMAIN t BY EachIsSequence
<1>4. Sequence(s \o t) /\ Covered(s \o t) BY <1>1, <1>2, <1>3, CoveredJoins
<1>5. \A needs : Enough(t, needs) BY <1>1, <1>2 DEF Enough, Demands
<1>6. \A needs : Enough(s, needs) => Enough(s \o t, needs) BY <1>3, <1>5, EnoughJoins
<1>7. s \o t # <<>> BY <1>3, Joined
<1>8. \A i \in DOMAIN ns : HasTicket(s \o t, {ns[i]}) BY <1>3, MarksStay
<1> QED BY <1>4, <1>6, <1>7, <1>8

-----------------------------------------------------------------------------
(* The tools, one by one.                                                  *)
LEMMA BrowserIsRegular == \A v : \A t \in BrowserTool : Regular(BrowserCall(t, v))
<1> TAKE v
<1> USE BooleanWords, QuietSteps, NoStep
<1>1. \A n, more : Regular(Guarded(Present(v.one), n, Valid(more), <<>>)) BY GuardedIsRegular
<1>2. \A more : Regular(Reads(v, more)) /\ Regular(Drives(v, more)) BY <1>1 DEF Reads, Drives
<1>3. Regular(BrowserStatus(v)) BY UnguardedIsRegular DEF BrowserStatus
<1>4. Regular(ListTabs(v)) BY PlainIsRegular DEF ListTabs
<1>5. Regular(OpenPage(v)) BY PlainIsRegular DEF OpenPage
<1>6. Regular(Navigate(v))
  <2> DEFINE tab == TabNeed("DesktopControl", v)  url == UrlNeed(v)
             q == Valid(Present(v.one)) \o Valid(Present(v.two))
             h1 == q \o Holds({tab})  h2 == h1 \o Holds({url})
             t1 == h2 \o Touches({tab})  t2 == t1 \o Touches({url})
             d == Navigate(v)
  <2>1. /\ d.does = t2 /\ d.single = When(Present(v.two), {url})
        /\ d.asks = When(v.one # None /\ v.two # None, {tab}) \cup When(Present(v.two), {url})
    BY DEF Navigate, Compound
  <2>2. Quiet(q) /\ (Present(v.one) \/ Broken(q)) /\ (Present(v.two) \/ Broken(q))
    <3>1. Present(v.one) \in BOOLEAN /\ Present(v.two) \in BOOLEAN OBVIOUS
    <3> QED BY <3>1, QuietBreaks
  <2>3. Sequence(q) /\ Covered(q) /\ \A needs : Enough(q, needs) BY <2>2, QuietIsFine
  <2>4. /\ Sequence(h1) /\ Covered(h1) /\ HasTicket(h1, {tab})
        /\ \A needs : Broken(q) \/ tab \in needs => Enough(h1, needs)
    BY <2>3, AddHolds
  <2>5. Broken(q) => Broken(h1)
    <3>1. Sequence(Holds({tab})) BY OneStep DEF Holds
    <3> QED BY <2>3, <3>1, MarksStay
  <2>6. /\ Sequence(h2) /\ Covered(h2) /\ HasTicket(h2, {tab}) /\ HasTicket(h2, {url})
        /\ \A needs : Broken(q) \/ {tab, url} \subseteq needs => Enough(h2, needs)
    <3>1. Sequence(Holds({url})) BY OneStep DEF Holds
    <3>2. HasTicket(h2, {tab}) BY <2>4, <3>1, MarksStay
    <3>3. /\ Sequence(h2) /\ Covered(h2) /\ HasTicket(h2, {url})
          /\ \A needs : Enough(h1, needs) /\ (Broken(h1) \/ {url} \cap needs # {}) => Enough(h2, needs)
      BY <2>4, AddHolds
    <3>4. ASSUME NEW needs, Broken(q) \/ {tab, url} \subseteq needs PROVE Enough(h2, needs)
      <4>1. Enough(h1, needs) BY <2>4, <3>4
      <4>2. Broken(h1) \/ {url} \cap needs # {} BY <2>5, <3>4
      <4> QED BY <4>1, <4>2, <3>3
    <3> QED BY <3>2, <3>3, <3>4
  <2>7. /\ Sequence(t1) /\ Covered(t1) /\ HasTicket(t1, {url})
        /\ \A needs : Enough(h2, needs) => Enough(t1, needs)
    <3>1. Sequence(Touches({tab})) BY OneStep DEF Touches
    <3> QED BY <2>6, <3>1, AddTouches, MarksStay
  <2>8. /\ Sequence(t2) /\ Covered(t2) /\ t2 # <<>> /\ \A needs : Enough(t1, needs) => Enough(t2, needs)
    BY <2>7, AddTouches
  <2>9. \A needs : Broken(q) \/ {tab, url} \subseteq needs => Enough(t2, needs) BY <2>6, <2>7, <2>8
  <2>10. CASE Broken(q) BY <2>1, <2>8, <2>9, <2>10 DEF Regular, Honest, Suffices
  <2>11. CASE ~Broken(q)
    <3>1. Present(v.one) /\ Present(v.two) BY <2>2, <2>11
    <3>2. d.asks = {tab, url} BY <2>1, <3>1 DEF When, Present
    <3>3. tab # url BY DEF TabNeed, UrlNeed, Need
    <3>4. Cardinality(d.asks) > 1 BY <3>2, <3>3, SmallSets, TwoOf
    <3>5. Enough(d.does, d.asks) BY <2>1, <2>9, <3>2
    <3> QED BY <2>1, <2>8, <3>4, <3>5 DEF Regular, Honest, Suffices
  <2> QED BY <2>10, <2>11
<1>7. Regular(BrowserCall("browser.status", v)) BY <1>3 DEF BrowserCall
<1>8. Regular(BrowserCall("browser.list_tabs", v)) BY <1>4 DEF BrowserCall
<1>9. Regular(BrowserCall("browser.open", v)) BY <1>5 DEF BrowserCall
<1>10. Regular(BrowserCall("browser.navigate", v)) BY <1>6 DEF BrowserCall
<1>11. Regular(BrowserCall("browser.back", v)) BY <1>2 DEF BrowserCall, HistoryStep
<1>12. Regular(BrowserCall("browser.snapshot", v)) BY <1>2 DEF BrowserCall, Snapshot
<1>13. Regular(BrowserCall("browser.query", v)) BY <1>2 DEF BrowserCall, Query
<1>14. Regular(BrowserCall("browser.get_text", v)) BY <1>2 DEF BrowserCall, GetText
<1>15. Regular(BrowserCall("browser.get_attribute", v)) BY <1>2 DEF BrowserCall, GetAttribute
<1>16. Regular(BrowserCall("browser.wait_for", v)) BY <1>2 DEF BrowserCall, WaitFor
<1>17. Regular(BrowserCall("browser.screenshot", v)) BY <1>2 DEF BrowserCall, PageShot
<1>18. Regular(BrowserCall("browser.cookies.list", v)) BY <1>2 DEF BrowserCall, CookiesList
<1>19. Regular(BrowserCall("browser.click", v)) BY <1>2 DEF BrowserCall, ClickNode
<1>20. Regular(BrowserCall("browser.type", v)) BY <1>2 DEF BrowserCall, TypeInto
<1>21. Regular(BrowserCall("browser.set_value", v)) BY <1>2 DEF BrowserCall, SetNodeValue
<1>22. Regular(BrowserCall("browser.select", v)) BY <1>2 DEF BrowserCall, Select
<1>23. Regular(BrowserCall("browser.scroll", v)) BY <1>2 DEF BrowserCall, Scroll
<1>24. Regular(BrowserCall("browser.cookies.set", v)) BY <1>2 DEF BrowserCall, CookiesSet
<1>25. Regular(BrowserCall("browser.cookies.delete", v)) BY <1>2 DEF BrowserCall, CookiesDelete
<1> QED BY <1>7, <1>8, <1>9, <1>10, <1>11, <1>12, <1>13, <1>14, <1>15, <1>16, <1>17, <1>18, <1>19, <1>20, <1>21, <1>22, <1>23, <1>24, <1>25 DEF BrowserTool

LEMMA ObserveIsHonest == \A v : Regular(ObserveDesktop(v))
<1> TAKE v
<1> USE BooleanWords, QuietSteps, NoStep
<1> DEFINE seen == Seen(v)  q == Valid(Fits(v.one))
           base == q \o Holds({seen}) \o Touches({seen})
           tail == IF v.image THEN Pictured(v) ELSE <<>>
           shown == Capture(IF Present(v.two) THEN v.two ELSE "")
           d == ObserveDesktop(v)
<1>1. /\ d.does = base \o tail /\ d.single = When(Fits(v.one), {seen})
      /\ d.asks = When(Fits(v.one), {seen} \cup When(v.image, {shown}))
  BY DEF ObserveDesktop, Compound
<1>2. Quiet(q) /\ (Fits(v.one) \/ Broken(q))
  <2>1. Fits(v.one) \in BOOLEAN OBVIOUS
  <2> QED BY <2>1, FailedCheck
<1>3. Prepared(q \o Holds({seen}), Fits(v.one), seen) BY <1>2, TicketPrepares
<1>4. /\ Sequence(base) /\ Covered(base) /\ base # <<>>
      /\ \A needs : Broken(q) \/ seen \in needs => Enough(base, needs)
  <2>1. Sequence(q) /\ Covered(q) /\ \A needs : Enough(q, needs) BY <1>2, QuietIsFine
  <2>2. /\ Sequence(q \o Holds({seen})) /\ Covered(q \o Holds({seen})) /\ HasTicket(q \o Holds({seen}), {seen})
        /\ \A needs : Broken(q) \/ seen \in needs => Enough(q \o Holds({seen}), needs)
    BY <2>1, AddHolds
  <2> QED BY <2>2, AddTouches
<1>5. \A ways : /\ Sequence(Holds(ways) \o Touches(ways)) /\ Covered(Holds(ways) \o Touches(ways))
                /\ \A needs : ways \cap needs # {} => Enough(Holds(ways) \o Touches(ways), needs)
  <2> TAKE ways
  <2>1. Sequence(Holds(ways)) /\ Covered(Holds(ways)) /\ HasTicket(Holds(ways), ways)
    BY OneStep DEF Holds, Covered, HasTicket
  <2>2. \A needs : ways \cap needs # {} => Enough(Holds(ways), needs)
    BY OneStep DEF Holds, Enough, Demands
  <2> QED BY <2>1, <2>2, AddTouches
<1>6. /\ Sequence(tail) /\ Covered(tail)
      /\ v.image => \A needs : shown \in needs => Enough(tail, needs)
      /\ ~v.image => tail = <<>>
  <2>1. CASE ~v.image BY <2>1 DEF Covered
  <2>2. CASE v.image /\ ~Present(v.two) /\ v.open = {}
    <3>1. tail = Holds({Capture("")}) \o Touches({Capture("")}) BY <2>2 DEF Pictured
    <3>2. shown = Capture("") BY <2>2
    <3> QED BY <3>1, <3>2, <1>5, <2>2
  <2>3. CASE v.image /\ ~(~Present(v.two) /\ v.open = {}) /\ FrameOf(v) = {}
    <3>1. tail = <<>> BY <2>3 DEF Pictured
    <3> QED BY <3>1, <2>3 DEF Covered, Enough
  <2>4. CASE v.image /\ ~(~Present(v.two) /\ v.open = {}) /\ FrameOf(v) # {}
    <3> DEFINE ways == {Capture(""), Capture(CHOOSE s \in FrameOf(v) : TRUE)}
    <3>1. tail = Holds(ways) \o Touches(ways) BY <2>4 DEF Pictured
    <3>2. shown \in ways
      <4>1. CASE ~Present(v.two) BY <4>1
      <4>2. CASE Present(v.two)
        <5>1. FrameOf(v) = {v.two} BY <4>2 DEF FrameOf
        <5>2. (CHOOSE s \in FrameOf(v) : TRUE) = v.two BY <5>1
        <5>3. shown = Capture(v.two) BY <4>2
        <5> QED BY <5>2, <5>3
      <4> QED BY <4>1, <4>2
    <3> QED BY <3>1, <3>2, <1>5, <2>4
  <2> QED BY <2>1, <2>2, <2>3, <2>4
<1>7. Sequence(base \o tail) /\ Covered(base \o tail) /\ base \o tail # <<>>
  <2>1. Sequence(base \o tail) /\ Covered(base \o tail)
    <3> HIDE DEF base, tail
    <3> QED BY <1>4, <1>6, CoveredAppends
  <2>2. base \o tail # <<>>
    <3> HIDE DEF base, tail
    <3>1. Len(base) \in Nat /\ Len(tail) \in Nat /\ DOMAIN base = 1 .. Len(base)
          /\ DOMAIN (base \o tail) = 1 .. Len(base) + Len(tail)
      BY <1>4, <1>6, Joined
    <3>2. Len(base) # 0
      <4>1. PICK S : base \in Seq(S) BY <1>4 DEF Sequence
      <4> QED BY <4>1, <1>4
    <3>3. 1 \in DOMAIN (base \o tail) BY <3>1, <3>2
    <3> QED BY <3>3
  <2> QED BY <2>1, <2>2
<1>8. Broken(q) => Broken(base)
  <2>1. Sequence(q) /\ Sequence(Holds({seen})) /\ Sequence(Touches({seen})) /\ Sequence(q \o Holds({seen}))
    BY <1>2, <1>3, OneStep DEF Holds, Touches, Quiet, Prepared
  <2>2. Broken(q) => Broken(q \o Holds({seen})) BY <2>1, MarksStay
  <2> QED BY <2>1, <2>2, MarksStay
<1>9. CASE Broken(q)
  <2>1. \A needs : Enough(base \o tail, needs) BY <1>4, <1>6, <1>8, <1>9, EnoughJoins
  <2> QED BY <1>1, <1>7, <2>1 DEF Regular, Honest, Suffices
<1>10. CASE ~Broken(q) /\ ~v.image
  <2>1. d.asks = {seen} /\ d.single = {seen} BY <1>1, <1>2, <1>10 DEF When
  <2>2. Enough(tail, {seen}) BY <1>6, <1>10 DEF Enough
  <2>3. Enough(base \o tail, {seen}) BY <1>4, <1>6, <2>2, EnoughJoins
  <2> QED BY <1>1, <1>7, <2>1, <2>3 DEF Regular, Honest, Suffices
<1>11. CASE ~Broken(q) /\ v.image
  <2>1. d.asks = {seen, shown} BY <1>1, <1>2, <1>11 DEF When
  <2>2. seen # shown BY DEF Seen, Capture, Need
  <2>3. Cardinality(d.asks) > 1 BY <2>1, <2>2, SmallSets, TwoOf
  <2>4. Enough(base, d.asks) /\ Enough(tail, d.asks) BY <2>1, <1>4, <1>6, <1>11
  <2>5. Enough(base \o tail, d.asks) BY <1>4, <1>6, <2>4, EnoughJoins
  <2> QED BY <1>1, <1>7, <2>3, <2>5 DEF Regular, Honest, Suffices
<1> QED BY <1>9, <1>10, <1>11

LEMMA DesktopIsRegular == \A v : v.args \in BOOLEAN => \A t \in DesktopTool : Regular(DesktopCall(t, v))
<1> SUFFICES ASSUME NEW v, v.args \in BOOLEAN PROVE \A t \in DesktopTool : Regular(DesktopCall(t, v))
  OBVIOUS
<1> USE BooleanWords, QuietSteps, NoStep
<1>1. Quiet(Valid(v.args) \o Stoppable) /\ \A b \in BOOLEAN : Quiet(InScope(b) \o Valid(v.args))
  BY MarksStay DEF Quiet
<1>2. Regular(ListWindows(v)) BY PlainIsRegular DEF ListWindows
<1>3. Regular(AccessibilityTree(v)) BY PlainIsRegular DEF AccessibilityTree
<1>4. Regular(OnElement(v)) BY <1>1, GuardedIsRegular DEF OnElement
<1>5. Regular(WindowOperation(v)) BY <1>1, GuardedIsRegular DEF WindowOperation
<1>6. Regular(ClickAt(v)) /\ Regular(TypeText(v)) BY <1>1, GuardedIsRegular DEF ClickAt, TypeText
<1>7. Regular(Pointer(v))
  <2> DEFINE n == Control(v)  named == Fits(v.one)  q == Stoppable \o Valid(named)
  <2>1. named \in BOOLEAN /\ Quiet(q) /\ (named \/ Broken(q)) BY QuietBreaks
  <2>2. Prepared(q \o Holds({n}), named, n) BY <2>1, TicketPrepares
  <2>3. Prepared(q \o Holds({n}) \o InScope(Present(v.one)), named, n) BY <2>1, <2>2, QuietPrepares
  <2>4. Prepared(q \o Holds({n}) \o InScope(Present(v.one)) \o Valid(v.args), named, n)
    BY <2>1, <2>3, QuietPrepares
  <2> QED BY <2>1, <2>4, EffectEnds DEF Pointer
<1>8. Regular(Keyboard(v))
  <2> DEFINE n == Control(v)  named == Fits(v.one)  q == Stoppable \o Valid(named)
             r == q \o InScope(Present(v.one))
  <2>1. named \in BOOLEAN /\ Quiet(q) /\ (named \/ Broken(q)) BY QuietBreaks
  <2>2. Quiet(r) /\ (named \/ Broken(r))
    <3>1. Quiet(InScope(Present(v.one))) /\ Sequence(InScope(Present(v.one))) /\ Sequence(q)
      BY <2>1 DEF Quiet
    <3> QED BY <2>1, <3>1, MarksStay
  <2>3. Prepared(r \o Holds({n}), named, n) BY <2>1, <2>2, TicketPrepares
  <2>4. Prepared(r \o Holds({n}) \o Valid(v.args), named, n) BY <2>1, <2>3, QuietPrepares
  <2> QED BY <2>1, <2>4, EffectEnds DEF Keyboard
<1>9. Regular(DesktopStatus(v)) BY UnguardedIsRegular DEF DesktopStatus
<1>10. /\ Regular(ListDisplays(v)) /\ Regular(Inspect(v)) /\ Regular(CaptureStatus(v))
       /\ Regular(ClipboardText(v)) /\ Regular(PutClipboard(v))
  BY GuardedIsRegular DEF ListDisplays, Inspect, CaptureStatus, ClipboardText, PutClipboard
<1>11. Regular(LaunchApplication(v)) BY GuardedIsRegular DEF LaunchApplication
<1>12. Regular(Screenshot(v))
  <2> DEFINE n == Capture(WindowId(v.one))  named == Fits(v.one)  q == Valid(named) \o Valid(v.args)
  <2>1. named \in BOOLEAN /\ Quiet(q) /\ (named \/ Broken(q)) BY QuietBreaks
  <2>2. Prepared(q \o Holds({n}), named, n) BY <2>1, TicketPrepares
  <2>3. Prepared(q \o Holds({n}) \o InScope(Present(v.one)), named, n) BY <2>1, <2>2, QuietPrepares
  <2> QED BY <2>1, <2>3, EffectEnds DEF Screenshot
<1>13. Regular(CaptureStart(v))
  <2> DEFINE n == Capture(WindowId(v.one))  named == Fits(v.one) /\ v.args
             q == Valid(Fits(v.one)) \o Valid(v.args)
  <2>1. named \in BOOLEAN /\ Quiet(q) /\ (named \/ Broken(q)) BY QuietBreaks
  <2>2. Prepared(q \o Holds({n}), named, n) BY <2>1, TicketPrepares
  <2>3. Prepared(q \o Holds({n}) \o InScope(Present(v.one)), named, n) BY <2>1, <2>2, QuietPrepares
  <2> QED BY <2>1, <2>3, EffectEnds DEF CaptureStart
<1>14. Regular(CaptureFrame(v)) /\ Regular(CaptureStop(v))
  BY PlainIsRegular DEF CaptureFrame, CaptureStop
<1>15. Regular(DesktopCall("desktop.list_windows", v)) BY <1>2 DEF DesktopCall
<1>16. Regular(DesktopCall("desktop.accessibility_tree", v)) BY <1>3 DEF DesktopCall
<1>17. Regular(DesktopCall("desktop.invoke_element", v)) BY <1>4 DEF DesktopCall, InvokeElement
<1>18. Regular(DesktopCall("desktop.set_value", v)) BY <1>4 DEF DesktopCall, SetElementValue
<1>19. Regular(DesktopCall("desktop.focus_element", v)) BY <1>4 DEF DesktopCall, ElementOperation
<1>20. Regular(DesktopCall("desktop.focus_window", v)) BY <1>5 DEF DesktopCall
<1>21. Regular(DesktopCall("desktop.click", v)) BY <1>6 DEF DesktopCall
<1>22. Regular(DesktopCall("desktop.type_text", v)) BY <1>6 DEF DesktopCall
<1>23. Regular(DesktopCall("desktop.drag", v)) BY <1>7 DEF DesktopCall
<1>24. Regular(DesktopCall("desktop.press_key", v)) BY <1>8 DEF DesktopCall
<1>25. Regular(DesktopCall("desktop.status", v)) BY <1>9 DEF DesktopCall
<1>26. Regular(DesktopCall("desktop.list_displays", v)) BY <1>10 DEF DesktopCall
<1>27. Regular(DesktopCall("desktop.inspect", v)) BY <1>10 DEF DesktopCall
<1>28. Regular(DesktopCall("desktop.capture_status", v)) BY <1>10 DEF DesktopCall
<1>29. Regular(DesktopCall("desktop.clipboard_read", v)) BY <1>10 DEF DesktopCall
<1>30. Regular(DesktopCall("desktop.clipboard_write", v)) BY <1>10 DEF DesktopCall
<1>31. Regular(DesktopCall("desktop.launch_application", v)) BY <1>11 DEF DesktopCall
<1>32. Regular(DesktopCall("desktop.screenshot", v)) BY <1>12 DEF DesktopCall
<1>33. Regular(DesktopCall("desktop.capture_start", v)) BY <1>13 DEF DesktopCall
<1>34. Regular(DesktopCall("desktop.capture_frame", v)) BY <1>14 DEF DesktopCall
<1>35. Regular(DesktopCall("desktop.capture_stop", v)) BY <1>14 DEF DesktopCall
<1>36. Regular(DesktopCall("desktop.observe", v)) BY ObserveIsHonest DEF DesktopCall
<1> QED BY <1>15, <1>16, <1>17, <1>18, <1>19, <1>20, <1>21, <1>22, <1>23, <1>24, <1>25, <1>26, <1>27, <1>28, <1>29, <1>30, <1>31, <1>32, <1>33, <1>34, <1>35, <1>36 DEF DesktopTool

LEMMA HostIsRegular ==
  \A v : v.args \in BOOLEAN => \A t \in HostTool :
    Honest(HostCall(t, v)) /\ (t \notin SessionTools => Regular(HostCall(t, v)))
<1> SUFFICES ASSUME NEW v, v.args \in BOOLEAN
             PROVE  \A t \in HostTool :
                      Honest(HostCall(t, v)) /\ (t \notin SessionTools => Regular(HostCall(t, v)))
  OBVIOUS
<1> USE BooleanWords, QuietSteps, NoStep
<1>1. Regular(Spawn(v))
  <2> DEFINE named == Present(v.one) /\ v.args
  <2>1. named \in BOOLEAN /\ (named \/ Broken(Valid(named))) BY FailedCheck
  <2>2. Prepared(Valid(named) \o Holds({Child(v)}), named, Child(v)) BY <2>1, TicketPrepares
  <2> QED BY <2>1, <2>2, EffectEnds DEF Spawn
<1>2. \A b : Regular(Unguarded(Valid(b))) BY UnguardedIsRegular
<1>3. Regular(Unguarded(<<>>)) BY UnguardedIsRegular
<1>4. \A n : \A named \in BOOLEAN : Regular(Guarded(named, n, <<>>, InScope(TRUE))) BY GuardedIsRegular
<1>5. \A n, more : \A named \in BOOLEAN : Regular(Guarded(named, n, Valid(more), <<>>)) BY GuardedIsRegular
<1>6. \A n : \A named \in BOOLEAN : Regular(Plain(named, n)) BY PlainIsRegular
<1>7. \A n, more : more \in BOOLEAN => Honest(OnSession(v, n, more))
  <2> SUFFICES ASSUME NEW n, NEW more \in BOOLEAN PROVE Honest(OnSession(v, n, more)) OBVIOUS
  <2> DEFINE q == Valid(Present(v.one)) \o Valid(more) \o Valid(v.one \in v.open)
             s == q \o Holds({n}) \o Touches({n})
  <2>1. OnSession(v, n, more).does = s BY DEF OnSession, Tool
  <2>2. Quiet(Valid(Present(v.one)) \o Valid(more)) BY MarksStay DEF Quiet
  <2>3. Quiet(q) BY <2>2, MarksStay DEF Quiet
  <2>4. Prepared(q \o Holds({n}), TRUE, n) BY <2>3, TicketPrepares
  <2>5. Sequence(s) /\ Covered(s) /\ s # <<>> BY <2>4, AddTouches DEF Prepared
  <2> QED BY <2>1, <2>5 DEF Honest
<1>8. \A more : more \in BOOLEAN => Regular(OfFile(v, more))
  <2> SUFFICES ASSUME NEW more \in BOOLEAN PROVE Regular(OfFile(v, more)) OBVIOUS
  <2> DEFINE n == Need("FilesystemRead", "path", v.one)  named == v.one # None
             q == Valid(Present(v.one)) \o Valid(more)
  <2>1. Quiet(q) /\ (Present(v.one) \/ Broken(q)) BY QuietBreaks
  <2>2. named \in BOOLEAN /\ (named \/ Broken(q)) BY <2>1 DEF Present
  <2>3. Prepared(q \o Holds({n}), named, n) BY <2>1, <2>2, TicketPrepares
  <2> QED BY <2>2, <2>3, EffectEnds DEF OfFile
<1>9. Regular(McpBridge(v))
  <2> DEFINE n == Need("McpInvoke", "mcp", "server.tool")  s == Holds({n}) \o Valid(v.args)
  <2>1. Sequence(Holds({n})) /\ Covered(Holds({n})) /\ HasTicket(Holds({n}), {n})
    BY OneStep DEF Holds, Covered, HasTicket
  <2>2. Enough(Holds({n}), When(TRUE, {n})) BY OneStep DEF Holds, Enough, Demands, When
  <2>3. Prepared(Holds({n}), TRUE, n) BY <2>1, <2>2 DEF Prepared
  <2>4. Prepared(s, TRUE, n) BY <2>3, QuietPrepares
  <2>5. McpBridge(v) = Tool(When(TRUE, {n}), s \o Touches({n})) BY DEF McpBridge, When
  <2> QED BY <2>4, <2>5, EffectEnds
<1>f. Quiet(Valid(v.args)) /\ Quiet(Valid(Present(v.one))) /\ Quiet(Valid(Present(v.two))) /\ Quiet(Valid(Fits(v.two)))
  BY QuietSteps
<1>g. \A s : Quiet(s) => Regular(Parsed(v, s))
  <2> SUFFICES ASSUME NEW s, Quiet(s) PROVE Regular(Parsed(v, s)) OBVIOUS
  <2>1. Quiet(Valid(v.args) \o s) BY <1>f, MarksStay DEF Quiet
  <2> QED BY <2>1, UnguardedIsRegular DEF Parsed
<1>h. Regular(TaskInterval(v))
  <2>1. Quiet(NonEmpty(v.one) \o InBounds(v)) BY <1>f, MarksStay DEF Quiet, NonEmpty, InBounds
  <2> QED BY <1>g, <2>1 DEF TaskInterval
<1>i. Regular(TaskCreate(v))
  <2>1. Quiet(NonEmpty(v.one) \o NonEmpty(v.two)) BY <1>f, MarksStay DEF Quiet, NonEmpty
  <2>2. Quiet((NonEmpty(v.one) \o NonEmpty(v.two)) \o Planned(v))
    BY <1>f, <2>1, MarksStay DEF Quiet, Planned
  <2> QED BY <1>g, <2>2 DEF TaskCreate
<1>j. Regular(TaskEdit(v))
  <2>1. Quiet(TaskId(v) \o Valid(Fits(v.two))) BY <1>f, MarksStay DEF Quiet, TaskId
  <2> QED BY <1>g, <2>1 DEF TaskEdit
<1>10. Regular(HostCall("process.spawn", v)) BY <1>1 DEF HostCall
<1>11. Regular(HostCall("process.status", v)) BY <1>2 DEF HostCall, ChildStatus
<1>12. Regular(HostCall("process.kill", v)) BY <1>2 DEF HostCall, KillChild
<1>13. Regular(HostCall("application.list", v)) BY <1>3 DEF HostCall, ApplicationList
<1>14. Regular(HostCall("application.launch", v)) BY <1>4 DEF HostCall, Launch
<1>15. Regular(HostCall("application.quit", v)) BY <1>4 DEF HostCall, Quit
<1>16. Regular(HostCall("application.activate", v)) BY <1>4 DEF HostCall, Activate
<1>17. Regular(HostCall("clipboard.read", v)) BY <1>6 DEF HostCall, ClipRead
<1>18. Regular(HostCall("clipboard.write", v)) BY <1>5 DEF HostCall, ClipWrite
<1>19. Regular(HostCall("clipboard.clear", v)) BY <1>6 DEF HostCall, ClipClear
<1>20. Regular(HostCall("notification.show", v)) BY <1>5 DEF HostCall, Notify
<1>21. Regular(HostCall("system.os", v)) BY <1>2 DEF HostCall, SystemFacts
<1>22. Regular(HostCall("audio.list_devices", v)) BY <1>2 DEF HostCall, AudioDevices
<1>23. Regular(HostCall("audio.status", v)) BY <1>3 DEF HostCall, AudioStatus
<1>24. Regular(HostCall("audio.capture_start", v)) BY <1>5 DEF HostCall, AudioStart
<1>25. Regular(HostCall("audio.record", v)) BY <1>5 DEF HostCall, AudioRecord
<1>26. Honest(HostCall("audio.capture_status", v)) BY <1>7 DEF HostCall, AudioSession
<1>27. Honest(HostCall("audio.capture_stop", v)) BY <1>7 DEF HostCall, AudioStop
<1>28. Regular(HostCall("camera.list", v)) BY <1>2 DEF HostCall, CameraList
<1>29. Regular(HostCall("camera.status", v)) BY <1>3 DEF HostCall, CameraStatus
<1>30. Regular(HostCall("camera.capture_photo", v)) BY <1>5 DEF HostCall, CameraPhoto
<1>31. Regular(HostCall("camera.capture_start", v)) BY <1>6 DEF HostCall, CameraStart
<1>32. Honest(HostCall("camera.capture_frame", v)) BY <1>7 DEF HostCall, CameraFrame
<1>33. Honest(HostCall("camera.capture_stop", v)) BY <1>7 DEF HostCall, CameraStop
<1>34. Regular(HostCall("document.metadata", v)) BY <1>8 DEF HostCall, DocumentMetadata
<1>35. Regular(HostCall("document.extract_text", v)) BY <1>8 DEF HostCall, ExtractText
<1>36. Regular(HostCall("pdf.extract_text", v)) BY <1>8 DEF HostCall, PdfText
<1>37. Regular(HostCall("pdf.page_image", v)) BY <1>8 DEF HostCall, PdfPage
<1>38. Regular(HostCall("image.metadata", v)) BY <1>8 DEF HostCall, ImageMetadata
<1>39. Regular(HostCall("image.resize", v)) BY <1>8 DEF HostCall, ImageResize
<1>40. Regular(HostCall("media.metadata", v)) BY <1>8 DEF HostCall, MediaMetadata
<1>41. Regular(HostCall("media.video_frame", v)) BY <1>8 DEF HostCall, VideoFrame
<1>42. Regular(HostCall("media.video_frames", v)) BY <1>8 DEF HostCall, VideoFrames
<1>43. Regular(HostCall("media.keyframes", v)) BY <1>8 DEF HostCall, Keyframes
<1>44. Regular(HostCall("media.thumbnail", v)) BY <1>8 DEF HostCall, Thumbnail
<1>45. Regular(HostCall("media.waveform", v)) BY <1>8 DEF HostCall, Waveform
<1>46. Regular(HostCall("memory.remember", v)) BY <1>2 DEF HostCall, Remember, Memorable
<1>47. Regular(HostCall("memory.recall", v)) BY <1>2 DEF HostCall, Recall
<1>48. Regular(HostCall("memory.forget", v)) BY <1>2 DEF HostCall, Forget
<1>49. Regular(HostCall("mcp", v)) BY <1>9 DEF HostCall
<1>52. Regular(HostCall("system.processes", v)) BY <1>3 DEF HostCall, SystemProcesses
<1>53. Regular(HostCall("system.process_info", v)) BY <1>2 DEF HostCall, ProcessInfo
<1>54. Regular(HostCall("filesystem.resolve_user_dir", v)) BY <1>2 DEF HostCall, ResolveUserDir
<1>55. Regular(HostCall("system.environment", v)) BY <1>g DEF HostCall, HostEnvironment
<1>56. Regular(HostCall("system.time", v)) BY <1>g DEF HostCall, SystemTime
<1>57. Regular(HostCall("tasks.create_interval", v)) BY <1>h DEF HostCall
<1>58. Regular(HostCall("tasks.create", v)) BY <1>i DEF HostCall
<1>59. Regular(HostCall("tasks.list", v)) BY <1>g DEF HostCall, TaskList
<1>60. Regular(HostCall("tasks.get", v)) BY <1>f, <1>g DEF HostCall, TaskGet, TaskId
<1>61. Regular(HostCall("tasks.cancel", v)) BY <1>f, <1>g DEF HostCall, TaskCancel, TaskId
<1>62. Regular(HostCall("tasks.edit", v)) BY <1>j DEF HostCall
<1>50. \A t \in HostTool \ SessionTools : Regular(HostCall(t, v))
  BY <1>10, <1>11, <1>12, <1>13, <1>14, <1>15, <1>16, <1>17, <1>18, <1>19, <1>20, <1>21, <1>22, <1>23, <1>24, <1>25, <1>26, <1>27, <1>28, <1>29, <1>30, <1>31, <1>32, <1>33, <1>34, <1>35, <1>36, <1>37, <1>38, <1>39, <1>40, <1>41, <1>42, <1>43, <1>44, <1>45, <1>46, <1>47, <1>48, <1>49, <1>52, <1>53, <1>54, <1>55, <1>56, <1>57, <1>58, <1>59, <1>60, <1>61, <1>62 DEF HostTool, SessionTools
<1>51. \A t \in SessionTools : Honest(HostCall(t, v))
  BY <1>10, <1>11, <1>12, <1>13, <1>14, <1>15, <1>16, <1>17, <1>18, <1>19, <1>20, <1>21, <1>22, <1>23, <1>24, <1>25, <1>26, <1>27, <1>28, <1>29, <1>30, <1>31, <1>32, <1>33, <1>34, <1>35, <1>36, <1>37, <1>38, <1>39, <1>40, <1>41, <1>42, <1>43, <1>44, <1>45, <1>46, <1>47, <1>48, <1>49 DEF SessionTools
<1> QED BY <1>50, <1>51 DEF Regular

LEMMA NeedLists ==
  ASSUME NEW a, NEW b, NEW c
  PROVE  /\ Sequence(<<a, b>>) /\ <<a, b>> # <<>> /\ Needed(<<a, b>>) = {a, b}
         /\ Sequence(<<a, b, c>>) /\ <<a, b, c>> # <<>> /\ Needed(<<a, b, c>>) = {a, b, c}
<1>1. <<a, b>> \in Seq({a, b}) /\ <<a, b, c>> \in Seq({a, b, c}) OBVIOUS
<1>2. Sequence(<<a, b>>) /\ Sequence(<<a, b, c>>) BY <1>1, Zenon DEF Sequence
<1>3. <<a, b>> # <<>> /\ <<a, b, c>> # <<>> OBVIOUS
<1>4. DOMAIN <<a, b>> = {1, 2} /\ DOMAIN <<a, b, c>> = {1, 2, 3} OBVIOUS
<1>5. Needed(<<a, b>>) = {a, b} BY <1>4 DEF Needed
<1>6. Needed(<<a, b, c>>) = {a, b, c} BY <1>4 DEF Needed
<1> QED BY <1>2, <1>3, <1>5, <1>6

\* A tool with several requirements, all demanded before any effect.
LEMMA ManyNeeds ==
  ASSUME NEW q, Quiet(q), NEW r, Quiet(r), NEW ns, Sequence(ns), ns # <<>>
  PROVE  /\ Sequence(q \o HoldsEach(ns)) /\ Covered(q \o HoldsEach(ns))
         /\ \A i \in DOMAIN ns : HasTicket(q \o HoldsEach(ns), {ns[i]})
         /\ LET s == q \o HoldsEach(ns) \o TouchesEach(ns)
            IN  Sequence(s) /\ Covered(s) /\ s # <<>>
                /\ \A needs : Broken(q) \/ Needed(ns) \subseteq needs => Enough(s, needs)
         /\ LET s == q \o HoldsEach(ns) \o r \o TouchesEach(ns)
            IN  Sequence(s) /\ Covered(s) /\ s # <<>>
                /\ \A needs : Broken(q) \/ Needed(ns) \subseteq needs => Enough(s, needs)
<1> DEFINE h == q \o HoldsEach(ns)
<1>1. Sequence(q) /\ Covered(q) /\ \A needs : Enough(q, needs) BY QuietIsFine
<1>2. /\ Sequence(h) /\ Covered(h) /\ \A i \in DOMAIN ns : HasTicket(h, {ns[i]})
      /\ \A needs : Broken(q) \/ Needed(ns) \subseteq needs => Enough(h, needs)
  BY <1>1, AddHoldsEach
<1>3. /\ Sequence(h \o r) /\ Covered(h \o r) /\ \A i \in DOMAIN ns : HasTicket(h \o r, {ns[i]})
      /\ \A needs : Enough(h, needs) => Enough(h \o r, needs)
  <2>1. Sequence(r) BY DEF Quiet
  <2> QED BY <1>2, <2>1, AddQuiet, MarksStay
<1>4. LET s == h \o TouchesEach(ns)
      IN  Sequence(s) /\ Covered(s) /\ s # <<>> /\ \A needs : Enough(h, needs) => Enough(s, needs)
  BY <1>2, AddTouchesEach
<1>5. LET s == h \o r \o TouchesEach(ns)
      IN  Sequence(s) /\ Covered(s) /\ s # <<>> /\ \A needs : Enough(h \o r, needs) => Enough(s, needs)
  BY <1>3, AddTouchesEach
<1> QED BY <1>2, <1>3, <1>4, <1>5

LEMMA FilesAreRegular ==
  \A v : v.args \in BOOLEAN => \A t \in FileTool :
    /\ Honest(FileCall(t, v))
    /\ t \notin FindsOut /\ t # "filesystem.write" => Regular(FileCall(t, v))
<1> SUFFICES ASSUME NEW v, v.args \in BOOLEAN
             PROVE  \A t \in FileTool :
                      /\ Honest(FileCall(t, v))
                      /\ t \notin FindsOut /\ t # "filesystem.write" => Regular(FileCall(t, v))
  OBVIOUS
<1> USE BooleanWords, QuietSteps, NoStep
<1>1. \A cap, more : Regular(OnPlace(v, cap, more)) BY GuardedIsRegular DEF OnPlace
<1>2. Regular(ArchiveList(v)) BY PlainIsRegular DEF ArchiveList
<1>3. Honest(WriteFile(v))
  <2> DEFINE n == {OnPath("FilesystemWrite", Beneath(v))}
             q == Valid(v.args) \o Valid(Present(v.one))  b == Barred(Place(v) # v.one)
  <2>1. WriteFile(v).does = q \o b \o Holds(n) \o Touches(n) BY DEF WriteFile, Tool
  <2>2. Quiet(q) BY MarksStay DEF Quiet
  <2>3. Sequence(b) /\ Covered(b) BY OneStep DEF Barred, Covered
  <2>4. Sequence(q \o b) /\ Covered(q \o b) BY <2>2, <2>3, QuietIsFine, CoveredAppends
  <2>5. LET h == q \o b \o Holds(n) IN Sequence(h) /\ Covered(h) /\ HasTicket(h, n) BY <2>4, AddHolds
  <2>6. LET s == q \o b \o Holds(n) \o Touches(n) IN Sequence(s) /\ Covered(s) /\ s # <<>>
    BY <2>5, AddTouches
  <2> QED BY <2>1, <2>6 DEF Honest
<1>4. Regular(GitRead(v))
  <2> DEFINE n == OnPath("FilesystemRead", v.one)  named == v.one # None  q == Valid(Present(v.one))
  <2>1. Present(v.one) \/ Broken(q) BY FailedCheck
  <2>2. named \in BOOLEAN /\ (named \/ Broken(q)) BY <2>1 DEF Present
  <2>3. Prepared(q \o Holds({n}), named, n) BY <2>2, TicketPrepares
  <2>4. Prepared(q \o Holds({n}) \o Argv(v), named, n) BY <2>2, <2>3, QuietPrepares DEF Argv
  <2> QED BY <2>2, <2>4, EffectEnds DEF GitRead
<1>5. Quiet(Valid(Present(v.one)) \o Valid(Present(v.two)))
      /\ (~Present(v.one) \/ ~Present(v.two) => Broken(Valid(Present(v.one)) \o Valid(Present(v.two))))
  BY QuietBreaks
<1>6. \A from, to : LET ns == Moved(from, to)
                    IN  Sequence(ns) /\ ns # <<>> /\ IsFiniteSet(Needed(ns)) /\ Cardinality(Needed(ns)) > 1
  <2> SUFFICES ASSUME NEW from, NEW to
               PROVE  LET ns == Moved(from, to)
                      IN  Sequence(ns) /\ ns # <<>> /\ IsFiniteSet(Needed(ns)) /\ Cardinality(Needed(ns)) > 1
    OBVIOUS
  <2> DEFINE a == OnPath("FilesystemRead", from)  b == OnPath("FilesystemCreate", to)
             c == OnPath("FilesystemWrite", to)
  <2>1. Moved(from, to) = <<a, b, c>> BY DEF Moved
  <2>2. Sequence(Moved(from, to)) /\ Moved(from, to) # <<>> /\ Needed(Moved(from, to)) = {a, b, c}
    <3> HIDE DEF a, b, c
    <3>1. Sequence(<<a, b, c>>) /\ <<a, b, c>> # <<>> /\ Needed(<<a, b, c>>) = {a, b, c}
      BY NeedLists, Zenon
    <3> QED BY <2>1, <3>1
  <2>3. a # b BY DEF OnPath, Need
  <2> HIDE DEF a, b, c
  <2>4. IsFiniteSet({a, b, c}) BY SmallSets
  <2> QED BY <2>2, <2>3, <2>4, TwoOf
<1>7. Regular(ArchiveExtract(v))
  <2> DEFINE q == Valid(Present(v.one)) \o Valid(Present(v.two))  ns == Moved(v.one, v.two)
             s == q \o HoldsEach(ns) \o TouchesEach(ns)  d == ArchiveExtract(v)
  <2>1. d.does = s BY DEF ArchiveExtract, Compound, InAll
  <2>2. /\ Sequence(s) /\ Covered(s) /\ s # <<>>
        /\ \A needs : Broken(q) \/ Needed(ns) \subseteq needs => Enough(s, needs)
    BY <1>5, <1>6, ManyNeeds
  <2>3. CASE Broken(q) BY <2>1, <2>2, <2>3 DEF Regular, Honest, Suffices
  <2>4. CASE ~Broken(q)
    <3>1. Present(v.one) /\ Present(v.two) BY <1>5, <2>4
    <3>2. d.asks = Needed(ns) BY <3>1 DEF ArchiveExtract, Compound, Present
    <3> QED BY <2>1, <2>2, <3>2, <1>6 DEF Regular, Honest, Suffices
  <2> QED BY <2>3, <2>4
<1>8. Regular(ArchiveCreate(v))
  <2> DEFINE q == Valid(Present(v.one)) \o Valid(Present(v.two))  ns == Moved(v.two, v.one)
             s == q \o HoldsEach(ns) \o Valid(v.args) \o TouchesEach(ns)  d == ArchiveCreate(v)
  <2>1. d.does = s BY DEF ArchiveCreate, Compound
  <2>2. /\ Sequence(s) /\ Covered(s) /\ s # <<>>
        /\ \A needs : Broken(q) \/ Needed(ns) \subseteq needs => Enough(s, needs)
    BY <1>5, <1>6, ManyNeeds
  <2>3. CASE Broken(q) BY <2>1, <2>2, <2>3 DEF Regular, Honest, Suffices
  <2>4. CASE ~Broken(q)
    <3>1. Present(v.one) /\ Present(v.two) BY <1>5, <2>4
    <3>2. d.asks = Needed(ns) BY <3>1 DEF ArchiveCreate, Compound, Present
    <3> QED BY <2>1, <2>2, <3>2, <1>6 DEF Regular, Honest, Suffices
  <2> QED BY <2>3, <2>4
<1>9. /\ Sequence(InRepo(v)) /\ InRepo(v) # <<>>
      /\ IsFiniteSet(Needed(InRepo(v))) /\ Cardinality(Needed(InRepo(v))) > 1
  <2> DEFINE a == OnPath("FilesystemRead", v.one)  b == OnPath("FilesystemWrite", v.one)
  <2>1. InRepo(v) = <<a, b>> BY DEF InRepo
  <2>2. a # b BY DEF OnPath, Need
  <2> HIDE DEF a, b
  <2>3. Sequence(InRepo(v)) /\ InRepo(v) # <<>> /\ Needed(InRepo(v)) = {a, b}
    <3>1. Sequence(<<a, b>>) /\ <<a, b>> # <<>> /\ Needed(<<a, b>>) = {a, b} BY NeedLists, Zenon
    <3> QED BY <2>1, <3>1
  <2>4. IsFiniteSet({a, b}) BY SmallSets
  <2> QED BY <2>2, <2>3, <2>4, TwoOf
<1>10. Quiet(Valid(Present(v.one))) /\ (Present(v.one) \/ Broken(Valid(Present(v.one)))) BY FailedCheck
<1>11. Regular(GitChange(v))
  <2> DEFINE q == Valid(Present(v.one))  ns == InRepo(v)
             s == q \o HoldsEach(ns) \o Valid(v.args) \o TouchesEach(ns)  d == GitChange(v)
  <2>1. d.does = s BY DEF GitChange, Argv, Compound
  <2>2. /\ Sequence(s) /\ Covered(s) /\ s # <<>>
        /\ \A needs : Broken(q) \/ Needed(ns) \subseteq needs => Enough(s, needs)
    BY <1>9, <1>10, ManyNeeds
  <2>3. CASE Broken(q) BY <2>1, <2>2, <2>3 DEF Regular, Honest, Suffices
  <2>4. CASE ~Broken(q)
    <3>1. v.one # None BY <1>10, <2>4 DEF Present
    <3>2. d.asks = Needed(ns) BY <3>1 DEF GitChange, Compound, When
    <3> QED BY <2>1, <2>2, <3>2, <1>9 DEF Regular, Honest, Suffices
  <2> QED BY <2>3, <2>4
<1>12. Honest(GitSync(v))
  <2> DEFINE q == Valid(Present(v.one))  ns == InRepo(v)  g == q \o HoldsEach(ns)
             h == g \o Valid(Fits(v.two))  r == h \o Holds({Remote})  w == r \o Valid(v.args)  u == w \o TouchesEach(ns)
             s == u \o Touches({Remote})
  <2>1. GitSync(v).does = s BY DEF GitSync, RemoteHost, Argv, Compound
  <2>f. Sequence(g) /\ Covered(g) /\ \A i \in DOMAIN ns : HasTicket(g, {ns[i]})
    BY <1>9, <1>10, ManyNeeds
  <2>g. Sequence(Valid(Fits(v.two))) /\ Quiet(Valid(Fits(v.two))) BY OneStep DEF Valid
  <2>2. Sequence(h) /\ Covered(h) /\ \A i \in DOMAIN ns : HasTicket(h, {ns[i]})
    BY <2>f, <2>g, AddQuiet, MarksStay
  <2>3. Sequence(Holds({Remote})) /\ Sequence(Valid(v.args)) /\ Sequence(TouchesEach(ns)) /\ Sequence(Touches({Remote}))
    BY <1>9, EachIsSequence, OneStep DEF Holds, Touches, Valid
  <2>4. Sequence(r) /\ Covered(r) /\ HasTicket(r, {Remote}) /\ \A i \in DOMAIN ns : HasTicket(r, {ns[i]})
    BY <2>2, <2>3, AddHolds, MarksStay
  <2>5. Sequence(w) /\ Covered(w) /\ HasTicket(w, {Remote}) /\ \A i \in DOMAIN ns : HasTicket(w, {ns[i]})
    BY <2>3, <2>4, AddQuiet, MarksStay
  <2>6. Sequence(u) /\ Covered(u) /\ HasTicket(u, {Remote})
    BY <2>3, <2>5, <1>9, AddTouchesEach, MarksStay
  <2>7. Sequence(s) /\ Covered(s) /\ s # <<>> BY <2>6, AddTouches
  <2> QED BY <2>1, <2>7 DEF Honest
<1>13. Honest(HttpRequest(v))
  <2> DEFINE q == Valid(Present(v.one)) \o Valid(v.args)  n == {Origin(v.one)}
             h == q \o Holds(n)  s == h \o Touches(n)
             m == {Origin(v.two)}
             tail == IF Present(v.two) THEN Holds(m) \o Touches(m) ELSE <<>>
  <2>1. HttpRequest(v).does = s \o tail BY DEF HttpRequest, Tool
  <2>2. Quiet(q) BY MarksStay DEF Quiet
  <2>3. Sequence(h) /\ Covered(h) /\ HasTicket(h, n) BY <2>2, QuietIsFine, AddHolds
  <2>4. Sequence(s) /\ Covered(s) /\ s # <<>> BY <2>3, AddTouches
  <2>5. Sequence(Holds(m)) /\ Covered(Holds(m)) /\ HasTicket(Holds(m), m)
    BY OneStep DEF Holds, Covered, HasTicket
  <2>6. Sequence(Holds(m) \o Touches(m)) /\ Covered(Holds(m) \o Touches(m)) BY <2>5, AddTouches
  <2>7. Sequence(tail) /\ Covered(tail) BY <2>6 DEF Covered
  <2> HIDE DEF s, tail
  <2>8. Sequence(s \o tail) /\ Covered(s \o tail) BY <2>4, <2>7, CoveredAppends
  <2>9. s \o tail # <<>>
    <3>1. /\ Len(s) \in Nat /\ Len(tail) \in Nat /\ DOMAIN s = 1 .. Len(s)
          /\ DOMAIN (s \o tail) = 1 .. Len(s) + Len(tail)
      BY <2>4, <2>7, Joined
    <3>2. Len(s) # 0
      <4>1. PICK S : s \in Seq(S) BY <2>4 DEF Sequence
      <4> QED BY <4>1, <2>4
    <3>3. 1 \in DOMAIN (s \o tail) BY <3>1, <3>2
    <3> QED BY <3>3
  <2> QED BY <2>1, <2>8, <2>9 DEF Honest
<1>14. Regular(FileCall("filesystem.list", v)) BY <1>1 DEF FileCall, ListDir
<1>15. Regular(FileCall("filesystem.stat", v)) BY <1>1 DEF FileCall, Stat
<1>16. Regular(FileCall("filesystem.read", v)) BY <1>1 DEF FileCall, ReadFile
<1>17. Regular(FileCall("filesystem.read_range", v)) BY <1>1 DEF FileCall, ReadRange
<1>18. Regular(FileCall("filesystem.search_text", v)) BY <1>1 DEF FileCall, SearchText
<1>19. Regular(FileCall("filesystem.glob", v)) BY <1>1 DEF FileCall, Glob
<1>20. Regular(FileCall("filesystem.patch", v)) BY <1>1 DEF FileCall, Patch
<1>21. Honest(FileCall("filesystem.write", v)) BY <1>3 DEF FileCall
<1>22. Regular(FileCall("archive.list", v)) BY <1>2 DEF FileCall
<1>23. Regular(FileCall("archive.extract", v)) BY <1>7 DEF FileCall
<1>24. Regular(FileCall("archive.create", v)) BY <1>8 DEF FileCall
<1>25. Regular(FileCall("git.status", v)) BY <1>4 DEF FileCall
<1>26. Regular(FileCall("git.commit", v)) BY <1>11 DEF FileCall
<1>27. Honest(FileCall("git.fetch", v)) BY <1>12 DEF FileCall
<1>28. Honest(FileCall("http.get", v)) BY <1>13 DEF FileCall
<1>29. \A t \in FileTool \ (FindsOut \cup {"filesystem.write"}) : Regular(FileCall(t, v))
  BY <1>14, <1>15, <1>16, <1>17, <1>18, <1>19, <1>20, <1>21, <1>22, <1>23, <1>24, <1>25, <1>26, <1>27, <1>28 DEF FileTool, FindsOut
<1>30. \A t \in FindsOut \cup {"filesystem.write"} : Honest(FileCall(t, v))
  BY <1>14, <1>15, <1>16, <1>17, <1>18, <1>19, <1>20, <1>21, <1>22, <1>23, <1>24, <1>25, <1>26, <1>27, <1>28 DEF FindsOut
<1> QED BY <1>29, <1>30 DEF Regular

LEMMA ToolsAreRegular ==
  ASSUME NEW v, v.args \in BOOLEAN, NEW t \in ToolId
  PROVE  /\ Honest(Described(t, v))
         /\ t \notin FindsOut \cup SessionTools \cup {"filesystem.write"} => Suffices(Described(t, v))
<1>1. \/ t \in BrowserTool /\ Described(t, v) = BrowserCall(t, v)
      \/ t \in DesktopTool /\ Described(t, v) = DesktopCall(t, v)
      \/ t \in FileTool /\ Described(t, v) = FileCall(t, v)
      \/ t \in HostTool /\ Described(t, v) = HostCall(t, v)
  BY DEF ToolId, Described
<1>2. CASE t \in BrowserTool /\ Described(t, v) = BrowserCall(t, v)
  BY <1>2, BrowserIsRegular DEF Regular
<1>3. CASE t \in DesktopTool /\ Described(t, v) = DesktopCall(t, v)
  BY <1>3, DesktopIsRegular DEF Regular
<1>4. CASE t \in FileTool /\ Described(t, v) = FileCall(t, v)
  BY <1>4, FilesAreRegular DEF Regular
<1>5. CASE t \in HostTool /\ Described(t, v) = HostCall(t, v)
  BY <1>5, HostIsRegular DEF Regular
<1> QED BY <1>1, <1>2, <1>3, <1>4, <1>5

-----------------------------------------------------------------------------
(* A call on its way.  Tickets are what was asked for, what was asked for  *)
(* is what the tool would still ask, and every effect to come has its      *)
(* ticket before it or has been agreed to.                                 *)
Steady == ~(call.tool \in Resolving /\ moves > 0)
Plainly == call.tool \notin FindsOut \cup SessionTools \cup {"filesystem.write"}
Backed(s) ==
  \A k \in DOMAIN s : s[k].do = "effect" =>
    \/ s[k].needs = {} \/ s[k].needs \cap allowed # {}
    \/ \E j \in 1 .. k - 1 : s[j].do = "ticket" /\ s[j].needs \subseteq s[k].needs

AskedInv ==
  /\ call.route = "turn" =>
       /\ phase \in {"asked", "agreed", "running"} /\ Steady /\ Plainly => asked = Now.asks
       /\ phase = "running" /\ ~lapsed => tickets = asked
       /\ phase \in {"new", "asked", "agreed"} => tickets = {} /\ touched = {}
       /\ phase = "agreed" => allowed = asked
       /\ phase # "review"
  /\ phase = "review" => reviews < MaxReviews /\ tickets = {}
  /\ call.route = "task" =>
       /\ phase \notin {"asked", "agreed"}
       /\ phase = "review" /\ Steady /\ Plainly => asked = Now.single
       /\ phase \in {"new", "running"} /\ reviews > 0 /\ Steady /\ Plainly => asked = Now.single
       /\ phase \in {"new", "running"} /\ reviews > 0 /\ ~lapsed => tickets = asked
Ready ==
  /\ Steady /\ Plainly /\ ~lapsed
  /\ call.route = "task" => reviews > 0 /\ ~(Cardinality(Now.asks) > 1)
TodoInv ==
  phase = "running" => Sequence(todo) /\ todo # <<>> /\ Backed(todo) /\ (Ready => Enough(todo, tickets))
CallsInv == CallsTypeOK /\ AskedInv /\ TodoInv /\ EffectsAreAsked /\ GrantSuffices

LEMMA CallsInitially == CallsInit => CallsInv
<1> SUFFICES ASSUME CallsInit PROVE CallsInv OBVIOUS
<1>1. CallsTypeOK
  <2>1. moves \in 0 .. MaxMoves /\ reviews \in 0 .. MaxReviews BY CallsAssumption DEF CallsInit
  <2>2. call \in CallArguments /\ at \in Links /\ open \subseteq Subject BY DEF CallsInit
  <2>3. phase = "new" /\ tickets = {} /\ result = None /\ lapsed = FALSE BY DEF CallsInit
  <2> QED BY <2>1, <2>2, <2>3 DEF CallsTypeOK
<1>2. AskedInv BY DEF CallsInit, AskedInv
<1>3. TodoInv BY DEF CallsInit, TodoInv
<1>4. EffectsAreAsked BY DEF CallsInit, EffectsAreAsked
<1>5. GrantSuffices BY CallsAssumption DEF CallsInit, GrantSuffices
<1> QED BY <1>1, <1>2, <1>3, <1>4, <1>5 DEF CallsInv

\* Only a change of the world changes what the tool says of itself.
LEMMA NowStays ==
  ASSUME UNCHANGED <<call, at, open, moves>>
  PROVE  Now' = Now /\ (Steady' <=> Steady) /\ (Plainly' <=> Plainly)
BY DEF Now, View, Steady, Plainly

\* The steps that begin.
LEMMA StepsBegin ==
  ASSUME CallsInv
  PROVE  /\ Sequence(Now.does) /\ Now.does # <<>> /\ Covered(Now.does)
         /\ Plainly => Suffices(Now)
<1>1. call \in CallArguments BY DEF CallsInv, CallsTypeOK
<1>2. call.tool \in ToolId /\ call.args \in BOOLEAN BY <1>1 DEF CallArguments
<1>3. View.args \in BOOLEAN BY <1>2 DEF View
<1>4. Honest(Now) /\ (Plainly => Suffices(Now)) BY <1>2, <1>3, ToolsAreRegular DEF Now, Plainly
<1> QED BY <1>4 DEF Honest

\* What moves between the question and the call.
LEMMA MovesKeepWords ==
  ASSUME CallsInv, Move, Steady', Plainly
  PROVE  Now'.asks = Now.asks /\ Now'.single = Now.single
<1>1. moves \in Nat /\ moves' = moves + 1 /\ call' = call BY CallsAssumption DEF CallsInv, CallsTypeOK, Move
<1>2. call.tool \notin Resolving BY <1>1 DEF Steady
<1>3. call.tool = "desktop.observe" /\ UNCHANGED at BY <1>2 DEF Move, Watching, Plainly, SessionTools
<1>4. Now = ObserveDesktop(View) /\ Now' = ObserveDesktop(View')
  <2>1. \A v : Described("desktop.observe", v) = ObserveDesktop(v)
    <3> TAKE v
    <3>1. "desktop.observe" \in DesktopTool /\ "desktop.observe" \notin BrowserTool
          /\ "desktop.observe" \notin FileTool /\ "desktop.observe" \notin HostTool
      BY DEF DesktopTool, BrowserTool, FileTool, HostTool
    <3>2. Described("desktop.observe", v) = DesktopCall("desktop.observe", v) BY <3>1 DEF Described
    <3> QED BY <3>2 DEF DesktopCall
  <2> QED BY <2>1, <1>1, <1>3 DEF Now
<1> DEFINE shown == Capture(IF Present(call.two) THEN call.two ELSE "")
           seen == Need("DesktopObserve", "window", WindowId(call.one))
<1>5. \A v : v.one = call.one /\ v.two = call.two /\ (v.image <=> call.image) =>
        /\ ObserveDesktop(v).asks = IF ~Fits(call.one) THEN {} ELSE IF call.image THEN {seen, shown} ELSE {seen}
        /\ ObserveDesktop(v).single = IF ~Fits(call.one) THEN {} ELSE {seen}
  <2> SUFFICES ASSUME NEW v, v.one = call.one, v.two = call.two, v.image <=> call.image
               PROVE  /\ ObserveDesktop(v).asks =
                           IF ~Fits(call.one) THEN {} ELSE IF call.image THEN {seen, shown} ELSE {seen}
                      /\ ObserveDesktop(v).single = IF ~Fits(call.one) THEN {} ELSE {seen}
    OBVIOUS
  <2>1. /\ ObserveDesktop(v).single = When(Fits(v.one), {Seen(v)})
        /\ ObserveDesktop(v).asks =
             When(Fits(v.one), {Seen(v)} \cup When(v.image, {Capture(IF Present(v.two) THEN v.two ELSE "")}))
    BY DEF ObserveDesktop, Compound
  <2>2. Seen(v) = seen BY DEF Seen
  <2>3. Capture(IF Present(v.two) THEN v.two ELSE "") = shown OBVIOUS
  <2> HIDE DEF seen, shown
  <2>4. CASE ~Fits(call.one) BY <2>1, <2>4 DEF When
  <2>5. CASE Fits(call.one) /\ call.image
    <3>1. ObserveDesktop(v).asks = {seen} \cup {shown} BY <2>1, <2>2, <2>3, <2>5 DEF When
    <3>2. ObserveDesktop(v).single = {seen} BY <2>1, <2>2, <2>5 DEF When
    <3> QED BY <3>1, <3>2, <2>5
  <2>6. CASE Fits(call.one) /\ ~call.image
    <3>1. ObserveDesktop(v).asks = {seen} BY <2>1, <2>2, <2>6 DEF When
    <3>2. ObserveDesktop(v).single = {seen} BY <2>1, <2>2, <2>6 DEF When
    <3> QED BY <3>1, <3>2, <2>6
  <2> QED BY <2>4, <2>5, <2>6
<1> HIDE DEF seen, shown
<1>6. View.one = call.one /\ View.two = call.two /\ (View.image <=> call.image) BY DEF View
<1>7. View'.one = call.one /\ View'.two = call.two /\ (View'.image <=> call.image) BY <1>1 DEF View
<1> QED BY <1>4, <1>5, <1>6, <1>7

\* The head of what is left, and what is left behind it.
LEMMA TodoShrinks ==
  ASSUME Sequence(todo), todo # <<>>, Backed(todo), tickets \subseteq allowed, Passes(Head(todo))
  PROVE  /\ Head(todo) = todo[1] /\ 1 \in DOMAIN todo /\ Len(todo) \in Nat
         /\ Len(todo) # 1 => Tail(todo) # <<>>
         /\ Sequence(Tail(todo)) /\ Backed(Tail(todo))
         /\ todo[1].do = "effect" => todo[1].needs = {} \/ todo[1].needs \cap allowed # {}
         /\ Enough(todo, tickets) => Enough(Tail(todo), tickets)
<1>1. PICK S : todo \in Seq(S) BY DEF Sequence
<1>2. /\ Head(todo) = todo[1] /\ 1 \in DOMAIN todo /\ Len(todo) \in Nat
      /\ DOMAIN todo = 1 .. Len(todo) /\ Tail(todo) \in Seq(S) /\ Len(Tail(todo)) = Len(todo) - 1
  BY <1>1
<1>3. DOMAIN Tail(todo) = 1 .. Len(todo) - 1 BY <1>1, <1>2
<1>4. \A k \in DOMAIN Tail(todo) : k + 1 \in DOMAIN todo /\ Tail(todo)[k] = todo[k + 1]
  BY <1>1, <1>2, <1>3
<1>5. \A k \in DOMAIN Tail(todo) : \A j \in 1 .. k : j # 1 => j - 1 \in 1 .. k - 1 /\ Tail(todo)[j - 1] = todo[j]
  <2> TAKE k \in DOMAIN Tail(todo)
  <2> TAKE j \in 1 .. k
  <2> HAVE j # 1
  <2>1. j - 1 \in 1 .. k - 1 /\ j - 1 \in DOMAIN Tail(todo) BY <1>2, <1>3
  <2>2. Tail(todo)[j - 1] = todo[(j - 1) + 1] BY <1>4, <2>1
  <2>3. (j - 1) + 1 = j BY <1>3
  <2> QED BY <2>1, <2>2, <2>3
<1>6. Sequence(Tail(todo)) BY <1>2 DEF Sequence
<1>7. Len(todo) # 1 => Tail(todo) # <<>>
  <2>1. Len(todo) # 0 BY <1>1
  <2>2. Len(todo) # 1 => Len(Tail(todo)) # 0 BY <1>2, <2>1
  <2> QED BY <2>2
<1>8. todo[1].do = "effect" => todo[1].needs = {} \/ todo[1].needs \cap allowed # {} BY <1>2 DEF Backed
<1>9. Backed(Tail(todo))
  <2> SUFFICES ASSUME NEW k \in DOMAIN Tail(todo), Tail(todo)[k].do = "effect",
                      Tail(todo)[k].needs # {}, Tail(todo)[k].needs \cap allowed = {}
               PROVE  \E j \in 1 .. k - 1 : /\ Tail(todo)[j].do = "ticket"
                                            /\ Tail(todo)[j].needs \subseteq Tail(todo)[k].needs
    BY DEF Backed
  <2>1. k \in Nat /\ 1 .. (k + 1) - 1 = 1 .. k BY <1>3
  <2>2. PICK j \in 1 .. k : todo[j].do = "ticket" /\ todo[j].needs \subseteq Tail(todo)[k].needs
    <3>1. todo[k + 1].do = "effect" /\ todo[k + 1] = Tail(todo)[k] /\ k + 1 \in DOMAIN todo BY <1>4
    <3>2. \E j \in 1 .. (k + 1) - 1 : todo[j].do = "ticket" /\ todo[j].needs \subseteq todo[k + 1].needs
      BY <3>1 DEF Backed
    <3> QED BY <3>1, <3>2, <2>1
  <2>3. j # 1
    <3>1. j = 1 => todo[1].needs \cap tickets # {} BY <1>2, <2>2 DEF Passes
    <3> QED BY <3>1, <2>2
  <2>4. j - 1 \in 1 .. k - 1 /\ Tail(todo)[j - 1] = todo[j] BY <1>5, <2>3
  <2>5. Tail(todo)[j - 1].do = "ticket" /\ Tail(todo)[j - 1].needs \subseteq Tail(todo)[k].needs
    BY <2>2, <2>4
  <2> QED BY <2>4, <2>5
<1>10. Enough(todo, tickets) => Enough(Tail(todo), tickets)
  <2> SUFFICES ASSUME Enough(todo, tickets), NEW k \in DOMAIN Tail(todo), Demands(Tail(todo)[k], tickets)
               PROVE  \E j \in 1 .. k - 1 : Fails(Tail(todo)[j])
    BY DEF Enough
  <2>1. k \in Nat /\ 1 .. (k + 1) - 1 = 1 .. k BY <1>3
  <2>2. PICK j \in 1 .. k : Fails(todo[j]) BY <1>4, <2>1 DEF Enough
  <2>3. j # 1 BY <1>2, <2>2 DEF Passes, Fails
  <2>4. j - 1 \in 1 .. k - 1 /\ Fails(Tail(todo)[j - 1]) BY <1>5, <2>2, <2>3
  <2> QED BY <2>4
<1> QED BY <1>2, <1>6, <1>7, <1>8, <1>9, <1>10

LEMMA NothingRefused ==
  ASSUME Sequence(todo), todo # <<>>, Enough(todo, tickets), Head(todo).do \in {"bar", "ticket"}
  PROVE  Passes(Head(todo))
<1>1. PICK S : todo \in Seq(S) BY DEF Sequence
<1>2. Head(todo) = todo[1] /\ 1 \in DOMAIN todo BY <1>1
<1>3. ~Demands(todo[1], tickets)
  <2>1. ~\E j \in 1 .. 1 - 1 : Fails(todo[j]) OBVIOUS
  <2> QED BY <1>2, <2>1 DEF Enough
<1> QED BY <1>2, <1>3 DEF Demands, Passes

LEMMA QuestionKeeps ==
  ASSUME CallsInv, AskNeeds \/ UserAgrees \/ UserRefuses \/ DenyReview
  PROVE  CallsInv'
<1>f. /\ CallsTypeOK /\ AskedInv /\ TodoInv /\ EffectsAreAsked /\ GrantSuffices /\ call.route \in {"turn", "task"}
  BY DEF CallsInv, CallsTypeOK, CallArguments
<1>n. /\ UNCHANGED <<call, at, open, moves, tickets, todo, touched, lapsed, reviews>>
      /\ phase' # "running" /\ result' # "permission"
      /\ Now' = Now /\ (Steady' <=> Steady) /\ (Plainly' <=> Plainly)
  <2>1. /\ UNCHANGED <<call, at, open, moves, tickets, todo, touched, lapsed, reviews>> /\ phase' # "running"
    BY DEF AskNeeds, UserAgrees, UserRefuses, DenyReview, Answers
  <2>2. result' # "permission"
    BY <1>f, CallsAssumption DEF AskNeeds, UserAgrees, UserRefuses, DenyReview, Answers, CallsTypeOK
  <2> QED BY <2>1, <2>2, NowStays
<1>1. TodoInv' /\ GrantSuffices' BY <1>n DEF TodoInv, GrantSuffices
<1>2. CASE AskNeeds
  <2>1. tickets = {} /\ result = None BY <1>f, <1>2 DEF AskNeeds, AskedInv, CallsTypeOK
  <2>2. CallsTypeOK' BY <1>f, <1>n, <1>2, <2>1 DEF AskNeeds, CallsTypeOK
  <2>3. AskedInv' BY <1>f, <1>n, <1>2, <2>1 DEF AskNeeds, AskedInv
  <2>4. EffectsAreAsked' BY <1>f, <1>2 DEF AskNeeds, EffectsAreAsked
  <2> QED BY <1>1, <2>2, <2>3, <2>4 DEF CallsInv
<1>3. CASE UserAgrees
  <2>1. call.route = "turn" /\ tickets = {} BY <1>f, <1>3 DEF UserAgrees, AskedInv
  <2>2. CallsTypeOK' BY <1>f, <1>n, <1>3, <2>1 DEF UserAgrees, CallsTypeOK
  <2>3. AskedInv' BY <1>f, <1>n, <1>3, <2>1 DEF UserAgrees, AskedInv
  <2>5. EffectsAreAsked' BY <1>f, <1>3, <2>1 DEF UserAgrees, EffectsAreAsked, AskedInv
  <2> QED BY <1>1, <2>2, <2>3, <2>5 DEF CallsInv
<1>4. CASE UserRefuses \/ DenyReview
  <2>1. UNCHANGED <<asked, allowed>> /\ phase' = "done" /\ result' = "denied"
    BY <1>4 DEF UserRefuses, DenyReview, Answers
  <2>2. CallsTypeOK' BY <1>f, <1>n, <2>1, CallsAssumption DEF CallsTypeOK
  <2>3. AskedInv' BY <1>f, <1>n, <2>1 DEF AskedInv
  <2>4. EffectsAreAsked' BY <1>f, <1>n, <2>1 DEF EffectsAreAsked
  <2> QED BY <1>1, <2>2, <2>3, <2>4 DEF CallsInv
<1> QED BY <1>2, <1>3, <1>4

LEMMA InvocationBegins ==
  ASSUME CallsInv, Execute \/ RunStep
  PROVE  CallsInv'
<1>f. /\ CallsTypeOK /\ AskedInv /\ TodoInv /\ EffectsAreAsked /\ GrantSuffices /\ call.route \in {"turn", "task"}
  BY DEF CallsInv, CallsTypeOK, CallArguments
<1>n. /\ UNCHANGED <<call, at, open, moves, asked, allowed, touched, lapsed, reviews>>
      /\ Now' = Now /\ (Steady' <=> Steady) /\ (Plainly' <=> Plainly) /\ result = None
  BY <1>f, NowStays DEF Execute, RunStep, CallsTypeOK
<1>1. EffectsAreAsked' BY <1>f, <1>n DEF EffectsAreAsked
<1>2. CASE phase' = "done" /\ result' = "denied" /\ UNCHANGED tickets
  <2>1. CallsTypeOK' BY <1>f, <1>n, <1>2, CallsAssumption DEF CallsTypeOK
  <2>2. AskedInv' BY <1>f, <1>n, <1>2 DEF AskedInv
  <2>3. TodoInv' /\ GrantSuffices' BY <1>2 DEF TodoInv, GrantSuffices
  <2> QED BY <1>1, <2>1, <2>2, <2>3 DEF CallsInv
<1>3. CASE phase' = "running" /\ result' = result /\ todo' = Now.does
  <2>1. /\ tickets' \subseteq asked /\ tickets' \subseteq allowed
        /\ call.route = "turn" => tickets' = asked /\ phase = "agreed"
        /\ call.route = "task" => tickets' = tickets /\ phase = "new"
    BY <1>f, <1>3 DEF Execute, RunStep, Answers, AskedInv, CallsTypeOK
  <2>2. CallsTypeOK' BY <1>f, <1>n, <1>3, <2>1, CallsAssumption DEF CallsTypeOK
  <2>3. AskedInv' BY <1>f, <1>n, <1>3, <2>1 DEF AskedInv
  <2>4. Sequence(todo') /\ todo' # <<>> /\ Covered(todo') /\ (Plainly => Suffices(Now))
    BY <1>3, StepsBegin
  <2>5. Backed(todo)' BY <2>4 DEF Backed, Covered
  <2>6. Ready' => Enough(todo', tickets')
    <3> SUFFICES ASSUME Ready' PROVE Enough(todo', tickets') OBVIOUS
    <3>1. /\ Plainly /\ Steady /\ ~lapsed
          /\ call.route = "task" => reviews > 0 /\ ~(Cardinality(Now.asks) > 1)
      BY <1>n DEF Ready
    <3>2. CASE call.route = "turn"
      <4>1. tickets' = Now.asks BY <1>f, <2>1, <3>1, <3>2 DEF AskedInv
      <4> QED BY <1>3, <2>4, <3>1, <4>1 DEF Suffices
    <3>3. CASE call.route = "task"
      <4>1. tickets' = Now.single BY <1>f, <2>1, <3>1, <3>3 DEF AskedInv
      <4> QED BY <1>3, <2>4, <3>1, <3>3, <4>1 DEF Suffices
    <3> QED BY <1>f, <3>2, <3>3
  <2>7. TodoInv' BY <2>4, <2>5, <2>6 DEF TodoInv
  <2>8. GrantSuffices' BY <1>n, <1>3, CallsAssumption DEF GrantSuffices
  <2> QED BY <1>1, <2>2, <2>3, <2>7, <2>8 DEF CallsInv
<1> QED BY <1>2, <1>3 DEF Execute, RunStep, Answers

LEMMA WorldKeeps ==
  ASSUME CallsInv, Move \/ Lapse \/ GrantReview
  PROVE  CallsInv'
<1>f. /\ CallsTypeOK /\ AskedInv /\ TodoInv /\ EffectsAreAsked /\ GrantSuffices /\ call.route \in {"turn", "task"}
  BY DEF CallsInv, CallsTypeOK, CallArguments
<1>1. result' = result /\ call' = call /\ touched' = touched /\ asked' = asked /\ result = None
  BY <1>f DEF Move, Lapse, GrantReview, CallsTypeOK
<1>2. GrantSuffices' BY <1>1, CallsAssumption DEF GrantSuffices
<1>3. CASE Move
  <2>1. phase # "running" /\ UNCHANGED <<phase, allowed, tickets, lapsed, reviews>> BY <1>3 DEF Move
  <2>2. CallsTypeOK'
    <3>1. moves' \in 0 .. MaxMoves BY <1>f, <1>3, CallsAssumption DEF Move, CallsTypeOK
    <3>2. at' \in Links /\ open' \subseteq Subject BY <1>f, <1>3 DEF Move, CallsTypeOK
    <3> QED BY <1>f, <1>1, <2>1, <3>1, <3>2 DEF CallsTypeOK
  <2>3. Plainly' <=> Plainly BY <1>1 DEF Plainly
  <2>4. Steady' => Steady
    <3>1. moves' > 0 BY <1>f, <1>3, CallsAssumption DEF Move, CallsTypeOK
    <3> QED BY <1>1, <3>1 DEF Steady
  <2>5. Steady' /\ Plainly => Now'.asks = Now.asks /\ Now'.single = Now.single BY <1>3, MovesKeepWords
  <2>6. AskedInv' BY <1>f, <1>1, <2>1, <2>3, <2>4, <2>5 DEF AskedInv
  <2>7. TodoInv' BY <2>1 DEF TodoInv
  <2>8. EffectsAreAsked' BY <1>f, <1>1, <2>1 DEF EffectsAreAsked
  <2> QED BY <1>2, <2>2, <2>6, <2>7, <2>8 DEF CallsInv
<1>4. CASE Lapse
  <2>1. UNCHANGED <<call, at, open, moves, phase, asked, allowed, todo, touched, reviews>> /\ tickets' = {} /\ lapsed'
    BY <1>4 DEF Lapse
  <2>2. Now' = Now /\ (Steady' <=> Steady) /\ (Plainly' <=> Plainly) BY <2>1, NowStays
  <2>3. CallsTypeOK' BY <1>f, <1>1, <1>4 DEF CallsTypeOK, Lapse
  <2>4. AskedInv' BY <1>f, <2>1, <2>2 DEF AskedInv
  <2>5. TodoInv'
    <3>1. ~Ready' BY <2>1 DEF Ready
    <3> QED BY <1>f, <2>1, <3>1 DEF TodoInv, Backed
  <2>6. EffectsAreAsked' BY <1>f, <2>1 DEF EffectsAreAsked
  <2> QED BY <1>2, <2>3, <2>4, <2>5, <2>6 DEF CallsInv
<1>5. CASE GrantReview
  <2>1. /\ UNCHANGED <<call, at, open, moves, asked, todo, touched>> /\ phase = "review" /\ phase' = "new"
        /\ reviews' = reviews + 1 /\ tickets' = asked /\ allowed' = allowed \cup asked /\ lapsed' = FALSE
    BY <1>5 DEF GrantReview
  <2>2. Now' = Now /\ (Steady' <=> Steady) /\ (Plainly' <=> Plainly) BY <2>1, NowStays
  <2>3. call.route = "task" /\ reviews < MaxReviews BY <1>f, <2>1 DEF AskedInv
  <2>4. reviews' \in 0 .. MaxReviews BY <1>f, <2>1, <2>3, CallsAssumption DEF CallsTypeOK
  <2>5. CallsTypeOK' BY <1>f, <1>1, <2>1, <2>4 DEF CallsTypeOK
  <2>6. AskedInv' BY <1>f, <2>1, <2>2, <2>3 DEF AskedInv
  <2>7. TodoInv' BY <2>1 DEF TodoInv
  <2>8. EffectsAreAsked' BY <1>f, <2>1 DEF EffectsAreAsked
  <2> QED BY <1>2, <2>5, <2>6, <2>7, <2>8 DEF CallsInv
<1> QED BY <1>3, <1>4, <1>5

LEMMA StepKeeps ==
  ASSUME CallsInv, TakeStep
  PROVE  CallsInv'
<1>f. /\ CallsTypeOK /\ AskedInv /\ EffectsAreAsked /\ GrantSuffices /\ call.route \in {"turn", "task"}
      /\ phase = "running" /\ result = None /\ Sequence(todo) /\ todo # <<>> /\ Backed(todo)
      /\ Ready => Enough(todo, tickets)
  BY DEF CallsInv, CallsTypeOK, CallArguments, TodoInv, TakeStep
<1>n. /\ UNCHANGED <<call, at, open, moves, allowed, lapsed, reviews>>
      /\ Now' = Now /\ (Steady' <=> Steady) /\ (Plainly' <=> Plainly) /\ (Ready' <=> Ready)
  <2>1. UNCHANGED <<call, at, open, moves, allowed, lapsed, reviews>> BY DEF TakeStep
  <2>2. Now' = Now /\ (Steady' <=> Steady) /\ (Plainly' <=> Plainly) BY <2>1, NowStays
  <2> QED BY <2>1, <2>2 DEF Ready
<1> DEFINE s == Head(todo)
<1>1. CASE /\ Passes(s) /\ todo' = Tail(todo) /\ UNCHANGED <<asked, tickets>>
           /\ touched' = IF s.do = "effect" THEN touched \cup {s.needs} ELSE touched
           /\ IF Len(todo) = 1 THEN Answers("ok") ELSE UNCHANGED <<phase, result>>
  <2>1. tickets \subseteq allowed BY <1>f DEF CallsTypeOK
  <2>2. /\ s = todo[1] /\ (Len(todo) # 1 => Tail(todo) # <<>>) /\ Sequence(Tail(todo)) /\ Backed(Tail(todo))
        /\ s.do = "effect" => s.needs = {} \/ s.needs \cap allowed # {}
        /\ Enough(todo, tickets) => Enough(Tail(todo), tickets)
    BY <1>f, <1>1, <2>1, TodoShrinks
  <2>3. EffectsAreAsked' BY <1>f, <1>n, <1>1, <2>2 DEF EffectsAreAsked
  <2>4. CASE Len(todo) = 1
    <3>1. phase' = "done" /\ result' = "ok" BY <1>1, <2>4 DEF Answers
    <3>2. CallsTypeOK' BY <1>f, <1>n, <1>1, <3>1, CallsAssumption DEF CallsTypeOK
    <3>3. AskedInv' BY <1>f, <1>n, <1>1, <3>1 DEF AskedInv
    <3>4. TodoInv' /\ GrantSuffices' BY <3>1 DEF TodoInv, GrantSuffices
    <3> QED BY <2>3, <3>2, <3>3, <3>4 DEF CallsInv
  <2>5. CASE Len(todo) # 1
    <3>1. phase' = phase /\ result' = result BY <1>1, <2>5
    <3>2. CallsTypeOK' BY <1>f, <1>n, <1>1, <3>1 DEF CallsTypeOK
    <3>3. AskedInv' BY <1>f, <1>n, <1>1, <3>1 DEF AskedInv
    <3>4. Backed(todo)' BY <1>n, <1>1, <2>2 DEF Backed
    <3>5. TodoInv' BY <1>f, <1>n, <1>1, <2>2, <2>5, <3>4 DEF TodoInv
    <3>6. GrantSuffices' BY <1>f, <3>1, CallsAssumption DEF GrantSuffices
    <3> QED BY <2>3, <3>2, <3>3, <3>5, <3>6 DEF CallsInv
  <2> QED BY <2>4, <2>5
<1>2. CASE /\ phase' = "done" /\ result' \in {"invalid", "out_of_bounds", "failed"}
           /\ UNCHANGED <<todo, touched, asked, tickets>>
  <2>1. CallsTypeOK' BY <1>f, <1>n, <1>2, CallsAssumption DEF CallsTypeOK
  <2>2. AskedInv' BY <1>f, <1>n, <1>2 DEF AskedInv
  <2>3. TodoInv' /\ GrantSuffices' BY <1>2 DEF TodoInv, GrantSuffices
  <2>4. EffectsAreAsked' BY <1>f, <1>n, <1>2 DEF EffectsAreAsked
  <2> QED BY <2>1, <2>2, <2>3, <2>4 DEF CallsInv
<1>3. CASE s.do \in {"bar", "ticket"} /\ ~Passes(s) /\ Refused /\ todo' = <<>> /\ UNCHANGED touched
  <2>1. ~Ready BY <1>f, <1>3, NothingRefused
  <2>2. EffectsAreAsked' BY <1>f, <1>n, <1>3 DEF EffectsAreAsked
  <2>3. CASE PutToReview
    <3>1. /\ phase' = "review" /\ asked' = Now.single /\ tickets' = {} /\ result' = result
          /\ call.route = "task" /\ reviews < MaxReviews
      BY <1>3, <2>3 DEF Refused, PutToReview
    <3>2. CallsTypeOK' BY <1>f, <1>n, <3>1 DEF CallsTypeOK
    <3>3. AskedInv' BY <1>f, <1>n, <3>1 DEF AskedInv
    <3>4. TodoInv' BY <3>1 DEF TodoInv
    <3>5. GrantSuffices' BY <1>f, <3>1, CallsAssumption DEF GrantSuffices
    <3> QED BY <2>2, <3>2, <3>3, <3>4, <3>5 DEF CallsInv
  <2>4. CASE ~PutToReview
    <3>1. phase' = "done" /\ result' = "permission" /\ UNCHANGED <<asked, tickets>>
      BY <1>3, <2>4 DEF Refused, Answers
    <3>2. CallsTypeOK' BY <1>f, <1>n, <3>1, CallsAssumption DEF CallsTypeOK
    <3>3. AskedInv' BY <1>f, <1>n, <3>1 DEF AskedInv
    <3>4. TodoInv' BY <3>1 DEF TodoInv
    <3>5. call.route = "task" => reviews > 0
      BY <1>f, <2>4, CallsAssumption DEF PutToReview, CallsTypeOK
    <3>6. moves \in Nat BY <1>f, CallsAssumption DEF CallsTypeOK
    <3>7. ~Steady \/ ~Plainly \/ lapsed \/ (call.route = "task" /\ Cardinality(Now.asks) > 1)
      BY <2>1, <3>5 DEF Ready
    <3>8. \/ lapsed
          \/ call.tool \in Resolving /\ (moves > 0 \/ call.tool = "filesystem.write")
          \/ call.tool \in FindsOut \cup SessionTools
          \/ call.route = "task" /\ Cardinality(Now.asks) > 1
      BY <3>7 DEF Steady, Plainly, Resolving
    <3>9. GrantSuffices'
      <4>1. UNCHANGED <<lapsed, call, moves>> /\ Now'.asks = Now.asks BY <1>n
      <4> QED BY <4>1, <3>8, Zenon DEF GrantSuffices
    <3> QED BY <2>2, <3>2, <3>3, <3>4, <3>9 DEF CallsInv
  <2> QED BY <2>3, <2>4
<1> QED BY <1>1, <1>2, <1>3 DEF TakeStep, Does, Answers

LEMMA CallsStep == CallsInv /\ [CallsNext]_callVars => CallsInv'
<1> SUFFICES ASSUME CallsInv, [CallsNext]_callVars PROVE CallsInv' OBVIOUS
<1>1. CASE UNCHANGED callVars
  <2>1. Now' = Now /\ (Steady' <=> Steady) /\ (Plainly' <=> Plainly) BY <1>1, NowStays DEF callVars
  <2>2. CallsTypeOK' BY <1>1 DEF callVars, CallsInv, CallsTypeOK
  <2>3. AskedInv' BY <1>1, <2>1 DEF callVars, CallsInv, AskedInv
  <2>4. TodoInv' BY <1>1, <2>1 DEF callVars, CallsInv, TodoInv, Backed, Ready
  <2>5. EffectsAreAsked' /\ GrantSuffices' BY <1>1, <2>1 DEF callVars, CallsInv, EffectsAreAsked, GrantSuffices
  <2> QED BY <2>2, <2>3, <2>4, <2>5 DEF CallsInv
<1> QED BY <1>1, QuestionKeeps, InvocationBegins, WorldKeeps, StepKeeps DEF CallsNext

(* Every variable of a call keeps its type.                                *)
THEOREM CallsTypeCorrect == CallsSpec => []CallsTypeOK
<1>1. CallsInv => CallsTypeOK BY DEF CallsInv
<1> QED BY <1>1, CallsInitially, CallsStep, PTL DEF CallsSpec

(* What the user agreed to is enough: no tool of the host is refused for   *)
(* want of a ticket that it did not ask for, with the exceptions that      *)
(* GrantSuffices names, whatever happens to the world in between.          *)
THEOREM GrantsSuffice == CallsSpec => []GrantSuffices
<1>1. CallsInv => GrantSuffices BY DEF CallsInv
<1> QED BY <1>1, CallsInitially, CallsStep, PTL DEF CallsSpec

(* No tool of the host touches what nobody agreed to.                      *)
THEOREM EffectsAsked == CallsSpec => []EffectsAreAsked
<1>1. CallsInv => EffectsAreAsked BY DEF CallsInv
<1> QED BY <1>1, CallsInitially, CallsStep, PTL DEF CallsSpec

-----------------------------------------------------------------------------
(* The input of the desktop.  What a call may leave down.                  *)
KeepsDown == {"key down", "mouse down"}
StepName == {"stop", "ticket", "scope", "application", "gate", "refuse", "open", "approve", "take", "give", "send"}
StepRecord == [step : StepName, events : Seq(Event)]

(* The last event of a key lets it down, or one of them lets it go.        *)
PressedBy(es, k) ==
  \E i \in DOMAIN es : es[i] = Down(k) /\ \A j \in i + 1 .. Len(es) : es[j] # Up(k)
LiftedBy(es, k) == \E i \in DOMAIN es : es[i] = Up(k)
Lifts(s, i, k) == s[i].step = "send" /\ LiftedBy(s[i].events, k)
(* A key that the steps press and never let go.                            *)
Unsettled(s, k) ==
  \E i \in DOMAIN s :
    /\ s[i].step = "send" /\ PressedBy(s[i].events, k)
    /\ \A j \in i + 1 .. Len(s) : ~Lifts(s, j, k)
Silent(s) == \A i \in DOMAIN s : s[i].step # "send"

(* From a place where something is sent, no more than a number of events   *)
(* go out before the gate is looked at again or the call is over.          *)
Over(s, n) == n > Len(s) \/ s[n].step = "gate"
Finishing(s, n) == Over(s, n) \/ (s[n].step = "give" /\ Over(s, n + 1))
Ahead(s, i, w) ==
  \E e \in i .. Len(s) :
    /\ \A n \in i .. e : s[n].step = "send" /\ (e = i \/ Len(s[n].events) <= 1)
    /\ IF e = i THEN Len(s[i].events) <= w ELSE e - i + 1 <= w
    /\ Finishing(s, e + 1)
Gated(s, w) == \A i \in DOMAIN s : s[i].step = "send" => Ahead(s, i, w)
Opens(s) == \A i \in DOMAIN s : s[i].step = "open" => i < Len(s) /\ s[i + 1].step = "approve"

-----------------------------------------------------------------------------
LEMMA TodoShape ==
  ASSUME NEW s \in Seq(StepRecord)
  PROVE  Sequence(s) /\ Len(s) \in Nat /\ DOMAIN s = 1 .. Len(s)
         /\ \A i \in DOMAIN s : s[i].events \in Seq(Event) /\ Len(s[i].events) \in Nat /\ s[i].step \in StepName
<1>1. Sequence(s) /\ Len(s) \in Nat /\ DOMAIN s = 1 .. Len(s) BY DEF Sequence
<1>2. ASSUME NEW i \in DOMAIN s
      PROVE  s[i].events \in Seq(Event) /\ Len(s[i].events) \in Nat /\ s[i].step \in StepName
  <2>1. s[i] \in StepRecord BY <1>1
  <2>2. s[i].events \in Seq(Event) /\ s[i].step \in StepName BY <2>1 DEF StepRecord
  <2> QED BY <2>2
<1> QED BY <1>1, <1>2

\* What is ahead of a place is ahead of it wherever the sequence begins.
LEMMA AheadShifts ==
  ASSUME NEW s \in Seq(StepRecord), NEW t \in Seq(StepRecord), NEW d \in Nat, NEW w \in Nat,
         Len(t) = d + Len(s), \A i \in 1 .. Len(s) : t[d + i] = s[i]
  PROVE  \A i \in DOMAIN s : Ahead(t, d + i, w) <=> Ahead(s, i, w)
<1>1. \A n \in Nat : n # 0 => (Over(t, d + n) <=> Over(s, n)) BY TodoShape DEF Over
<1>2. \A n \in Nat : n # 0 => (Finishing(t, d + n) <=> Finishing(s, n))
  <2> SUFFICES ASSUME NEW n \in Nat, n # 0 PROVE Finishing(t, d + n) <=> Finishing(s, n) OBVIOUS
  <2>1. Over(t, d + n) <=> Over(s, n) BY <1>1
  <2>2. Over(t, d + n + 1) <=> Over(s, n + 1) BY <1>1
  <2>3. CASE n <= Len(s)
    <3>1. t[d + n] = s[n] BY <2>3, TodoShape
    <3> QED BY <2>1, <2>2, <3>1 DEF Finishing
  <2>4. CASE n > Len(s) BY <2>1, <2>4, TodoShape DEF Finishing, Over
  <2> QED BY <2>3, <2>4, TodoShape
<1> SUFFICES ASSUME NEW i \in 1 .. Len(s) PROVE Ahead(t, d + i, w) <=> Ahead(s, i, w) BY TodoShape
<1>3. ASSUME Ahead(s, i, w) PROVE Ahead(t, d + i, w)
  <2>1. PICK e \in i .. Len(s) :
          /\ \A n \in i .. e : s[n].step = "send" /\ (e = i \/ Len(s[n].events) <= 1)
          /\ IF e = i THEN Len(s[i].events) <= w ELSE e - i + 1 <= w
          /\ Finishing(s, e + 1)
    BY <1>3 DEF Ahead
  <2>2. d + e \in d + i .. Len(t) /\ Finishing(t, d + e + 1) BY <2>1, <1>2, TodoShape
  <2>3. \A n \in d + i .. d + e : t[n].step = "send" /\ (d + e = d + i \/ Len(t[n].events) <= 1)
    <3> SUFFICES ASSUME NEW n \in d + i .. d + e PROVE t[n].step = "send" /\ (d + e = d + i \/ Len(t[n].events) <= 1)
      OBVIOUS
    <3>1. n - d \in i .. e /\ n = d + (n - d) /\ n - d \in 1 .. Len(s) BY TodoShape
    <3>2. t[n] = s[n - d] BY <3>1
    <3> QED BY <3>1, <3>2, <2>1
  <2>4. IF d + e = d + i THEN Len(t[d + i].events) <= w ELSE (d + e) - (d + i) + 1 <= w BY <2>1, TodoShape
  <2> QED BY <2>2, <2>3, <2>4 DEF Ahead
<1>4. ASSUME Ahead(t, d + i, w) PROVE Ahead(s, i, w)
  <2>1. PICK e \in d + i .. Len(t) :
          /\ \A n \in d + i .. e : t[n].step = "send" /\ (e = d + i \/ Len(t[n].events) <= 1)
          /\ IF e = d + i THEN Len(t[d + i].events) <= w ELSE e - (d + i) + 1 <= w
          /\ Finishing(t, e + 1)
    BY <1>4 DEF Ahead
  <2>2. e - d \in i .. Len(s) /\ e = d + (e - d) BY <2>1, TodoShape
  <2>3. Finishing(s, e - d + 1) BY <2>1, <2>2, <1>2, TodoShape
  <2>4. \A n \in i .. e - d : s[n].step = "send" /\ (e - d = i \/ Len(s[n].events) <= 1)
    <3> SUFFICES ASSUME NEW n \in i .. e - d PROVE s[n].step = "send" /\ (e - d = i \/ Len(s[n].events) <= 1)
      OBVIOUS
    <3>1. d + n \in d + i .. e /\ n \in 1 .. Len(s) BY <2>2, TodoShape
    <3>2. t[d + n] = s[n] BY <3>1
    <3>3. e = d + i => e - d = i BY <2>2
    <3>4. t[d + n].step = "send" /\ (e = d + i \/ Len(t[d + n].events) <= 1) BY <3>1, <2>1
    <3> QED BY <3>2, <3>3, <3>4
  <2>5. IF e - d = i THEN Len(s[i].events) <= w ELSE (e - d) - i + 1 <= w BY <2>1, <2>2, TodoShape
  <2> QED BY <2>2, <2>3, <2>4, <2>5 DEF Ahead
<1> QED BY <1>3, <1>4

\* What is left of a plan is as regular as the plan.
LEMMA TodoShortens ==
  ASSUME NEW s \in Seq(StepRecord), NEW n \in Nat, n <= Len(s), NEW w \in Nat, Gated(s, w), Opens(s)
  PROVE  LET t == SubSeq(s, n + 1, Len(s))
         IN  /\ t \in Seq(StepRecord) /\ Len(t) = Len(s) - n /\ \A i \in 1 .. Len(t) : t[i] = s[n + i]
             /\ Gated(t, w) /\ Opens(t)
             /\ \A k : Unsettled(t, k) => Unsettled(s, k)
<1> DEFINE t == SubSeq(s, n + 1, Len(s))
<1>1. t \in Seq(StepRecord) /\ Len(t) = Len(s) - n /\ \A i \in 1 .. Len(t) : t[i] = s[n + i] OBVIOUS
<1> HIDE DEF t
<1>2. Gated(t, w)
  <2> SUFFICES ASSUME NEW i \in DOMAIN t, t[i].step = "send" PROVE Ahead(t, i, w) BY DEF Gated
  <2>1. n + i \in DOMAIN s /\ s[n + i].step = "send" BY <1>1, TodoShape
  <2>2. Ahead(s, n + i, w) BY <2>1 DEF Gated
  <2>3. \A j \in 1 .. Len(t) : s[n + j] = t[j] BY <1>1
  <2>4. Len(s) = n + Len(t)
    <3>1. Len(t) = Len(s) - n /\ Len(s) \in Nat BY <1>1
    <3> QED BY <3>1
  <2> QED BY <2>2, <2>3, <2>4, <1>1, AheadShifts
<1>3. Opens(t)
  <2> SUFFICES ASSUME NEW i \in DOMAIN t, t[i].step = "open" PROVE i < Len(t) /\ t[i + 1].step = "approve" BY DEF Opens
  <2>1. n + i \in DOMAIN s /\ s[n + i].step = "open" BY <1>1, TodoShape
  <2>2. n + i < Len(s) /\ s[n + i + 1].step = "approve" BY <2>1 DEF Opens
  <2>3. i + 1 \in 1 .. Len(t) BY <2>2, <1>1, TodoShape
  <2> QED BY <2>2, <2>3, <1>1, TodoShape
<1>4. \A k : Unsettled(t, k) => Unsettled(s, k)
  <2> SUFFICES ASSUME NEW k, Unsettled(t, k) PROVE Unsettled(s, k) OBVIOUS
  <2>1. PICK i \in DOMAIN t : t[i].step = "send" /\ PressedBy(t[i].events, k) /\ \A j \in i + 1 .. Len(t) : ~Lifts(t, j, k)
    BY DEF Unsettled
  <2>2. n + i \in DOMAIN s /\ s[n + i] = t[i]
    <3>1. i \in 1 .. Len(t) BY <1>1, TodoShape
    <3>2. s[n + i] = t[i] BY <3>1, <1>1
    <3> QED BY <3>1, <3>2, <1>1, TodoShape
  <2>3. \A j \in n + i + 1 .. Len(s) : ~Lifts(s, j, k)
    <3> SUFFICES ASSUME NEW j \in n + i + 1 .. Len(s) PROVE ~Lifts(s, j, k) OBVIOUS
    <3>1. j - n \in i + 1 .. Len(t) /\ j - n \in 1 .. Len(t) /\ j = n + (j - n) BY <1>1, TodoShape
    <3>2. s[j] = t[j - n] BY <3>1, <1>1
    <3> QED BY <3>1, <3>2, <2>1 DEF Lifts
  <2> QED BY <2>1, <2>2, <2>3 DEF Unsettled
<1> QED BY <1>1, <1>2, <1>3, <1>4 DEF t

\* Regular steps followed by others that begin at the gate are regular.
LEMMA TodoJoins ==
  ASSUME NEW s \in Seq(StepRecord), NEW t \in Seq(StepRecord), NEW w \in Nat,
         Gated(s, w), Gated(t, w), Opens(s), Opens(t),
         DOMAIN t = {} \/ t[1].step = "gate" \/ Silent(s)
  PROVE  s \o t \in Seq(StepRecord) /\ Gated(s \o t, w) /\ Opens(s \o t)
<1> DEFINE u == s \o t
<1>1. u \in Seq(StepRecord) OBVIOUS
<1>2. /\ Len(s) \in Nat /\ Len(t) \in Nat /\ Len(u) = Len(s) + Len(t)
      /\ DOMAIN s = 1 .. Len(s) /\ DOMAIN t = 1 .. Len(t) /\ DOMAIN u = 1 .. Len(u)
  BY <1>1, TodoShape
<1>3. (\A i \in 1 .. Len(s) : u[i] = s[i]) /\ (\A i \in 1 .. Len(t) : u[Len(s) + i] = t[i])
  BY TodoShape, Joined
<1> HIDE DEF u
<1>4. Gated(u, w)
  <2> SUFFICES ASSUME NEW i \in DOMAIN u, u[i].step = "send" PROVE Ahead(u, i, w) BY DEF Gated
  <2>1. CASE i \in 1 .. Len(s)
    <3>1. s[i].step = "send" /\ ~Silent(s) /\ Ahead(s, i, w) BY <2>1, <1>2, <1>3 DEF Gated, Silent
    <3>2. \A n \in 1 .. Len(s) + 1 : Over(s, n) => Over(u, n)
      <4> SUFFICES ASSUME NEW n \in 1 .. Len(s) + 1, Over(s, n) PROVE Over(u, n) OBVIOUS
      <4>1. CASE n <= Len(s) BY <4>1, <1>2, <1>3 DEF Over
      <4>2. CASE n = Len(s) + 1
        <5>1. CASE Len(t) = 0 BY <4>2, <5>1, <1>2 DEF Over
        <5>2. CASE Len(t) # 0
          <6>1. 1 \in 1 .. Len(t) /\ t[1].step = "gate" BY <5>2, <1>2, <3>1
          <6> QED BY <6>1, <4>2, <1>3 DEF Over
        <5> QED BY <5>1, <5>2
      <4> QED BY <4>1, <4>2, <1>2
    <3>3. \A n \in 1 .. Len(s) + 1 : Finishing(s, n) => Finishing(u, n)
      <4> SUFFICES ASSUME NEW n \in 1 .. Len(s) + 1, Finishing(s, n), ~Over(s, n) PROVE Finishing(u, n)
        BY <3>2 DEF Finishing
      <4>1. n \in 1 .. Len(s) /\ s[n].step = "give" /\ Over(s, n + 1) BY <1>2 DEF Finishing, Over
      <4>2. n + 1 \in 1 .. Len(s) + 1 BY <4>1, <1>2
      <4> QED BY <4>1, <4>2, <3>2, <1>3 DEF Finishing
    <3>4. PICK e \in i .. Len(s) :
            /\ \A n \in i .. e : s[n].step = "send" /\ (e = i \/ Len(s[n].events) <= 1)
            /\ IF e = i THEN Len(s[i].events) <= w ELSE e - i + 1 <= w
            /\ Finishing(s, e + 1)
      BY <3>1 DEF Ahead
    <3>5. e \in i .. Len(u) /\ Finishing(u, e + 1) BY <3>3, <3>4, <1>2, <2>1
    <3>6. \A n \in i .. e : u[n] = s[n] BY <1>2, <1>3, <2>1
    <3>7. u[i] = s[i] BY <1>3, <2>1
    <3> QED BY <3>4, <3>5, <3>6, <3>7 DEF Ahead
  <2>2. CASE i \notin 1 .. Len(s)
    <3>1. i - Len(s) \in 1 .. Len(t) /\ i = Len(s) + (i - Len(s)) BY <2>2, <1>2
    <3>2. t[i - Len(s)].step = "send" BY <3>1, <1>3
    <3>3. Ahead(t, i - Len(s), w) BY <3>1, <3>2, <1>2 DEF Gated
    <3>4. Ahead(u, Len(s) + (i - Len(s)), w) BY <3>1, <3>3, <1>1, <1>2, <1>3, AheadShifts
    <3> QED BY <3>1, <3>4
  <2> QED BY <2>1, <2>2
<1>5. Opens(u)
  <2> SUFFICES ASSUME NEW i \in DOMAIN u, u[i].step = "open" PROVE i < Len(u) /\ u[i + 1].step = "approve" BY DEF Opens
  <2>1. CASE i \in 1 .. Len(s)
    <3>1. s[i].step = "open" BY <2>1, <1>3
    <3>2. i < Len(s) /\ s[i + 1].step = "approve" BY <3>1, <2>1, <1>2 DEF Opens
    <3>3. i + 1 \in 1 .. Len(s) BY <3>2, <2>1, <1>2
    <3> QED BY <3>2, <3>3, <1>2, <1>3
  <2>2. CASE i \notin 1 .. Len(s)
    <3>1. i - Len(s) \in 1 .. Len(t) /\ i = Len(s) + (i - Len(s)) BY <2>2, <1>2
    <3>2. t[i - Len(s)].step = "open" BY <3>1, <1>3
    <3>3. i - Len(s) < Len(t) /\ t[i - Len(s) + 1].step = "approve" BY <3>1, <3>2, <1>2 DEF Opens
    <3>4. i - Len(s) + 1 \in 1 .. Len(t) /\ Len(s) + (i - Len(s) + 1) = i + 1 BY <3>1, <3>3, <1>2
    <3>5. u[i + 1] = t[i - Len(s) + 1] BY <3>4, <1>3
    <3> QED BY <3>3, <3>5, <1>2
  <2> QED BY <2>1, <2>2
<1> QED BY <1>1, <1>4, <1>5 DEF u

\* A key left down by the whole is left down by the second part, or by the
\* first one and the second does not let it go.
LEMMA UnsettledJoins ==
  ASSUME NEW s \in Seq(StepRecord), NEW t \in Seq(StepRecord), NEW k, Unsettled(s \o t, k)
  PROVE  Unsettled(t, k) \/ (Unsettled(s, k) /\ \A i \in DOMAIN t : ~Lifts(t, i, k))
<1> DEFINE u == s \o t
<1>1. /\ Len(s) \in Nat /\ Len(t) \in Nat /\ Len(u) = Len(s) + Len(t)
      /\ DOMAIN s = 1 .. Len(s) /\ DOMAIN t = 1 .. Len(t) /\ DOMAIN u = 1 .. Len(u)
  BY TodoShape
<1>2. (\A i \in 1 .. Len(s) : u[i] = s[i]) /\ (\A i \in 1 .. Len(t) : u[Len(s) + i] = t[i])
  BY TodoShape, Joined
<1>3. Unsettled(u, k) OBVIOUS
<1> HIDE DEF u
<1>4. PICK i \in DOMAIN u : u[i].step = "send" /\ PressedBy(u[i].events, k) /\ \A j \in i + 1 .. Len(u) : ~Lifts(u, j, k)
  BY <1>3 DEF Unsettled
<1>5. CASE i \in 1 .. Len(s)
  <2>1. s[i].step = "send" /\ PressedBy(s[i].events, k) BY <1>5, <1>4, <1>2
  <2>2. \A j \in i + 1 .. Len(s) : ~Lifts(s, j, k)
    <3> SUFFICES ASSUME NEW j \in i + 1 .. Len(s) PROVE ~Lifts(s, j, k) OBVIOUS
    <3>1. j \in i + 1 .. Len(u) /\ u[j] = s[j] BY <1>5, <1>1, <1>2
    <3> QED BY <3>1, <1>4 DEF Lifts
  <2>3. \A j \in DOMAIN t : ~Lifts(t, j, k)
    <3> SUFFICES ASSUME NEW j \in DOMAIN t PROVE ~Lifts(t, j, k) OBVIOUS
    <3>1. Len(s) + j \in i + 1 .. Len(u) /\ u[Len(s) + j] = t[j] BY <1>5, <1>1, <1>2
    <3> QED BY <3>1, <1>4 DEF Lifts
  <2> QED BY <2>1, <2>2, <2>3, <1>1, <1>5 DEF Unsettled
<1>6. CASE i \notin 1 .. Len(s)
  <2> DEFINE n == i - Len(s)
  <2>1. n \in 1 .. Len(t) /\ u[i] = t[n]
    <3>1. n \in 1 .. Len(t) /\ i = Len(s) + n BY <1>6, <1>1
    <3> QED BY <3>1, <1>2
  <2>2. \A j \in n + 1 .. Len(t) : ~Lifts(t, j, k)
    <3> SUFFICES ASSUME NEW j \in n + 1 .. Len(t) PROVE ~Lifts(t, j, k) OBVIOUS
    <3>1. Len(s) + j \in i + 1 .. Len(u) /\ j \in 1 .. Len(t) BY <1>1, <2>1
    <3>2. u[Len(s) + j] = t[j] BY <3>1, <1>2
    <3> QED BY <3>1, <3>2, <1>4 DEF Lifts
  <2> QED BY <2>1, <2>2, <1>1, <1>4 DEF Unsettled
<1> QED BY <1>5, <1>6

-----------------------------------------------------------------------------
(* One backend call.                                                       *)
\* The steps that are not events.
LEMMA StepsAreRecords ==
  /\ \A name \in StepName : Step(name) \in StepRecord
  /\ \A es \in Seq(Event) : Sends(es) \in StepRecord
  /\ \A name : Step(name).step = name
  /\ \A es : Sends(es).step = "send" /\ Sends(es).events = es
<1>1. \A name \in StepName : Step(name) \in StepRecord
  <2>1. <<>> \in Seq(Event) OBVIOUS
  <2> QED BY <2>1 DEF Step, StepRecord
<1>2. \A es \in Seq(Event) : Sends(es) \in StepRecord
  <2>1. "send" \in StepName BY DEF StepName
  <2> QED BY <2>1 DEF Sends, StepRecord
<1> QED BY <1>1, <1>2 DEF Step, Sends

NotOffered(op) == platform = "portal" /\ op \notin {"mouse down", "mouse up", "scroll", "type"} \cup KeyOp

\* Steps around a single one that sends.
LEMMA SentTogether ==
  ASSUME NEW es \in Seq(Event), NEW p \in Seq(StepRecord),
         p = <<Sends(es)>> \/ p = <<Step("gate"), Sends(es)>>
  PROVE  /\ Gated(p, Len(es)) /\ Opens(p)
         /\ \A k : Unsettled(p, k) => PressedBy(es, k)
         /\ \A k : LiftedBy(es, k) => \E i \in DOMAIN p : Lifts(p, i, k)
<1> USE StepsAreRecords
<1>1. Len(es) \in Nat OBVIOUS
<1>2. PICK l \in {1, 2} : Len(p) = l /\ DOMAIN p = 1 .. l /\ p[l] = Sends(es) /\ (l = 2 => p[1] = Step("gate"))
  <2>1. CASE p = <<Sends(es)>>
    <3>1. Len(p) = 1 /\ DOMAIN p = 1 .. 1 /\ p[1] = Sends(es) BY <2>1
    <3> QED BY <3>1
  <2>2. CASE p = <<Step("gate"), Sends(es)>>
    <3>1. Len(p) = 2 /\ DOMAIN p = 1 .. 2 /\ p[1] = Step("gate") /\ p[2] = Sends(es) BY <2>2
    <3> QED BY <3>1
  <2> QED BY <2>1, <2>2
<1>3. \A i \in DOMAIN p : i # l => p[i].step = "gate" BY <1>2
<1>4. p[l].step = "send" /\ p[l].events = es BY <1>2
<1>5. Gated(p, Len(es))
  <2>1. Finishing(p, l + 1) BY <1>2 DEF Finishing, Over
  <2>2. \A n \in l .. l : p[n].step = "send" BY <1>4
  <2>3. Ahead(p, l, Len(es)) BY <2>1, <2>2, <1>1, <1>2, <1>4 DEF Ahead
  <2> QED BY <2>3, <1>3 DEF Gated
<1>6. Opens(p) BY <1>3, <1>4 DEF Opens
<1>7. \A k : Unsettled(p, k) => PressedBy(es, k) BY <1>3, <1>4 DEF Unsettled
<1>8. \A k : LiftedBy(es, k) => \E i \in DOMAIN p : Lifts(p, i, k) BY <1>2, <1>4 DEF Lifts
<1> QED BY <1>5, <1>6, <1>7, <1>8

\* Events that are sent one by one, after some steps and before others.
LEMMA SentOneByOne ==
  ASSUME NEW es \in Seq(Event), NEW p \in Seq(StepRecord), NEW d \in Nat,
         Len(p) >= d + Len(es), \A i \in 1 .. Len(es) : p[d + i] = Sends(<<es[i]>>),
         \A i \in DOMAIN p : i <= d \/ i > d + Len(es) => p[i].step # "send",
         Finishing(p, d + Len(es) + 1)
  PROVE  /\ Gated(p, Len(es))
         /\ \A k : Unsettled(p, k) => PressedBy(es, k)
         /\ \A k : LiftedBy(es, k) => \E i \in DOMAIN p : Lifts(p, i, k)
<1> USE StepsAreRecords
<1>1. Len(es) \in Nat /\ DOMAIN es = 1 .. Len(es) /\ Len(p) \in Nat /\ DOMAIN p = 1 .. Len(p) OBVIOUS
<1>2. \A i \in 1 .. Len(es) : d + i \in DOMAIN p /\ p[d + i].step = "send" /\ p[d + i].events = <<es[i]>>
  <2> SUFFICES ASSUME NEW i \in 1 .. Len(es)
               PROVE  d + i \in DOMAIN p /\ p[d + i].step = "send" /\ p[d + i].events = <<es[i]>>
    OBVIOUS
  <2>1. d + i \in DOMAIN p BY <1>1
  <2>2. p[d + i] = Sends(<<es[i]>>) OBVIOUS
  <2> QED BY <2>1, <2>2
<1>3. \A i \in DOMAIN p : p[i].step = "send" => i - d \in 1 .. Len(es) /\ i = d + (i - d) BY <1>1
<1>4. Gated(p, Len(es))
  <2> SUFFICES ASSUME NEW i \in DOMAIN p, p[i].step = "send" PROVE Ahead(p, i, Len(es)) BY DEF Gated
  <2> DEFINE e == d + Len(es)
  <2>1. i - d \in 1 .. Len(es) /\ e \in i .. Len(p) BY <1>1, <1>3
  <2>2. \A n \in i .. e : p[n].step = "send" /\ Len(p[n].events) <= 1
    <3> SUFFICES ASSUME NEW n \in i .. e PROVE p[n].step = "send" /\ Len(p[n].events) <= 1 OBVIOUS
    <3>1. n - d \in 1 .. Len(es) /\ n = d + (n - d) BY <1>1, <2>1
    <3>2. p[n].step = "send" /\ p[n].events = <<es[n - d]>> BY <3>1, <1>2
    <3> QED BY <3>2
  <2>3. IF e = i THEN Len(p[i].events) <= Len(es) ELSE e - i + 1 <= Len(es)
    <3>1. CASE e = i
      <4>1. Len(p[i].events) = 1
        <5>1. p[i].events = <<es[i - d]>> BY <2>1, <1>2, <1>3
        <5> QED BY <5>1
      <4> QED BY <3>1, <4>1, <1>1, <2>1
    <3>2. CASE e # i BY <3>2, <2>1, <1>1
    <3> QED BY <3>1, <3>2
  <2> QED BY <2>1, <2>2, <2>3 DEF Ahead
<1>5. ASSUME NEW k, Unsettled(p, k) PROVE PressedBy(es, k)
  <2>1. PICK i \in DOMAIN p : p[i].step = "send" /\ PressedBy(p[i].events, k) /\ \A j \in i + 1 .. Len(p) : ~Lifts(p, j, k)
    BY <1>5 DEF Unsettled
  <2>2. i - d \in DOMAIN es /\ p[i].events = <<es[i - d]>> BY <2>1, <1>1, <1>2, <1>3
  <2>3. es[i - d] = Down(k) BY <2>1, <2>2 DEF PressedBy
  <2>4. \A j \in (i - d) + 1 .. Len(es) : es[j] # Up(k)
    <3> SUFFICES ASSUME NEW j \in (i - d) + 1 .. Len(es), es[j] = Up(k) PROVE FALSE OBVIOUS
    <3>1. j \in 1 .. Len(es) /\ d + j \in i + 1 .. Len(p) BY <2>2, <1>1
    <3>2. p[d + j].step = "send" /\ p[d + j].events = <<Up(k)>> BY <3>1, <1>2
    <3>3. LiftedBy(p[d + j].events, k) BY <3>2 DEF LiftedBy
    <3> QED BY <3>1, <3>2, <3>3, <2>1 DEF Lifts
  <2> QED BY <2>2, <2>3, <2>4 DEF PressedBy
<1>6. ASSUME NEW k, LiftedBy(es, k) PROVE \E i \in DOMAIN p : Lifts(p, i, k)
  <2>1. PICK j \in DOMAIN es : es[j] = Up(k) BY <1>6 DEF LiftedBy
  <2>2. d + j \in DOMAIN p /\ p[d + j].step = "send" /\ p[d + j].events = <<Up(k)>> BY <2>1, <1>1, <1>2
  <2>3. LiftedBy(p[d + j].events, k) BY <2>2 DEF LiftedBy
  <2> QED BY <2>2, <2>3 DEF Lifts
<1> QED BY <1>4, <1>5, <1>6

\* A backend call looks at the gate first, sends its events after that, and
\* then the gate comes again or nothing.
LEMMA BackendCallIsRegular ==
  ASSUME NEW op \in Operations, NEW es \in Seq(Event), platform \in Platform
  PROVE  LET p == BackendCall(op, es)
         IN  /\ p \in Seq(StepRecord) /\ Gated(p, Len(es)) /\ Opens(p)
             /\ p[1].step = "gate" \/ op = "launch" \/ NotOffered(op)
             /\ NotOffered(op) => Silent(p)
             /\ \A k : Unsettled(p, k) => PressedBy(es, k)
             /\ ~NotOffered(op) => \A k : LiftedBy(es, k) => \E i \in DOMAIN p : Lifts(p, i, k)
<1> USE StepsAreRecords
<1> DEFINE p == BackendCall(op, es)
           ones == [k \in DOMAIN es |-> Sends(<<es[k]>>)]
<1>1. Len(es) \in Nat /\ DOMAIN es = 1 .. Len(es) OBVIOUS
<1>2. ones \in Seq(StepRecord) /\ Len(ones) = Len(es) /\ \A i \in 1 .. Len(es) : ones[i] = Sends(<<es[i]>>)
  <2>1. \A i \in 1 .. Len(es) : Sends(<<es[i]>>) \in StepRecord
    <3> SUFFICES ASSUME NEW i \in 1 .. Len(es) PROVE Sends(<<es[i]>>) \in StepRecord OBVIOUS
    <3>1. <<es[i]>> \in Seq(Event) BY <1>1
    <3> QED BY <3>1
  <2>2. ones = [i \in 1 .. Len(es) |-> Sends(<<es[i]>>)] BY <1>1
  <2>3. ones \in [1 .. Len(es) -> StepRecord] BY <2>1, <2>2
  <2> HIDE DEF ones
  <2>4. ones \in Seq(StepRecord) BY <1>1, <2>3
  <2>5. Len(ones) = Len(es) BY <1>1, <2>3, <2>4
  <2> QED BY <2>2, <2>4, <2>5
<1>3. Step("gate") \in StepRecord /\ Step("open") \in StepRecord /\ Step("approve") \in StepRecord
      /\ Step("take") \in StepRecord /\ Step("give") \in StepRecord /\ Step("refuse") \in StepRecord
      /\ Sends(es) \in StepRecord
  BY DEF StepName
<1>4. Step("gate").step = "gate" /\ Step("refuse").step = "refuse" /\ Step("open").step = "open"
      /\ Step("approve").step = "approve" /\ Step("take").step = "take" /\ Step("give").step = "give"
  OBVIOUS
<1>5. CASE p = <<Sends(es)>> /\ op = "launch" /\ platform = "x11"
  <2>1. p \in Seq(StepRecord) BY <1>5, <1>3
  <2> QED BY <2>1, <1>5, SentTogether DEF NotOffered
<1>6. CASE p = <<Step("gate"), Sends(es)>> /\ platform # "portal"
  <2>1. p \in Seq(StepRecord) /\ p[1] = Step("gate") BY <1>6, <1>3
  <2>2. p[1].step = "gate" BY <2>1
  <2> HIDE DEF p
  <2> QED BY <2>1, <2>2, <1>6, SentTogether DEF NotOffered, p
<1>7. CASE p = <<Step("refuse")>> /\ NotOffered(op)
  <2>1. p \in Seq(StepRecord) /\ DOMAIN p = {1} /\ p[1] = Step("refuse") BY <1>7, <1>3
  <2>2. p[1].step = "refuse" BY <2>1
  <2> HIDE DEF p
  <2>3. Silent(p) /\ Gated(p, Len(es)) /\ Opens(p) BY <2>1, <2>2 DEF Silent, Gated, Opens
  <2>4. \A k : ~Unsettled(p, k) BY <2>1, <2>2 DEF Unsettled
  <2> QED BY <2>1, <2>3, <2>4, <1>7 DEF p
<1>8. CASE p = <<Step("gate")>> \o ones /\ platform = "macos"
  <2> DEFINE g == <<Step("gate")>>
  <2>1. g \in Seq(StepRecord) /\ Len(g) = 1 /\ g[1] = Step("gate") BY <1>3
  <2> HIDE DEF g, ones, p
  <2>2. p \in Seq(StepRecord) /\ Len(p) = 1 + Len(es) /\ p[1] = Step("gate")
    BY <1>1, <1>2, <1>8, <2>1 DEF g
  <2>3. \A i \in 1 .. Len(es) : p[1 + i] = Sends(<<es[i]>>) BY <1>1, <1>2, <1>8, <2>1 DEF g
  <2>4. \A i \in DOMAIN p : i <= 1 \/ i > 1 + Len(es) => p[i].step = "gate" BY <2>2, <1>4, <1>1
  <2>5. Finishing(p, 1 + Len(es) + 1) BY <2>2, <1>1 DEF Finishing, Over
  <2>6. Opens(p)
    <3> SUFFICES ASSUME NEW i \in DOMAIN p PROVE p[i].step # "open" BY DEF Opens
    <3>1. CASE i <= 1 BY <3>1, <2>4
    <3>2. CASE i > 1
      <4>1. i - 1 \in 1 .. Len(es) /\ i = 1 + (i - 1) BY <3>2, <2>2, <1>1
      <4>2. p[i] = Sends(<<es[i - 1]>>) BY <4>1, <2>3
      <4> QED BY <4>2
    <3> QED BY <3>1, <3>2, <2>2
  <2>7. p[1].step = "gate" /\ ~NotOffered(op) BY <2>2, <1>4, <1>8 DEF NotOffered
  <2>8. /\ Gated(p, Len(es)) /\ (\A k : Unsettled(p, k) => PressedBy(es, k))
        /\ \A k : LiftedBy(es, k) => \E i \in DOMAIN p : Lifts(p, i, k)
    <3>1. \A i \in DOMAIN p : i <= 1 \/ i > 1 + Len(es) => p[i].step # "send" BY <2>4
    <3>2. Len(p) >= 1 + Len(es) BY <2>2, <1>1
    <3> QED BY <2>2, <2>3, <2>5, <3>1, <3>2, SentOneByOne
  <2> QED BY <2>2, <2>6, <2>7, <2>8 DEF p
<1>9. CASE p = <<Step("gate"), Step("open"), Step("approve"), Step("take")>> \o ones \o <<Step("give")>> /\ ~NotOffered(op)
  <2> DEFINE f == <<Step("gate"), Step("open"), Step("approve"), Step("take")>>
             l == <<Step("give")>>
  <2>1. /\ f \in Seq(StepRecord) /\ Len(f) = 4 /\ l \in Seq(StepRecord) /\ Len(l) = 1 /\ l[1] = Step("give")
        /\ f[1] = Step("gate") /\ f[2] = Step("open") /\ f[3] = Step("approve") /\ f[4] = Step("take")
    BY <1>3
  <2>2. p = f \o ones \o l BY <1>9
  <2> HIDE DEF f, l, ones, p
  <2> DEFINE q == f \o ones
  <2>3. /\ q \in Seq(StepRecord) /\ Len(q) = 4 + Len(es)
        /\ (\A i \in 1 .. 4 : q[i] = f[i]) /\ \A i \in 1 .. Len(es) : q[4 + i] = Sends(<<es[i]>>)
    <3>1. Sequence(f) /\ Sequence(ones) BY <1>2, <2>1, TodoShape
    <3>2. q \in Seq(StepRecord) BY <1>2, <2>1
    <3>3. /\ DOMAIN q = 1 .. Len(f) + Len(ones)
          /\ (\A i \in 1 .. Len(f) : q[i] = f[i]) /\ \A i \in 1 .. Len(ones) : q[Len(f) + i] = ones[i]
      BY <3>1, Joined
    <3> HIDE DEF q
    <3>4. Len(q) = Len(f) + Len(ones) BY <3>2, <3>3, <1>1, <1>2, <2>1
    <3> QED BY <3>2, <3>3, <3>4, <1>2, <2>1
  <2> HIDE DEF q
  <2>4. /\ p \in Seq(StepRecord) /\ Len(p) = 5 + Len(es) /\ p[5 + Len(es)] = Step("give")
        /\ \A i \in 1 .. 4 + Len(es) : p[i] = q[i]
    <3>1. p = q \o l BY <2>2 DEF q
    <3>2. Sequence(q) /\ Sequence(l) BY <2>1, <2>3, TodoShape
    <3>3. p \in Seq(StepRecord) BY <3>1, <2>1, <2>3
    <3>4. /\ DOMAIN p = 1 .. Len(q) + Len(l)
          /\ (\A i \in 1 .. Len(q) : p[i] = q[i]) /\ \A i \in 1 .. Len(l) : p[Len(q) + i] = l[i]
      BY <3>1, <3>2, Joined
    <3>5. Len(p) = Len(q) + Len(l) BY <3>3, <3>4, <1>1, <2>1, <2>3
    <3> QED BY <3>3, <3>4, <3>5, <1>1, <2>1, <2>3
  <2>5. (\A i \in 1 .. 4 : p[i] = f[i]) /\ \A i \in 1 .. Len(es) : p[4 + i] = Sends(<<es[i]>>)
    <3>1. \A i \in 1 .. 4 : i \in 1 .. 4 + Len(es) BY <1>1
    <3>2. \A i \in 1 .. Len(es) : 4 + i \in 1 .. 4 + Len(es) BY <1>1
    <3> QED BY <3>1, <3>2, <2>3, <2>4
  <2>6. p[1].step = "gate" /\ p[2].step = "open" /\ p[3].step = "approve" /\ p[4].step = "take"
        /\ p[5 + Len(es)].step = "give"
    BY <2>1, <2>4, <2>5, <1>4
  <2>7. \A i \in DOMAIN p : i \in {1, 2, 3, 4, 5 + Len(es)} \/ (i - 4 \in 1 .. Len(es) /\ p[i].step = "send")
    <3> SUFFICES ASSUME NEW i \in DOMAIN p, i \notin {1, 2, 3, 4, 5 + Len(es)}
                 PROVE  i - 4 \in 1 .. Len(es) /\ p[i].step = "send"
      OBVIOUS
    <3>1. i - 4 \in 1 .. Len(es) /\ i = 4 + (i - 4) BY <2>4, <1>1
    <3>2. p[i] = Sends(<<es[i - 4]>>) BY <3>1, <2>5
    <3> QED BY <3>1, <3>2
  <2>8. \A i \in DOMAIN p : i <= 4 \/ i > 4 + Len(es) => p[i].step # "send"
    <3> SUFFICES ASSUME NEW i \in DOMAIN p, i <= 4 \/ i > 4 + Len(es) PROVE p[i].step # "send" OBVIOUS
    <3>1. i \in {1, 2, 3, 4, 5 + Len(es)} BY <2>4, <1>1
    <3> QED BY <3>1, <2>6
  <2>9. Opens(p)
    <3> SUFFICES ASSUME NEW i \in DOMAIN p, p[i].step = "open" PROVE i < Len(p) /\ p[i + 1].step = "approve" BY DEF Opens
    <3>1. i = 2 BY <2>6, <2>7
    <3> QED BY <3>1, <2>4, <2>6, <1>1
  <2>10. Finishing(p, 4 + Len(es) + 1) BY <2>4, <2>6, <1>1 DEF Finishing, Over
  <2>11. /\ Gated(p, Len(es)) /\ (\A k : Unsettled(p, k) => PressedBy(es, k))
         /\ \A k : LiftedBy(es, k) => \E i \in DOMAIN p : Lifts(p, i, k)
    <3>1. Len(p) >= 4 + Len(es) BY <2>4, <1>1
    <3> QED BY <2>4, <2>5, <2>8, <2>10, <3>1, SentOneByOne
  <2> QED BY <2>4, <2>6, <2>9, <2>11, <1>9 DEF p
<1> QED
  <2>1. CASE platform = "x11" BY <2>1, <1>5, <1>6 DEF BackendCall, X11Call
  <2>2. CASE platform = "windows" BY <2>2, <1>6 DEF BackendCall, WindowsCall
  <2>3. CASE platform = "macos" BY <2>3, <1>8 DEF BackendCall, MacCall
  <2>4. CASE platform = "portal" BY <2>4, <1>7, <1>9 DEF BackendCall, PortalCall, NotOffered
  <2> QED BY <2>1, <2>2, <2>3, <2>4 DEF Platform

-----------------------------------------------------------------------------
(* The calls of an operation: events that leave nothing down by themselves *)
(* or whose keys a later call lets go.                                     *)
Short == {s \in Seq(Event) : Len(s) <= 4}
Even == {s \in Short : \A k : ~PressedBy(s, k)}
Balanced(calls) ==
  \A m \in DOMAIN calls : \A k : PressedBy(calls[m], k) => \E n \in m + 1 .. Len(calls) : LiftedBy(calls[n], k)
Fit(op, calls) ==
  /\ calls \in Seq(Short) /\ Len(calls) \in 1 .. 4
  /\ op = "launch" => Len(calls) = 1
  /\ op \in KeepsDown \/ Balanced(calls)

LEMMA EventsAre ==
  /\ Other \in Event /\ \A q \in Keys : Down(q) \in Event /\ Up(q) \in Event
  /\ \A q, r : Down(q) # Up(r) /\ Down(q) # Other /\ Up(q) # Other /\ (Down(q) = Down(r) => q = r)
<1>1. Other \in Event /\ \A q \in Keys : Down(q) \in Event /\ Up(q) \in Event BY DEF Other, Event, Down, Up
<1>2. \A q, r : Down(q) # Up(r) /\ Down(q) # Other /\ Up(q) # Other
  <2> SUFFICES ASSUME NEW q, NEW r PROVE Down(q) # Up(r) /\ Down(q) # Other /\ Up(q) # Other OBVIOUS
  <2>1. Down(q).kind = "down" /\ Up(q).kind = "up" /\ Up(r).kind = "up" /\ Other.kind = "other" BY DEF Down, Up, Other
  <2> QED BY <2>1
<1>3. \A q, r : Down(q) = Down(r) => q = r
  <2> SUFFICES ASSUME NEW q, NEW r, Down(q) = Down(r) PROVE q = r OBVIOUS
  <2>1. Down(q).key = q /\ Down(r).key = r BY DEF Down
  <2> QED BY <2>1
<1> QED BY <1>1, <1>2, <1>3

LEMMA EventsOfOne ==
  ASSUME NEW q \in Keys
  PROVE  /\ <<Down(q)>> \in Short /\ (\A k : PressedBy(<<Down(q)>>, k) => k = q)
         /\ <<Up(q)>> \in Even /\ LiftedBy(<<Up(q)>>, q) /\ <<Other>> \in Even
<1> USE EventsAre
<1>1. <<Down(q)>> \in Short /\ <<Up(q)>> \in Short /\ <<Other>> \in Short BY DEF Short
<1>2. \A k : PressedBy(<<Down(q)>>, k) => k = q BY DEF PressedBy
<1>3. \A k : ~PressedBy(<<Up(q)>>, k) BY DEF PressedBy
<1>4. \A k : ~PressedBy(<<Other>>, k) BY DEF PressedBy
<1>5. LiftedBy(<<Up(q)>>, q) BY DEF LiftedBy
<1> QED BY <1>1, <1>2, <1>3, <1>4, <1>5 DEF Even

LEMMA EvenEvents ==
  ASSUME NEW q \in Keys
  PROVE  /\ <<Other, Other>> \in Even /\ <<Down(q), Up(q)>> \in Even /\ <<Other, Down(q), Up(q)>> \in Even
         /\ <<Other, Down(q), Other, Up(q)>> \in Even /\ <<Down(q), Up(q), Down(q), Up(q)>> \in Even
<1> USE EventsAre
<1>1. <<Other, Other>> \in Even
  <2>1. \A k : ~PressedBy(<<Other, Other>>, k) BY DEF PressedBy
  <2> QED BY <2>1 DEF Even, Short
<1>2. ASSUME NEW es \in Short, NEW n \in 1 .. Len(es), es[n] = Up(q),
             \A i \in DOMAIN es : i > n => es[i] = Other,
             \A i \in DOMAIN es : es[i] \in {Other, Down(q), Up(q)}
      PROVE  es \in Even
  <2>1. es \in Seq(Event) /\ DOMAIN es = 1 .. Len(es) /\ Len(es) \in Nat BY DEF Short
  <2> SUFFICES ASSUME NEW k, PressedBy(es, k) PROVE FALSE BY DEF Even
  <2>2. PICK i \in DOMAIN es : es[i] = Down(k) /\ \A j \in i + 1 .. Len(es) : es[j] # Up(k) BY DEF PressedBy
  <2>3. k = q BY <1>2, <2>2
  <2>4. i < n
    <3>1. i # n /\ ~(i > n) BY <1>2, <2>2
    <3> QED BY <3>1, <2>1
  <2>5. n \in i + 1 .. Len(es) BY <2>1, <2>4
  <2> QED BY <2>2, <2>3, <2>5, <1>2
<1>3. <<Down(q), Up(q)>> \in Even
  <2> DEFINE es == <<Down(q), Up(q)>>
  <2>1. es \in Seq(Event) /\ Len(es) = 2 /\ DOMAIN es = {1, 2} /\ es[1] = Down(q) /\ es[2] = Up(q) OBVIOUS
  <2> HIDE DEF es
  <2>2. es \in Short /\ 2 \in 1 .. Len(es)
    <3>1. es \in Seq(Event) /\ Len(es) <= 4 /\ 2 \in 1 .. Len(es) BY <2>1
    <3> QED BY <3>1, Zenon DEF Short
  <2>3. (\A i \in DOMAIN es : i > 2 => es[i] = Other) /\ \A i \in DOMAIN es : es[i] \in {Other, Down(q), Up(q)}
    BY <2>1
  <2>4. es[2] = Up(q) BY <2>1
  <2>5. es \in Even BY <2>2, <2>3, <2>4, <1>2
  <2> QED BY <2>5 DEF es
<1>4. <<Other, Down(q), Up(q)>> \in Even
  <2> DEFINE es == <<Other, Down(q), Up(q)>>
  <2>1. es \in Seq(Event) /\ Len(es) = 3 /\ DOMAIN es = {1, 2, 3} /\ es[1] = Other /\ es[2] = Down(q) /\ es[3] = Up(q) OBVIOUS
  <2> HIDE DEF es
  <2>2. es \in Short /\ 3 \in 1 .. Len(es)
    <3>1. es \in Seq(Event) /\ Len(es) <= 4 /\ 3 \in 1 .. Len(es) BY <2>1
    <3> QED BY <3>1, Zenon DEF Short
  <2>3. (\A i \in DOMAIN es : i > 3 => es[i] = Other) /\ \A i \in DOMAIN es : es[i] \in {Other, Down(q), Up(q)}
    BY <2>1
  <2>4. es[3] = Up(q) BY <2>1
  <2>5. es \in Even BY <2>2, <2>3, <2>4, <1>2
  <2> QED BY <2>5 DEF es
<1>5. <<Other, Down(q), Other, Up(q)>> \in Even
  <2> DEFINE es == <<Other, Down(q), Other, Up(q)>>
  <2>1. /\ es \in Seq(Event) /\ Len(es) = 4 /\ DOMAIN es = {1, 2, 3, 4}
        /\ es[1] = Other /\ es[2] = Down(q) /\ es[3] = Other /\ es[4] = Up(q)
    OBVIOUS
  <2> HIDE DEF es
  <2>2. es \in Short /\ 4 \in 1 .. Len(es)
    <3>1. es \in Seq(Event) /\ Len(es) <= 4 /\ 4 \in 1 .. Len(es) BY <2>1
    <3> QED BY <3>1, Zenon DEF Short
  <2>3. (\A i \in DOMAIN es : i > 4 => es[i] = Other) /\ \A i \in DOMAIN es : es[i] \in {Other, Down(q), Up(q)}
    BY <2>1
  <2>4. es[4] = Up(q) BY <2>1
  <2>5. es \in Even BY <2>2, <2>3, <2>4, <1>2
  <2> QED BY <2>5 DEF es
<1>6. <<Down(q), Up(q), Down(q), Up(q)>> \in Even
  <2> DEFINE es == <<Down(q), Up(q), Down(q), Up(q)>>
  <2>1. /\ es \in Seq(Event) /\ Len(es) = 4 /\ DOMAIN es = {1, 2, 3, 4}
        /\ es[1] = Down(q) /\ es[2] = Up(q) /\ es[3] = Down(q) /\ es[4] = Up(q)
    OBVIOUS
  <2> HIDE DEF es
  <2>2. es \in Short /\ 4 \in 1 .. Len(es)
    <3>1. es \in Seq(Event) /\ Len(es) <= 4 /\ 4 \in 1 .. Len(es) BY <2>1
    <3> QED BY <3>1, Zenon DEF Short
  <2>3. (\A i \in DOMAIN es : i > 4 => es[i] = Other) /\ \A i \in DOMAIN es : es[i] \in {Other, Down(q), Up(q)}
    BY <2>1
  <2>4. es[4] = Up(q) BY <2>1
  <2>5. es \in Even BY <2>2, <2>3, <2>4, <1>2
  <2> QED BY <2>5 DEF es
<1> QED BY <1>1, <1>3, <1>4, <1>5, <1>6

LEMMA EvenCallsFit ==
  ASSUME NEW op, NEW calls \in Seq(Even), Len(calls) \in 1 .. 4, op = "launch" => Len(calls) = 1
  PROVE  Fit(op, calls)
<1>1. calls \in Seq(Short) BY DEF Even
<1>2. \A m \in DOMAIN calls : \A k : ~PressedBy(calls[m], k) 
  <2>1. \A m \in DOMAIN calls : calls[m] \in Even OBVIOUS
  <2> QED BY <2>1 DEF Even
<1> QED BY <1>1, <1>2 DEF Fit, Balanced

LEMMA PressesFit ==
  ASSUME NEW op, op # "launch", NEW q \in Keys, NEW r \in Keys
  PROVE  /\ Fit(op, Press(q)) /\ Fit(op, Hotkey(r, q))
         /\ Fit(op, <<<<Other>>, <<Down(q)>>, <<Other>>, <<Up(q)>>>>)
         /\ (op \in KeepsDown => Fit(op, <<<<Down(q)>>>>))
<1> DEFINE dq == <<Down(q)>>
           uq == <<Up(q)>>
           dr == <<Down(r)>>
           ur == <<Up(r)>>
           o == <<Other>>
<1>1. /\ dq \in Short /\ (\A k : PressedBy(dq, k) => k = q) /\ uq \in Even /\ LiftedBy(uq, q) /\ o \in Even
      /\ dr \in Short /\ (\A k : PressedBy(dr, k) => k = r) /\ ur \in Even /\ LiftedBy(ur, r)
  BY EventsOfOne
<1>2. /\ Press(q) = <<dq, uq>> /\ Hotkey(r, q) = <<dr, dq, uq, ur>>
      /\ <<<<Other>>, <<Down(q)>>, <<Other>>, <<Up(q)>>>> = <<o, dq, o, uq>> /\ <<<<Down(q)>>>> = <<dq>>
  BY DEF Press, Hotkey
<1> HIDE DEF dq, uq, dr, ur, o
<1>3. /\ uq \in Short /\ ur \in Short /\ o \in Short
      /\ \A k : ~PressedBy(uq, k) /\ ~PressedBy(ur, k) /\ ~PressedBy(o, k)
  BY <1>1 DEF Even
<1> HIDE DEF Short
<1>4. Fit(op, <<dq, uq>>)
  <2> DEFINE c == <<dq, uq>>
  <2>1. c \in Seq(Short) /\ Len(c) = 2 /\ DOMAIN c = {1, 2} /\ c[1] = dq /\ c[2] = uq BY <1>1, <1>3
  <2> HIDE DEF c
  <2>2. Balanced(c)
    <3> SUFFICES ASSUME NEW m \in {1, 2}, NEW k, PressedBy(c[m], k) PROVE \E n \in m + 1 .. 2 : LiftedBy(c[n], k)
      BY <2>1 DEF Balanced
    <3>1. m = 1 /\ k = q BY <2>1, <1>1, <1>3
    <3>2. 2 \in m + 1 .. 2 /\ LiftedBy(c[2], k) BY <3>1, <2>1, <1>1
    <3> QED BY <3>2
  <2>3. Fit(op, c) BY <2>1, <2>2 DEF Fit
  <2> QED BY <2>3 DEF c
<1>5. Fit(op, <<dr, dq, uq, ur>>)
  <2> DEFINE c == <<dr, dq, uq, ur>>
  <2>1. /\ c \in Seq(Short) /\ Len(c) = 4 /\ DOMAIN c = {1, 2, 3, 4}
        /\ c[1] = dr /\ c[2] = dq /\ c[3] = uq /\ c[4] = ur
    BY <1>1, <1>3
  <2> HIDE DEF c
  <2>2. Balanced(c)
    <3> SUFFICES ASSUME NEW m \in {1, 2, 3, 4}, NEW k, PressedBy(c[m], k) PROVE \E n \in m + 1 .. 4 : LiftedBy(c[n], k)
      BY <2>1 DEF Balanced
    <3>1. (m = 1 /\ k = r) \/ (m = 2 /\ k = q) BY <2>1, <1>1, <1>3
    <3>2. CASE m = 1 /\ k = r
      <4>1. 4 \in m + 1 .. 4 /\ LiftedBy(c[4], k) BY <3>2, <2>1, <1>1
      <4> QED BY <4>1
    <3>3. CASE m = 2 /\ k = q
      <4>1. 3 \in m + 1 .. 4 /\ LiftedBy(c[3], k) BY <3>3, <2>1, <1>1
      <4> QED BY <4>1
    <3> QED BY <3>1, <3>2, <3>3
  <2>3. Fit(op, c) BY <2>1, <2>2 DEF Fit
  <2> QED BY <2>3 DEF c
<1>6. Fit(op, <<o, dq, o, uq>>)
  <2> DEFINE c == <<o, dq, o, uq>>
  <2>1. /\ c \in Seq(Short) /\ Len(c) = 4 /\ DOMAIN c = {1, 2, 3, 4}
        /\ c[1] = o /\ c[2] = dq /\ c[3] = o /\ c[4] = uq
    BY <1>1, <1>3
  <2> HIDE DEF c
  <2>2. Balanced(c)
    <3> SUFFICES ASSUME NEW m \in {1, 2, 3, 4}, NEW k, PressedBy(c[m], k) PROVE \E n \in m + 1 .. 4 : LiftedBy(c[n], k)
      BY <2>1 DEF Balanced
    <3>1. m = 2 /\ k = q BY <2>1, <1>1, <1>3
    <3>2. 4 \in m + 1 .. 4 /\ LiftedBy(c[4], k) BY <3>1, <2>1, <1>1
    <3> QED BY <3>2
  <2>3. Fit(op, c) BY <2>1, <2>2 DEF Fit
  <2> QED BY <2>3 DEF c
<1>7. op \in KeepsDown => Fit(op, <<dq>>) BY <1>1 DEF Fit
<1> QED BY <1>2, <1>4, <1>5, <1>6, <1>7

LEMMA FewCallsFit ==
  ASSUME NEW op, NEW a \in Even, NEW b \in Even, NEW c \in Even, NEW d \in Even
  PROVE  /\ Fit(op, <<a>>)
         /\ op # "launch" => Fit(op, <<a, b>>) /\ Fit(op, <<a>> \o <<b>>) /\ Fit(op, <<a, b>> \o <<c, d>>)
<1>1. ASSUME NEW calls \in Seq(Even), Len(calls) = 1 PROVE Fit(op, calls) BY <1>1, EvenCallsFit
<1>2. ASSUME NEW calls \in Seq(Even), Len(calls) \in {2, 4}, op # "launch" PROVE Fit(op, calls) BY <1>2, EvenCallsFit
<1>3. <<a>> \in Seq(Even) /\ Len(<<a>>) = 1 /\ <<b>> \in Seq(Even) /\ Len(<<b>>) = 1 OBVIOUS
<1>4. <<a, b>> \in Seq(Even) /\ Len(<<a, b>>) = 2 /\ <<c, d>> \in Seq(Even) /\ Len(<<c, d>>) = 2 OBVIOUS
<1>5. \A s, t \in Seq(Even) : s \o t \in Seq(Even) /\ Len(s \o t) = Len(s) + Len(t) OBVIOUS
<1>6. <<a>> \o <<b>> \in Seq(Even) /\ Len(<<a>> \o <<b>>) = 2 BY <1>3, <1>5
<1>7. <<a, b>> \o <<c, d>> \in Seq(Even) /\ Len(<<a, b>> \o <<c, d>>) = 4 BY <1>4, <1>5
<1>8. Fit(op, <<a>>) BY <1>1, <1>3
<1>9. op # "launch" => Fit(op, <<a, b>>) BY <1>2, <1>4
<1>10. op # "launch" => Fit(op, <<a>> \o <<b>>) BY <1>2, <1>6
<1>11. op # "launch" => Fit(op, <<a, b>> \o <<c, d>>) BY <1>2, <1>7
<1> QED BY <1>8, <1>9, <1>10, <1>11

\* The calls of every operation on every platform.
LEMMA CallsAreFit ==
  ASSUME NEW op \in Operations, NEW calls \in BackendCalls(op), platform \in Platform
  PROVE  Fit(op, calls)
<1> DEFINE o == <<Other>>
           oo == <<Other, Other>>
           click == <<Down(Button), Up(Button)>>
           moved == <<Other, Down(Button), Up(Button)>>
           drag == <<Other, Down(Button), Other, Up(Button)>>
           typed == <<Down(Letter), Up(Letter), Down(Letter), Up(Letter)>>
           entered == <<Other, Down(Letter), Up(Letter)>>
           rise == <<Up(Button)>>
           free == <<Up(Modifier)>>
<1>1. Modifier \in Keys /\ Button \in Keys /\ Letter \in Keys BY DEF Keys
<1>2. o \in Even /\ oo \in Even BY <1>1, EventsOfOne, EvenEvents
<1>3. /\ click \in Even /\ moved \in Even /\ drag \in Even /\ typed \in Even /\ entered \in Even
      /\ rise \in Even /\ free \in Even
  BY <1>1, EventsOfOne, EvenEvents
<1>4. /\ WindowsClick = <<o, click>> /\ MacClick = <<moved>> /\ Typed(Letter) = <<typed>>
      /\ MacType = <<entered>> /\ WindowsType = <<o>> \o <<typed>>
      /\ WindowsWindow = <<o>> /\ WindowsLaunch = <<o>> /\ MacWindow = <<o>> /\ MacLaunch = <<o>>
  BY DEF WindowsClick, MacClick, Typed, MacType, WindowsType, WindowsWindow, WindowsLaunch, MacWindow, MacLaunch
<1>5. ASSUME calls = LinuxCalls(op) PROVE Fit(op, calls)
  <2>1. CASE op = "click"
    <3>1. calls = <<click>> BY <1>5, <2>1 DEF LinuxCalls
    <3> HIDE DEF click
    <3> QED BY <3>1, <2>1, <1>2, <1>3, FewCallsFit
  <2>2. CASE op = "double click"
    <3>1. calls = <<click, click>> BY <1>5, <2>2 DEF LinuxCalls
    <3> HIDE DEF click
    <3> QED BY <3>1, <2>2, <1>2, <1>3, FewCallsFit
  <2>3. CASE op = "mouse down"
    <3>1. calls = <<<<Down(Button)>>>> BY <1>5, <2>3 DEF LinuxCalls
    <3> QED BY <3>1, <2>3, <1>1, PressesFit DEF KeepsDown
  <2>4. CASE op = "mouse up"
    <3>1. calls = <<rise>> BY <1>5, <2>4 DEF LinuxCalls
    <3> HIDE DEF rise
    <3> QED BY <3>1, <2>4, <1>2, <1>3, FewCallsFit
  <2>5. CASE op = "drag"
    <3>1. calls = <<drag>> BY <1>5, <2>5 DEF LinuxCalls
    <3> HIDE DEF drag
    <3> QED BY <3>1, <2>5, <1>2, <1>3, FewCallsFit
  <2>6. CASE op = "key down"
    <3>1. calls = <<<<Down(Modifier)>>>> BY <1>5, <2>6 DEF LinuxCalls
    <3> QED BY <3>1, <2>6, <1>1, PressesFit DEF KeepsDown
  <2>7. CASE op = "key up"
    <3>1. calls = <<free>> BY <1>5, <2>7 DEF LinuxCalls
    <3> HIDE DEF free
    <3> QED BY <3>1, <2>7, <1>2, <1>3, FewCallsFit
  <2>8. CASE op = "press"
    <3>1. calls = Press(Letter) BY <1>5, <2>8 DEF LinuxCalls
    <3> QED BY <3>1, <2>8, <1>1, PressesFit
  <2>9. CASE op = "hotkey"
    <3>1. calls = Hotkey(Modifier, Letter) BY <1>5, <2>9 DEF LinuxCalls
    <3> QED BY <3>1, <2>9, <1>1, PressesFit
  <2>10. CASE op = "type"
    <3>1. calls = <<typed>> BY <1>5, <2>10, <1>4 DEF LinuxCalls
    <3> HIDE DEF typed
    <3> QED BY <3>1, <2>10, <1>2, <1>3, FewCallsFit
  <2>11. CASE op \notin {"click", "double click", "mouse down", "mouse up", "drag", "key down", "key up", "press", "hotkey", "type"}
    <3>1. calls = <<o>> BY <1>5, <2>11 DEF LinuxCalls
    <3> HIDE DEF o
    <3> QED BY <3>1, <1>2, <1>3, FewCallsFit
  <2> QED BY <2>1, <2>2, <2>3, <2>4, <2>5, <2>6, <2>7, <2>8, <2>9, <2>10, <2>11
<1>6. \A name \in PointerOp : name \in {"move", "double click", "mouse down", "mouse up", "drag", "scroll"} BY DEF PointerOp
<1>7. ASSUME calls = <<o>> \/ calls = <<moved>> \/ calls = <<entered>>
      PROVE  Fit(op, calls)
  <2> HIDE DEF o, moved, entered
  <2> QED BY <1>7, <1>2, <1>3, FewCallsFit
<1>8. ASSUME calls = <<o, click>> \/ calls = <<o>> \o <<typed>>, op # "launch"
      PROVE  Fit(op, calls)
  <2> HIDE DEF o, click, typed
  <2> QED BY <1>8, <1>2, <1>3, FewCallsFit
<1>9. ASSUME op \in PointerOp, calls = WindowsPointer(op) PROVE Fit(op, calls)
  <2>1. CASE op = "move"
    <3>1. calls = <<o>> BY <1>9, <2>1 DEF WindowsPointer
    <3> QED BY <3>1, <1>7
  <2>2. CASE op = "double click"
    <3>1. calls = <<o, click>> \o <<o, click>> BY <1>9, <1>4, <2>2 DEF WindowsPointer
    <3> HIDE DEF o, click
    <3> QED BY <3>1, <2>2, <1>2, <1>3, FewCallsFit
  <2>3. CASE op = "mouse down"
    <3>1. calls = <<<<Down(Button)>>>> BY <1>9, <2>3 DEF WindowsPointer
    <3> QED BY <3>1, <2>3, <1>1, PressesFit DEF KeepsDown
  <2>4. CASE op = "mouse up"
    <3>1. calls = <<rise>> BY <1>9, <2>4 DEF WindowsPointer
    <3> HIDE DEF rise
    <3> QED BY <3>1, <2>4, <1>2, <1>3, FewCallsFit
  <2>5. CASE op = "drag"
    <3>1. calls = <<<<Other>>, <<Down(Button)>>, <<Other>>, <<Up(Button)>>>> BY <1>9, <2>5 DEF WindowsPointer
    <3> QED BY <3>1, <2>5, <1>1, PressesFit
  <2>6. CASE op = "scroll"
    <3>1. calls = <<o, o>> BY <1>9, <2>6 DEF WindowsPointer
    <3> HIDE DEF o
    <3> QED BY <3>1, <2>6, <1>2, <1>3, FewCallsFit
  <2> QED BY <1>6, <1>9, <2>1, <2>2, <2>3, <2>4, <2>5, <2>6
<1>10. ASSUME op \in PointerOp, calls = MacPointer(op) PROVE Fit(op, calls)
  <2>1. CASE op = "move"
    <3>1. calls = <<o>> BY <1>10, <2>1 DEF MacPointer
    <3> QED BY <3>1, <1>7
  <2>2. CASE op = "double click"
    <3>1. calls = <<moved>> \o <<click>> BY <1>10, <1>4, <2>2 DEF MacPointer
    <3> HIDE DEF moved, click
    <3> QED BY <3>1, <2>2, <1>2, <1>3, FewCallsFit
  <2>3. CASE op = "mouse down"
    <3>1. calls = <<<<Down(Button)>>>> BY <1>10, <2>3 DEF MacPointer
    <3> QED BY <3>1, <2>3, <1>1, PressesFit DEF KeepsDown
  <2>4. CASE op = "mouse up"
    <3>1. calls = <<rise>> BY <1>10, <2>4 DEF MacPointer
    <3> HIDE DEF rise
    <3> QED BY <3>1, <2>4, <1>2, <1>3, FewCallsFit
  <2>5. CASE op = "drag"
    <3>1. calls = <<<<Other>>, <<Down(Button)>>, <<Other>>, <<Up(Button)>>>> BY <1>10, <2>5 DEF MacPointer
    <3> QED BY <3>1, <2>5, <1>1, PressesFit
  <2>6. CASE op = "scroll"
    <3>1. calls = <<oo>> BY <1>10, <2>6 DEF MacPointer
    <3> HIDE DEF oo
    <3> QED BY <3>1, <2>6, <1>2, <1>3, FewCallsFit
  <2> QED BY <1>6, <1>10, <2>1, <2>2, <2>3, <2>4, <2>5, <2>6
<1>11. CASE platform = "windows"
  <2>1. calls \in WindowsCalls(op) BY <1>11 DEF BackendCalls
  <2>2. CASE op \in ElementOp
    <3>1. calls = <<o>> \/ (op = "invoke" /\ calls = <<o, click>>)
      BY <2>1, <2>2, <1>4 DEF WindowsCalls, WindowsElement, ElementOp, PointerOp, KeyOp
    <3> QED BY <3>1, <1>7, <1>8
  <2>3. CASE op \in PointerOp
    <3>1. calls = WindowsPointer(op) BY <2>1, <2>3 DEF WindowsCalls, ElementOp, PointerOp, KeyOp
    <3> QED BY <3>1, <2>3, <1>9
  <2>4. CASE op \in KeyOp
    <3>1. calls = LinuxCalls(op) BY <2>1, <2>4 DEF WindowsCalls, ElementOp, PointerOp, KeyOp
    <3> QED BY <3>1, <1>5
  <2>5. CASE op \in {"window", "launch"}
    <3>1. calls = <<o>> BY <2>1, <2>5, <1>4 DEF WindowsCalls, ElementOp, PointerOp, KeyOp
    <3> QED BY <3>1, <1>7
  <2>6. CASE op = "click"
    <3>1. calls = <<o, click>> BY <2>1, <2>6, <1>4 DEF WindowsCalls, ElementOp, PointerOp, KeyOp
    <3> QED BY <3>1, <2>6, <1>8
  <2>7. CASE op = "type"
    <3>1. calls = <<o>> \o <<typed>> BY <2>1, <2>7, <1>4 DEF WindowsCalls, ElementOp, PointerOp, KeyOp
    <3> QED BY <3>1, <2>7, <1>8
  <2> QED BY <2>2, <2>3, <2>4, <2>5, <2>6, <2>7 DEF Operations
<1>12. CASE platform = "macos"
  <2>1. calls \in MacCalls(op) BY <1>12 DEF BackendCalls
  <2>2. CASE op \in ElementOp
    <3>1. calls = <<o>> \/ calls = <<moved>> BY <2>1, <2>2, <1>4 DEF MacCalls, MacElement, ElementOp, PointerOp, KeyOp
    <3> QED BY <3>1, <1>7
  <2>3. CASE op \in PointerOp
    <3>1. calls = MacPointer(op) BY <2>1, <2>3 DEF MacCalls, ElementOp, PointerOp, KeyOp
    <3> QED BY <3>1, <2>3, <1>10
  <2>4. CASE op \in KeyOp
    <3>1. calls = LinuxCalls(op) BY <2>1, <2>4 DEF MacCalls, ElementOp, PointerOp, KeyOp
    <3> QED BY <3>1, <1>5
  <2>5. CASE op \in {"window", "launch"}
    <3>1. calls = <<o>> BY <2>1, <2>5, <1>4 DEF MacCalls, ElementOp, PointerOp, KeyOp
    <3> QED BY <3>1, <1>7
  <2>6. CASE op = "click"
    <3>1. calls = <<moved>> BY <2>1, <2>6, <1>4 DEF MacCalls, ElementOp, PointerOp, KeyOp
    <3> QED BY <3>1, <1>7
  <2>7. CASE op = "type"
    <3>1. calls = <<entered>> BY <2>1, <2>7, <1>4 DEF MacCalls, ElementOp, PointerOp, KeyOp
    <3> QED BY <3>1, <1>7
  <2> QED BY <2>2, <2>3, <2>4, <2>5, <2>6, <2>7 DEF Operations
<1>13. CASE platform \in {"x11", "portal"}
  <2>1. calls = LinuxCalls(op) BY <1>13 DEF BackendCalls
  <2> QED BY <2>1, <1>5
<1> QED BY <1>11, <1>12, <1>13 DEF Platform

LEMMA LongestIsLongest ==
  ASSUME NEW op \in Operations, platform \in Platform
  PROVE  /\ LongestCall(op) \in Nat
         /\ \A calls \in BackendCalls(op) : \A m \in DOMAIN calls : Len(calls[m]) <= LongestCall(op)
<1> DEFINE S == UNION {{Len(calls[m]) : m \in DOMAIN calls} : calls \in BackendCalls(op)}
<1>1. ASSUME NEW calls \in BackendCalls(op), NEW m \in DOMAIN calls
      PROVE  Len(calls[m]) \in {0, 1, 2, 3, 4}
  <2>1. calls \in Seq(Short) BY CallsAreFit DEF Fit
  <2>2. calls[m] \in Short BY <2>1
  <2>3. Len(calls[m]) \in Nat /\ Len(calls[m]) <= 4
    <3>1. calls[m] \in Seq(Event) /\ Len(calls[m]) <= 4 BY <2>2, Zenon DEF Short
    <3> QED BY <3>1
  <2>4. \A l \in Nat : l <= 4 => l \in {0, 1, 2, 3, 4} OBVIOUS
  <2> QED BY <2>3, <2>4
<1>2. S \subseteq {0, 1, 2, 3, 4}
  <2> SUFFICES ASSUME NEW l \in S PROVE l \in {0, 1, 2, 3, 4} OBVIOUS
  <2>1. PICK calls \in BackendCalls(op) : l \in {Len(calls[m]) : m \in DOMAIN calls} OBVIOUS
  <2>2. PICK m \in DOMAIN calls : l = Len(calls[m]) BY <2>1
  <2> QED BY <2>2, <1>1
<1>9. \A calls \in BackendCalls(op) : \A m \in DOMAIN calls : Len(calls[m]) \in S OBVIOUS
<1>3. S # {}
  <2>1. BackendCalls(op) # {}
    <3>1. WindowsCalls(op) # {}
      BY DEF WindowsCalls, WindowsElement, ElementOp, PointerOp, KeyOp, Operations
    <3>2. MacCalls(op) # {}
      BY DEF MacCalls, MacElement, ElementOp, PointerOp, KeyOp, Operations
    <3> QED BY <3>1, <3>2 DEF BackendCalls
  <2>2. PICK calls \in BackendCalls(op) : TRUE BY <2>1
  <2>3. calls \in Seq(Short) /\ Len(calls) \in 1 .. 4 BY <2>2, CallsAreFit DEF Fit
  <2>4. 1 \in DOMAIN calls BY <2>3
  <2> QED BY <2>2, <2>4, <1>9
<1> HIDE DEF S
<1>4. \E x \in S : \A y \in S : x >= y
  <2>1. CASE 4 \in S BY <2>1, <1>2
  <2>2. CASE 4 \notin S /\ 3 \in S BY <2>2, <1>2
  <2>3. CASE 4 \notin S /\ 3 \notin S /\ 2 \in S BY <2>3, <1>2
  <2>4. CASE 4 \notin S /\ 3 \notin S /\ 2 \notin S /\ 1 \in S BY <2>4, <1>2
  <2>5. CASE 4 \notin S /\ 3 \notin S /\ 2 \notin S /\ 1 \notin S
    <3>1. S = {0} BY <2>5, <1>2, <1>3
    <3> QED BY <3>1
  <2> QED BY <2>1, <2>2, <2>3, <2>4, <2>5
<1>5. Max(S) \in S /\ \A y \in S : Max(S) >= y BY <1>4 DEF Max
<1>6. LongestCall(op) = Max(S) BY DEF LongestCall, S
<1>7. LongestCall(op) \in S BY <1>5, <1>6
<1>8. LongestCall(op) \in Nat
  <2>1. LongestCall(op) \in {0, 1, 2, 3, 4} BY <1>2, <1>7
  <2> QED BY <2>1
<1>10. ASSUME NEW calls \in BackendCalls(op), NEW m \in DOMAIN calls PROVE Len(calls[m]) <= LongestCall(op)
  <2>1. Len(calls[m]) \in S /\ Len(calls[m]) \in Nat
    <3>1. Len(calls[m]) \in {0, 1, 2, 3, 4} BY <1>1
    <3> QED BY <3>1, <1>9
  <2>2. LongestCall(op) >= Len(calls[m]) BY <2>1, <1>5, <1>6
  <2> QED BY <2>1, <2>2, <1>8
<1> QED BY <1>8, <1>10

LEMMA ChecksAreSilent ==
  ASSUME NEW op \in Operations
  PROVE  /\ Checks(op) \in Seq(StepRecord) /\ Len(Checks(op)) = 3 /\ Checks(op)[1].step = "stop"
         /\ Silent(Checks(op)) /\ Opens(Checks(op))
<1> USE StepsAreRecords
<1> DEFINE c == Checks(op)
<1>1. c \in {<<Step("stop"), Step("ticket"), Step("scope")>>, <<Step("stop"), Step("scope"), Step("ticket")>>,
             <<Step("stop"), Step("ticket"), Step("application")>>}
  BY DEF Checks, InvokeElementChecks, SetValueChecks, ElementChecks, ClickChecks, TypeChecks, PointerChecks, KeyChecks,
         WindowChecks, LaunchChecks, Operations, ElementOp, PointerOp, KeyOp
<1>2. Step("stop") \in StepRecord /\ Step("ticket") \in StepRecord /\ Step("scope") \in StepRecord
      /\ Step("application") \in StepRecord
  BY DEF StepName
<1>3. Step("stop").step = "stop" /\ Step("ticket").step = "ticket" /\ Step("scope").step = "scope"
      /\ Step("application").step = "application"
  OBVIOUS
<1> HIDE DEF c
<1>4. c \in Seq(StepRecord) /\ Len(c) = 3 /\ c[1] = Step("stop")
      /\ \A i \in DOMAIN c : c[i] \in {Step("stop"), Step("ticket"), Step("scope"), Step("application")}
  <2>1. CASE c = <<Step("stop"), Step("ticket"), Step("scope")>> BY <2>1, <1>2
  <2>2. CASE c = <<Step("stop"), Step("scope"), Step("ticket")>> BY <2>2, <1>2
  <2>3. CASE c = <<Step("stop"), Step("ticket"), Step("application")>> BY <2>3, <1>2
  <2> QED BY <1>1, <2>1, <2>2, <2>3
<1>5. \A i \in DOMAIN c : c[i].step # "send" /\ c[i].step # "open" BY <1>3, <1>4
<1> QED BY <1>3, <1>4, <1>5 DEF Silent, Opens, c

LEMMA SilentSteps ==
  ASSUME NEW s \in Seq(StepRecord), Silent(s)
  PROVE  (\A w : Gated(s, w)) /\ \A k : ~Unsettled(s, k)
BY DEF Silent, Gated, Unsettled

LEMMA SilentJoins ==
  ASSUME NEW s \in Seq(StepRecord), NEW t \in Seq(StepRecord), Silent(s), Silent(t)
  PROVE  Silent(s \o t)
<1> DEFINE u == s \o t
<1>1. Sequence(s) /\ Sequence(t) BY TodoShape
<1>2. /\ Len(s) \in Nat /\ Len(t) \in Nat /\ DOMAIN s = 1 .. Len(s) /\ DOMAIN t = 1 .. Len(t)
      /\ DOMAIN u = 1 .. Len(s) + Len(t)
      /\ (\A k \in 1 .. Len(s) : u[k] = s[k]) /\ \A k \in 1 .. Len(t) : u[Len(s) + k] = t[k]
  BY <1>1, Joined
<1> HIDE DEF u
<1>3. Silent(u)
  <2> SUFFICES ASSUME NEW i \in DOMAIN u PROVE u[i].step # "send" BY DEF Silent
  <2>1. CASE i <= Len(s) BY <2>1, <1>2 DEF Silent
  <2>2. CASE i > Len(s)
    <3>1. i - Len(s) \in 1 .. Len(t) /\ i = Len(s) + (i - Len(s)) BY <2>2, <1>2
    <3>2. u[i] = t[i - Len(s)] BY <3>1, <1>2
    <3> QED BY <3>1, <3>2, <1>2 DEF Silent
  <2> QED BY <2>1, <2>2, <1>2
<1> QED BY <1>3 DEF u

LEMMA WiderIsGated ==
  ASSUME NEW s \in Seq(StepRecord), NEW v \in Nat, NEW w \in Nat, v <= w
  PROVE  /\ \A i \in DOMAIN s : Ahead(s, i, v) => Ahead(s, i, w)
         /\ Gated(s, v) => Gated(s, w)
<1>1. ASSUME NEW i \in DOMAIN s, Ahead(s, i, v) PROVE Ahead(s, i, w)
  <2>1. PICK e \in i .. Len(s) :
          /\ \A n \in i .. e : s[n].step = "send" /\ (e = i \/ Len(s[n].events) <= 1)
          /\ IF e = i THEN Len(s[i].events) <= v ELSE e - i + 1 <= v
          /\ Finishing(s, e + 1)
    BY <1>1 DEF Ahead
  <2>2. IF e = i THEN Len(s[i].events) <= w ELSE e - i + 1 <= w BY <2>1, TodoShape
  <2> QED BY <2>1, <2>2 DEF Ahead
<1> QED BY <1>1 DEF Gated

\* One part of a plan.
LEMMA PartIsRegular ==
  ASSUME NEW op \in Operations, NEW calls \in BackendCalls(op), NEW n \in 1 .. 4, platform \in Platform
  PROVE  LET p == Part(op, calls, n)
         IN  /\ p \in Seq(StepRecord) /\ Gated(p, LongestCall(op)) /\ Opens(p)
             /\ DOMAIN p = {} \/ p[1].step = "gate" \/ op = "launch" \/ NotOffered(op)
             /\ op = "launch" /\ n > 1 => DOMAIN p = {}
             /\ NotOffered(op) => Silent(p)
             /\ \A k : Unsettled(p, k) => n \in DOMAIN calls /\ PressedBy(calls[n], k)
             /\ ~NotOffered(op) /\ n \in DOMAIN calls => \A k : LiftedBy(calls[n], k) => \E i \in DOMAIN p : Lifts(p, i, k)
<1> DEFINE p == Part(op, calls, n)
<1>1. calls \in Seq(Short) /\ Len(calls) \in 1 .. 4 /\ (op = "launch" => Len(calls) = 1) BY CallsAreFit DEF Fit
<1>2. CASE n \in DOMAIN calls
  <2>1. p = BackendCall(op, calls[n]) BY <1>2 DEF Part
  <2>2. calls[n] \in Seq(Event) /\ Len(calls[n]) \in Nat
    <3>1. calls[n] \in Short BY <1>1, <1>2
    <3> QED BY <3>1 DEF Short
  <2>3. LongestCall(op) \in Nat /\ Len(calls[n]) <= LongestCall(op) BY <1>2, LongestIsLongest
  <2> HIDE DEF p
  <2>4. /\ p \in Seq(StepRecord) /\ Gated(p, Len(calls[n])) /\ Opens(p)
        /\ p[1].step = "gate" \/ op = "launch" \/ NotOffered(op)
        /\ NotOffered(op) => Silent(p)
        /\ \A k : Unsettled(p, k) => PressedBy(calls[n], k)
        /\ ~NotOffered(op) => \A k : LiftedBy(calls[n], k) => \E i \in DOMAIN p : Lifts(p, i, k)
    BY <2>1, <2>2, BackendCallIsRegular
  <2>5. Gated(p, LongestCall(op)) BY <2>2, <2>3, <2>4, WiderIsGated
  <2>6. ~(op = "launch" /\ n > 1) BY <1>1, <1>2
  <2> QED BY <2>4, <2>5, <2>6, <1>2 DEF p
<1>3. CASE n \notin DOMAIN calls
  <2>1. p = <<>> BY <1>3 DEF Part
  <2>2. p \in Seq(StepRecord) /\ DOMAIN p = {} BY <2>1
  <2> HIDE DEF p
  <2> QED BY <2>2, <1>3 DEF p, Gated, Opens, Silent, Unsettled
<1> QED BY <1>2, <1>3

\* A plan begins with the stop, looks at the gate between its calls, and
\* lets go what it presses.
LEMMA PlanIsRegular ==
  ASSUME NEW op \in Operations, NEW plan \in Plans(op), platform \in Platform
  PROVE  /\ plan \in Seq(StepRecord) /\ Len(plan) > 0 /\ plan[1].step = "stop"
         /\ Gated(plan, LongestCall(op)) /\ Opens(plan)
         /\ op \in KeepsDown \/ \A k : ~Unsettled(plan, k)
<1>1. PICK calls \in BackendCalls(op) :
        plan = Checks(op) \o Part(op, calls, 1) \o Part(op, calls, 2) \o Part(op, calls, 3) \o Part(op, calls, 4)
  BY DEF Plans
<1> DEFINE w == LongestCall(op)
           p(n) == Part(op, calls, n)
           c == Checks(op)
           q1 == c \o p(1)
           q2 == q1 \o p(2)
           q3 == q2 \o p(3)
<1>2. plan = q3 \o p(4) BY <1>1
<1>3. w \in Nat BY LongestIsLongest
<1>4. \A n \in 1 .. 4 :
        /\ p(n) \in Seq(StepRecord) /\ Gated(p(n), w) /\ Opens(p(n))
        /\ DOMAIN p(n) = {} \/ p(n)[1].step = "gate" \/ op = "launch" \/ NotOffered(op)
        /\ op = "launch" /\ n > 1 => DOMAIN p(n) = {}
        /\ NotOffered(op) => Silent(p(n))
        /\ \A k : Unsettled(p(n), k) => n \in DOMAIN calls /\ PressedBy(calls[n], k)
        /\ ~NotOffered(op) /\ n \in DOMAIN calls => \A k : LiftedBy(calls[n], k) => \E i \in DOMAIN p(n) : Lifts(p(n), i, k)
  BY PartIsRegular
<1>5. /\ c \in Seq(StepRecord) /\ Len(c) = 3 /\ c[1].step = "stop" /\ Silent(c) /\ Opens(c)
      /\ Gated(c, w) /\ \A k : ~Unsettled(c, k)
  BY ChecksAreSilent, SilentSteps
<1> HIDE DEF w, p, c
<1>6. q1 \in Seq(StepRecord) /\ Gated(q1, w) /\ Opens(q1) /\ (NotOffered(op) => Silent(q1))
  BY <1>3, <1>4, <1>5, TodoJoins, SilentJoins
<1>7. q2 \in Seq(StepRecord) /\ Gated(q2, w) /\ Opens(q2) /\ (NotOffered(op) => Silent(q2))
  <2> HIDE DEF q1
  <2>1. DOMAIN p(2) = {} \/ p(2)[1].step = "gate" \/ Silent(q1) BY <1>4, <1>6
  <2> QED BY <2>1, <1>3, <1>4, <1>6, TodoJoins, SilentJoins
<1>8. q3 \in Seq(StepRecord) /\ Gated(q3, w) /\ Opens(q3) /\ (NotOffered(op) => Silent(q3))
  <2> HIDE DEF q2
  <2>1. DOMAIN p(3) = {} \/ p(3)[1].step = "gate" \/ Silent(q2) BY <1>4, <1>7
  <2> QED BY <2>1, <1>3, <1>4, <1>7, TodoJoins, SilentJoins
<1>9. plan \in Seq(StepRecord) /\ Gated(plan, w) /\ Opens(plan)
  <2> HIDE DEF q3
  <2>1. DOMAIN p(4) = {} \/ p(4)[1].step = "gate" \/ Silent(q3) BY <1>4, <1>8
  <2> QED BY <2>1, <1>2, <1>3, <1>4, <1>8, TodoJoins
<1>10. Len(plan) > 0 /\ plan[1].step = "stop"
  <2>1. \A s, t \in Seq(StepRecord) : Len(s) > 0 => Len(s \o t) > 0 /\ (s \o t)[1] = s[1]
    <3> SUFFICES ASSUME NEW s \in Seq(StepRecord), NEW t \in Seq(StepRecord), Len(s) > 0
                 PROVE  Len(s \o t) > 0 /\ (s \o t)[1] = s[1]
      OBVIOUS
    <3>1. 1 \in 1 .. Len(s) OBVIOUS
    <3>2. (s \o t)[1] = s[1] BY <3>1, TodoShape, Joined
    <3> QED BY <3>2
  <2>2. Len(q1) > 0 /\ q1[1] = c[1]
    <3>1. 1 \in 1 .. 4 OBVIOUS
    <3>2. p(1) \in Seq(StepRecord) BY <3>1, <1>4
    <3>3. c \in Seq(StepRecord) /\ Len(c) > 0 BY <1>5
    <3>4. Len(c \o p(1)) > 0 /\ (c \o p(1))[1] = c[1] BY <2>1, <3>2, <3>3
    <3> QED BY <3>4
  <2>3. Len(q2) > 0 /\ q2[1] = q1[1]
    <3> HIDE DEF q1
    <3>1. 2 \in 1 .. 4 OBVIOUS
    <3>2. p(2) \in Seq(StepRecord) BY <3>1, <1>4
    <3> QED BY <2>1, <2>2, <3>2, <1>6
  <2>4. Len(q3) > 0 /\ q3[1] = q2[1]
    <3> HIDE DEF q2
    <3>1. 3 \in 1 .. 4 OBVIOUS
    <3>2. p(3) \in Seq(StepRecord) BY <3>1, <1>4
    <3> QED BY <2>1, <2>3, <3>2, <1>7
  <2>5. Len(plan) > 0 /\ plan[1] = q3[1]
    <3> HIDE DEF q3
    <3>1. 4 \in 1 .. 4 OBVIOUS
    <3>2. p(4) \in Seq(StepRecord) BY <3>1, <1>4
    <3> QED BY <2>1, <2>4, <3>2, <1>2, <1>8
  <2> HIDE DEF q3, q2, q1
  <2> QED BY <2>2, <2>3, <2>4, <2>5, <1>5
<1>11. ASSUME op \notin KeepsDown, NEW k, Unsettled(plan, k) PROVE FALSE
  <2>1. calls \in Seq(Short) /\ Len(calls) \in 1 .. 4 /\ Balanced(calls) BY <1>11, CallsAreFit DEF Fit
  <2>2. ASSUME NEW n \in 1 .. 4, Unsettled(p(n), k),
               \A m \in n + 1 .. 4 : \A i \in DOMAIN p(m) : ~Lifts(p(m), i, k)
        PROVE  FALSE
    <3>1. ~NotOffered(op) /\ n \in DOMAIN calls /\ PressedBy(calls[n], k) BY <2>2, <1>4, SilentSteps
    <3>2. PICK m \in n + 1 .. Len(calls) : LiftedBy(calls[m], k) BY <2>1, <3>1 DEF Balanced
    <3>3. m \in DOMAIN calls /\ m \in 1 .. 4 /\ m \in n + 1 .. 4 BY <2>1, <3>2
    <3> QED BY <2>2, <3>1, <3>2, <3>3, <1>4
  <2> DEFINE lifts(m) == \E i \in DOMAIN p(m) : Lifts(p(m), i, k)
  <2>3. Unsettled(p(4), k) \/ (Unsettled(q3, k) /\ ~lifts(4))
    <3> HIDE DEF q3
    <3> QED BY <1>2, <1>4, <1>8, <1>11, UnsettledJoins
  <2>4. Unsettled(q3, k) => Unsettled(p(3), k) \/ (Unsettled(q2, k) /\ ~lifts(3))
    <3> HIDE DEF q2
    <3> QED BY <1>4, <1>7, UnsettledJoins
  <2>5. Unsettled(q2, k) => Unsettled(p(2), k) \/ (Unsettled(q1, k) /\ ~lifts(2))
    <3> HIDE DEF q1
    <3> QED BY <1>4, <1>6, UnsettledJoins
  <2>6. Unsettled(q1, k) => Unsettled(p(1), k) BY <1>4, <1>5, UnsettledJoins
  <2> HIDE DEF q1, q2, q3
  <2>7. ~Unsettled(p(4), k)
    <3>1. 4 \in 1 .. 4 /\ 4 + 1 .. 4 = {} OBVIOUS
    <3> QED BY <3>1, <2>2
  <2>8. ~(Unsettled(p(3), k) /\ ~lifts(4))
    <3>1. 3 \in 1 .. 4 /\ 3 + 1 .. 4 = {4} OBVIOUS
    <3> QED BY <3>1, <2>2
  <2>9. ~(Unsettled(p(2), k) /\ ~lifts(3) /\ ~lifts(4))
    <3>1. 2 \in 1 .. 4 /\ 2 + 1 .. 4 = {3, 4} OBVIOUS
    <3> QED BY <3>1, <2>2
  <2>10. ~(Unsettled(p(1), k) /\ ~lifts(2) /\ ~lifts(3) /\ ~lifts(4))
    <3>1. 1 \in 1 .. 4 /\ 1 + 1 .. 4 = {2, 3, 4} OBVIOUS
    <3> QED BY <3>1, <2>2
  <2> QED BY <2>3, <2>4, <2>5, <2>6, <2>7, <2>8, <2>9, <2>10
<1> QED BY <1>9, <1>10, <1>11 DEF w

-----------------------------------------------------------------------------
(* The calls under way.                                                    *)
CallRecord == [op : Operations \cup {"none"}, todo : Seq(StepRecord), warned : BOOLEAN, sent : BOOLEAN, late : Nat]
(* A call that came in under the stop has checked nothing yet; one that    *)
(* sent events late has no more ahead of it than what its backend call     *)
(* leaves.                                                                 *)
Todo(c, w) ==
  c.todo # <<>> =>
    /\ c.op \in Operations /\ Gated(c.todo, w) /\ Opens(c.todo)
    /\ c.op \in KeepsDown \/ \A k : ~Unsettled(c.todo, k)
Forewarned(c, stop) == c.warned => stop /\ (c.todo # <<>> => Head(c.todo).step = "stop")
Late(c, stop, gate, w) ==
  c.late > 0 =>
    /\ stop /\ ~gate /\ c.op \in Operations /\ c.late <= w
    /\ Finishing(c.todo, 1) \/ Ahead(c.todo, 1, w - c.late)
CallFits(c, stop, gate, w) == c \in CallRecord /\ Todo(c, w) /\ Forewarned(c, stop) /\ Late(c, stop, gate, w)
(* A call that has let a key down and will let it go.                      *)
Waits(c, k) == c.sent /\ \E i \in DOMAIN c.todo : Lifts(c.todo, i, k)

SceneInv ==
  /\ platform \in Platform /\ inputStop \in BOOLEAN /\ inputGate \in BOOLEAN
  /\ remote \in {"none", "open", "dead"} /\ remoteLock \in Actor \cup {Nobody, User}
  /\ held \subseteq Keys \X Operations /\ broken \in BOOLEAN
  /\ acts \in [calls : 0 .. MaxInputCalls, user : 0 .. MaxUserActs]
ActorsFit ==
  /\ acting \in [Actor -> CallRecord]
  /\ \A a \in Actor : \A op : op = acting[a].op => CallFits(acting[a], inputStop, inputGate, LongestCall(op))
HeldInv ==
  ~broken => \A h \in held : h[2] \in KeepsDown \/ \E a \in Actor : Waits(acting[a], h[1])
InputInv == SceneInv /\ ActorsFit /\ HeldInv

LEMMA IdleFits == \A stop, gate, w : CallFits(Idle, stop, gate, w)
<1>1. Idle \in CallRecord BY DEF Idle, CallRecord
<1>2. Idle.todo = <<>> /\ Idle.warned = FALSE /\ Idle.late = 0 BY DEF Idle
<1> QED BY <1>1, <1>2 DEF CallFits, Todo, Forewarned, Late

\* A call that is over may be forgotten.
LEMMA KeptFits ==
  ASSUME NEW c, NEW stop, NEW gate, CallFits(c, stop, gate, LongestCall(c.op))
  PROVE  /\ CallFits(Kept(c), stop, gate, LongestCall(Kept(c).op))
         /\ \A k : Waits(c, k) => Waits(Kept(c), k)
<1>1. c \in CallRecord BY DEF CallFits
<1>2. CASE c.todo = <<>> /\ c.late = 0
  <2>1. Kept(c) = Idle BY <1>2 DEF Kept
  <2>2. \A k : ~Waits(c, k)
    <3>1. DOMAIN c.todo = {} BY <1>2
    <3> QED BY <3>1 DEF Waits
  <2> QED BY <2>1, <2>2, IdleFits
<1>3. CASE ~(c.todo = <<>> /\ c.late = 0)
  <2>1. Kept(c) = c BY <1>3 DEF Kept
  <2> QED BY <2>1
<1> QED BY <1>2, <1>3

LEMMA InputInitially == InputInit => InputInv
<1> SUFFICES ASSUME InputInit PROVE InputInv OBVIOUS
<1> USE DEF InputInit
<1>1. SceneInv
  <2>1. acts \in [calls : 0 .. MaxInputCalls, user : 0 .. MaxUserActs] BY InputAssumption
  <2> QED BY <2>1 DEF SceneInv
<1>2. ActorsFit
  <2>1. \A a \in Actor : acting[a] = Idle OBVIOUS
  <2>2. Idle \in CallRecord BY IdleFits DEF CallFits
  <2> QED BY <2>1, <2>2, IdleFits DEF ActorsFit
<1>3. HeldInv BY DEF HeldInv
<1> QED BY <1>1, <1>2, <1>3 DEF InputInv

\* How long a call may be depends on the platform alone.
LEMMA LongestStays ==
  ASSUME platform' = platform
  PROVE  \A op : LongestCall(op)' = LongestCall(op)
BY DEF LongestCall, BackendCalls

\* One actor's call moves on and nothing else does.
LEMMA OneFits ==
  ASSUME InputInv, NEW a \in Actor, NEW c, UNCHANGED scene,
         CallFits(c, inputStop, inputGate, LongestCall(c.op)), acting' = [acting EXCEPT ![a] = c]
  PROVE  ActorsFit'
<1>1. c \in CallRecord /\ acting \in [Actor -> CallRecord] BY DEF CallFits, InputInv, ActorsFit
<1>2. acting' \in [Actor -> CallRecord] BY <1>1
<1>3. platform' = platform /\ inputStop' = inputStop /\ inputGate' = inputGate BY DEF scene
<1>4. ASSUME NEW b \in Actor, NEW op, op = acting'[b].op
      PROVE  CallFits(acting'[b], inputStop', inputGate', LongestCall(op)')
  <2>1. acting'[b] = IF b = a THEN c ELSE acting[b] BY <1>1
  <2>2. \A o : o = acting[b].op => CallFits(acting[b], inputStop, inputGate, LongestCall(o)) BY DEF InputInv, ActorsFit
  <2>3. \A o : o = c.op => CallFits(c, inputStop, inputGate, LongestCall(o)) OBVIOUS
  <2>4. CallFits(acting'[b], inputStop, inputGate, LongestCall(op)) BY <1>4, <2>1, <2>2, <2>3
  <2>5. LongestCall(op)' = LongestCall(op) BY <1>3, LongestStays
  <2> QED BY <2>4, <2>5, <1>3
<1> QED BY <1>2, <1>4 DEF ActorsFit

LEMMA OneHolds ==
  ASSUME InputInv, NEW a \in Actor, NEW c, acting' = [acting EXCEPT ![a] = c], held' = held,
         ~broken' => ~broken /\ \A k : Waits(acting[a], k) => Waits(c, k)
  PROVE  HeldInv'
<1>1. acting \in [Actor -> CallRecord] BY DEF InputInv, ActorsFit
<1> SUFFICES ASSUME ~broken', NEW h \in held, h[2] \notin KeepsDown
             PROVE  \E b \in Actor : Waits(acting'[b], h[1])
  BY DEF HeldInv
<1>2. PICK b \in Actor : Waits(acting[b], h[1]) BY DEF InputInv, HeldInv
<1>3. acting'[b] = IF b = a THEN c ELSE acting[b] BY <1>1
<1> QED BY <1>2, <1>3

\* A call gives up: what it held is not forgotten unless it sent nothing.
LEMMA GivingUp ==
  ASSUME InputInv, NEW a \in Actor, UNCHANGED <<scene, held>>, GiveUp(a)
  PROVE  ActorsFit' /\ HeldInv' /\ broken' \in BOOLEAN
<1> DEFINE c == [acting[a] EXCEPT !.todo = <<>>]
<1>1. acting[a] \in CallRecord /\ CallFits(acting[a], inputStop, inputGate, LongestCall(acting[a].op))
  BY DEF InputInv, ActorsFit
<1>2. c \in CallRecord /\ c.todo = <<>> /\ c.op = acting[a].op /\ c.warned = acting[a].warned /\ c.late = acting[a].late
  <2>1. <<>> \in Seq(StepRecord) OBVIOUS
  <2> HIDE DEF StepRecord
  <2> QED BY <2>1, <1>1 DEF CallRecord
<1>3. acting' = [acting EXCEPT ![a] = Kept(c)] /\ broken' = (broken \/ acting[a].sent) BY DEF GiveUp, Proceeds
<1> HIDE DEF c
<1>4. CallFits(c, inputStop, inputGate, LongestCall(c.op))
  <2>1. Late(c, inputStop, inputGate, LongestCall(c.op))
    <3>1. Finishing(c.todo, 1) BY <1>2 DEF Finishing, Over
    <3> QED BY <3>1, <1>1, <1>2 DEF CallFits, Late
  <2>2. Todo(c, LongestCall(c.op)) BY <1>2 DEF Todo
  <2>3. Forewarned(c, inputStop) BY <1>1, <1>2 DEF CallFits, Forewarned
  <2> QED BY <2>1, <2>2, <2>3, <1>2 DEF CallFits
<1>5. ActorsFit' BY <1>3, <1>4, KeptFits, OneFits
<1>6. HeldInv'
  <2>1. ~broken' => ~broken /\ \A k : ~Waits(acting[a], k) BY <1>3 DEF Waits
  <2> QED BY <2>1, <1>3, OneHolds
<1>7. broken' \in BOOLEAN BY <1>1, <1>3 DEF InputInv, SceneInv, CallRecord
<1> QED BY <1>5, <1>6, <1>7

\* A call leaves steps behind that send nothing.
LEMMA Skipping ==
  ASSUME InputInv, NEW a \in Actor, UNCHANGED <<scene, held, broken>>, NEW n \in {1, 2}, Skip(a, n),
         n <= Len(acting[a].todo), \A i \in 1 .. n : acting[a].todo[i].step # "send",
         ~acting[a].warned, acting[a].late > 0 => n = 1 /\ Over(acting[a].todo, 2)
  PROVE  ActorsFit' /\ HeldInv'
<1> DEFINE s == acting[a].todo
           t == SubSeq(s, n + 1, Len(s))
           c == [acting[a] EXCEPT !.todo = t]
           w == LongestCall(acting[a].op)
<1>1. acting[a] \in CallRecord /\ CallFits(acting[a], inputStop, inputGate, w)
  BY DEF InputInv, ActorsFit
<1>2. s \in Seq(StepRecord) BY <1>1 DEF CallRecord
<1>3. s # <<>> /\ acting[a].op \in Operations /\ Gated(s, w) /\ Opens(s)
      /\ (acting[a].op \in KeepsDown \/ \A k : ~Unsettled(s, k))
  <2>1. s # <<>> BY <1>2
  <2> QED BY <2>1, <1>1 DEF CallFits, Todo
<1>4. w \in Nat BY <1>3, LongestIsLongest DEF InputInv, SceneInv
<1>5. /\ t \in Seq(StepRecord) /\ Len(t) = Len(s) - n /\ (\A i \in 1 .. Len(t) : t[i] = s[n + i])
      /\ Gated(t, w) /\ Opens(t) /\ \A k : Unsettled(t, k) => Unsettled(s, k)
  BY <1>2, <1>3, <1>4, TodoShortens
<1>6. acting' = [acting EXCEPT ![a] = Kept(c)] BY DEF Skip, Proceeds
<1> HIDE DEF s, t, w
<1>7. /\ c \in CallRecord /\ c.todo = t /\ c.op = acting[a].op /\ c.warned = FALSE /\ c.late = acting[a].late
      /\ c.sent = acting[a].sent
  BY <1>1, <1>5 DEF CallRecord
<1> HIDE DEF c
<1>8. CallFits(c, inputStop, inputGate, w)
  <2>1. Todo(c, w) BY <1>3, <1>5, <1>7 DEF Todo
  <2>2. Forewarned(c, inputStop) BY <1>7 DEF Forewarned
  <2>3. Late(c, inputStop, inputGate, w)
    <3> SUFFICES ASSUME acting[a].late > 0 PROVE Late(c, inputStop, inputGate, w) BY <1>7 DEF Late
    <3>1. n = 1 /\ Over(s, 2) BY DEF s
    <3>2. Over(t, 1)
      <4>1. CASE Len(s) < 2 BY <4>1, <3>1, <1>2, <1>5 DEF Over
      <4>2. CASE Len(s) >= 2
        <5>1. s[2].step = "gate" BY <4>2, <3>1, <1>2 DEF Over
        <5>2. t[1] = s[2] BY <4>2, <3>1, <1>2, <1>5
        <5> QED BY <5>1, <5>2 DEF Over
      <4> QED BY <4>1, <4>2, <1>2
    <3> QED BY <3>2, <1>1, <1>7 DEF CallFits, Late, Finishing
  <2> QED BY <2>1, <2>2, <2>3, <1>7 DEF CallFits
<1>9. CallFits(c, inputStop, inputGate, LongestCall(c.op)) BY <1>7, <1>8 DEF w
<1>10. ActorsFit' BY <1>6, <1>9, KeptFits, OneFits
<1>11. \A k : Waits(acting[a], k) => Waits(c, k)
  <2> SUFFICES ASSUME NEW k, Waits(acting[a], k) PROVE Waits(c, k) OBVIOUS
  <2>1. PICK i \in DOMAIN s : Lifts(s, i, k) BY DEF Waits, s
  <2>2. i - n \in 1 .. Len(t)
    <3>1. i > n
      <4>1. s[i].step = "send" BY <2>1 DEF Lifts
      <4>2. i \notin 1 .. n BY <4>1 DEF s
      <4> QED BY <4>2, <2>1, <1>2
    <3> QED BY <3>1, <2>1, <1>2, <1>5
  <2>3. t[i - n] = s[i]
    <3>1. n + (i - n) = i BY <2>1, <1>2
    <3> QED BY <2>2, <3>1, <1>5
  <2>4. Lifts(t, i - n, k) BY <2>1, <2>3 DEF Lifts
  <2>5. i - n \in DOMAIN t BY <2>2, <1>5, TodoShape
  <2> QED BY <2>4, <2>5, <1>7 DEF Waits
<1>12. HeldInv'
  <2>1. \A k : Waits(acting[a], k) => Waits(Kept(c), k) BY <1>9, <1>11, KeptFits
  <2> QED BY <2>1, <1>6, OneHolds
<1> QED BY <1>10, <1>12

\* What a call that sends has ahead of it.
LEMMA SendingFits ==
  ASSUME InputInv, NEW a \in Actor, At(a, "send")
  PROVE  LET s == acting[a].todo
             w == LongestCall(acting[a].op)
         IN  /\ s \in Seq(StepRecord) /\ Len(s) > 0 /\ s[1].step = "send" /\ s[1].events \in Seq(Event)
             /\ Head(s) = s[1] /\ ~acting[a].warned /\ w \in Nat /\ acting[a].late \in Nat
             /\ acting[a].op \in Operations /\ Gated(s, w) /\ Opens(s)
             /\ acting[a].op \in KeepsDown \/ \A k : ~Unsettled(s, k)
             /\ acting[a].late <= w /\ Ahead(s, 1, w - acting[a].late)
             /\ acting[a].late > 0 => inputStop /\ ~inputGate
<1> DEFINE s == acting[a].todo
           w == LongestCall(acting[a].op)
<1>1. acting[a] \in CallRecord /\ CallFits(acting[a], inputStop, inputGate, w)
  BY DEF InputInv, ActorsFit
<1>2. s \in Seq(StepRecord) /\ acting[a].late \in Nat /\ acting[a].warned \in BOOLEAN BY <1>1 DEF CallRecord
<1>3. s # <<>> /\ Head(s).step = "send" BY DEF At
<1>4. Len(s) > 0 /\ Head(s) = s[1] /\ 1 \in DOMAIN s BY <1>2, <1>3
<1>5. s[1].step = "send" /\ s[1].events \in Seq(Event) BY <1>2, <1>3, <1>4, TodoShape
<1>6. acting[a].op \in Operations /\ Gated(s, w) /\ Opens(s)
      /\ (acting[a].op \in KeepsDown \/ \A k : ~Unsettled(s, k))
  BY <1>1, <1>3 DEF CallFits, Todo
<1>7. ~acting[a].warned BY <1>1, <1>3 DEF CallFits, Forewarned
<1>8. w \in Nat BY <1>6, LongestIsLongest DEF InputInv, SceneInv
<1>9. ~Finishing(s, 1) BY <1>2, <1>4, <1>5 DEF Finishing, Over
<1>10. Ahead(s, 1, w) BY <1>4, <1>5, <1>6 DEF Gated
<1>11. acting[a].late > 0 => inputStop /\ ~inputGate /\ acting[a].late <= w /\ Ahead(s, 1, w - acting[a].late)
  BY <1>1, <1>9 DEF CallFits, Late
<1>12. acting[a].late <= w /\ Ahead(s, 1, w - acting[a].late)
  <2>1. CASE acting[a].late = 0
    <3>1. w - acting[a].late = w BY <2>1, <1>8
    <3> QED BY <2>1, <3>1, <1>8, <1>10
  <2>2. CASE acting[a].late > 0 BY <2>2, <1>11
  <2> QED BY <2>1, <2>2, <1>2
<1> QED BY <1>2, <1>4, <1>5, <1>6, <1>7, <1>8, <1>11, <1>12

\* Once the first events are sent, what is ahead is less by them.
LEMMA AheadShrinks ==
  ASSUME NEW s \in Seq(StepRecord), Len(s) > 0, NEW v \in Nat, Ahead(s, 1, v)
  PROVE  LET m == Len(s[1].events)
             t == Tail(s)
         IN  m <= v /\ (Finishing(t, 1) \/ Ahead(t, 1, v - m)) /\ (m > 1 => Finishing(t, 1))
<1> DEFINE m == Len(s[1].events)
           t == Tail(s)
<1>1. t \in Seq(StepRecord) /\ Len(t) = Len(s) - 1 /\ \A i \in 1 .. Len(t) : t[i] = s[1 + i] OBVIOUS
<1>2. m \in Nat
  <2>1. 1 \in DOMAIN s OBVIOUS
  <2> QED BY <2>1, TodoShape
<1> HIDE DEF t, m
<1>3. PICK e \in 1 .. Len(s) :
        /\ \A n \in 1 .. e : s[n].step = "send" /\ (e = 1 \/ Len(s[n].events) <= 1)
        /\ IF e = 1 THEN m <= v ELSE e - 1 + 1 <= v
        /\ Finishing(s, e + 1)
  BY DEF Ahead, m
<1>4. \A n \in Nat : n # 0 /\ Finishing(s, n + 1) => Finishing(t, n)
  <2> SUFFICES ASSUME NEW n \in Nat, n # 0, Finishing(s, n + 1) PROVE Finishing(t, n) OBVIOUS
  <2>1. \A i \in Nat : i # 0 /\ Over(s, i + 1) => Over(t, i)
    <3> SUFFICES ASSUME NEW i \in Nat, i # 0, Over(s, i + 1) PROVE Over(t, i) OBVIOUS
    <3>1. CASE i <= Len(t)
      <4>1. t[i] = s[1 + i] /\ 1 + i = i + 1 BY <3>1, <1>1
      <4> QED BY <3>1, <4>1, <1>1, TodoShape DEF Over
    <3>2. CASE i > Len(t) BY <3>2 DEF Over
    <3> QED BY <3>1, <3>2, <1>1, TodoShape
  <2>2. CASE Over(s, n + 1) BY <2>1, <2>2 DEF Finishing
  <2>3. CASE ~Over(s, n + 1)
    <3>1. s[n + 1].step = "give" /\ Over(s, n + 1 + 1) BY <2>3 DEF Finishing
    <3>2. n <= Len(t) BY <2>3, <1>1, TodoShape DEF Over
    <3>3. t[n] = s[1 + n] /\ 1 + n = n + 1 BY <3>2, <1>1
    <3>4. Over(t, n + 1)
      <4>1. n + 1 \in Nat /\ n + 1 # 0 OBVIOUS
      <4> QED BY <4>1, <2>1, <3>1
    <3> QED BY <3>1, <3>3, <3>4 DEF Finishing
  <2> QED BY <2>2, <2>3
<1>5. CASE e = 1
  <2>1. Finishing(t, 1) BY <1>3, <1>4, <1>5
  <2> QED BY <2>1, <1>3, <1>5 DEF t, m
<1>6. CASE e # 1
  <2>1. m <= 1 /\ e \in 2 .. Len(s) /\ e <= v
    <3>1. 1 \in 1 .. e BY <1>3
    <3> QED BY <3>1, <1>3, <1>6 DEF m
  <2>2. Ahead(t, 1, v - m)
    <3>1. e - 1 \in 1 .. Len(t) BY <2>1, <1>1
    <3>2. \A n \in 1 .. e - 1 : t[n].step = "send" /\ Len(t[n].events) <= 1
      <4> SUFFICES ASSUME NEW n \in 1 .. e - 1 PROVE t[n].step = "send" /\ Len(t[n].events) <= 1 OBVIOUS
      <4>1. n \in 1 .. Len(t) /\ 1 + n \in 1 .. e BY <2>1, <1>1
      <4>2. t[n] = s[1 + n] BY <4>1, <1>1
      <4>3. s[1 + n].step = "send" /\ Len(s[1 + n].events) <= 1 BY <4>1, <1>3, <1>6
      <4> QED BY <4>2, <4>3
    <3>3. Finishing(t, e - 1 + 1)
      <4>1. e \in Nat /\ e # 0 /\ e - 1 + 1 = e BY <2>1
      <4> QED BY <4>1, <1>3, <1>4
    <3>4. IF e - 1 = 1 THEN Len(t[1].events) <= v - m ELSE (e - 1) - 1 + 1 <= v - m
      <4>1. CASE e = 2
        <5>1. Len(t[1].events) <= 1 /\ Len(t[1].events) \in Nat
          <6>1. 1 \in 1 .. e - 1 /\ 1 \in DOMAIN t BY <2>1, <3>1, <1>1
          <6> QED BY <6>1, <3>2, <1>1, TodoShape
        <5> QED BY <4>1, <5>1, <2>1, <1>2
      <4>2. CASE e # 2 BY <4>2, <2>1, <1>2
      <4> QED BY <4>1, <4>2
    <3> QED BY <3>1, <3>2, <3>3, <3>4 DEF Ahead
  <2> QED BY <2>1, <2>2, <1>2 DEF t, m
<1> QED BY <1>5, <1>6

\* What is down after some events was down or was let down by them.
LEMMA AfterEvents ==
  ASSUME NEW down, NEW op, NEW es
  PROVE  \A h \in After(down, op, es) :
           \/ h \in down /\ ~LiftedBy(es, h[1])
           \/ h[2] = op /\ h[1] \in Keys /\ PressedBy(es, h[1]) /\ h = <<h[1], op>>
<1> SUFFICES ASSUME NEW h \in After(down, op, es)
             PROVE  \/ h \in down /\ ~LiftedBy(es, h[1])
                    \/ h[2] = op /\ h[1] \in Keys /\ PressedBy(es, h[1]) /\ h = <<h[1], op>>
  OBVIOUS
<1>1. CASE h \in down /\ \A i \in DOMAIN es : es[i] # Up(h[1]) BY <1>1 DEF LiftedBy
<1>2. CASE \E k \in Keys : PressedBy(es, k) /\ h = <<k, op>> BY <1>2
<1> QED BY <1>1, <1>2 DEF After, PressedBy

\* Events go out, all of them or the first few.
LEMMA Sending ==
  ASSUME InputInv, NEW a \in Actor, Send(a)
  PROVE  InputInv'
<1> DEFINE s == acting[a].todo
           w == LongestCall(acting[a].op)
           es == s[1].events
           op == acting[a].op
           late == acting[a].late
<1>1. /\ s \in Seq(StepRecord) /\ Len(s) > 0 /\ s[1].step = "send" /\ es \in Seq(Event)
      /\ Head(s) = s[1] /\ ~acting[a].warned /\ w \in Nat /\ late \in Nat
      /\ op \in Operations /\ Gated(s, w) /\ Opens(s)
      /\ op \in KeepsDown \/ \A k : ~Unsettled(s, k)
      /\ late <= w /\ Ahead(s, 1, w - late)
      /\ late > 0 => inputStop /\ ~inputGate
  BY SendingFits DEF Send
<1>2. Len(es) \in Nat BY <1>1
<1>3. PICK n \in 0 .. (IF remote = "dead" THEN 0 ELSE Len(es)) :
        /\ held' = After(held, op, SubSeq(es, 1, n))
        /\ Proceeds(a, [acting[a] EXCEPT !.todo = IF n = Len(es) THEN Tail(@) ELSE <<>>,
                                         !.sent = @ \/ n > 0,
                                         !.late = IF Stopped THEN @ + n ELSE @])
        /\ IF n = Len(es) THEN UNCHANGED <<remoteLock, broken>>
             ELSE Release(a) /\ broken' = (broken \/ n > 0 \/ acting[a].sent)
  BY <1>1 DEF Send
<1> DEFINE t == IF n = Len(es) THEN Tail(s) ELSE <<>>
           c == [acting[a] EXCEPT !.todo = t, !.sent = @ \/ n > 0, !.late = IF Stopped THEN @ + n ELSE @]
<1>4. n \in 0 .. Len(es) BY <1>2, <1>3
<1>5. acting' = [acting EXCEPT ![a] = Kept(c)] BY <1>3 DEF Proceeds
<1>6. UNCHANGED <<scene, remote, user, acts>> BY DEF Send
<1>7. acting[a] \in CallRecord BY DEF InputInv, ActorsFit
<1>8. t \in Seq(StepRecord) BY <1>1
<1>9. /\ c \in CallRecord /\ c.todo = t /\ c.op = op /\ c.warned = FALSE /\ c.sent = (acting[a].sent \/ n > 0)
      /\ c.late = IF Stopped THEN late + n ELSE late
  <2>1. n \in Nat /\ late + n \in Nat BY <1>1, <1>4
  <2>2. (acting[a].sent \/ n > 0) \in BOOLEAN BY <1>7 DEF CallRecord
  <2> HIDE DEF t
  <2> QED BY <2>1, <2>2, <1>1, <1>7, <1>8 DEF CallRecord
<1>10. /\ Len(es) <= w - late /\ w - late \in Nat
       /\ n = Len(es) => Finishing(t, 1) \/ Ahead(t, 1, w - late - Len(es))
  <2>1. w - late \in Nat BY <1>1
  <2> QED BY <2>1, <1>1, AheadShrinks
<1>11. Todo(c, w)
  <2>1. CASE n # Len(es)
    <3>1. t = <<>> BY <2>1
    <3> QED BY <3>1, <1>9 DEF Todo
  <2>2. CASE n = Len(es)
    <3>1. t = SubSeq(s, 1 + 1, Len(s)) BY <2>2, <1>1
    <3>2. 1 \in Nat /\ 1 <= Len(s) BY <1>1
    <3>3. Gated(t, w) /\ Opens(t) /\ \A k : Unsettled(t, k) => Unsettled(s, k)
      <4> DEFINE u == SubSeq(s, 1 + 1, Len(s))
      <4> HIDE DEF s, t, w, es
      <4>1. s \in Seq(StepRecord) /\ Gated(s, w) /\ Opens(s) /\ w \in Nat BY <1>1
      <4>2. Gated(u, w) /\ Opens(u) /\ \A k : Unsettled(u, k) => Unsettled(s, k) BY <3>2, <4>1, TodoShortens
      <4> QED BY <3>1, <4>2
    <3> HIDE DEF s, t, w, es
    <3> QED BY <3>3, <1>1, <1>9 DEF Todo
  <2> QED BY <2>1, <2>2
<1>12. Late(c, inputStop, inputGate, w)
  <2> SUFFICES ASSUME c.late > 0 PROVE Late(c, inputStop, inputGate, w) BY DEF Late
  <2>1. inputStop /\ ~inputGate
    <3>1. CASE Stopped BY <3>1 DEF Stopped
    <3>2. CASE ~Stopped
      <4>1. late > 0 BY <3>2, <1>9
      <4> QED BY <4>1, <1>1
    <3> QED BY <3>1, <3>2
  <2>2. late <= c.late /\ c.late <= late + n /\ c.late \in Nat BY <1>1, <1>4, <1>9
  <2>3. c.late <= w /\ w - c.late \in Nat BY <2>2, <1>1, <1>4, <1>10
  <2>4. Finishing(t, 1) \/ Ahead(t, 1, w - c.late)
    <3>1. CASE n # Len(es)
      <4>1. Len(t) = 0 BY <3>1
      <4> QED BY <4>1 DEF Finishing, Over
    <3>2. CASE n = Len(es) /\ ~Finishing(t, 1)
      <4>1. Ahead(t, 1, w - late - Len(es)) BY <3>2, <1>10
      <4>2. w - late - Len(es) \in Nat /\ w - late - Len(es) <= w - c.late
        <5> HIDE DEF w, late, es, c
        <5>1. w \in Nat /\ late \in Nat /\ c.late <= late + Len(es) /\ Len(es) <= w - late BY <2>2, <3>2, <1>1, <1>10
        <5> QED BY <5>1, <2>2, <1>2
      <4>3. 1 \in DOMAIN t
        <5>1. Len(t) # 0 BY <3>2 DEF Finishing, Over
        <5> HIDE DEF t
        <5> QED BY <5>1, <1>8
      <4> HIDE DEF t, w, s, es, late, c
      <4> QED BY <4>1, <4>2, <4>3, <2>3, <1>8, WiderIsGated
    <3> QED BY <3>1, <3>2
  <2> HIDE DEF t, w, s, es, late, c
  <2> QED BY <2>1, <2>3, <2>4, <1>1, <1>9 DEF Late
<1>13. CallFits(c, inputStop, inputGate, LongestCall(c.op))
  <2>1. Forewarned(c, inputStop) BY <1>9 DEF Forewarned
  <2> QED BY <2>1, <1>9, <1>11, <1>12 DEF CallFits
<1>14. CallFits(Kept(c), inputStop, inputGate, LongestCall(Kept(c).op)) /\ \A k : Waits(c, k) => Waits(Kept(c), k)
  BY <1>13, KeptFits
<1>15. ActorsFit' BY <1>5, <1>6, <1>14, OneFits
<1>16. \A h \in held' :
         \/ h \in held /\ (n = Len(es) => ~LiftedBy(es, h[1]))
         \/ h[2] = op /\ h[1] \in Keys /\ (n = Len(es) => PressedBy(es, h[1])) /\ h = <<h[1], op>>
  <2>1. n = Len(es) => SubSeq(es, 1, n) = es BY <1>1
  <2> HIDE DEF es, op
  <2> DEFINE gone == SubSeq(es, 1, n)
  <2>2. held' = After(held, op, gone) BY <1>3 DEF es, op
  <2> HIDE DEF gone
  <2>3. \A h \in held' :
          \/ h \in held /\ ~LiftedBy(gone, h[1])
          \/ h[2] = op /\ h[1] \in Keys /\ PressedBy(gone, h[1]) /\ h = <<h[1], op>>
    BY <2>2, AfterEvents
  <2>4. n = Len(es) => gone = es BY <2>1 DEF gone
  <2> QED BY <2>3, <2>4
<1>17. HeldInv'
  <2>1. CASE n # Len(es)
    <3> SUFFICES ASSUME ~broken' PROVE HeldInv' BY DEF HeldInv
    <3>1. ~broken /\ ~acting[a].sent /\ n = 0
      <4>1. broken' = (broken \/ n > 0 \/ acting[a].sent) BY <2>1, <1>3
      <4>2. ~broken /\ ~(n > 0) /\ ~acting[a].sent BY <4>1, Zenon
      <4> QED BY <4>2, <1>4, <1>2
    <3>2. held' \subseteq held
      <4>1. SubSeq(es, 1, n) = <<>> BY <3>1, <1>1
      <4>2. \A k : ~PressedBy(<<>>, k) BY DEF PressedBy
      <4>3. held' = After(held, op, <<>>) BY <4>1, <1>3
      <4> QED BY <4>2, <4>3, AfterEvents
    <3>3. \A k : ~Waits(acting[a], k) BY <3>1 DEF Waits
    <3>4. acting \in [Actor -> CallRecord] BY DEF InputInv, ActorsFit
    <3>5. \A b \in Actor : b # a => acting'[b] = acting[b] BY <3>4, <1>5
    <3>6. \A h \in held : h[2] \in KeepsDown \/ \E b \in Actor : Waits(acting[b], h[1]) BY <3>1 DEF InputInv, HeldInv
    <3>7. \A h \in held : h[2] \in KeepsDown \/ \E b \in Actor : Waits(acting'[b], h[1]) BY <3>3, <3>5, <3>6
    <3> QED BY <3>2, <3>7 DEF HeldInv
  <2>2. CASE n = Len(es)
    <3> SUFFICES ASSUME ~broken', NEW h \in held', h[2] \notin KeepsDown
                 PROVE  \E b \in Actor : Waits(acting'[b], h[1])
      BY DEF HeldInv
    <3>1. ~broken BY <2>2, <1>3
    <3>2. acting \in [Actor -> CallRecord] BY DEF InputInv, ActorsFit
    <3>3. (\A b \in Actor : b # a => acting'[b] = acting[b]) /\ acting'[a] = Kept(c) BY <3>2, <1>5
    <3>4. t = Tail(s) /\ Len(t) = Len(s) - 1 /\ \A i \in 1 .. Len(t) : t[i] = s[1 + i] BY <2>2, <1>1
    <3>5. ASSUME NEW j \in DOMAIN s, j # 1, Lifts(s, j, h[1]), c.sent PROVE Waits(acting'[a], h[1])
      <4>1. j - 1 \in 1 .. Len(t) /\ 1 + (j - 1) = j BY <3>4, <3>5, <1>1, TodoShape
      <4>2. t[j - 1] = s[j] BY <4>1, <3>4
      <4>3. Lifts(t, j - 1, h[1]) BY <3>5, <4>2 DEF Lifts
      <4>4. j - 1 \in DOMAIN t BY <4>1, <1>8, TodoShape
      <4>5. Waits(c, h[1]) BY <3>5, <4>3, <4>4, <1>9 DEF Waits
      <4> QED BY <4>5, <3>3, <1>14
    <3>6. CASE h \in held /\ ~LiftedBy(es, h[1])
      <4>1. PICK b \in Actor : Waits(acting[b], h[1]) BY <3>1, <3>6 DEF InputInv, HeldInv
      <4>2. CASE b # a BY <4>1, <4>2, <3>3
      <4>3. CASE b = a
        <5>1. PICK j \in DOMAIN s : Lifts(s, j, h[1]) BY <4>1, <4>3 DEF Waits
        <5>2. j # 1 BY <5>1, <3>6 DEF Lifts
        <5>3. c.sent BY <4>1, <4>3, <1>9 DEF Waits
        <5> QED BY <5>1, <5>2, <5>3, <3>5
      <4> QED BY <4>2, <4>3
    <3>7. CASE h[2] = op /\ PressedBy(es, h[1])
      <4>1. ~Unsettled(s, h[1]) BY <3>7, <1>1
      <4>2. 1 \in DOMAIN s BY <1>1
      <4>3. PICK j \in 1 + 1 .. Len(s) : Lifts(s, j, h[1]) BY <4>1, <4>2, <3>7, <1>1 DEF Unsettled
      <4>4. n > 0
        <5>1. DOMAIN es # {} BY <3>7 DEF PressedBy
        <5> QED BY <5>1, <2>2, <1>1
      <4>5. c.sent BY <4>4, <1>9
      <4>6. j \in DOMAIN s /\ j # 1 BY <4>3, <1>1, TodoShape
      <4> QED BY <4>3, <4>5, <4>6, <3>5
    <3> QED BY <3>6, <3>7, <2>2, <1>16
  <2> QED BY <2>1, <2>2
<1>18. SceneInv'
  <2>1. held' \subseteq Keys \X Operations
    <3> SUFFICES ASSUME NEW h \in held' PROVE h \in Keys \X Operations OBVIOUS
    <3>1. held \subseteq Keys \X Operations BY DEF InputInv, SceneInv
    <3> QED BY <3>1, <1>1, <1>16
  <2>2. remoteLock' \in Actor \cup {Nobody, User} BY <1>3 DEF InputInv, SceneInv, Release
  <2>3. broken' \in BOOLEAN BY <1>3, <1>7 DEF InputInv, SceneInv, CallRecord
  <2> QED BY <2>1, <2>2, <2>3, <1>6 DEF InputInv, SceneInv, scene
<1> QED BY <1>15, <1>17, <1>18 DEF InputInv

\* The head of what an actor has to do.
LEMMA HeadOf ==
  ASSUME InputInv, NEW a \in Actor, NEW name, At(a, name)
  PROVE  LET s == acting[a].todo
         IN  /\ s \in Seq(StepRecord) /\ Len(s) \in Nat /\ Len(s) > 0 /\ s[1].step = name
             /\ acting[a].warned => inputStop /\ name = "stop"
             /\ acting[a].late > 0 => ~inputGate /\ (name = "gate" \/ (name = "give" /\ Over(s, 2)) \/ name = "send")
             /\ name = "open" => Len(s) > 1 /\ s[2].step = "approve"
<1> DEFINE s == acting[a].todo
           w == LongestCall(acting[a].op)
<1>1. acting[a] \in CallRecord /\ CallFits(acting[a], inputStop, inputGate, w)
  BY DEF InputInv, ActorsFit
<1>2. s \in Seq(StepRecord) BY <1>1 DEF CallRecord
<1>3. s # <<>> /\ Head(s).step = name BY DEF At
<1>4. Len(s) \in Nat /\ Len(s) > 0 /\ Head(s) = s[1] /\ 1 \in DOMAIN s BY <1>2, <1>3
<1>5. acting[a].warned => inputStop /\ name = "stop" BY <1>1, <1>3 DEF CallFits, Forewarned
<1>6. name = "open" => Len(s) > 1 /\ s[2].step = "approve"
  <2>1. Opens(s) BY <1>1, <1>3 DEF CallFits, Todo
  <2> HIDE DEF s
  <2> QED BY <2>1, <1>3, <1>4 DEF Opens
<1>7. acting[a].late > 0 => ~inputGate /\ (name = "gate" \/ (name = "give" /\ Over(s, 2)) \/ name = "send")
  <2> SUFFICES ASSUME acting[a].late > 0
               PROVE  ~inputGate /\ (name = "gate" \/ (name = "give" /\ Over(s, 2)) \/ name = "send")
    OBVIOUS
  <2>1. ~inputGate /\ (Finishing(s, 1) \/ Ahead(s, 1, w - acting[a].late)) BY <1>1 DEF CallFits, Late
  <2>2. CASE Finishing(s, 1) BY <2>1, <2>2, <1>3, <1>4 DEF Finishing, Over
  <2>3. CASE Ahead(s, 1, w - acting[a].late)
    <3>1. PICK e \in 1 .. Len(s) : \A n \in 1 .. e : s[n].step = "send" BY <2>3 DEF Ahead
    <3>2. s[1].step = "send" BY <3>1
    <3> QED BY <3>2, <2>1, <1>3, <1>4
  <2> QED BY <2>1, <2>2, <2>3
<1> QED BY <1>2, <1>3, <1>4, <1>5, <1>6, <1>7

\* A step is done that is no event and no check of the stop.
LEMMA GoingOn ==
  ASSUME InputInv, NEW a \in Actor, NEW name, At(a, name), name # "send", GoOn(a), UNCHANGED <<scene, held>>,
         ~acting[a].warned, acting[a].late > 0 => name = "give"
  PROVE  ActorsFit' /\ HeldInv'
<1>1. Skip(a, 1) /\ UNCHANGED broken BY DEF GoOn
<1>2. Len(acting[a].todo) >= 1 /\ acting[a].todo[1].step # "send" BY HeadOf
<1>3. \A i \in 1 .. 1 : acting[a].todo[i].step # "send" BY <1>2
<1>4. acting[a].late > 0 => 1 = 1 /\ Over(acting[a].todo, 2)
  <2>1. acting[a].late > 0 => (name = "gate" \/ (name = "give" /\ Over(acting[a].todo, 2)) \/ name = "send") BY HeadOf
  <2> QED BY <2>1
<1> QED BY <1>1, <1>2, <1>3, <1>4, Skipping

LEMMA Coming ==
  ASSUME InputInv, NEW a \in Actor, CallComes(a)
  PROVE  InputInv'
<1>1. PICK op \in Operations : \E plan \in Plans(op) :
        acting' = [acting EXCEPT ![a] = [op |-> op, todo |-> plan, warned |-> inputStop, sent |-> FALSE, late |-> 0]]
  BY DEF CallComes
<1>2. PICK plan \in Plans(op) :
        acting' = [acting EXCEPT ![a] = [op |-> op, todo |-> plan, warned |-> inputStop, sent |-> FALSE, late |-> 0]]
  BY <1>1
<1> DEFINE c == [op |-> op, todo |-> plan, warned |-> inputStop, sent |-> FALSE, late |-> 0]
<1>3. UNCHANGED <<scene, remote, remoteLock, held, user, broken>> BY DEF CallComes
<1>4. /\ plan \in Seq(StepRecord) /\ Len(plan) > 0 /\ plan[1].step = "stop"
      /\ Gated(plan, LongestCall(op)) /\ Opens(plan) /\ (op \in KeepsDown \/ \A k : ~Unsettled(plan, k))
  BY PlanIsRegular DEF InputInv, SceneInv
<1>5. CallFits(c, inputStop, inputGate, LongestCall(op))
  <2>1. inputStop \in BOOLEAN BY DEF InputInv, SceneInv
  <2>2. c \in CallRecord BY <2>1, <1>4 DEF CallRecord
  <2>3. Head(plan) = plan[1] BY <1>4
  <2> QED BY <2>2, <2>3, <1>4 DEF CallFits, Todo, Forewarned, Late
<1>6. ActorsFit' BY <1>2, <1>3, <1>5, OneFits
<1>7. HeldInv'
  <2>1. \A k : ~Waits(acting[a], k)
    <3>1. DOMAIN acting[a].todo = {} BY DEF CallComes, Free
    <3> QED BY <3>1 DEF Waits
  <2> QED BY <2>1, <1>2, <1>3, OneHolds
<1>8. SceneInv'
  <2>1. acts' \in [calls : 0 .. MaxInputCalls, user : 0 .. MaxUserActs]
    <3>1. acts \in [calls : 0 .. MaxInputCalls, user : 0 .. MaxUserActs] BY DEF InputInv, SceneInv
    <3>2. acts.calls < MaxInputCalls /\ acts' = [acts EXCEPT !.calls = @ + 1] BY DEF CallComes
    <3> QED BY <3>1, <3>2, InputAssumption
  <2> QED BY <2>1, <1>3 DEF InputInv, SceneInv, scene
<1> QED BY <1>6, <1>7, <1>8 DEF InputInv

\* What does not change the scene, what is held, or the counts.
LEMMA SceneStays ==
  ASSUME InputInv, UNCHANGED <<scene, held, acts>>, remote' \in {"none", "open", "dead"},
         remoteLock' \in Actor \cup {Nobody, User}, broken' \in BOOLEAN
  PROVE  SceneInv'
BY DEF InputInv, SceneInv, scene

LEMMA Checking ==
  ASSUME InputInv, NEW a \in Actor, Check(a)
  PROVE  InputInv'
<1>1. UNCHANGED <<scene, remote, remoteLock, held, user, acts>> BY DEF Check
<1>2. ASSUME GiveUp(a) PROVE ActorsFit' /\ HeldInv' /\ broken' \in BOOLEAN BY <1>1, <1>2, GivingUp
<1>3. ASSUME NEW name, At(a, name), name # "send", GoOn(a), ~acting[a].warned, ~(acting[a].late > 0)
      PROVE  ActorsFit' /\ HeldInv' /\ broken' \in BOOLEAN
  <2>1. broken' = broken BY <1>3 DEF GoOn
  <2> QED BY <2>1, <1>1, <1>3, GoingOn DEF InputInv, SceneInv
<1>4. CASE CheckStop(a)
  <2>1. At(a, "stop") BY <1>4 DEF CheckStop
  <2>2. CASE GoOn(a) /\ ~inputStop
    <3>1. ~acting[a].warned /\ ~(acting[a].late > 0) BY <2>1, <2>2, HeadOf
    <3> QED BY <3>1, <2>1, <2>2, <1>3, <1>1, SceneStays DEF InputInv, SceneInv
  <2>3. CASE GiveUp(a) BY <2>3, <1>1, <1>2, SceneStays DEF InputInv, SceneInv
  <2> QED BY <2>2, <2>3, <1>4 DEF CheckStop
<1>5. CASE CheckOthers(a)
  <2>1. PICK name \in {"ticket", "scope", "application"} : At(a, name) BY <1>5 DEF CheckOthers
  <2>2. CASE GoOn(a)
    <3>1. ~acting[a].warned /\ ~(acting[a].late > 0) BY <2>1, HeadOf
    <3>2. name # "send" BY <2>1
    <3> QED BY <3>1, <3>2, <2>1, <2>2, <1>3, <1>1, SceneStays DEF InputInv, SceneInv
  <2>3. CASE GiveUp(a) BY <2>3, <1>1, <1>2, SceneStays DEF InputInv, SceneInv
  <2> QED BY <2>2, <2>3, <1>5 DEF CheckOthers
<1>6. CASE CheckGate(a)
  <2>1. At(a, "gate") BY <1>6 DEF CheckGate
  <2>2. CASE GoOn(a) /\ inputGate
    <3>1. ~acting[a].warned /\ ~(acting[a].late > 0) BY <2>1, <2>2, HeadOf
    <3> QED BY <3>1, <2>1, <2>2, <1>3, <1>1, SceneStays DEF InputInv, SceneInv
  <2>3. CASE GiveUp(a) BY <2>3, <1>1, <1>2, SceneStays DEF InputInv, SceneInv
  <2> QED BY <2>2, <2>3, <1>6 DEF CheckGate
<1>7. CASE Refuse(a)
  <2>1. GiveUp(a) BY <1>7 DEF Refuse
  <2> QED BY <2>1, <1>1, <1>2, SceneStays DEF InputInv, SceneInv
<1> QED BY <1>4, <1>5, <1>6, <1>7 DEF Check

\* The portal's session: made sure of, taken and given back.
LEMMA Opening ==
  ASSUME InputInv, NEW a \in Actor, OpenRemote(a)
  PROVE  InputInv'
<1>1. At(a, "open") /\ UNCHANGED <<scene, remote, held, user, acts, broken>> BY DEF OpenRemote
<1>2. /\ Len(acting[a].todo) > 1 /\ acting[a].todo[1].step = "open" /\ acting[a].todo[2].step = "approve"
      /\ Len(acting[a].todo) \in Nat /\ ~acting[a].warned /\ ~(acting[a].late > 0)
  BY <1>1, HeadOf
<1>3. \A i \in {1, 2} : acting[a].todo[i].step # "send" BY <1>2
<1>4. ASSUME NEW n \in {1, 2}, Skip(a, n) PROVE ActorsFit' /\ HeldInv'
  <2>1. n <= Len(acting[a].todo) /\ \A i \in 1 .. n : acting[a].todo[i].step # "send" BY <1>2, <1>3, <1>4
  <2> QED BY <2>1, <1>1, <1>2, <1>4, Skipping
<1>5. ActorsFit' /\ HeldInv' BY <1>4 DEF OpenRemote
<1>6. remoteLock' \in Actor \cup {Nobody, User} BY DEF OpenRemote, InputInv, SceneInv
<1>7. SceneInv' BY <1>1, <1>6, SceneStays DEF InputInv, SceneInv
<1> QED BY <1>5, <1>7 DEF InputInv

LEMMA Handling ==
  ASSUME InputInv, NEW a \in Actor, Approve(a) \/ TakeRemote(a) \/ GiveRemote(a) \/ Aborted(a)
  PROVE  InputInv'
<1>1. UNCHANGED <<scene, held, user, acts>> BY DEF Approve, TakeRemote, GiveRemote, Aborted
<1>2. remote' \in {"none", "open", "dead"} /\ remoteLock' \in Actor \cup {Nobody, User}
  BY DEF Approve, TakeRemote, GiveRemote, Aborted, Release, InputInv, SceneInv
<1>3. ASSUME GiveUp(a) PROVE ActorsFit' /\ HeldInv' /\ broken' \in BOOLEAN BY <1>1, <1>3, GivingUp
<1>4. ASSUME NEW name \in {"approve", "take", "give"}, At(a, name), GoOn(a)
      PROVE  ActorsFit' /\ HeldInv' /\ broken' \in BOOLEAN
  <2>1. ~acting[a].warned /\ (acting[a].late > 0 => name = "give") /\ name # "send" BY <1>4, HeadOf
  <2>2. ActorsFit' /\ HeldInv' BY <2>1, <1>1, <1>4, GoingOn
  <2>3. broken' = broken BY <1>4 DEF GoOn
  <2> QED BY <2>2, <2>3 DEF InputInv, SceneInv
<1>5. ActorsFit' /\ HeldInv' /\ broken' \in BOOLEAN
  <2>1. CASE Approve(a)
    <3>1. At(a, "approve") /\ (GoOn(a) \/ GiveUp(a)) BY <2>1 DEF Approve
    <3> QED BY <3>1, <1>3, <1>4
  <2>2. CASE TakeRemote(a)
    <3>1. At(a, "take") /\ (GoOn(a) \/ GiveUp(a)) BY <2>2 DEF TakeRemote
    <3> QED BY <3>1, <1>3, <1>4
  <2>3. CASE GiveRemote(a)
    <3>1. At(a, "give") /\ GoOn(a) BY <2>3 DEF GiveRemote
    <3> QED BY <3>1, <1>4
  <2>4. CASE Aborted(a)
    <3>1. GiveUp(a) BY <2>4 DEF Aborted
    <3> QED BY <3>1, <1>3
  <2> QED BY <2>1, <2>2, <2>3, <2>4
<1>6. SceneInv' BY <1>1, <1>2, <1>5, SceneStays
<1> QED BY <1>5, <1>6 DEF InputInv

\* What the user does changes what is late, not what is ahead.
LEMMA UserMoves ==
  ASSUME InputInv, UserStep
  PROVE  InputInv'
<1> DEFINE c(a) == [acting[a] EXCEPT !.warned = @ /\ inputStop', !.late = IF inputStop' /\ ~inputGate' THEN @ ELSE 0]
<1>1. acting' = [a \in Actor |-> Kept(c(a))] /\ UNCHANGED <<platform, sharing, remoteLock, broken, acts>>
  BY DEF UserStep
<1>2. inputStop' \in BOOLEAN /\ inputGate' \in BOOLEAN /\ remote' \in {"none", "open", "dead"}
      /\ (held' = held \/ held' = {})
  BY DEF UserStep, InputInv, SceneInv
<1>3. ASSUME NEW a \in Actor
      PROVE  /\ c(a) \in CallRecord /\ c(a).todo = acting[a].todo /\ c(a).op = acting[a].op
             /\ c(a).sent = acting[a].sent /\ c(a).warned = (acting[a].warned /\ inputStop')
             /\ c(a).late = IF inputStop' /\ ~inputGate' THEN acting[a].late ELSE 0
  <2>1. acting[a] \in CallRecord BY DEF InputInv, ActorsFit
  <2>2. (acting[a].warned /\ inputStop') \in BOOLEAN BY <1>2, <2>1 DEF CallRecord
  <2> QED BY <2>1, <2>2 DEF CallRecord
<1>4. ASSUME NEW a \in Actor PROVE CallFits(c(a), inputStop', inputGate', LongestCall(c(a).op))
  <2>1. CallFits(acting[a], inputStop, inputGate, LongestCall(acting[a].op)) BY DEF InputInv, ActorsFit
  <2> HIDE DEF c
  <2>2. Todo(c(a), LongestCall(c(a).op)) BY <2>1, <1>3 DEF CallFits, Todo
  <2>3. Forewarned(c(a), inputStop') BY <2>1, <1>3 DEF CallFits, Forewarned
  <2>4. Late(c(a), inputStop', inputGate', LongestCall(c(a).op)) BY <2>1, <1>3 DEF CallFits, Late
  <2> QED BY <2>2, <2>3, <2>4, <1>3 DEF CallFits
<1> HIDE DEF c
<1>5. \A a \in Actor : /\ CallFits(Kept(c(a)), inputStop', inputGate', LongestCall(Kept(c(a)).op))
                       /\ \A k : Waits(c(a), k) => Waits(Kept(c(a)), k)
  BY <1>4, KeptFits
<1>6. ActorsFit'
  <2>1. acting' \in [Actor -> CallRecord] BY <1>1, <1>5 DEF CallFits
  <2>2. ASSUME NEW a \in Actor, NEW op, op = acting'[a].op
        PROVE  CallFits(acting'[a], inputStop', inputGate', LongestCall(op)')
    <3>1. acting'[a] = Kept(c(a)) BY <1>1
    <3>2. LongestCall(op)' = LongestCall(op) BY <1>1, LongestStays
    <3>3. CallFits(acting'[a], inputStop', inputGate', LongestCall(op)) BY <2>2, <3>1, <1>5
    <3> QED BY <3>2, <3>3
  <2> QED BY <2>1, <2>2 DEF ActorsFit
<1>7. HeldInv'
  <2> SUFFICES ASSUME ~broken', NEW h \in held', h[2] \notin KeepsDown
               PROVE  \E b \in Actor : Waits(acting'[b], h[1])
    BY DEF HeldInv
  <2>1. ~broken /\ h \in held BY <1>1, <1>2
  <2>2. PICK b \in Actor : Waits(acting[b], h[1]) BY <2>1 DEF InputInv, HeldInv
  <2>3. Waits(c(b), h[1]) BY <2>2, <1>3 DEF Waits
  <2>4. Waits(acting'[b], h[1]) BY <2>3, <1>1, <1>5
  <2> QED BY <2>4
<1>8. SceneInv' BY <1>1, <1>2 DEF InputInv, SceneInv
<1> QED BY <1>6, <1>7, <1>8 DEF InputInv

\* The user begins to act, the compositor ends the session, nothing happens.
LEMMA NoCallMoves ==
  ASSUME InputInv, UserActs \/ SessionDies \/ UNCHANGED inputVars
  PROVE  InputInv'
<1>1. UNCHANGED <<scene, acting, broken, remoteLock>> /\ (held' = held \/ held' = {})
      /\ remote' \in {"none", "open", "dead"}
  BY DEF UserActs, SessionDies, inputVars, scene, InputInv, SceneInv
<1>2. platform' = platform /\ inputStop' = inputStop /\ inputGate' = inputGate BY <1>1 DEF scene
<1>3. ActorsFit'
  <2>1. \A op : LongestCall(op)' = LongestCall(op) BY <1>2, LongestStays
  <2>2. ASSUME NEW a \in Actor, NEW op, op = acting'[a].op
        PROVE  CallFits(acting'[a], inputStop', inputGate', LongestCall(op)')
    <3>1. CallFits(acting[a], inputStop, inputGate, LongestCall(op)) BY <2>2, <1>1 DEF InputInv, ActorsFit
    <3>2. LongestCall(op)' = LongestCall(op) BY <2>1
    <3> QED BY <3>1, <3>2, <1>1, <1>2
  <2>3. acting' \in [Actor -> CallRecord] BY <1>1 DEF InputInv, ActorsFit
  <2> QED BY <2>2, <2>3 DEF ActorsFit
<1>4. HeldInv' BY <1>1 DEF InputInv, HeldInv
<1>5. acts' \in [calls : 0 .. MaxInputCalls, user : 0 .. MaxUserActs]
  <2>1. acts \in [calls : 0 .. MaxInputCalls, user : 0 .. MaxUserActs] BY DEF InputInv, SceneInv
  <2>2. CASE UserActs
    <3>1. acts.user < MaxUserActs /\ acts' = [acts EXCEPT !.user = @ + 1] BY <2>2 DEF UserActs
    <3> QED BY <2>1, <3>1, InputAssumption
  <2>3. CASE SessionDies \/ UNCHANGED inputVars BY <2>1, <2>3 DEF SessionDies, inputVars
  <2> QED BY <2>2, <2>3
<1>6. SceneInv' BY <1>1, <1>2, <1>5 DEF InputInv, SceneInv
<1> QED BY <1>3, <1>4, <1>6 DEF InputInv

LEMMA InputStep == InputInv /\ [InputNext]_inputVars => InputInv'
<1> SUFFICES ASSUME InputInv, [InputNext]_inputVars PROVE InputInv' OBVIOUS
<1>1. CASE \E a \in Actor : \/ CallComes(a) \/ Check(a) \/ OpenRemote(a) \/ Approve(a)
                            \/ TakeRemote(a) \/ Send(a) \/ GiveRemote(a) \/ Aborted(a)
  BY <1>1, Coming, Checking, Opening, Handling, Sending
<1>2. CASE UserActs \/ SessionDies \/ UNCHANGED inputVars BY <1>2, NoCallMoves
<1>3. CASE UserStep BY <1>3, UserMoves
<1> QED BY <1>1, <1>2, <1>3 DEF InputNext

\* The variables keep their types: calls under way are known operations with
\* steps and events left, whatever the platform.
THEOREM InputTypeCorrect == InputSpec => []InputTypeOK
<1>1. InputInv => InputTypeOK
  <2> SUFFICES ASSUME InputInv PROVE InputTypeOK OBVIOUS
  <2>1. acts.calls <= MaxInputCalls /\ acts.user <= MaxUserActs
    <3>1. acts.calls \in 0 .. MaxInputCalls /\ acts.user \in 0 .. MaxUserActs BY DEF InputInv, SceneInv
    <3> QED BY <3>1, InputAssumption
  <2>2. \A a \in Actor : acting[a].op \in Operations \cup {"none"}
    <3>1. \A a \in Actor : acting[a] \in CallRecord BY DEF InputInv, ActorsFit
    <3> QED BY <3>1 DEF CallRecord
  <2> QED BY <2>1, <2>2 DEF InputTypeOK, InputInv, SceneInv
<1> QED BY <1>1, InputInitially, InputStep, PTL DEF InputSpec

\* Neither a stop nor the end of the calls leaves the desktop with input that
\* nobody asked for: a call that comes in under the emergency stop sends
\* nothing, one in flight no more than its backend call had left, and what is
\* down when nothing runs was asked to be held (tool-desktop and its backends).
THEOREM InputBounded == InputSpec => []InputIsBounded
<1>1. InputInv => InputIsBounded
  <2> SUFFICES ASSUME InputInv PROVE InputIsBounded OBVIOUS
  <2>1. InputStops
    <3> SUFFICES ASSUME NEW a \in Actor
                 PROVE  /\ acting[a].warned => ~At(a, "send")
                        /\ acting[a].late > 0 => acting[a].late <= LongestCall(acting[a].op)
      BY DEF InputStops
    <3>1. acting[a].warned => ~At(a, "send") BY HeadOf
    <3>2. CallFits(acting[a], inputStop, inputGate, LongestCall(acting[a].op)) BY DEF InputInv, ActorsFit
    <3> QED BY <3>1, <3>2 DEF CallFits, Late
  <2>2. KeysComeUp
    <3> SUFFICES ASSUME \A a \in Actor : Free(a), ~broken, NEW h \in held PROVE h[2] \in {"key down", "mouse down"}
      BY DEF KeysComeUp
    <3>1. \A a \in Actor : ~Waits(acting[a], h[1])
      <4> SUFFICES ASSUME NEW a \in Actor PROVE ~Waits(acting[a], h[1]) OBVIOUS
      <4>1. DOMAIN acting[a].todo = {} BY DEF Free
      <4> QED BY <4>1 DEF Waits
    <3> QED BY <3>1 DEF InputInv, HeldInv, KeepsDown
  <2> QED BY <2>1, <2>2 DEF InputIsBounded
<1> QED BY <1>1, InputInitially, InputStep, PTL DEF InputSpec
=============================================================================
