----------------------------- MODULE BrowserTabs -----------------------------
(***************************************************************************)
(* The browser tools of one turn over the Chrome DevTools backend          *)
(* (tool-browser): pages that change on their own, snapshots that are sent *)
(* as the difference to the one before, and the operations on one node.    *)
(* A page is the nodes of its accessibility tree that a snapshot keeps     *)
(* (the first MAX_SNAPSHOT_NODES).  Tools of a turn run one at a time.     *)
(***************************************************************************)
EXTENDS Naturals

CONSTANTS
  Tab, Node, Content, \* tabs, nodes of their pages and what a node shows
  MaxSnapshots        \* bound on snapshots

ASSUME BrowserAssumption == MaxSnapshots \in Nat

Nothing == "nothing"
NoList == [id |-> 0, nodes |-> [n \in Node |-> Nothing]]
NotReading == [tab |-> "no tab", since |-> 0, nodes |-> NoList.nodes]

VARIABLES
  openTabs,  \* the tabs the browser has
  pages,     \* the nodes of their pages
  snapshots, \* SnapshotCache: the latest list and its id, by tab
  reading,   \* the snapshot under way: the tree is read, the tabs not yet
  nodeAnswered,  \* the latest list of a tab, as the reader of the answers has it
  lastId,    \* counter of the fresh snapshot ids
  nodeCall   \* the last operation on a node: what it was, what it answered
             \* and whether it reached the node

browserVars == <<openTabs, pages, snapshots, reading, nodeAnswered, lastId, nodeCall>>

NodeList == [Node -> Content \cup {Nothing}]
Lists == [Tab -> [id : 0 .. MaxSnapshots, nodes : NodeList]]

BrowserTypeOK ==
  /\ openTabs \subseteq Tab /\ pages \in [Tab -> NodeList]
  /\ {snapshots, nodeAnswered} \subseteq Lists
  /\ reading # NotReading => reading.tab \in Tab /\ reading.nodes \in NodeList
  /\ lastId \in 0 .. MaxSnapshots
  /\ \A t \in Tab : snapshots[t].id <= lastId /\ (snapshots[t].id = 0 => snapshots[t] = NoList)
  /\ nodeCall \in [op : {"none", "click", "act"}, answer : {"none", "ok", "error"}, acted : BOOLEAN]

BrowserInit ==
  /\ openTabs = Tab /\ pages = [t \in Tab |-> NoList.nodes]
  /\ snapshots = [t \in Tab |-> NoList] /\ nodeAnswered = snapshots
  /\ reading = NotReading /\ lastId = 0
  /\ nodeCall = [op |-> "none", answer |-> "none", acted |-> FALSE]

-----------------------------------------------------------------------------
(* Scripts, navigations and the user change pages, open and close tabs.    *)
PageChanges(t, n, c) ==
  /\ t \in openTabs /\ pages' = [pages EXCEPT ![t][n] = c]
  /\ UNCHANGED <<openTabs, snapshots, reading, nodeAnswered, lastId, nodeCall>>
OpenTab(t) ==
  /\ t \notin openTabs /\ openTabs' = openTabs \cup {t}
  /\ UNCHANGED <<pages, snapshots, reading, nodeAnswered, lastId, nodeCall>>
CloseTab(t) ==
  /\ t \in openTabs /\ openTabs' = openTabs \ {t}
  /\ pages' = [pages EXCEPT ![t] = NoList.nodes]
  /\ UNCHANGED <<snapshots, reading, nodeAnswered, lastId, nodeCall>>

(* A turn has a cache of its own, and its reader starts afresh.            *)
NewTurn ==
  /\ reading = NotReading
  /\ snapshots' = [t \in Tab |-> NoList] /\ nodeAnswered' = snapshots'
  /\ nodeCall' = [op |-> "none", answer |-> "none", acted |-> FALSE]
  /\ UNCHANGED <<openTabs, pages, reading, lastId>>

-----------------------------------------------------------------------------
(* browser.snapshot reads the tree, then the list of tabs; a tab that is   *)
(* gone by then is unknown.  The answer is taken from the cache's lists.   *)
ReadTree(t, since) ==
  /\ reading = NotReading /\ t \in openTabs /\ lastId < MaxSnapshots
  /\ reading' = [tab |-> t, since |-> since, nodes |-> pages[t]]
  /\ UNCHANGED <<openTabs, pages, snapshots, nodeAnswered, lastId, nodeCall>>
SnapshotFails ==
  /\ reading # NotReading /\ reading' = NotReading
  /\ UNCHANGED <<openTabs, pages, snapshots, nodeAnswered, lastId, nodeCall>>

Latest(t, since) == snapshots[t].id # 0 /\ snapshots[t].id = since
Changed(old, new) == {n \in Node : new[n] # Nothing /\ new[n] # old[n]}
Removed(old, new) == {n \in Node : old[n] # Nothing /\ new[n] = Nothing}

(* What the reader makes of an answer: the nodes that are sent, and, when  *)
(* it asked for changes, those it had and that were not removed.           *)
Patched(had, sent, removed, new) ==
  [n \in Node |-> IF n \in sent THEN new[n] ELSE IF n \in removed THEN Nothing ELSE had[n]]

Renewed(list, id) == [list EXCEPT !.id = id]
AnswerSnapshot ==
  LET t == reading.tab
      new == reading.nodes
      diff == Latest(t, reading.since)
      old == IF diff THEN snapshots[t].nodes ELSE NoList.nodes
      had == IF reading.since = 0 THEN NoList.nodes ELSE nodeAnswered[t].nodes
      id == lastId + 1
  IN
  /\ reading # NotReading /\ t \in openTabs
  /\ reading' = NotReading /\ lastId' = id
  /\ snapshots' = [snapshots EXCEPT ![t] = Renewed([id |-> @.id, nodes |-> new], id)]
  /\ nodeAnswered' = [nodeAnswered EXCEPT ![t] =
       [id |-> snapshots'[t].id,
        nodes |-> Patched(had, Changed(old, new), IF diff THEN Removed(old, new) ELSE {}, new)]]
  /\ UNCHANGED <<openTabs, pages, nodeCall>>

-----------------------------------------------------------------------------
(* What a page script makes of a node id: nothing stands for an id of the  *)
(* tree, and the list that the ids of a query index is never defined.      *)
Finder(kind) == IF kind = "dom" THEN "throws" ELSE "missing"
(* A script that throws, and a call that fails or times out, is an error.  *)
(* click looks at no result; type, set_value, select, scroll, get_text and *)
(* get_attribute do.                                                       *)
NodeOp(op, kind) ==
  /\ reading = NotReading
  /\ \/ /\ Finder(kind) = "throws" \/ op = "act"
        /\ nodeCall' = [op |-> op, answer |-> "error", acted |-> Finder(kind) = "node"]
     \/ /\ Finder(kind) # "throws" /\ op = "click"
        /\ nodeCall' = [op |-> op, answer |-> "ok", acted |-> Finder(kind) = "node"]
  /\ UNCHANGED <<openTabs, pages, snapshots, reading, nodeAnswered, lastId>>

BrowserNext ==
  \/ \E t \in Tab :
       \/ OpenTab(t) \/ CloseTab(t)
       \/ \E n \in Node, c \in Content \cup {Nothing} : PageChanges(t, n, c)
       \/ \E since \in {0, nodeAnswered[t].id} : ReadTree(t, since)
  \/ SnapshotFails \/ AnswerSnapshot \/ NewTurn
  \/ \E op \in {"click", "act"}, kind \in {"ax", "dom"} : NodeOp(op, kind)

BrowserSpec == BrowserInit /\ [][BrowserNext]_browserVars

-----------------------------------------------------------------------------
(* Within a turn, a reader that follows the differences has the page as    *)
(* the latest snapshot of the tab saw it, whatever changed and whichever   *)
(* snapshots failed in between: nothing is missed and nothing lingers.     *)
ReaderFollows == \A t \in Tab : nodeAnswered[t] = snapshots[t]
=============================================================================
