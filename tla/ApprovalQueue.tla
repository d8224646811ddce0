--------------------------- MODULE ApprovalQueue ---------------------------
(***************************************************************************)
(* The approval queue of the policy layer (policy-core): requests waiting  *)
(* for the user, the grants his decisions left, and the marker of the      *)
(* screen-sharing session that new grants are bound to.  The queue is a    *)
(* record and every method an operator from queue to queue, since each     *)
(* method runs under the queue's lock; the modules that use it hold the    *)
(* queue in a variable.                                                    *)
(*                                                                         *)
(* A need stands for one capability on one resource.  Only the agent asks: *)
(* the frontend and native plugins are refused before the grants are read. *)
(***************************************************************************)
EXTENDS Naturals, Sequences, SequencesExt, FiniteSets, FiniteSetsExt

CONSTANTS
  Need,       \* capability-on-resource pairs the agent may ask for
  Sensitive,  \* needs that take a fresh approval every time
  Broad,      \* needs that one direct grant of the settings page covers
  Shared,     \* needs that are about the shared screen
  MaxId       \* bound on the ids a model hands out (tasks, shares, requests)

ASSUME NeedAssumption ==
  /\ Sensitive \subseteq Need /\ Broad \subseteq Need /\ Shared \subseteq Need
  /\ MaxId \in Nat

None == 0                    \* no task, no share, no request
Ids  == 0 .. MaxId
(* Session and persistent grants differ in what a restart keeps of them,   *)
(* the queue treats them alike: "standing" is both.                        *)
Lifetimes == {"once", "task", "standing"}
Request == [id : Ids, need : Need, task : Ids]
(* The grants are a list in the order they were made: "at" is the place.   *)
Grant   == [covers : SUBSET Need, life : Lifetimes, task : Ids,
            share : Ids, from : Ids, at : Nat]

QueueType == [next : Nat, pending : SUBSET Request, grants : SUBSET Grant, share : Ids]
EmptyQueue == [next |-> 1, pending |-> {}, grants |-> {}, share |-> None]

InQueue(q, id) == \E r \in q.pending : r.id = id
RequestOf(q, id) == CHOOSE r \in q.pending : r.id = id
Revoke(q, S) == [q EXCEPT !.grants = @ \ S]
LastPlace(q) == IF q.grants = {} THEN 0 ELSE Max({g.at : g \in q.grants})
Push(q, g) == [q EXCEPT !.grants = @ \cup {g}]

(* A request enters the queue under the next id.                           *)
Submit(q, need, task) ==
  [q EXCEPT !.next = @ + 1,
            !.pending = @ \cup {[id |-> q.next, need |-> need, task |-> task]}]

(* What a decision grants.  A sensitive need is granted for one use only,  *)
(* one-use and task grants are bound to the task that asked, and a grant   *)
(* about the shared screen is bound to the share that is live.             *)
GrantFor(q, r, life) ==
  LET l == IF r.need \in Sensitive THEN "once" ELSE life
  IN [covers |-> {r.need}, life |-> l,
      task |-> IF l \in {"once", "task"} THEN r.task ELSE None,
      share |-> IF r.need \in Shared THEN q.share ELSE None,
      from |-> r.id, at |-> LastPlace(q) + 1]

Drop(q, id) == [q EXCEPT !.pending = {r \in @ : r.id # id}]
Approve(q, id, life) ==
  Push(Drop(q, id), GrantFor(q, RequestOf(q, id), life))
Deny(q, id) == Drop(q, id)
Withdraw(q, id) == Drop(q, id)

GrantDirect(q, covers, life) ==
  Push(q, [covers |-> covers, life |-> life, task |-> None, share |-> None,
           from |-> None, at |-> LastPlace(q) + 1])
RevokeWhere(q, covers) == Revoke(q, {g \in q.grants : g.covers = covers})
RevokeCapability(q, needs) == Revoke(q, {g \in q.grants : g.covers \cap needs # {}})

SetShare(q, s) == [q EXCEPT !.share = s]
OfShare(q, s) == {g \in q.grants : g.share = s}
RevokeShareKeepsMarker(q, s) == Revoke(q, OfShare(q, s))
RevokeShare(q, s) ==
  [Revoke(q, OfShare(q, s)) EXCEPT !.share = IF @ = s THEN None ELSE @]

(* A task is over: its bound grants and its requests go.                   *)
OfTask(q, task) == {g \in q.grants : g.life \in {"once", "task"} /\ g.task = task}
EndTask(q, task) ==
  [Revoke(q, OfTask(q, task)) EXCEPT !.pending = {r \in @ : r.task # task}]

(* May this grant be used by that task now?                                *)
IsActive(q, g, task) ==
  /\ g.task # None => g.task = task
  /\ g.share # None => g.share = q.share
  /\ g.life = "task" => g.task # None

Matches(q, need, task) ==
  {g \in q.grants : need \in g.covers /\ IsActive(q, g, task)}

(* The preflight check: it only looks.                                     *)
Authorizes(q, need, task) ==
  \E g \in Matches(q, need, task) : need \in Sensitive => g.life = "once"

(* The commit right before the call: the first matching grant serves it,   *)
(* and a one-use grant is used up.                                         *)
CanConsume(q, need, task) == Matches(q, need, task) # {}
FirstMatch(q, need, task) ==
  CHOOSE g \in Matches(q, need, task) : \A h \in Matches(q, need, task) : g.at <= h.at
ConsumeKeepsGrant(q, need, task) == q
Consume(q, need, task) ==
  LET g == FirstMatch(q, need, task)
  IN IF g.life = "once" THEN Revoke(q, {g}) ELSE q
=============================================================================
