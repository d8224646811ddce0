------------------------ MODULE ApprovalQueue_proofs ------------------------
(***************************************************************************)
(* Lemmas about the operators of the approval queue, for the modules that  *)
(* hold a queue.  A queue is in order, with respect to the requests whose  *)
(* one-use grant was used up, when its requests and one-use grants name    *)
(* different requests of the past and none of the used ones, and when a    *)
(* grant or request bound to a task names one.                             *)
(***************************************************************************)
EXTENDS ApprovalQueue, WellFoundedInduction, TLAPS

Bound(g) == g.life \in {"once", "task"}
Past(q) == 1 .. q.next - 1

(* The places of the grants have a bound: the list is finite.              *)
Placed(q) == \E b \in Nat : \A g \in q.grants : g.at <= b

RequestsOK(q, u) ==
  /\ \A r \in q.pending : r.id \in Past(q) /\ r.task # None /\ r.id \notin u
  /\ \A r, p \in q.pending : r.id = p.id => r = p

GrantsOK(q, u) ==
  /\ \A g \in q.grants : Bound(g) => g.task # None
  /\ \A g \in q.grants : g.life = "once" =>
       /\ g.from \in Past(q) /\ g.from \notin u
       /\ \A r \in q.pending : r.id # g.from
  /\ \A g, h \in q.grants : g.life = "once" /\ h.life = "once" /\ g.from = h.from => g = h

QueueOK(q, u) ==
  /\ q \in QueueType /\ q.next # 0 /\ u \subseteq Past(q)
  /\ Placed(q) /\ RequestsOK(q, u) /\ GrantsOK(q, u)

-----------------------------------------------------------------------------
(* Every set of naturals has a least element, a bounded one a greatest.    *)
LEMMA LeastNatural ==
  ASSUME NEW T \in SUBSET Nat, T # {}
  PROVE  \E m \in T : \A n \in T : m <= n
<1> DEFINE Less == OpToRel(<, Nat)
<1>1. PICK m \in T : \A n \in T : <<n, m>> \notin Less
  BY NatLessThanWellFounded, WFMin
<1>2. \A n \in T : ~(n < m) BY <1>1 DEF OpToRel
<1> QED BY <1>2

(* A set of naturals with a bound has a greatest element.                  *)
LEMMA GreatestNatural ==
  ASSUME NEW S \in SUBSET Nat, S # {}, NEW b \in Nat, \A s \in S : s <= b
  PROVE  Max(S) \in S /\ \A s \in S : s <= Max(S)
<1> DEFINE Above == {n \in Nat : \A s \in S : s <= n}
<1>1. PICK m \in Above : \A n \in Above : m <= n
  <2>1. Above \in SUBSET Nat /\ Above # {} OBVIOUS
  <2> HIDE DEF Above
  <2> QED BY <2>1, LeastNatural
<1>2. m \in S
  <2> SUFFICES ASSUME m \notin S PROVE FALSE OBVIOUS
  <2>1. PICK s \in S : TRUE OBVIOUS
  <2>2. m \in Nat /\ s < m BY <2>1
  <2>3. m - 1 \in Nat /\ \A t \in S : t <= m - 1 BY <2>2
  <2>4. m - 1 \in Above BY <2>3
  <2> QED BY <2>4, <1>1, <2>2
<1>3. \A s \in S : m >= s OBVIOUS
<1> QED BY <1>2, <1>3 DEF Max

(* The fields of a queue and their types.                                  *)
LEMMA QueueFields ==
  ASSUME NEW q \in QueueType
  PROVE  /\ q = [next |-> q.next, pending |-> q.pending, grants |-> q.grants, share |-> q.share]
         /\ q.next \in Nat /\ q.pending \subseteq Request
         /\ q.grants \subseteq Grant /\ q.share \in Ids
<1> QED BY DEF QueueType

(* The queue starts in order.                                              *)
LEMMA EmptyQueueOK == QueueOK(EmptyQueue, {})
<1>1. EmptyQueue \in QueueType BY NeedAssumption DEF EmptyQueue, QueueType, Ids, None
<1>2. Placed(EmptyQueue) BY DEF Placed, EmptyQueue
<1> QED BY <1>1, <1>2 DEF QueueOK, EmptyQueue, RequestsOK, GrantsOK, Past

(* A request gets a fresh id.                                              *)
LEMMA SubmitOK ==
  ASSUME NEW q, NEW u, QueueOK(q, u), NEW need \in Need, NEW task \in Ids, task # None,
         q.next \in Ids
  PROVE  QueueOK(Submit(q, need, task), u)
<1> DEFINE r == [id |-> q.next, need |-> need, task |-> task]
           p == Submit(q, need, task)
<1>1. /\ p.next = q.next + 1 /\ p.pending = q.pending \cup {r}
      /\ p.grants = q.grants /\ p.share = q.share
  BY QueueFields DEF QueueOK, QueueType, Submit
<1>2. p \in QueueType
  <2>1. r \in Request BY DEF Request
  <2>2. q \in QueueType BY DEF QueueOK
  <2>3. q.pending \cup {r} \in SUBSET Request /\ q.next + 1 \in Nat
    BY <2>1, <2>2, QueueFields
  <2> QED BY <2>2, <2>3 DEF QueueType, Submit
<1>3. q.next \in Nat /\ q.next # 0 BY DEF QueueOK, QueueType
<1>4. Past(p) = Past(q) \cup {q.next} /\ q.next \notin Past(q)
  BY <1>1, <1>3 DEF Past
<1> HIDE DEF p
<1>5. Placed(p) BY <1>1 DEF Placed, QueueOK
<1>6. RequestsOK(p, u) BY <1>1, <1>4 DEF RequestsOK, QueueOK
<1>7. GrantsOK(p, u) BY <1>1, <1>4 DEF GrantsOK, QueueOK
<1> QED BY <1>1, <1>2, <1>3, <1>4, <1>5, <1>6, <1>7 DEF QueueOK, p

(* Dropping requests or grants keeps a queue in order.                     *)
LEMMA SmallerOK ==
  ASSUME NEW q, NEW p, NEW u, QueueOK(q, u), p \in QueueType, p.next = q.next,
         p.pending \subseteq q.pending, p.grants \subseteq q.grants
  PROVE  QueueOK(p, u)
<1>1. Past(p) = Past(q) BY DEF Past
<1>2. Placed(p) BY DEF Placed, QueueOK
<1>3. RequestsOK(p, u) BY <1>1 DEF RequestsOK, QueueOK
<1>4. GrantsOK(p, u) BY <1>1 DEF GrantsOK, QueueOK
<1> QED BY <1>1, <1>2, <1>3, <1>4 DEF QueueOK

(* A request leaves the queue.                                             *)
LEMMA DropOK ==
  ASSUME NEW q, NEW u, QueueOK(q, u), NEW id
  PROVE  /\ QueueOK(Drop(q, id), u)
         /\ Drop(q, id).next = q.next /\ Drop(q, id).share = q.share
         /\ Drop(q, id).grants = q.grants
         /\ Drop(q, id).pending = {r \in q.pending : r.id # id}
<1>1. /\ Drop(q, id).next = q.next /\ Drop(q, id).share = q.share
      /\ Drop(q, id).grants = q.grants
      /\ Drop(q, id).pending = {r \in q.pending : r.id # id}
      /\ Drop(q, id) \in QueueType
  BY DEF QueueOK, QueueType, Drop
<1> QED BY <1>1, SmallerOK

(* Grants are revoked.                                                     *)
LEMMA RevokeOK ==
  ASSUME NEW q, NEW u, QueueOK(q, u), NEW S
  PROVE  /\ QueueOK(Revoke(q, S), u)
         /\ Revoke(q, S).next = q.next /\ Revoke(q, S).share = q.share
         /\ Revoke(q, S).pending = q.pending
         /\ Revoke(q, S).grants = q.grants \ S
<1>1. /\ Revoke(q, S).next = q.next /\ Revoke(q, S).share = q.share
      /\ Revoke(q, S).pending = q.pending
      /\ Revoke(q, S).grants = q.grants \ S
      /\ Revoke(q, S) \in QueueType
  BY DEF QueueOK, QueueType, Revoke
<1> QED BY <1>1, SmallerOK

(* The end of a task takes its requests and the grants bound to it.        *)
LEMMA EndTaskOK ==
  ASSUME NEW q, NEW u, QueueOK(q, u), NEW task
  PROVE  /\ QueueOK(EndTask(q, task), u)
         /\ EndTask(q, task).next = q.next
         /\ EndTask(q, task).pending = {r \in q.pending : r.task # task}
         /\ EndTask(q, task).grants = {g \in q.grants : ~(Bound(g) /\ g.task = task)}
<1>1. QueueOK(Revoke(q, OfTask(q, task)), u) BY RevokeOK
<1>2. /\ EndTask(q, task).next = q.next
      /\ EndTask(q, task).pending = {r \in q.pending : r.task # task}
      /\ EndTask(q, task).grants = {g \in q.grants : ~(Bound(g) /\ g.task = task)}
      /\ EndTask(q, task) \in QueueType
  BY RevokeOK DEF QueueOK, QueueType, EndTask, Revoke, OfTask, Bound
<1> QED BY <1>2, SmallerOK

(* A grant comes after the others.                                         *)
LEMMA LastPlaceOK ==
  ASSUME NEW q \in QueueType, Placed(q)
  PROVE  LastPlace(q) \in Nat /\ \A g \in q.grants : g.at <= LastPlace(q)
<1> DEFINE S == {g.at : g \in q.grants}
<1>1. S \in SUBSET Nat BY DEF QueueType, Grant
<1>2. CASE q.grants = {} BY <1>2 DEF LastPlace
<1>3. CASE q.grants # {}
  <2>1. S # {} BY <1>3
  <2>2. PICK b \in Nat : \A s \in S : s <= b BY DEF Placed
  <2>3. LastPlace(q) = Max(S) BY <1>3 DEF LastPlace
  <2> HIDE DEF S
  <2>4. LastPlace(q) \in S /\ \A s \in S : s <= LastPlace(q)
    BY <1>1, <2>1, <2>2, <2>3, GreatestNatural
  <2>5. \A g \in q.grants : g.at \in S BY DEF S
  <2> QED BY <1>1, <2>4, <2>5
<1> QED BY <1>2, <1>3

(* A grant enters the queue.                                               *)
LEMMA PushOK ==
  ASSUME NEW q \in QueueType, NEW g \in Grant, Placed(q)
  PROVE  /\ Push(q, g) \in QueueType /\ Placed(Push(q, g))
         /\ Push(q, g).next = q.next /\ Push(q, g).share = q.share
         /\ Push(q, g).pending = q.pending
         /\ Push(q, g).grants = q.grants \cup {g}
<1>1. /\ Push(q, g) \in QueueType
      /\ Push(q, g).next = q.next /\ Push(q, g).share = q.share
      /\ Push(q, g).pending = q.pending
      /\ Push(q, g).grants = q.grants \cup {g}
  BY DEF QueueType, Push
<1>2. PICK b \in Nat : \A h \in q.grants : h.at <= b BY DEF Placed
<1>3. PICK c \in Nat : b <= c /\ g.at <= c
  <2>1. g.at \in Nat BY DEF Grant
  <2> QED BY <2>1
<1>4. \A h \in q.grants \cup {g} : h.at <= c
  BY <1>2, <1>3 DEF QueueType, Grant
<1> QED BY <1>1, <1>4 DEF Placed

(* What a decision grants is a grant of the request's task and the live share. *)
LEMMA GrantForType ==
  ASSUME NEW q \in QueueType, Placed(q), NEW r \in Request, NEW life \in Lifetimes
  PROVE  /\ GrantFor(q, r, life) \in Grant
         /\ GrantFor(q, r, life).from = r.id
         /\ GrantFor(q, r, life).share \in {None, q.share}
         /\ Bound(GrantFor(q, r, life)) => GrantFor(q, r, life).task = r.task
<1> DEFINE l == IF r.need \in Sensitive THEN "once" ELSE life
           g == GrantFor(q, r, life)
<1>1. l \in Lifetimes BY DEF Lifetimes
<1>2. g = [covers |-> {r.need}, life |-> l,
           task |-> IF l \in {"once", "task"} THEN r.task ELSE None,
           share |-> IF r.need \in Shared THEN q.share ELSE None,
           from |-> r.id, at |-> LastPlace(q) + 1]
  BY DEF GrantFor
<1> HIDE DEF l, g
<1>3. r.need \in Need /\ r.task \in Ids /\ r.id \in Ids BY DEF Request
<1>4. q.share \in Ids /\ None \in Ids BY NeedAssumption DEF QueueType, Ids, None
<1>5. LastPlace(q) + 1 \in Nat BY LastPlaceOK
<1>6. g \in Grant BY <1>1, <1>2, <1>3, <1>4, <1>5 DEF Grant
<1> QED BY <1>2, <1>6 DEF Bound, g

(* A decision turns a request into a grant.                                *)
LEMMA ApproveOK ==
  ASSUME NEW q, NEW u, QueueOK(q, u), NEW r \in q.pending, NEW life \in Lifetimes
  PROVE  LET p == Approve(q, r.id, life)
         IN  /\ QueueOK(p, u)
             /\ p.next = q.next /\ p.share = q.share
             /\ p.pending = {s \in q.pending : s.id # r.id}
             /\ \E g : /\ p.grants = q.grants \cup {g} /\ g.share \in {None, q.share}
                       /\ Bound(g) => g.task = r.task
<1> DEFINE p == Approve(q, r.id, life)
           d == Drop(q, r.id)
           g == GrantFor(q, r, life)
<1>1. q \in QueueType /\ Placed(q) /\ r \in Request BY DEF QueueOK, QueueType
<1>2. RequestOf(q, r.id) = r BY DEF RequestOf, QueueOK, RequestsOK
<1>3. p = Push(d, g) BY <1>2 DEF Approve
<1>4. /\ QueueOK(d, u) /\ d.next = q.next /\ d.share = q.share /\ d.grants = q.grants
      /\ d.pending = {s \in q.pending : s.id # r.id}
  BY DropOK
<1>5. /\ g \in Grant /\ g.from = r.id /\ g.share \in {None, q.share}
      /\ Bound(g) => g.task = r.task
  BY <1>1, GrantForType
<1>6. d \in QueueType /\ Placed(d) BY <1>4 DEF QueueOK
<1> HIDE DEF p, d, g
<1>7. /\ p \in QueueType /\ Placed(p) /\ p.next = d.next /\ p.share = d.share
      /\ p.pending = d.pending /\ p.grants = d.grants \cup {g}
  BY <1>3, <1>5, <1>6, PushOK
<1>8. Past(p) = Past(q) /\ Past(d) = Past(q) BY <1>4, <1>7 DEF Past
<1>9. RequestsOK(p, u) BY <1>4, <1>7, <1>8 DEF RequestsOK, QueueOK
<1>10. r.id \in Past(q) /\ r.id \notin u /\ r.task # None
  BY DEF QueueOK, RequestsOK
<1>11. \A h \in q.grants : h.life = "once" => h.from # r.id BY DEF QueueOK, GrantsOK
<1>12. GrantsOK(p, u)
  <2>1. \A h \in p.grants : Bound(h) => h.task # None
    BY <1>4, <1>5, <1>7, <1>10 DEF QueueOK, GrantsOK
  <2>2. \A h \in p.grants : h.life = "once" =>
          /\ h.from \in Past(p) /\ h.from \notin u
          /\ \A s \in p.pending : s.id # h.from
    BY <1>4, <1>5, <1>7, <1>8, <1>10 DEF QueueOK, GrantsOK
  <2>3. \A h, i \in p.grants :
          h.life = "once" /\ i.life = "once" /\ h.from = i.from => h = i
    BY <1>4, <1>5, <1>7, <1>11 DEF QueueOK, GrantsOK
  <2> QED BY <2>1, <2>2, <2>3 DEF GrantsOK
<1>13. QueueOK(p, u) BY <1>4, <1>7, <1>8, <1>9, <1>12 DEF QueueOK
<1> QED BY <1>4, <1>5, <1>7, <1>13 DEF p

(* A grant without a request is bound to nothing.                          *)
LEMMA GrantDirectOK ==
  ASSUME NEW q, NEW u, QueueOK(q, u), NEW covers \in SUBSET Need
  PROVE  LET p == GrantDirect(q, covers, "standing")
         IN  /\ QueueOK(p, u) /\ p.next = q.next /\ p.pending = q.pending
             /\ \A h \in p.grants : Bound(h) => h \in q.grants
<1> DEFINE g == [covers |-> covers, life |-> "standing", task |-> None, share |-> None,
                 from |-> None, at |-> LastPlace(q) + 1]
           p == GrantDirect(q, covers, "standing")
<1>1. q \in QueueType /\ Placed(q) BY DEF QueueOK
<1>2. g \in Grant
  BY <1>1, LastPlaceOK, NeedAssumption DEF Grant, Lifetimes, Ids, None
<1>3. p = Push(q, g) /\ ~Bound(g) /\ g.life # "once" BY DEF GrantDirect, Bound
<1> HIDE DEF p, g
<1>4. /\ p \in QueueType /\ Placed(p) /\ p.next = q.next
      /\ p.pending = q.pending /\ p.grants = q.grants \cup {g}
  BY <1>1, <1>2, <1>3, PushOK
<1>5. Past(p) = Past(q) BY <1>4 DEF Past
<1>6. RequestsOK(p, u) BY <1>4, <1>5 DEF RequestsOK, QueueOK
<1>7. GrantsOK(p, u) BY <1>3, <1>4, <1>5 DEF GrantsOK, QueueOK
<1> QED BY <1>3, <1>4, <1>5, <1>6, <1>7 DEF QueueOK, p

(* The first of the matching grants is one of them.                        *)
LEMMA FirstMatches ==
  ASSUME NEW q \in QueueType, NEW need, NEW task, CanConsume(q, need, task)
  PROVE  FirstMatch(q, need, task) \in Matches(q, need, task)
<1> DEFINE M == Matches(q, need, task)
           T == {g.at : g \in M}
<1>1. M # {} /\ M \subseteq Grant BY DEF CanConsume, Matches, QueueType
<1>2. T \in SUBSET Nat /\ T # {} BY <1>1 DEF Grant
<1> HIDE DEF M
<1>3. PICK n \in T : \A k \in T : n <= k
  <2> HIDE DEF T
  <2> QED BY <1>2, LeastNatural
<1>4. PICK g \in M : g.at = n BY <1>3
<1>5. \A h \in M : g.at <= h.at BY <1>3, <1>4
<1> QED BY <1>4, <1>5 DEF FirstMatch, M

(* A commit uses the first grant that matches, and uses a one-use grant up. *)
LEMMA ConsumeOK ==
  ASSUME NEW q, NEW u, QueueOK(q, u), NEW need, NEW task, CanConsume(q, need, task),
         NEW g, g = FirstMatch(q, need, task), NEW p, p = Consume(q, need, task)
  PROVE  /\ g \in q.grants /\ IsActive(q, g, task)
         /\ QueueOK(p, IF g.life = "once" THEN u \cup {g.from} ELSE u)
         /\ p.next = q.next /\ p.pending = q.pending /\ p.grants \subseteq q.grants
<1>1. q \in QueueType BY DEF QueueOK
<1>2. g \in q.grants /\ IsActive(q, g, task) BY <1>1, FirstMatches DEF Matches
<1>3. CASE g.life # "once"
  <2>1. p = q BY <1>3 DEF Consume
  <2> QED BY <1>2, <1>3, <2>1
<1>4. CASE g.life = "once"
  <2>1. p = Revoke(q, {g}) BY <1>4 DEF Consume
  <2>2. /\ QueueOK(p, u) /\ p.next = q.next /\ p.pending = q.pending
        /\ p.grants = q.grants \ {g}
    BY <2>1, RevokeOK
  <2>3. g.from \in Past(p) /\ Past(p) = Past(q) BY <1>2, <1>4, <2>2 DEF QueueOK, GrantsOK, Past
  <2>4. RequestsOK(p, u \cup {g.from}) BY <1>2, <1>4, <2>2 DEF QueueOK, GrantsOK, RequestsOK
  <2>5. GrantsOK(p, u \cup {g.from}) BY <1>2, <1>4, <2>2 DEF QueueOK, GrantsOK
  <2>6. QueueOK(p, u \cup {g.from}) BY <2>2, <2>3, <2>4, <2>5 DEF QueueOK
  <2> QED BY <1>2, <1>4, <2>2, <2>6
<1> QED BY <1>3, <1>4
=============================================================================
