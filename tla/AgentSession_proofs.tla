------------------------ MODULE AgentSession_proofs ------------------------
(***************************************************************************)
(* Theorems about the agent session, for every bound on generations and    *)
(* approvals and whatever the user's thread and the superseded workers do  *)
(* in between.                                                             *)
(*                                                                         *)
(* A superseded worker notices late, if at all.  What makes it harmless is *)
(* bookkeeping that no single lock protects: at most one worker holds a    *)
(* task; the stored handle is the current generation's; a request names a  *)
(* task that is held by nobody until it is decided; and once the end of a  *)
(* superseded task has reached the queue nothing there is bound to it.     *)
(***************************************************************************)
EXTENDS AgentSession, ApprovalQueue_proofs, FiniteSetTheorems

(* What may be left of a user's and a worker's list: before the request,   *)
(* before the suspension, before the handle is given up, and after.        *)
UserTodos == {<<>>, <<"end", "spawn">>, <<"spawn">>, <<"end">>, <<"wake">>, <<"peek">>, <<"withdraw">>}
Unasked == {<<"submit?", "submit", "suspend", "clear", "tell?", "tell", "clear">>,
            <<"submit", "suspend", "clear", "tell?", "tell", "clear">>}
Unsuspended == Unasked \cup {<<"suspend", "clear", "tell?", "tell", "clear">>}
Uncleared == Unsuspended \cup
  {<<"end?", "end", "clear", "tell?", "tell", "clear">>,
   <<"end", "clear", "tell?", "tell", "clear">>, <<"clear", "tell?", "tell", "clear">>,
   <<"clear", "end?", "end", "tell?", "tell">>}
Cleared == {<<"tell?", "tell", "clear">>, <<"tell", "clear">>, <<"clear">>,
            <<"end?", "end", "tell?", "tell">>, <<"end", "tell?", "tell">>,
            <<"tell?", "tell">>, <<"tell">>}
WorkTodos == {<<>>} \cup Uncleared \cup Cleared

-----------------------------------------------------------------------------
(* Where a worker is: in its tool loop, before the end of the task it      *)
(* holds, before its request, before it gives up the stored handle.        *)
Looping(w) == w.at \in {"run", "ready", "tool"}
Holding(w) == Looping(w) \/ w.todo \in Unsuspended
Asking(w) == Looping(w) \/ w.todo \in Unasked
Attached(w) == Looping(w) \/ w.todo \in Uncleared

SpawnPending == user.todo \in {<<"end", "spawn">>, <<"spawn">>}
EndPending(t) == user.todo \in {<<"end", "spawn">>, <<"end">>} /\ user.task = t

StateShape == [gen : 0 .. MaxGen, running : 0 .. MaxGen, task : Ids,
               suspended : [request : Ids, task : Ids]]
UserShape == [todo : UserTodos, task : Ids, request : Ids]
WorkerShape == [at : {"off", "run", "ready", "tool", "tail", "over"}, task : Ids,
                need : Need \cup {NoNeed}, calls : 0 .. MaxCalls, request : Ids,
                todo : WorkTodos]

SessionShape ==
  /\ state \in StateShape /\ autonomous \in BOOLEAN /\ user \in UserShape
  /\ worker \in [Gens -> WorkerShape]
  /\ \A g \in Gens : worker[g].at = "tail" <=> worker[g].todo # <<>>
  /\ \A g \in Gens : worker[g].todo \in Unasked => worker[g].need \in Need
  /\ answered \subseteq Gens

(* A decision or a switch leaves room for the generation it may start.     *)
UserInv ==
  /\ user.todo = <<"wake">> => user.request # None
  /\ user.todo \in {<<"wake">>, <<"peek">>, <<"withdraw">>} => state.gen < MaxGen

(* A generation starts one worker, and the current one works on the        *)
(* current task.                                                           *)
GenInv ==
  /\ \A g \in Gens : g > state.gen \/ worker[g].at = "off" => worker[g] = NoWorker
  /\ \A g \in Gens : worker[g].at # "off" => worker[g].task \in 1 .. g
  /\ \A g \in Gens : g = state.gen /\ worker[g].at # "off" => worker[g].task = state.task
  /\ state.task <= state.gen
  /\ SpawnPending =>
       /\ state.gen # 0 /\ state.task # None /\ worker[state.gen] = NoWorker
       /\ state.running = 0 /\ state.suspended = NotSuspended

(* One worker at a time holds a task, none while it is suspended or about  *)
(* to be taken up.                                                         *)
HolderInv ==
  /\ \A g, h \in Gens :
       Holding(worker[g]) /\ Holding(worker[h]) /\ worker[g].task = worker[h].task => g = h
  /\ state.suspended # NotSuspended =>
       /\ state.suspended.task = state.task /\ state.task # None
       /\ \A g \in Gens : Holding(worker[g]) => worker[g].task # state.task
  /\ SpawnPending => \A g \in Gens : Holding(worker[g]) => worker[g].task # state.task

(* The stored handle is that of the current worker, that has not given it  *)
(* up yet.                                                                 *)
HandleInv ==
  state.running # 0 => state.running = state.gen /\ Attached(worker[state.gen])

(* Every worker asks once, which bounds the ids of the requests.           *)
Askers == {g \in Gens : worker[g].request # None}
CountInv ==
  /\ \A g \in Gens : Asking(worker[g]) => worker[g].request = None
  /\ queue.next = 1 + Cardinality(Askers)

(* A task is dead when it is not the session's and its end has reached the *)
(* queue: whatever worker still runs for it, nothing is granted to it and  *)
(* nothing that it asked for can be.                                       *)
Dead(t) == t # state.task /\ ~EndPending(t)
DeadInv ==
  \A g \in Gens : Looping(worker[g]) /\ Dead(worker[g].task) =>
    /\ \A r \in queue.pending : r.task # worker[g].task
    /\ \A a \in queue.grants : Bound(a) => a.task # worker[g].task

SessionInv ==
  /\ SessionShape /\ QueueOK(queue, used) /\ UserInv
  /\ GenInv /\ HolderInv /\ HandleInv /\ CountInv /\ DeadInv

-----------------------------------------------------------------------------
(* What is left of a worker's list when it takes a step, or leaves out the *)
(* step behind a look at the generation.                                   *)
LEMMA WorkTodoSteps ==
  ASSUME NEW t \in WorkTodos, t # <<>>
  PROVE  /\ Tail(t) \in WorkTodos
         /\ Tail(t) \in Unasked => t \in Unasked
         /\ Tail(t) \in Unsuspended => t \in Unsuspended
         /\ t \in Uncleared /\ Head(t) # "clear" => Tail(t) \in Uncleared
         /\ Head(t) \in {"end?", "tell?"} =>
              /\ Tail(t) # <<>>
              /\ Tail(Tail(t)) \in WorkTodos /\ Tail(Tail(t)) \notin Unsuspended
         /\ Head(t) = "submit" =>
              /\ t \in Unasked /\ Tail(t) # <<>>
              /\ Tail(t) \in Unsuspended /\ Tail(t) \notin Unasked
         /\ Head(t) = "suspend" => t \in Unsuspended /\ Tail(t) \notin Unsuspended
         /\ Head(t) = "tell" => t \notin Uncleared
<1> USE DEF WorkTodos, Cleared, Uncleared, Unsuspended, Unasked
<1>1. CASE t = <<"submit?", "submit", "suspend", "clear", "tell?", "tell", "clear">> BY <1>1
<1>2. CASE t = <<"submit", "suspend", "clear", "tell?", "tell", "clear">> BY <1>2
<1>3. CASE t = <<"suspend", "clear", "tell?", "tell", "clear">> BY <1>3
<1>4. CASE t = <<"end?", "end", "clear", "tell?", "tell", "clear">> BY <1>4
<1>5. CASE t = <<"end", "clear", "tell?", "tell", "clear">> BY <1>5
<1>6. CASE t = <<"clear", "tell?", "tell", "clear">> BY <1>6
<1>7. CASE t = <<"clear", "end?", "end", "tell?", "tell">> BY <1>7
<1>8. CASE t = <<"tell?", "tell", "clear">> BY <1>8
<1>9. CASE t = <<"tell", "clear">> BY <1>9
<1>10. CASE t = <<"clear">> BY <1>10
<1>11. CASE t = <<"end?", "end", "tell?", "tell">> BY <1>11
<1>12. CASE t = <<"end", "tell?", "tell">> BY <1>12
<1>13. CASE t = <<"tell?", "tell">> BY <1>13
<1>14. CASE t = <<"tell">> BY <1>14
<1> QED BY <1>1, <1>2, <1>3, <1>4, <1>5, <1>6, <1>7, <1>8, <1>9, <1>10, <1>11, <1>12, <1>13, <1>14

(* What follows in a worker's list.                                        *)
LEMMA RestTodos ==
  ASSUME NEW out \in {"done", "fail", "panic", "ask"}
  PROVE  /\ Rest(out) \in Uncleared /\ Rest(out) # <<>>
         /\ out # "ask" => Rest(out) \notin Unasked
<1> QED BY DEF Rest, Uncleared, Unsuspended, Unasked

(* A worker without a list has neither asked nor cleared.                  *)
LEMMA EmptyTodo == <<>> \notin Unasked /\ <<>> \notin Uncleared
<1> QED BY DEF Unasked, Unsuspended, Uncleared

(* The lists of the workers are lists of steps.                            *)
LEMMA WorkTodoType ==
  WorkTodos \subseteq Seq({"end?", "end", "clear", "tell?", "tell", "submit?", "submit", "suspend"})
<1> QED BY DEF WorkTodos, Cleared, Uncleared, Unsuspended, Unasked

(* What follows in the user's list.                                        *)
LEMMA UserSteps ==
  ASSUME user.todo \in UserTodos
  PROVE  /\ UserAt("end") => user.todo \in {<<"end", "spawn">>, <<"end">>}
         /\ UserAt("spawn") => user.todo = <<"spawn">>
         /\ UserAt("wake") => user.todo = <<"wake">>
         /\ UserAt("peek") => user.todo = <<"peek">>
         /\ UserAt("withdraw") => user.todo = <<"withdraw">>
<1> QED BY DEF UserAt, UserTodos

(* The user's lists with one step left are told apart by it.               *)
LEMMA UserTodosApart ==
  /\ <<>> \notin {<<"end", "spawn">>, <<"spawn">>, <<"end">>, <<"wake">>, <<"peek">>, <<"withdraw">>}
  /\ <<"end">> \notin {<<"end", "spawn">>, <<"spawn">>, <<"wake">>, <<"peek">>, <<"withdraw">>}
  /\ <<"spawn">> \notin {<<"end", "spawn">>, <<"wake">>, <<"peek">>, <<"withdraw">>}
  /\ <<"end", "spawn">> \notin {<<"wake">>, <<"peek">>, <<"withdraw">>}
<1> QED OBVIOUS

(* Ids are naturals and there are more of them than generations.           *)
LEMMA IdsFacts ==
  /\ MaxId \in Nat /\ MaxGen \in Nat /\ MaxGen # 0 /\ MaxGen <= MaxId /\ MaxCalls \in Nat
  /\ None = 0 /\ None \in Ids /\ Gens = 1 .. MaxGen /\ Ids = 0 .. MaxId
<1> QED BY NeedAssumption, SessionAssumption DEF None, Ids, Gens

(* A worker goes on with its list: it never goes back.                     *)
Moves(v, w) ==
  /\ w \in WorkerShape /\ (w.at = "tail" <=> w.todo # <<>>)
  /\ w.todo \in Unasked => w.need \in Need
  /\ w.at # "off" /\ v.at # "off" /\ w.task = v.task /\ w.request = v.request
  /\ Looping(w) => Looping(v)
  /\ Holding(w) => Holding(v)
  /\ Asking(w) => Asking(v)

QueueShrinks ==
  /\ QueueOK(queue', used') /\ queue'.next = queue.next
  /\ queue'.pending \subseteq queue.pending
  /\ \A a \in queue'.grants : Bound(a) => a \in queue.grants

(* What holds after any step of a worker: the shapes, and that the current *)
(* one works on the current task.                                          *)
LEMMA GenMoves ==
  ASSUME SessionInv, NEW g \in Gens, NEW w \in WorkerShape, w.at = "tail" <=> w.todo # <<>>,
         w.todo \in Unasked => w.need \in Need, w.at # "off", worker[g].at # "off", w.task = worker[g].task,
         worker' = [worker EXCEPT ![g] = w],
         state' \in StateShape, state'.gen = state.gen, state'.task = state.task,
         SpawnPending => state'.running = state.running /\ state'.suspended = state.suspended,
         UNCHANGED <<autonomous, user>>, answered' \subseteq Gens
  PROVE  /\ SessionShape' /\ UserInv' /\ GenInv'
         /\ worker'[g] = w /\ \A h \in Gens : h # g => worker'[h] = worker[h]
<1> USE DEF SessionInv
<1>1. /\ worker'[g] = w /\ \A h \in Gens : h # g => worker'[h] = worker[h]
  BY DEF SessionShape
<1>2. SessionShape'
  <2>1. worker' \in [Gens -> WorkerShape] BY DEF SessionShape
  <2>2. \A h \in Gens : worker'[h].at = "tail" <=> worker'[h].todo # <<>>
    BY <1>1 DEF SessionShape
  <2>3. \A h \in Gens : worker'[h].todo \in Unasked => worker'[h].need \in Need
    BY <1>1 DEF SessionShape
  <2> QED BY <2>1, <2>2, <2>3 DEF SessionShape
<1>3. UserInv' BY DEF UserInv
<1>4. GenInv'
  <2>1. \A h \in Gens : h > state.gen \/ worker[h].at = "off" => h # g
    BY DEF GenInv, NoWorker
  <2>2. SpawnPending => state.gen # g
    BY DEF GenInv, NoWorker
  <2>3. SpawnPending' <=> SpawnPending BY DEF SpawnPending
  <2>4. SpawnPending => state.gen \in Gens BY IdsFacts DEF GenInv, SessionShape, StateShape
  <2>5. \A h \in Gens : h > state'.gen \/ worker'[h].at = "off" => worker'[h] = NoWorker
    BY <1>1, <2>1 DEF GenInv
  <2>6. \A h \in Gens : worker'[h].at # "off" => worker'[h].task \in 1 .. h
    BY <1>1 DEF GenInv
  <2>7. \A h \in Gens : h = state'.gen /\ worker'[h].at # "off" => worker'[h].task = state'.task
    BY <1>1 DEF GenInv
  <2>8. SpawnPending' =>
          /\ state'.gen # 0 /\ state'.task # None /\ worker'[state'.gen] = NoWorker
          /\ state'.running = 0 /\ state'.suspended = NotSuspended
    BY <1>1, <2>2, <2>3, <2>4 DEF GenInv
  <2> QED BY <2>5, <2>6, <2>7, <2>8 DEF GenInv
<1> QED BY <1>1, <1>2, <1>3, <1>4

(* A step of a worker that is not its request or its suspension.           *)
LEMMA WorkerMoves ==
  ASSUME SessionInv, NEW g \in Gens, NEW w, Moves(worker[g], w),
         worker' = [worker EXCEPT ![g] = w],
         state' \in StateShape, state'.gen = state.gen, state'.task = state.task,
         state'.suspended = state.suspended,
         SpawnPending => state'.running = state.running,
         HandleInv', QueueShrinks, UNCHANGED <<autonomous, user>>, answered' \subseteq Gens
  PROVE  SessionInv'
<1> USE DEF SessionInv
<1>1. /\ SessionShape' /\ UserInv' /\ GenInv'
      /\ worker'[g] = w /\ \A h \in Gens : h # g => worker'[h] = worker[h]
  BY GenMoves DEF Moves
<1>3. QueueOK(queue, used)' BY DEF QueueShrinks
<1>7. \A h \in Gens : /\ worker'[h].task = worker[h].task
                      /\ worker'[h].request = worker[h].request
                      /\ Looping(worker'[h]) => Looping(worker[h])
                      /\ Holding(worker'[h]) => Holding(worker[h])
                      /\ Asking(worker'[h]) => Asking(worker[h])
  BY <1>1 DEF Moves
<1>8. HolderInv' BY <1>7 DEF HolderInv, SpawnPending
<1>9. CountInv'
  <2>1. Askers' = Askers BY <1>7 DEF Askers
  <2> QED BY <1>7, <2>1 DEF CountInv, QueueShrinks
<1>10. DeadInv' BY <1>7 DEF DeadInv, Dead, EndPending, QueueShrinks
<1> QED BY <1>1, <1>3, <1>8, <1>9, <1>10

(* A step of the user's thread that leaves the session's state alone.      *)
LEMMA UserMoves ==
  ASSUME SessionInv, UNCHANGED <<state, worker, answered, used>>, autonomous' \in BOOLEAN,
         user' \in UserShape, UserInv', SpawnPending' => SpawnPending,
         QueueOK(queue', used), queue'.next = queue.next, DeadInv'
  PROVE  SessionInv'
<1> USE DEF SessionInv
<1>1. SessionShape' BY DEF SessionShape
<1>2. GenInv' BY DEF GenInv
<1>3. HolderInv' BY DEF HolderInv
<1>4. HandleInv' BY DEF HandleInv
<1>5. CountInv' BY DEF CountInv, Askers
<1> QED BY <1>1, <1>2, <1>3, <1>4, <1>5

-----------------------------------------------------------------------------
(* The user's calls.                                                       *)

(* The invariant holds in an idle session.                                 *)
LEMMA InitOK == SessionInit => SessionInv
<1> SUFFICES ASSUME SessionInit PROVE SessionInv OBVIOUS
<1> USE IdsFacts DEF SessionInit
<1>1. SessionShape
  <2>1. NoWorker \in WorkerShape BY DEF NoWorker, WorkerShape, WorkTodos
  <2>2. NoUserCall \in UserShape BY DEF NoUserCall, UserShape, UserTodos
  <2>3. state \in StateShape BY DEF StateShape, NotSuspended
  <2>4. \A g \in Gens : worker[g] = NoWorker OBVIOUS
  <2> QED BY <2>1, <2>2, <2>3, <2>4, EmptyTodo DEF SessionShape, NoWorker
<1>2. QueueOK(queue, used) BY EmptyQueueOK
<1>3. \A g \in Gens : worker[g] = NoWorker OBVIOUS
<1>4. user.todo = <<>> BY DEF NoUserCall
<1>5. ~SpawnPending BY <1>4 DEF SpawnPending
<1>6. UserInv BY <1>4 DEF UserInv
<1>7. GenInv BY <1>3, <1>5 DEF GenInv, NoWorker
<1>8. \A g \in Gens : ~Holding(worker[g]) /\ ~Looping(worker[g])
  BY <1>3 DEF Holding, Looping, NoWorker, Unsuspended, Unasked
<1>9. HolderInv BY <1>5, <1>8 DEF HolderInv
<1>10. HandleInv BY DEF HandleInv
<1>11. CountInv
  <2>1. Askers = {} BY <1>3 DEF Askers, NoWorker
  <2> QED BY <1>3, <2>1, FS_EmptySet DEF CountInv, NoWorker, EmptyQueue
<1>12. DeadInv BY <1>8 DEF DeadInv
<1> QED BY <1>1, <1>2, <1>6, <1>7, <1>9, <1>10, <1>11, <1>12 DEF SessionInv

(* A fresh generation takes the place of the current one.                  *)
LEMMA FreshGeneration ==
  ASSUME SessionInv, UNCHANGED <<queue, autonomous, worker, answered, used>>,
         state.gen < MaxGen, user' \in UserShape, UserInv',
         NEW t \in Ids, t <= state.gen + 1,
         state' = [gen |-> state.gen + 1, running |-> 0, task |-> t, suspended |-> NotSuspended],
         SpawnPending' => /\ t # None
                          /\ \A g \in Gens : Holding(worker[g]) => worker[g].task # t,
         \A g \in Gens : Looping(worker[g]) /\ Dead(worker[g].task)' => Dead(worker[g].task)
  PROVE  SessionInv'
<1> USE IdsFacts DEF SessionInv
<1>1. SessionShape' BY DEF SessionShape, StateShape, NotSuspended
<1>2. QueueOK(queue, used)' OBVIOUS
<1>3. state'.gen \in Gens /\ worker[state'.gen] = NoWorker
  BY DEF SessionShape, StateShape, GenInv
<1>4. GenInv'
  <2>1. \A g \in Gens : g > state'.gen \/ worker[g].at = "off" => worker[g] = NoWorker
    BY DEF GenInv, SessionShape, StateShape
  <2>2. \A g \in Gens : g = state'.gen => worker[g].at = "off" BY <1>3 DEF NoWorker
  <2> QED BY <1>3, <2>1, <2>2 DEF GenInv
<1>5. HolderInv' BY DEF HolderInv
<1>6. HandleInv' BY DEF HandleInv
<1>7. CountInv' BY DEF CountInv, Askers
<1>8. DeadInv' BY DEF DeadInv
<1> QED BY <1>1, <1>2, <1>4, <1>5, <1>6, <1>7, <1>8

(* A message: the turn that runs or waits is superseded.                   *)
LEMMA SendOK == ASSUME SessionInv, Send PROVE SessionInv'
<1> USE IdsFacts DEF SessionInv
<1> DEFINE t == state.gen + 1
<1>1. /\ user.todo = <<>> /\ state.gen < MaxGen /\ state.gen \in Nat /\ state.task \in Ids
      /\ user' = [todo |-> AfterSend, task |-> state.task, request |-> None]
      /\ state' = [gen |-> t, running |-> 0, task |-> t, suspended |-> NotSuspended]
      /\ UNCHANGED <<queue, autonomous, worker, answered, used>>
  BY DEF Send, UserIdle, UserDoes, SessionShape, StateShape
<1>2. user' \in UserShape BY <1>1 DEF UserShape, AfterSend, UserTodos
<1>3. UserInv' BY <1>1 DEF UserInv, AfterSend
<1>4. \A g \in Gens : worker[g].task # t
  <2> SUFFICES ASSUME NEW g \in Gens PROVE worker[g].task # t OBVIOUS
  <2>1. CASE worker[g].at = "off" BY <1>1, <2>1 DEF GenInv, NoWorker
  <2>2. CASE worker[g].at # "off" /\ g <= state.gen BY <1>1, <2>2 DEF GenInv
  <2>3. CASE worker[g].at # "off" /\ ~(g <= state.gen) BY <1>1, <2>3 DEF GenInv, NoWorker
  <2> QED BY <2>1, <2>2, <2>3
<1>5. \A g \in Gens : Looping(worker[g]) /\ Dead(worker[g].task)' => Dead(worker[g].task)
  <2> SUFFICES ASSUME NEW g \in Gens, Looping(worker[g]), Dead(worker[g].task)'
               PROVE  worker[g].task # state.task
    BY <1>1 DEF Dead, EndPending
  <2>1. worker[g].task # None BY DEF GenInv, Looping
  <2>2. CASE state.task = None BY <2>1, <2>2
  <2>3. CASE state.task # None BY <1>1, <2>3 DEF Dead, EndPending, AfterSend
  <2> QED BY <2>2, <2>3
<1>6. t \in Ids /\ t # None BY <1>1
<1> HIDE DEF t
<1> QED BY <1>1, <1>2, <1>3, <1>4, <1>5, <1>6, FreshGeneration DEF t

(* A cancel supersedes the turn without starting one.                      *)
LEMMA CancelOK == ASSUME SessionInv, Cancel PROVE SessionInv'
<1> USE IdsFacts DEF SessionInv
<1>1. /\ user.todo = <<>> /\ state.gen < MaxGen /\ state.gen \in Nat /\ state.task \in Ids
      /\ state' = [gen |-> state.gen + 1, running |-> 0, task |-> None, suspended |-> NotSuspended]
      /\ UNCHANGED <<queue, autonomous, worker, answered, used>>
  BY DEF Cancel, UserIdle, SessionShape, StateShape
<1>2. \/ state.task # None /\ user' = [todo |-> <<"end">>, task |-> state.task, request |-> None]
      \/ state.task = None /\ user' = user
  BY DEF Cancel, UserDoes
<1>3. user' \in UserShape BY <1>1, <1>2 DEF UserShape, UserTodos, SessionShape
<1>4. user'.todo \in {<<>>, <<"end">>} BY <1>1, <1>2
<1>5. UserInv' /\ ~SpawnPending' BY <1>4, UserTodosApart DEF UserInv, SpawnPending
<1>6. \A g \in Gens : Looping(worker[g]) /\ Dead(worker[g].task)' => Dead(worker[g].task)
  <2> SUFFICES ASSUME NEW g \in Gens, Looping(worker[g]), Dead(worker[g].task)'
               PROVE  worker[g].task # state.task
    BY <1>1 DEF Dead, EndPending
  <2>1. worker[g].task # None BY DEF GenInv, Looping
  <2>2. CASE state.task = None BY <2>1, <2>2
  <2>3. CASE state.task # None BY <1>1, <1>2, <2>3 DEF Dead, EndPending
  <2> QED BY <2>2, <2>3
<1> QED BY <1>1, <1>3, <1>4, <1>5, <1>6, FreshGeneration

(* A resumed turn starts with the task of its request.                     *)
LEMMA WakeOK == ASSUME SessionInv, Wake PROVE SessionInv'
<1> USE IdsFacts DEF SessionInv
<1>1. /\ user.todo = <<"wake">> /\ user.request # None /\ state.gen < MaxGen
      /\ state.gen \in Nat /\ UNCHANGED <<queue, autonomous, worker, answered, used>>
  BY UserSteps DEF Wake, UserInv, SessionShape, StateShape, UserShape
<1>2. CASE state.suspended.request # user.request
  <2>1. user' = NoUserCall /\ state' = state BY <1>1, <1>2 DEF Wake, UserGoesOn
  <2>2. user' \in UserShape /\ UserInv' /\ ~SpawnPending'
    BY <2>1 DEF NoUserCall, UserShape, UserTodos, UserInv, SpawnPending
  <2>3. DeadInv' BY <1>1, <2>1 DEF DeadInv, Dead, EndPending
  <2> QED BY <1>1, <2>1, <2>2, <2>3, UserMoves DEF SessionShape
<1>3. CASE state.suspended.request = user.request
  <2> DEFINE t == state.suspended.task
  <2>1. /\ state' = [gen |-> state.gen + 1, running |-> 0, task |-> t, suspended |-> NotSuspended]
        /\ user' = [todo |-> <<"spawn">>, task |-> None, request |-> None]
    BY <1>3 DEF Wake, UserDoes
  <2>2. state.suspended # NotSuspended BY <1>1, <1>3 DEF NotSuspended
  <2>3. /\ t = state.task /\ t # None /\ t \in Ids /\ t <= state.gen
        /\ \A g \in Gens : Holding(worker[g]) => worker[g].task # t
    BY <2>2 DEF HolderInv, GenInv, SessionShape, StateShape
  <2>4. user' \in UserShape /\ UserInv'
    BY <2>1 DEF UserShape, UserTodos, UserInv
  <2>5. \A g \in Gens : Looping(worker[g]) /\ Dead(worker[g].task)' => Dead(worker[g].task)
    BY <1>1, <2>1, <2>3 DEF Dead, EndPending
  <2>6. t <= state.gen + 1 BY <1>1, <2>3
  <2> HIDE DEF t
  <2> QED BY <1>1, <2>1, <2>3, <2>4, <2>5, <2>6, FreshGeneration
<1> QED BY <1>2, <1>3

(* The user's calls and steps that leave the session's state alone.        *)
LEMMA EndOldTaskOK == ASSUME SessionInv, EndOldTask PROVE SessionInv'
<1> USE DEF SessionInv
<1>1. /\ user.todo \in {<<"end", "spawn">>, <<"end">>} /\ user \in UserShape
      /\ UNCHANGED <<state, autonomous, worker, answered, used>>
  BY UserSteps DEF EndOldTask, SessionShape, UserShape
<1>2. \/ user.todo = <<"end">> /\ user' = NoUserCall
      \/ user.todo = <<"end", "spawn">> /\ user' = [user EXCEPT !.todo = <<"spawn">>]
  BY <1>1 DEF EndOldTask, UserGoesOn
<1>3. user' \in UserShape /\ UserInv' /\ (SpawnPending' => SpawnPending)
  <2>1. CASE user.todo = <<"end">>
    BY <1>1, <1>2, <2>1, UserTodosApart, IdsFacts
    DEF NoUserCall, UserShape, UserTodos, UserInv, SpawnPending
  <2>2. CASE user.todo = <<"end", "spawn">>
    <3>1. user' = [user EXCEPT !.todo = <<"spawn">>] BY <1>2, <2>2, UserTodosApart
    <3> QED BY <1>1, <2>2, <3>1, UserTodosApart DEF UserShape, UserTodos, UserInv, SpawnPending
  <2> QED BY <1>1, <2>1, <2>2
<1>4. /\ QueueOK(queue', used) /\ queue'.next = queue.next
      /\ queue'.pending = {r \in queue.pending : r.task # user.task}
      /\ queue'.grants = {g \in queue.grants : ~(Bound(g) /\ g.task = user.task)}
  BY EndTaskOK DEF EndOldTask
<1>5. DeadInv' BY <1>1, <1>4 DEF DeadInv, Dead, EndPending
<1> QED BY <1>1, <1>3, <1>4, <1>5, UserMoves DEF SessionShape

(* A decision of the user takes the request out of the queue.              *)
LEMMA DecideOK == ASSUME SessionInv, Decide PROVE SessionInv'
<1> USE DEF SessionInv
<1>1. PICK r \in queue.pending :
        /\ \/ \E life \in Lifetimes : queue' = Approve(queue, r.id, life)
           \/ queue' = Deny(queue, r.id)
        /\ user' = [todo |-> <<"wake">>, task |-> None, request |-> r.id]
  BY DEF Decide, UserDoes
<1>2. /\ user.todo = <<>> /\ state.gen < MaxGen
      /\ UNCHANGED <<state, autonomous, worker, answered, used>>
  BY DEF Decide, UserIdle
<1>3. r.id \in Ids /\ r.id # None
  BY IdsFacts DEF QueueOK, QueueType, Request, RequestsOK, Past
<1>4. user' \in UserShape /\ UserInv' /\ ~SpawnPending'
  BY <1>1, <1>2, <1>3, IdsFacts DEF UserShape, UserTodos, UserInv, SpawnPending
<1>5. /\ QueueOK(queue', used) /\ queue'.next = queue.next
      /\ queue'.pending \subseteq queue.pending
      /\ \A g \in queue'.grants : g \in queue.grants \/ (Bound(g) => g.task = r.task)
  <2>1. ASSUME NEW life \in Lifetimes, queue' = Approve(queue, r.id, life) PROVE <1>5
    BY <2>1, ApproveOK
  <2>2. CASE queue' = Deny(queue, r.id) BY <2>2, DropOK DEF Deny
  <2> QED BY <1>1, <2>1, <2>2
<1>6. DeadInv' BY <1>1, <1>2, <1>5 DEF DeadInv, Dead, EndPending
<1> QED BY <1>2, <1>4, <1>5, <1>6, UserMoves DEF SessionShape

(* Another model or conversation supersedes the turn.                      *)
LEMMA SwitchOK == ASSUME SessionInv, Switch PROVE SessionInv'
<1> USE DEF SessionInv
<1>1. /\ user.todo = <<>> /\ state.gen < MaxGen /\ autonomous' \in BOOLEAN
      /\ UNCHANGED <<state, queue, worker, answered, used>>
      /\ user' = user \/ user' = [todo |-> <<"peek">>, task |-> None, request |-> None]
  BY DEF Switch, UserIdle, UserDoes, SessionShape
<1>2. user' \in UserShape /\ UserInv' /\ ~SpawnPending'
  <2>1. CASE user' = user
    <3>1. user \in UserShape /\ UserInv' BY <1>1, <2>1 DEF SessionShape, UserInv
    <3>2. ~SpawnPending' BY <1>1, <2>1, UserTodosApart DEF SpawnPending
    <3> QED BY <2>1, <3>1, <3>2
  <2>2. CASE user' = [todo |-> <<"peek">>, task |-> None, request |-> None]
    <3>1. user' \in UserShape /\ ~SpawnPending'
      BY <2>2, IdsFacts DEF UserShape, UserTodos, SpawnPending
    <3>2. UserInv' BY <1>1, <2>2 DEF UserInv
    <3> QED BY <3>1, <3>2
  <2> QED BY <1>1, <2>1, <2>2
<1>3. DeadInv' BY <1>1 DEF DeadInv, Dead, EndPending
<1> QED BY <1>1, <1>2, <1>3, UserMoves

(* The thread that withdraws a request looks for it first.                 *)
LEMMA PeekOK == ASSUME SessionInv, Peek PROVE SessionInv'
<1> USE DEF SessionInv
<1>1. /\ user.todo = <<"peek">> /\ UNCHANGED <<state, queue, autonomous, worker, answered, used>>
      /\ \/ user' = NoUserCall
         \/ user' = [todo |-> <<"withdraw">>, task |-> None, request |-> state.suspended.request]
  BY UserSteps DEF Peek, UserGoesOn, UserDoes, SessionShape, UserShape
<1>2. state.suspended.request \in Ids /\ state.gen < MaxGen
  BY <1>1 DEF SessionShape, StateShape, UserInv
<1>3. user' \in UserShape /\ UserInv' /\ ~SpawnPending'
  BY <1>1, <1>2, IdsFacts DEF NoUserCall, UserShape, UserTodos, UserInv, SpawnPending
<1>4. DeadInv' BY <1>1 DEF DeadInv, Dead, EndPending, NoUserCall
<1> QED BY <1>1, <1>3, <1>4, UserMoves DEF SessionShape

(* The withdrawal itself.                                                  *)
LEMMA WithdrawPendingOK == ASSUME SessionInv, WithdrawPending PROVE SessionInv'
<1> USE DEF SessionInv
<1>1. /\ user.todo = <<"withdraw">> /\ UNCHANGED <<state, autonomous, worker, answered, used>>
      /\ \/ user' = NoUserCall /\ queue' = queue
         \/ /\ InQueue(queue, user.request) /\ queue' = Drop(queue, user.request)
            /\ user' = [todo |-> <<"wake">>, task |-> None, request |-> user.request]
  BY UserSteps DEF WithdrawPending, Withdraw, UserGoesOn, UserDoes, SessionShape, UserShape
<1>2. InQueue(queue, user.request) => user.request # None
  BY IdsFacts DEF InQueue, QueueOK, RequestsOK, Past
<1>3. user.request \in Ids /\ state.gen < MaxGen
  BY <1>1 DEF SessionShape, UserShape, UserInv
<1>4. user' \in UserShape /\ UserInv' /\ ~SpawnPending'
  BY <1>1, <1>2, <1>3, IdsFacts DEF NoUserCall, UserShape, UserTodos, UserInv, SpawnPending
<1>5. /\ QueueOK(queue', used) /\ queue'.next = queue.next
      /\ queue'.pending \subseteq queue.pending /\ queue'.grants = queue.grants
  BY <1>1, DropOK
<1>6. DeadInv' BY <1>1, <1>5 DEF DeadInv, Dead, EndPending, NoUserCall
<1> QED BY <1>1, <1>4, <1>5, <1>6, UserMoves DEF SessionShape

(* The user grants a broad need without a request.                         *)
LEMMA GrantBroadOK == ASSUME SessionInv, GrantBroad PROVE SessionInv'
<1> USE DEF SessionInv
<1>1. /\ UNCHANGED <<state, autonomous, user, worker, answered, used>>
      /\ queue' = GrantDirect(queue, Broad, "standing")
  BY DEF GrantBroad
<1>2. /\ QueueOK(queue', used) /\ queue'.next = queue.next /\ queue'.pending = queue.pending
      /\ \A a \in queue'.grants : Bound(a) => a \in queue.grants
  BY <1>1, GrantDirectOK, NeedAssumption
<1>3. user' \in UserShape /\ UserInv' /\ (SpawnPending' => SpawnPending)
  BY <1>1 DEF UserInv, SpawnPending, SessionShape
<1>4. DeadInv' BY <1>1, <1>2 DEF DeadInv, Dead, EndPending
<1> QED BY <1>1, <1>2, <1>3, <1>4, UserMoves DEF SessionShape

(* The user revokes it.                                                    *)
LEMMA RevokeBroadOK == ASSUME SessionInv, RevokeBroad PROVE SessionInv'
<1> USE DEF SessionInv
<1>1. /\ UNCHANGED <<state, autonomous, user, worker, answered, used>>
      /\ queue' = RevokeWhere(queue, Broad)
  BY DEF RevokeBroad
<1>2. /\ QueueOK(queue', used) /\ queue'.next = queue.next /\ queue'.pending = queue.pending
      /\ queue'.grants \subseteq queue.grants
  BY <1>1, RevokeOK DEF RevokeWhere
<1>3. user' \in UserShape /\ UserInv' /\ (SpawnPending' => SpawnPending)
  BY <1>1 DEF UserInv, SpawnPending, SessionShape
<1>4. DeadInv' BY <1>1, <1>2 DEF DeadInv, Dead, EndPending
<1> QED BY <1>1, <1>2, <1>3, <1>4, UserMoves DEF SessionShape

(* A worker starts: the one that holds the session's task.                 *)
LEMMA SpawnOK == ASSUME SessionInv, Spawn PROVE SessionInv'
<1> USE IdsFacts DEF SessionInv
<1> DEFINE g == state.gen
           w == [NoWorker EXCEPT !.at = "run", !.task = state.task]
<1>1. /\ user.todo = <<"spawn">> /\ user' = NoUserCall
      /\ state' = [state EXCEPT !.running = g]
      /\ UNCHANGED <<queue, autonomous, answered, used>>
  BY UserSteps DEF Spawn, UserGoesOn, SessionShape, UserShape
<1>2. /\ g \in Gens /\ worker[g] = NoWorker /\ state.task # None
      /\ state.running = 0 /\ state.suspended = NotSuspended
      /\ \A h \in Gens : Holding(worker[h]) => worker[h].task # state.task
  BY <1>1 DEF GenInv, HolderInv, SpawnPending, SessionShape, StateShape
<1>3. worker' = [worker EXCEPT ![g] = w] BY DEF Spawn
<1>4. /\ w \in WorkerShape /\ w.at = "run" /\ w.task = state.task /\ w.request = None
      /\ w.todo = <<>>
  <2>1. /\ NoWorker \in WorkerShape /\ NoWorker.request = None /\ NoWorker.todo = <<>>
    BY DEF NoWorker, WorkerShape, WorkTodos
  <2>2. state.task \in Ids BY DEF SessionShape, StateShape
  <2> QED BY <2>1, <2>2 DEF WorkerShape
<1> HIDE DEF w
<1>5. worker'[g] = w /\ \A h \in Gens : h # g => worker'[h] = worker[h]
  BY <1>2, <1>3 DEF SessionShape
<1>6. user' \in UserShape /\ user'.todo = <<>>
  BY <1>1 DEF NoUserCall, UserShape, UserTodos
<1>7. ~SpawnPending' BY <1>6, UserTodosApart DEF SpawnPending
<1>8. /\ state' \in StateShape /\ state'.gen = g /\ state'.task = state.task
      /\ state'.running = g /\ state'.suspended = NotSuspended
  BY <1>1, <1>2 DEF SessionShape, StateShape
<1>9. SessionShape'
  <2>1. worker' \in [Gens -> WorkerShape] BY <1>3, <1>4 DEF SessionShape
  <2>2. \A h \in Gens : worker'[h].at = "tail" <=> worker'[h].todo # <<>>
    BY <1>4, <1>5 DEF SessionShape
  <2>3. \A h \in Gens : worker'[h].todo \in Unasked => worker'[h].need \in Need
    BY <1>4, <1>5, EmptyTodo DEF SessionShape
  <2> QED BY <1>1, <1>6, <1>8, <2>1, <2>2, <2>3 DEF SessionShape
<1>10. QueueOK(queue, used)' BY <1>1
<1>11. UserInv' BY <1>6, UserTodosApart DEF UserInv
<1>12. GenInv'
  <2>1. state.task \in 1 .. g BY <1>2 DEF GenInv, SessionShape, StateShape
  <2>2. \A h \in Gens : h > state'.gen \/ worker'[h].at = "off" => worker'[h] = NoWorker
    BY <1>2, <1>4, <1>5, <1>8 DEF GenInv
  <2>3. \A h \in Gens : worker'[h].at # "off" => worker'[h].task \in 1 .. h
    BY <1>4, <1>5, <2>1 DEF GenInv
  <2>4. \A h \in Gens : h = state'.gen /\ worker'[h].at # "off" => worker'[h].task = state'.task
    BY <1>4, <1>5, <1>8
  <2> QED BY <1>7, <1>8, <2>2, <2>3, <2>4 DEF GenInv
<1>13. HolderInv'
  <2>1. \A h \in Gens : h # g /\ Holding(worker'[h]) => worker'[h].task # worker'[g].task
    BY <1>2, <1>4, <1>5
  <2>2. \A h, k \in Gens :
          Holding(worker'[h]) /\ Holding(worker'[k]) /\ worker'[h].task = worker'[k].task => h = k
    BY <1>2, <1>5, <2>1 DEF HolderInv
  <2> QED BY <1>7, <1>8, <2>2 DEF HolderInv
<1>14. HandleInv' BY <1>4, <1>5, <1>2, <1>8 DEF HandleInv, Attached, Looping
<1>15. CountInv'
  <2>1. Askers' = Askers BY <1>2, <1>4, <1>5 DEF Askers, NoWorker
  <2> QED BY <1>1, <1>4, <1>5, <2>1 DEF CountInv
<1>16. DeadInv'
  <2> SUFFICES ASSUME NEW h \in Gens, Looping(worker'[h]), Dead(worker[h].task)'
               PROVE  /\ \A r \in queue.pending : r.task # worker'[h].task
                      /\ \A a \in queue.grants : Bound(a) => a.task # worker'[h].task
    BY <1>1 DEF DeadInv
  <2>1. h # g BY <1>4, <1>5, <1>8 DEF Dead
  <2>2. Dead(worker[h].task)
    <3>1. worker[h].task # state.task BY <1>5, <1>8, <2>1 DEF Dead
    <3> QED BY <1>1, <3>1, UserTodosApart DEF Dead, EndPending
  <2> QED BY <1>5, <2>1, <2>2 DEF DeadInv
<1> QED BY <1>9, <1>10, <1>11, <1>12, <1>13, <1>14, <1>15, <1>16

-----------------------------------------------------------------------------
(* The workers.                                                            *)

(* A worker that moves and lets the session's state alone, with the queue  *)
(* as it was or smaller.                                                   *)
LEMMA QuietMoves ==
  ASSUME SessionInv, NEW g \in Gens, NEW w, Moves(worker[g], w),
         worker' = [worker EXCEPT ![g] = w],
         Current(g) /\ Attached(worker[g]) => Attached(w),
         QueueShrinks, UNCHANGED <<state, autonomous, user>>, answered' \subseteq Gens
  PROVE  SessionInv'
<1> USE DEF SessionInv
<1>1. worker'[g] = w /\ \A h \in Gens : h # g => worker'[h] = worker[h]
  BY DEF SessionShape
<1>2. HandleInv'
  <2>1. state.running # 0 => state.gen \in Gens BY IdsFacts DEF HandleInv, SessionShape, StateShape
  <2> QED BY <1>1, <2>1 DEF HandleInv, Current
<1>3. state' \in StateShape BY DEF SessionShape
<1> QED BY <1>2, <1>3, WorkerMoves

(* A worker whose loop goes on or ends.                                    *)
LEMMA LoopMoves ==
  ASSUME SessionInv, NEW g \in Gens, Looping(worker[g]), NEW w \in WorkerShape,
         w.task = worker[g].task, w.request = worker[g].request,
         w.todo \in Unasked => w.need \in Need,
         \/ w.at \in {"run", "ready", "tool"} /\ w.todo = <<>>
         \/ w.at = "tail" /\ w.todo \in Uncleared /\ w.todo # <<>>
         \/ w.at = "over" /\ w.todo = <<>> /\ ~Current(g)
  PROVE  Moves(worker[g], w) /\ (Current(g) => Attached(w))
<1> QED BY DEF Moves, Looping, Holding, Asking, Attached

(* A queue that stays as it is stays in order.                             *)
LEMMA QueueSame ==
  ASSUME SessionInv, UNCHANGED <<queue, used>> PROVE QueueShrinks
<1> QED BY DEF SessionInv, QueueShrinks

(* A call is checked before it runs.                                       *)
LEMMA PreflightOK == ASSUME SessionInv, NEW g \in Gens, Preflight(g) PROVE SessionInv'
<1>1. PICK n \in Need :
        \/ worker' = [worker EXCEPT ![g] = [@ EXCEPT !.at = "ready", !.need = n, !.calls = worker[g].calls + 1]]
        \/ worker' = [worker EXCEPT ![g] = [@ EXCEPT !.at = "tail", !.need = n, !.todo = Rest("ask")]]
  BY DEF Preflight
<1>2. /\ worker[g].at = "run" /\ worker[g].calls < MaxCalls /\ worker[g] \in WorkerShape
      /\ worker[g].todo = <<>> /\ worker \in [Gens -> WorkerShape] /\ answered \subseteq Gens
      /\ UNCHANGED <<state, queue, autonomous, user, answered, used>>
  BY DEF Preflight, SessionInv, SessionShape
<1>3. CASE worker' = [worker EXCEPT ![g] = [@ EXCEPT !.at = "ready", !.need = n, !.calls = worker[g].calls + 1]]
  <2> DEFINE w == [worker[g] EXCEPT !.at = "ready", !.need = n, !.calls = worker[g].calls + 1]
  <2>1. /\ w \in WorkerShape /\ w.at = "ready" /\ w.todo = <<>>
        /\ w.task = worker[g].task /\ w.request = worker[g].request
    <3>1. worker[g].calls + 1 \in 0 .. MaxCalls BY <1>2, IdsFacts DEF WorkerShape
    <3> QED BY <1>2, <3>1 DEF WorkerShape
  <2>2. worker' = [worker EXCEPT ![g] = w] BY <1>2, <1>3
  <2> HIDE DEF w
  <2> QED BY <1>2, <2>1, <2>2, EmptyTodo, LoopMoves, QueueSame, QuietMoves DEF Looping
<1>4. CASE worker' = [worker EXCEPT ![g] = [@ EXCEPT !.at = "tail", !.need = n, !.todo = Rest("ask")]]
  <2> DEFINE w == [worker[g] EXCEPT !.at = "tail", !.need = n, !.todo = Rest("ask")]
  <2>1. Rest("ask") \in Uncleared /\ Rest("ask") # <<>> /\ Rest("ask") \in WorkTodos
    BY RestTodos DEF WorkTodos
  <2>2. /\ w \in WorkerShape /\ w.at = "tail" /\ w.todo = Rest("ask")
        /\ w.task = worker[g].task /\ w.request = worker[g].request /\ w.need = n
    BY <1>2, <2>1 DEF WorkerShape
  <2>3. worker' = [worker EXCEPT ![g] = w] BY <1>2, <1>4
  <2> HIDE DEF w
  <2> QED BY <1>2, <2>1, <2>2, <2>3, LoopMoves, QueueSame, QuietMoves DEF Looping
<1> QED BY <1>1, <1>3, <1>4

(* The commit: the loop goes on, and a one-use grant is used up.           *)
LEMMA CommitOK == ASSUME SessionInv, NEW g \in Gens, Commit(g) PROVE SessionInv'
<1>1. /\ worker[g].at = "ready" /\ worker[g] \in WorkerShape /\ worker[g].todo = <<>>
      /\ worker \in [Gens -> WorkerShape] /\ answered \subseteq Gens
      /\ UNCHANGED <<state, autonomous, user, answered>>
  BY DEF Commit, SessionInv, SessionShape
<1>2. PICK w \in WorkerShape :
        /\ worker' = [worker EXCEPT ![g] = w] /\ w.at \in {"run", "tool"} /\ w.todo = <<>>
        /\ w.task = worker[g].task /\ w.request = worker[g].request
  <2>1. CASE worker' = [worker EXCEPT ![g].at = "tool"]
    <3> DEFINE w == [worker[g] EXCEPT !.at = "tool"]
    <3>1. /\ w \in WorkerShape /\ w.at = "tool" /\ w.todo = <<>>
          /\ w.task = worker[g].task /\ w.request = worker[g].request
      BY <1>1 DEF WorkerShape
    <3>2. worker' = [worker EXCEPT ![g] = w] BY <1>1, <2>1
    <3> HIDE DEF w
    <3> QED BY <3>1, <3>2
  <2>2. CASE worker' = [worker EXCEPT ![g] = [@ EXCEPT !.at = "run", !.need = NoNeed]]
    <3> DEFINE w == [worker[g] EXCEPT !.at = "run", !.need = NoNeed]
    <3>1. /\ w \in WorkerShape /\ w.at = "run" /\ w.todo = <<>>
          /\ w.task = worker[g].task /\ w.request = worker[g].request
      BY <1>1 DEF WorkerShape
    <3>2. worker' = [worker EXCEPT ![g] = w] BY <1>1, <2>2
    <3> HIDE DEF w
    <3> QED BY <3>1, <3>2
  <2> QED BY <2>1, <2>2 DEF Commit
<1>3. QueueShrinks
  <2>1. CASE UNCHANGED <<queue, used>> BY <2>1, QueueSame
  <2>2. CASE /\ CanConsume(queue, worker[g].need, worker[g].task)
             /\ queue' = Consume(queue, worker[g].need, worker[g].task)
             /\ used' = used \cup OneUse(g)
    <3> DEFINE a == FirstMatch(queue, worker[g].need, worker[g].task)
    <3>1. used' = IF a.life = "once" THEN used \cup {a.from} ELSE used
      BY <2>2 DEF OneUse
    <3>2. QueueOK(queue, used) BY DEF SessionInv
    <3> HIDE DEF a
    <3>3. /\ QueueOK(queue', IF a.life = "once" THEN used \cup {a.from} ELSE used)
          /\ queue'.next = queue.next /\ queue'.pending = queue.pending
          /\ queue'.grants \subseteq queue.grants
      BY <2>2, <3>2, ConsumeOK DEF a
    <3> QED BY <3>1, <3>3 DEF QueueShrinks
  <2> QED BY <2>1, <2>2 DEF Commit
<1> QED BY <1>1, <1>2, <1>3, EmptyTodo, LoopMoves, QuietMoves DEF Looping

(* A tool returns and the loop goes on.                                    *)
LEMMA ToolReturnsOK == ASSUME SessionInv, NEW g \in Gens, ToolReturns(g) PROVE SessionInv'
<1> DEFINE w == [worker[g] EXCEPT !.at = "run", !.need = NoNeed]
<1>1. /\ worker[g].at = "tool" /\ worker[g] \in WorkerShape /\ worker[g].todo = <<>>
      /\ worker' = [worker EXCEPT ![g] = w] /\ answered \subseteq Gens
      /\ UNCHANGED <<state, queue, autonomous, user, answered, used>>
  BY DEF ToolReturns, SessionInv, SessionShape
<1>2. /\ w \in WorkerShape /\ w.at = "run" /\ w.todo = <<>>
      /\ w.task = worker[g].task /\ w.request = worker[g].request
  BY <1>1 DEF WorkerShape
<1> HIDE DEF w
<1> QED BY <1>1, <1>2, EmptyTodo, LoopMoves, QueueSame, QuietMoves DEF Looping

(* A loop ends, with or without a request.                                 *)
LEMMA LoopEndsOK == ASSUME SessionInv, NEW g \in Gens, LoopEnds(g) PROVE SessionInv'
<1>1. PICK out \in {"done", "fail", "panic"} : Outcome(g, out) BY DEF LoopEnds
<1> DEFINE w == [worker[g] EXCEPT !.at = "tail", !.todo = Rest(out)]
<1>2. /\ worker[g].at \in {"run", "tool"} /\ worker[g] \in WorkerShape /\ worker[g].todo = <<>>
      /\ worker' = [worker EXCEPT ![g] = w] /\ answered \subseteq Gens
      /\ UNCHANGED <<state, queue, autonomous, user, answered, used>>
  BY <1>1 DEF LoopEnds, Outcome, SessionInv, SessionShape
<1>3. /\ Rest(out) \in Uncleared /\ Rest(out) # <<>> /\ Rest(out) \in WorkTodos
      /\ Rest(out) \notin Unasked
  BY RestTodos DEF WorkTodos
<1>4. /\ w \in WorkerShape /\ w.at = "tail" /\ w.todo = Rest(out)
      /\ w.task = worker[g].task /\ w.request = worker[g].request
  BY <1>2, <1>3 DEF WorkerShape
<1> HIDE DEF w
<1> QED BY <1>2, <1>3, <1>4, LoopMoves, QueueSame, QuietMoves DEF Looping

(* A worker whose task was dropped stops.                                  *)
LEMMA AbortedOK == ASSUME SessionInv, NEW g \in Gens, Aborted(g) PROVE SessionInv'
<1> DEFINE w == [worker[g] EXCEPT !.at = "over", !.need = NoNeed]
<1>1. /\ Looping(worker[g]) /\ ~Current(g) /\ worker[g] \in WorkerShape
      /\ worker[g].todo = <<>> /\ worker' = [worker EXCEPT ![g] = w] /\ answered \subseteq Gens
      /\ UNCHANGED <<state, queue, autonomous, user, answered, used>>
  BY DEF Aborted, InLoop, Looping, SessionInv, SessionShape
<1>2. /\ w \in WorkerShape /\ w.at = "over" /\ w.todo = <<>>
      /\ w.task = worker[g].task /\ w.request = worker[g].request
  BY <1>1 DEF WorkerShape
<1> HIDE DEF w
<1> QED BY <1>1, <1>2, EmptyTodo, LoopMoves, QueueSame, QuietMoves

(* A worker in its tail drops the first steps of its list.                 *)
LEMMA TailMoves ==
  ASSUME SessionInv, NEW g \in Gens, worker[g].at = "tail", NEW rest \in WorkTodos,
         GoesOnWith(g, rest),
         rest \in Unsuspended => worker[g].todo \in Unsuspended,
         rest \in Unasked => worker[g].todo \in Unasked
  PROVE  \E w : /\ Moves(worker[g], w) /\ worker' = [worker EXCEPT ![g] = w]
                /\ rest \in Uncleared => Attached(w)
<1> DEFINE w == [worker[g] EXCEPT !.todo = rest, !.at = IF rest = <<>> THEN "over" ELSE "tail"]
<1>1. worker[g] \in WorkerShape /\ worker \in [Gens -> WorkerShape]
  BY DEF SessionInv, SessionShape
<1>2. /\ w \in WorkerShape /\ w.todo = rest /\ w.at = (IF rest = <<>> THEN "over" ELSE "tail")
      /\ w.task = worker[g].task /\ w.request = worker[g].request /\ w.need = worker[g].need
  BY <1>1 DEF WorkerShape
<1>3. worker' = [worker EXCEPT ![g] = w] BY DEF GoesOnWith
<1> HIDE DEF w
<1>4. worker[g].todo \in Unasked => worker[g].need \in Need BY DEF SessionInv, SessionShape
<1>5. Moves(worker[g], w) BY <1>2, <1>4 DEF Moves, Looping, Holding, Asking
<1> QED BY <1>2, <1>3, <1>5 DEF Attached

(* A worker at a step of its tail has a list.                              *)
LEMMA DoingFacts ==
  ASSUME SessionInv, NEW g \in Gens, NEW step, Doing(g, step)
  PROVE  /\ worker[g].at = "tail" /\ worker[g].todo \in WorkTodos /\ worker[g].todo # <<>>
         /\ Head(worker[g].todo) = step /\ ~Looping(worker[g])
         /\ worker[g].task \in 1 .. g /\ worker[g].task \in Ids /\ worker[g].task # None
         /\ g <= state.gen /\ (Current(g) => worker[g].task = state.task)
         /\ worker[g] # NoWorker /\ answered \subseteq Gens
<1>1. worker[g] \in WorkerShape BY DEF SessionInv, SessionShape
<1>2. /\ worker[g].at = "tail" /\ worker[g].todo # <<>> /\ Head(worker[g].todo) = step
  BY DEF Doing, SessionInv, SessionShape
<1>3. worker[g] # NoWorker BY <1>2 DEF NoWorker
<1>4. worker[g].todo \in WorkTodos BY <1>1 DEF WorkerShape
<1>5. worker[g].task \in 1 .. g BY <1>2 DEF SessionInv, GenInv
<1>6. worker[g].task \in Ids /\ worker[g].task # None BY <1>5, IdsFacts
<1>7. g <= state.gen BY <1>3, IdsFacts DEF SessionInv, GenInv, SessionShape, StateShape
<1>8. Current(g) => worker[g].task = state.task BY <1>2 DEF SessionInv, GenInv, Current
<1>9. answered \subseteq Gens BY DEF SessionInv, SessionShape
<1> QED BY <1>2, <1>3, <1>4, <1>5, <1>6, <1>7, <1>8, <1>9 DEF Looping

(* A worker compares its generation and leaves out the step behind the look. *)
LEMMA LookAtGenerationOK ==
  ASSUME SessionInv, NEW g \in Gens, LookAtGeneration(g) PROVE SessionInv'
<1> DEFINE t == worker[g].todo
<1>1. PICK step \in {"end?", "submit?", "tell?"} :
        /\ Doing(g, step)
        /\ \/ Current(g) /\ GoesOnWith(g, Tail(t))
           \/ ~Current(g) /\ step = "submit?" /\ GoesOnWith(g, <<"clear">>)
           \/ ~Current(g) /\ step # "submit?" /\ GoesOnWith(g, Tail(Tail(t)))
  BY DEF LookAtGeneration, Leave
<1>2. UNCHANGED <<state, queue, autonomous, user, answered, used>> BY DEF LookAtGeneration
<1>3. /\ worker[g].at = "tail" /\ t \in WorkTodos /\ t # <<>> /\ Head(t) = step
      /\ answered \subseteq Gens /\ ~Looping(worker[g])
  BY <1>1, DoingFacts
<1>4. PICK rest \in WorkTodos :
        /\ GoesOnWith(g, rest)
        /\ rest \in Unsuspended => t \in Unsuspended
        /\ rest \in Unasked => t \in Unasked
        /\ Current(g) /\ t \in Uncleared => rest \in Uncleared
  <2>1. CASE Current(g) /\ GoesOnWith(g, Tail(t)) BY <1>1, <1>3, <2>1, WorkTodoSteps
  <2>2. CASE ~Current(g) /\ GoesOnWith(g, <<"clear">>)
    BY <2>2 DEF WorkTodos, Cleared, Unsuspended, Unasked
  <2>3. CASE ~Current(g) /\ step # "submit?" /\ GoesOnWith(g, Tail(Tail(t)))
    <3>1. Tail(Tail(t)) \in WorkTodos /\ Tail(Tail(t)) \notin Unsuspended
      BY <1>1, <1>3, <2>3, WorkTodoSteps
    <3>2. Tail(Tail(t)) \notin Unasked BY <3>1 DEF Unsuspended
    <3> QED BY <2>3, <3>1, <3>2
  <2> QED BY <1>1, <2>1, <2>2, <2>3
<1>5. PICK w : /\ Moves(worker[g], w) /\ worker' = [worker EXCEPT ![g] = w]
               /\ rest \in Uncleared => Attached(w)
  BY <1>3, <1>4, TailMoves
<1>6. Current(g) /\ Attached(worker[g]) => Attached(w) BY <1>3, <1>4, <1>5 DEF Attached
<1> QED BY <1>2, <1>3, <1>5, <1>6, QueueSame, QuietMoves

(* A step of the tail that is not a look: what it leaves of the list.      *)
LEMMA LeaveMoves ==
  ASSUME SessionInv, NEW g \in Gens, NEW step, Doing(g, step), Leave(g)
  PROVE  \E w : /\ Moves(worker[g], w) /\ worker' = [worker EXCEPT ![g] = w]
                /\ step # "clear" /\ Attached(worker[g]) => Attached(w)
                /\ step = "suspend" => ~Holding(w)
<1> DEFINE t == worker[g].todo
<1>1. /\ worker[g].at = "tail" /\ t \in WorkTodos /\ t # <<>> /\ Head(t) = step
      /\ ~Looping(worker[g])
  BY DoingFacts
<1>2. /\ Tail(t) \in WorkTodos
      /\ Tail(t) \in Unasked => t \in Unasked
      /\ Tail(t) \in Unsuspended => t \in Unsuspended
      /\ t \in Uncleared /\ step # "clear" => Tail(t) \in Uncleared
      /\ step = "suspend" => Tail(t) \notin Unsuspended
  BY <1>1, WorkTodoSteps
<1>3. PICK w : /\ Moves(worker[g], w) /\ worker' = [worker EXCEPT ![g] = w]
               /\ Tail(t) \in Uncleared => Attached(w)
  BY <1>1, <1>2, TailMoves DEF Leave
<1>4. w.todo = Tail(t)
  <2>1. worker \in [Gens -> WorkerShape] BY DEF SessionInv, SessionShape
  <2>2. worker'[g] = w /\ worker'[g].todo = Tail(t)
    BY <1>3, <2>1 DEF Leave, GoesOnWith, WorkerShape
  <2> QED BY <2>2
<1>5. ~Looping(w) BY <1>1, <1>3 DEF Moves
<1> QED BY <1>1, <1>2, <1>3, <1>4, <1>5 DEF Attached, Holding

(* A worker ends the task it holds.                                        *)
LEMMA EndOwnTaskOK == ASSUME SessionInv, NEW g \in Gens, EndOwnTask(g) PROVE SessionInv'
<1>1. /\ Doing(g, "end") /\ Leave(g) /\ answered \subseteq Gens
      /\ UNCHANGED <<state, autonomous, user, answered, used>>
  BY DoingFacts DEF EndOwnTask
<1>2. PICK w : /\ Moves(worker[g], w) /\ worker' = [worker EXCEPT ![g] = w]
               /\ Attached(worker[g]) => Attached(w)
  BY <1>1, LeaveMoves
<1>3. QueueShrinks
  BY <1>1, EndTaskOK DEF EndOwnTask, QueueShrinks, SessionInv
<1> QED BY <1>1, <1>2, <1>3, QuietMoves

(* The terminal event is sent.                                             *)
LEMMA EmitTerminalOK == ASSUME SessionInv, NEW g \in Gens, EmitTerminal(g) PROVE SessionInv'
<1>1. /\ Doing(g, "tell") /\ Leave(g) /\ answered' \subseteq Gens
      /\ UNCHANGED <<state, queue, autonomous, user, used>>
  BY DoingFacts DEF EmitTerminal
<1>2. PICK w : /\ Moves(worker[g], w) /\ worker' = [worker EXCEPT ![g] = w]
               /\ Attached(worker[g]) => Attached(w)
  BY <1>1, LeaveMoves
<1> QED BY <1>1, <1>2, QueueSame, QuietMoves

(* The stored handle is given up.                                          *)
LEMMA ClearRunningOK == ASSUME SessionInv, NEW g \in Gens, ClearRunning(g) PROVE SessionInv'
<1> USE DEF SessionInv
<1>1. /\ Doing(g, "clear") /\ Leave(g) /\ answered \subseteq Gens
      /\ UNCHANGED <<queue, autonomous, user, answered, used>>
      /\ state' = IF Current(g) THEN [state EXCEPT !.running = 0] ELSE state
  BY DoingFacts DEF ClearRunning
<1>2. PICK w : Moves(worker[g], w) /\ worker' = [worker EXCEPT ![g] = w]
  BY <1>1, LeaveMoves
<1>3. /\ state' \in StateShape /\ state'.gen = state.gen /\ state'.task = state.task
      /\ state'.suspended = state.suspended
      /\ state'.running = IF Current(g) THEN 0 ELSE state.running
  BY <1>1, IdsFacts DEF SessionShape, StateShape
<1>4. SpawnPending => state'.running = state.running BY <1>3 DEF GenInv
<1>5. HandleInv'
  <2>1. state.running # 0 => state.gen \in Gens BY IdsFacts DEF HandleInv, SessionShape, StateShape
  <2>2. \A h \in Gens : h # g => worker'[h] = worker[h] BY <1>2 DEF SessionShape
  <2> QED BY <1>3, <2>1, <2>2 DEF HandleInv, Current
<1> QED BY <1>1, <1>2, <1>3, <1>4, <1>5, QueueSame, WorkerMoves

(* The request of a worker: its task is held by nobody else, and there are *)
(* more ids than workers.                                                  *)
LEMMA SubmitRequestOK == ASSUME SessionInv, NEW g \in Gens, SubmitRequest(g) PROVE SessionInv'
<1> USE IdsFacts DEF SessionInv
<1> DEFINE t == worker[g].todo
           w == [worker[g] EXCEPT !.todo = Tail(t), !.request = queue.next]
           r == [id |-> queue.next, need |-> worker[g].need, task |-> worker[g].task]
<1>1. /\ Doing(g, "submit") /\ worker' = [worker EXCEPT ![g] = w]
      /\ queue' = Submit(queue, worker[g].need, worker[g].task)
      /\ UNCHANGED <<state, autonomous, user, answered, used>>
  BY DEF SubmitRequest, SessionShape
<1>2. /\ worker[g].at = "tail" /\ t \in WorkTodos /\ t # <<>> /\ Head(t) = "submit"
      /\ worker[g].task \in Ids /\ worker[g].task # None /\ ~Looping(worker[g])
      /\ answered \subseteq Gens /\ worker[g] \in WorkerShape
  BY <1>1, DoingFacts DEF SessionShape
<1>3. /\ t \in Unasked /\ t \in Unsuspended /\ Tail(t) \in WorkTodos /\ Tail(t) # <<>>
      /\ Tail(t) \in Uncleared /\ Tail(t) \notin Unasked
  BY <1>2, WorkTodoSteps DEF Uncleared, Unsuspended
<1>4. worker[g].request = None BY <1>3 DEF CountInv, Asking
<1>5. /\ IsFiniteSet(Askers) /\ Cardinality(Askers) \in Nat /\ g \notin Askers
      /\ Cardinality(Askers \cup {g}) = Cardinality(Askers) + 1
      /\ Cardinality(Askers) + 1 <= MaxGen
  <2>1. IsFiniteSet(Gens) /\ Cardinality(Gens) = MaxGen BY FS_Interval
  <2>2. Askers \cup {g} \subseteq Gens /\ g \notin Askers BY <1>4 DEF Askers
  <2>3. IsFiniteSet(Askers) /\ Cardinality(Askers \cup {g}) <= Cardinality(Gens)
    BY <2>1, <2>2, FS_Subset
  <2>4. Cardinality(Askers \cup {g}) = Cardinality(Askers) + 1 BY <2>2, <2>3, FS_AddElement
  <2>5. Cardinality(Askers) \in Nat BY <2>3, FS_CardinalityType
  <2> QED BY <2>1, <2>2, <2>3, <2>4, <2>5
<1>6. queue.next \in Ids /\ queue.next # None /\ queue.next = 1 + Cardinality(Askers)
  BY <1>5 DEF CountInv
<1>7. worker[g].need \in Need BY <1>3 DEF SessionShape
<1>8. /\ w \in WorkerShape /\ w.at = "tail" /\ w.todo = Tail(t) /\ w.task = worker[g].task
      /\ w.request = queue.next
  BY <1>2, <1>3, <1>6 DEF WorkerShape
<1> HIDE DEF w
<1>9. /\ QueueOK(queue', used') /\ queue'.next = queue.next + 1
      /\ queue'.pending = queue.pending \cup {r} /\ queue'.grants = queue.grants
  <2>1. QueueOK(queue', used') BY <1>1, <1>2, <1>6, <1>7, SubmitOK
  <2>2. queue \in QueueType BY DEF QueueOK
  <2> QED BY <1>1, <2>1, <2>2, QueueFields DEF Submit
<1>10. /\ SessionShape' /\ UserInv' /\ GenInv'
       /\ worker'[g] = w /\ \A h \in Gens : h # g => worker'[h] = worker[h]
  <2>1. state' \in StateShape BY <1>1 DEF SessionShape
  <2>2. w.todo # <<>> /\ w.todo \notin Unasked BY <1>3, <1>8
  <2> QED BY <1>1, <1>2, <1>8, <2>1, <2>2, GenMoves
<1>11. /\ Holding(worker[g]) /\ ~Looping(w) /\ ~Asking(w) /\ Attached(w)
  BY <1>3, <1>8 DEF Holding, Looping, Asking, Attached
<1>12. HolderInv'
  <2>1. \A h \in Gens : worker'[h].task = worker[h].task /\ (Holding(worker'[h]) => Holding(worker[h]))
    BY <1>8, <1>10, <1>11
  <2> QED BY <1>1, <2>1 DEF HolderInv, SpawnPending
<1>13. HandleInv' BY <1>1, <1>10, <1>11 DEF HandleInv, SessionShape, StateShape
<1>14. CountInv'
  <2>1. Askers' = Askers \cup {g} BY <1>6, <1>8, <1>10 DEF Askers
  <2>2. queue'.next = 1 + Cardinality(Askers') BY <1>5, <1>6, <1>9, <2>1
  <2>3. \A h \in Gens : Asking(worker'[h]) => worker'[h].request = None
    BY <1>10, <1>11 DEF CountInv
  <2> QED BY <2>2, <2>3 DEF CountInv
<1>15. DeadInv'
  <2> SUFFICES ASSUME NEW h \in Gens, Looping(worker'[h]), Dead(worker[h].task)'
               PROVE  /\ \A p \in queue'.pending : p.task # worker'[h].task
                      /\ \A a \in queue'.grants : Bound(a) => a.task # worker'[h].task
    BY DEF DeadInv
  <2>1. h # g /\ worker'[h] = worker[h] BY <1>10, <1>11
  <2>2. Dead(worker[h].task) BY <1>1, <2>1 DEF Dead, EndPending
  <2>3. worker[h].task # worker[g].task BY <1>11, <2>1 DEF HolderInv, Holding
  <2>4. r.task = worker[g].task OBVIOUS
  <2> HIDE DEF r
  <2> QED BY <1>9, <2>1, <2>2, <2>3, <2>4 DEF DeadInv
<1> QED BY <1>9, <1>10, <1>12, <1>13, <1>14, <1>15

(* The turn of the current worker is suspended: nobody holds its task any  *)
(* more, and the decision may hand it to the next generation.              *)
LEMMA SuspendTurnOK == ASSUME SessionInv, NEW g \in Gens, SuspendTurn(g) PROVE SessionInv'
<1> USE IdsFacts DEF SessionInv
<1> DEFINE s == [request |-> worker[g].request, task |-> worker[g].task]
<1>1. /\ Doing(g, "suspend") /\ Leave(g)
      /\ state' = IF Current(g) THEN [state EXCEPT !.suspended = s] ELSE state
      /\ UNCHANGED <<queue, autonomous, user, answered, used>>
  BY DEF SuspendTurn
<1>2. PICK w : /\ Moves(worker[g], w) /\ worker' = [worker EXCEPT ![g] = w]
               /\ Attached(worker[g]) => Attached(w)
               /\ ~Holding(w)
  BY <1>1, LeaveMoves
<1>3. CASE ~Current(g)
  <2>1. UNCHANGED state BY <1>1, <1>3
  <2> QED BY <1>1, <1>2, <1>3, <2>1, DoingFacts, QueueSame, QuietMoves
<1>4. CASE Current(g)
  <2>1. /\ worker[g].at = "tail" /\ worker[g].todo \in WorkTodos /\ worker[g].todo # <<>>
        /\ Head(worker[g].todo) = "suspend"
        /\ worker[g].task \in Ids /\ worker[g].task # None /\ worker[g].task = state.task
        /\ worker[g] # NoWorker /\ answered \subseteq Gens /\ worker[g] \in WorkerShape
    BY <1>1, <1>4, DoingFacts DEF SessionShape
  <2>2. /\ state' \in StateShape /\ state'.gen = state.gen /\ state'.task = state.task
        /\ state'.running = state.running /\ state'.suspended = s
    <3>1. s \in [request : Ids, task : Ids] BY <2>1 DEF WorkerShape
    <3>2. state' = [state EXCEPT !.suspended = s] BY <1>1, <1>4
    <3> QED BY <3>1, <3>2 DEF SessionShape, StateShape
  <2>3. Holding(worker[g]) BY <2>1, WorkTodoSteps DEF Holding
  <2>4. ~SpawnPending BY <2>1, <1>4 DEF GenInv, Current
  <2>5. /\ SessionShape' /\ UserInv' /\ GenInv'
        /\ worker'[g] = w /\ \A h \in Gens : h # g => worker'[h] = worker[h]
    <3>1. w \in WorkerShape /\ (w.at = "tail" <=> w.todo # <<>>)
          /\ (w.todo \in Unasked => w.need \in Need) /\ w.at # "off" /\ worker[g].at # "off" /\ w.task = worker[g].task
      BY <1>2 DEF Moves
    <3> QED BY <1>1, <1>2, <2>1, <2>2, <2>4, <3>1, GenMoves
  <2>6. \A h \in Gens : /\ worker'[h].task = worker[h].task
                        /\ worker'[h].request = worker[h].request
                        /\ Looping(worker'[h]) => Looping(worker[h])
                        /\ Holding(worker'[h]) => Holding(worker[h]) /\ h # g
                        /\ Asking(worker'[h]) => Asking(worker[h])
    BY <1>2, <2>5 DEF Moves
  <2>7. HolderInv'
    <3>1. s.task = state.task BY <2>1
    <3>2. \A h \in Gens : Holding(worker'[h]) => worker'[h].task # state.task
      BY <2>1, <2>3, <2>6 DEF HolderInv
    <3>3. ~SpawnPending' BY <1>1, <2>4 DEF SpawnPending
    <3>4. \A h, k \in Gens :
            Holding(worker'[h]) /\ Holding(worker'[k]) /\ worker'[h].task = worker'[k].task => h = k
      BY <2>6 DEF HolderInv
    <3> HIDE DEF s
    <3> QED BY <2>1, <2>2, <3>1, <3>2, <3>3, <3>4 DEF HolderInv
  <2>8. HandleInv' BY <1>2, <1>4, <2>2, <2>5 DEF HandleInv, Current
  <2>9. CountInv'
    <3>1. Askers' = Askers BY <2>6 DEF Askers
    <3> QED BY <1>1, <2>6, <3>1 DEF CountInv
  <2>10. DeadInv' BY <1>1, <2>2, <2>6 DEF DeadInv, Dead, EndPending
  <2>11. QueueOK(queue, used)' BY <1>1
  <2> QED BY <2>5, <2>7, <2>8, <2>9, <2>10, <2>11
<1> QED BY <1>3, <1>4

-----------------------------------------------------------------------------
(* Every step keeps the invariant.                                         *)
LEMMA StepOK == SessionInv /\ [SessionNext]_sessionVars => SessionInv'
<1> SUFFICES ASSUME SessionInv, [SessionNext]_sessionVars PROVE SessionInv' OBVIOUS
<1>1. CASE UNCHANGED sessionVars
  <2>1. UNCHANGED <<state, queue, autonomous, user, worker, answered, used>>
    BY <1>1 DEF sessionVars
  <2>2. DeadInv' BY <2>1 DEF SessionInv, DeadInv, Dead, EndPending
  <2>3. user' \in UserShape /\ UserInv' /\ autonomous' \in BOOLEAN
    BY <2>1 DEF SessionInv, SessionShape, UserInv
  <2>4. SpawnPending' => SpawnPending BY <2>1 DEF SpawnPending
  <2>5. QueueOK(queue', used) BY <2>1 DEF SessionInv
  <2> QED BY <2>1, <2>2, <2>3, <2>4, <2>5, UserMoves
<1>2. CASE UserCall
  BY <1>2, SendOK, CancelOK, DecideOK, SwitchOK, GrantBroadOK, RevokeBroadOK DEF UserCall
<1>3. CASE UserStep
  BY <1>3, EndOldTaskOK, SpawnOK, WakeOK, PeekOK, WithdrawPendingOK DEF UserStep
<1>4. CASE \E g \in Gens : WorkerStep(g)
  <2> SUFFICES ASSUME NEW g \in Gens, WorkerStep(g) PROVE SessionInv' BY <1>4
  <2> QED BY PreflightOK, CommitOK, ToolReturnsOK, LoopEndsOK, AbortedOK, LookAtGenerationOK,
             EndOwnTaskOK, SubmitRequestOK, SuspendTurnOK, ClearRunningOK, EmitTerminalOK
          DEF WorkerStep
<1> QED BY <1>1, <1>2, <1>3, <1>4 DEF SessionNext

(* Tasks, handles, requests and grants belong together the way SessionInv says. *)
THEOREM SessionInvariant == SessionSpec => []SessionInv
<1> QED BY InitOK, StepOK, PTL DEF SessionSpec

(* The session keeps its type.                                             *)
THEOREM SessionTypeCorrect == SessionSpec => []SessionTypeOK
<1>1. SessionInv => SessionTypeOK
  <2> SUFFICES ASSUME SessionInv PROVE SessionTypeOK OBVIOUS
  <2> USE IdsFacts DEF SessionInv
  <2>1. state \in StateShape /\ autonomous \in BOOLEAN /\ user \in UserShape
        /\ worker \in [Gens -> WorkerShape] /\ answered \subseteq Gens
    BY DEF SessionShape
  <2>2. \A w \in WorkerShape : w \in Worker
    BY WorkTodoType DEF WorkerShape, Worker
  <2>3. worker \in [Gens -> Worker] BY <2>1, <2>2
  <2>4. used \subseteq Ids
    <3>1. Cardinality(Askers) \in Nat /\ Cardinality(Askers) <= MaxGen
      <4>1. IsFiniteSet(Gens) /\ Cardinality(Gens) = MaxGen BY FS_Interval
      <4>2. Askers \subseteq Gens BY DEF Askers
      <4> QED BY <4>1, <4>2, FS_Subset, FS_CardinalityType
    <3>2. queue.next - 1 <= MaxId /\ queue.next \in Nat BY <3>1 DEF CountInv
    <3>3. Past(queue) \subseteq Ids BY <3>2 DEF Past
    <3> QED BY <3>3 DEF QueueOK
  <2>5. queue \in QueueType BY DEF QueueOK
  <2>6. \A g \in Gens : worker[g].at = "tail" <=> worker[g].todo # <<>> BY DEF SessionShape
  <2>7. user.task \in Ids /\ user.request \in Ids BY <2>1 DEF UserShape
  <2> QED BY <2>1, <2>3, <2>4, <2>5, <2>6, <2>7 DEF SessionTypeOK, StateShape
<1> QED BY <1>1, SessionInvariant, PTL

-----------------------------------------------------------------------------
(* What a commit found in the queue.                                       *)

(* A step of one worker leaves the others where they are.                  *)
LEMMA OthersStay ==
  ASSUME SessionInv, NEW g \in Gens, NEW h \in Gens, h # g, WorkerStep(h)
  PROVE  worker'[g] = worker[g]
<1>1. worker \in [Gens -> WorkerShape] BY DEF SessionInv, SessionShape
<1>2. PICK w : worker' = [worker EXCEPT ![h] = w]
  <2>1. CASE Preflight(h) BY <2>1 DEF Preflight
  <2>2. CASE Commit(h)
    <3>1. CASE worker' = [worker EXCEPT ![h].at = "tool"]
      <4>1. worker' = [worker EXCEPT ![h] = [worker[h] EXCEPT !.at = "tool"]] BY <1>1, <3>1
      <4> QED BY <4>1
    <3>2. CASE worker' = [worker EXCEPT ![h] = [@ EXCEPT !.at = "run", !.need = NoNeed]]
      BY <3>2
    <3> QED BY <2>2, <3>1, <3>2 DEF Commit
  <2>3. CASE ToolReturns(h) BY <2>3 DEF ToolReturns
  <2>4. CASE LoopEnds(h) BY <2>4 DEF LoopEnds, Outcome
  <2>5. CASE Aborted(h) BY <2>5 DEF Aborted
  <2>6. CASE LookAtGeneration(h) BY <2>6 DEF LookAtGeneration, Leave, GoesOnWith
  <2>7. CASE SubmitRequest(h) BY <2>7 DEF SubmitRequest
  <2>8. CASE Leave(h) BY <2>8 DEF Leave, GoesOnWith
  <2> QED BY <2>1, <2>2, <2>3, <2>4, <2>5, <2>6, <2>7, <2>8
          DEF WorkerStep, EndOwnTask, SuspendTurn, ClearRunning, EmitTerminal
<1> QED BY <1>1, <1>2

(* Only the commit takes a worker from a checked call into its tool.       *)
LEMMA OnlyCommitServes ==
  ASSUME SessionInv, SessionNext, NEW g \in Gens, Commits(g) PROVE Commit(g)
<1>1. /\ worker[g].at = "ready" /\ worker'[g].at = "tool" /\ worker'[g] # worker[g]
      /\ worker \in [Gens -> WorkerShape]
  BY DEF Commits, SessionInv, SessionShape
<1>2. ~UserCall BY <1>1 DEF UserCall, Send, Cancel, Decide, Switch, GrantBroad, RevokeBroad
<1>3. ~UserStep
  <2>1. ~Spawn
    <3> SUFFICES ASSUME Spawn PROVE FALSE OBVIOUS
    <3>1. UserAt("spawn") BY DEF Spawn
    <3>2. worker[state.gen] = NoWorker
      BY <3>1, UserSteps DEF SessionInv, SessionShape, UserShape, GenInv, SpawnPending
    <3>3. g # state.gen BY <1>1, <3>2 DEF NoWorker
    <3>4. worker'[g] = worker[g] BY <1>1, <3>3 DEF Spawn
    <3> QED BY <1>1, <3>4
  <2> QED BY <1>1, <2>1 DEF UserStep, EndOldTask, Wake, Peek, WithdrawPending
<1>4. WorkerStep(g) BY <1>1, <1>2, <1>3, OthersStay DEF SessionNext
<1>5. ~Aborted(g)
  <2> SUFFICES ASSUME Aborted(g) PROVE FALSE OBVIOUS
  <2>1. worker'[g].at = "over" BY <1>1 DEF Aborted, WorkerShape
  <2> QED BY <1>1, <2>1
<1> QED BY <1>1, <1>4, <1>5
        DEF WorkerStep, Preflight, ToolReturns, LoopEnds, LookAtGeneration, Doing,
            EndOwnTask, SubmitRequest, SuspendTurn, ClearRunning, EmitTerminal

(* The grant that serves a commit is active for the worker's task.         *)
LEMMA ServingFacts ==
  ASSUME SessionInv, SessionNext, NEW g \in Gens, Commits(g)
  PROVE  /\ Serving(g) \in queue.grants /\ Looping(worker[g])
         /\ Bound(Serving(g)) => Serving(g).task # None /\ Serving(g).task = worker[g].task
         /\ Serving(g).life = "once" => Serving(g).from \notin used
<1>1. Commit(g) BY OnlyCommitServes
<1>2. worker'[g].at = "tool" /\ ~autonomous /\ worker[g].at = "ready" BY DEF Commits
<1>3. CanConsume(queue, worker[g].need, worker[g].task)
  <2> SUFFICES ASSUME worker' = [worker EXCEPT ![g] = [@ EXCEPT !.at = "run", !.need = NoNeed]]
               PROVE  FALSE
    BY <1>1, <1>2 DEF Commit
  <2>1. worker \in [Gens -> WorkerShape] BY DEF SessionInv, SessionShape
  <2>2. worker'[g].at = "run" BY <2>1 DEF WorkerShape
  <2> QED BY <1>2, <2>2
<1>4. QueueOK(queue, used) BY DEF SessionInv
<1>5. Serving(g) \in queue.grants /\ IsActive(queue, Serving(g), worker[g].task)
  BY <1>3, <1>4, FirstMatches DEF Serving, Matches, QueueOK
<1> HIDE DEF Serving
<1> QED BY <1>2, <1>4, <1>5 DEF QueueOK, GrantsOK, IsActive, Looping

(* An approval bound to a task serves no call once the task was superseded *)
(* and its end has reached the queue, however late the worker notices.     *)
THEOREM ApprovalsDie == SessionSpec => ApprovalDiesWithItsTask
<1>1. ASSUME SessionInv, SessionNext, NEW g \in Gens, Commits(g),
             Serving(g).life \in {"once", "task"}
      PROVE  \/ worker[g].task = state.task
             \/ UserAt("end") /\ user.task = worker[g].task
  <2>1. /\ Serving(g) \in queue.grants /\ Looping(worker[g]) /\ Bound(Serving(g))
        /\ Serving(g).task = worker[g].task
    BY <1>1, ServingFacts DEF Bound
  <2>2. ~Dead(worker[g].task) BY <1>1, <2>1 DEF SessionInv, DeadInv
  <2> QED BY <2>2 DEF Dead, EndPending, UserAt
<1>2. SessionInv /\ [SessionNext]_sessionVars =>
        [\A g \in Gens : Commits(g) /\ Serving(g).life \in {"once", "task"} =>
           \/ worker[g].task = state.task
           \/ UserAt("end") /\ user.task = worker[g].task]_sessionVars
  BY <1>1
<1> QED BY <1>2, SessionInvariant, PTL DEF SessionSpec, ApprovalDiesWithItsTask

(* A one-use grant serves one call, in whatever order workers and user run.*)
THEOREM OneUseOnce == SessionSpec => OneUseServesOnce
<1>1. ASSUME SessionInv, SessionNext, NEW g \in Gens, Commits(g)
      PROVE  OneUse(g) \cap used = {}
  <2>1. Serving(g).life = "once" => Serving(g).from \notin used BY <1>1, ServingFacts
  <2>2. OneUse(g) = IF Serving(g).life = "once" THEN {Serving(g).from} ELSE {}
    BY DEF OneUse, Serving
  <2> QED BY <2>1, <2>2
<1>2. SessionInv /\ [SessionNext]_sessionVars =>
        [\A g \in Gens : Commits(g) => OneUse(g) \cap used = {}]_sessionVars
  BY <1>1
<1> QED BY <1>2, SessionInvariant, PTL DEF SessionSpec, OneUseServesOnce

(* The stored handle is the current generation's and none of a worker that *)
(* has finished; with the terminal event the session is idle.              *)
THEOREM HandleFollows == SessionSpec => HandleFollowsTurn
<1>1. SessionInv => NoStaleHandle
  <2> SUFFICES ASSUME SessionInv, state.running # 0
               PROVE  state.running = state.gen /\ worker[state.running].at # "over"
    BY DEF NoStaleHandle
  <2>1. state.running = state.gen /\ Attached(worker[state.gen]) /\ state.gen \in Gens
    BY IdsFacts DEF SessionInv, HandleInv, SessionShape, StateShape
  <2>2. CASE Looping(worker[state.gen]) BY <2>1, <2>2 DEF Looping
  <2>3. CASE worker[state.gen].todo \in Uncleared
    <3>1. worker[state.gen].todo # <<>> BY <2>3, EmptyTodo
    <3>2. worker[state.gen].at = "tail" BY <2>1, <3>1 DEF SessionInv, SessionShape
    <3> QED BY <2>1, <3>2
  <2> QED BY <2>1, <2>2, <2>3 DEF Attached
<1>2. ASSUME SessionInv, NEW g \in Gens, Tells(g), Current(g) PROVE state.running = 0
  <2>1. Doing(g, "tell") BY <1>2 DEF Tells
  <2>2. /\ worker[g].todo \in WorkTodos /\ worker[g].todo # <<>>
        /\ Head(worker[g].todo) = "tell" /\ ~Looping(worker[g])
    BY <1>2, <2>1, DoingFacts
  <2>3. worker[g].todo \notin Uncleared BY <2>2, WorkTodoSteps
  <2> QED BY <1>2, <2>2, <2>3 DEF SessionInv, HandleInv, Attached, Current
<1>3. SessionInv /\ SessionInv' /\ [SessionNext]_sessionVars =>
        [NoStaleHandle' /\ \A g \in Gens : Tells(g) /\ Current(g) => state.running = 0]_sessionVars
  <2>1. SessionInv' => NoStaleHandle' BY <1>1, PTL
  <2> QED BY <1>2, <2>1
<1> QED BY <1>3, SessionInvariant, PTL DEF SessionSpec, HandleFollowsTurn
=============================================================================
