---------------------------- MODULE AgentSession ----------------------------
(***************************************************************************)
(* The agent session of the desktop host (app-host/runtime): one           *)
(* conversation, whose turns are run by background workers while the user  *)
(* sends, cancels, decides approvals and switches the autonomous mode.     *)
(*                                                                         *)
(* The user's calls run on the one thread that serves the inline IPC       *)
(* methods, each as a list of steps of which a step is one critical        *)
(* section of the session's or the queue's mutex.  A generation counter    *)
(* tells the current worker from superseded ones; every generation starts  *)
(* at most one worker, so the generation names the worker, and the turn    *)
(* and its task, made together, are named by the generation that made      *)
(* them.  A worker awaits the provider and its tools and can be aborted    *)
(* there only; once the tool loop has returned, the rest of its code has   *)
(* no await and runs to its end, interleaved with the user's thread.       *)
(***************************************************************************)
EXTENDS ApprovalQueue

CONSTANTS
  MaxGen,     \* bound on the generations
  MaxCalls,   \* bound on the tool calls of one worker
  MaxGrants   \* bound on the direct grants of the settings page

ASSUME SessionAssumption == MaxGen \in Nat \ {0} /\ MaxGen <= MaxId /\ MaxCalls \in Nat

VARIABLES
  state,      \* the session state behind the mutex
  queue,      \* the approval queue
  autonomous, \* the live mirror of the autonomous-mode setting
  user,       \* what the user's thread still has to do
  worker,     \* the workers, by generation
  answered,   \* the workers whose terminal event went out
  used        \* requests whose one-use grant served a call (history)

sessionVars == <<state, queue, autonomous, user, worker, answered, used>>

Gens == 1 .. MaxGen
NotSuspended == [request |-> None, task |-> None]
NoUserCall == [todo |-> <<>>, task |-> None, request |-> None]
NoNeed == "no need"

(* What a worker has left to do when its tool loop has ended, by the way   *)
(* it ended.  A step with a question mark looks at the generation; when it *)
(* is stale the step behind it is left out.  The transcript that is stored *)
(* first and the permission.requested event are data to this model.        *)
RestKeepsHandle(out) ==
  CASE out = "ask" -> <<"submit?", "submit", "suspend", "tell?", "tell">>
    [] OTHER       -> <<"end?", "end", "tell?", "tell">>
RestSilentPanic(out) ==
  CASE out = "ask"   -> <<"submit?", "submit", "suspend", "clear", "tell?", "tell", "clear">>
    [] out = "panic" -> <<"clear", "end?", "end">>
    [] OTHER         -> <<"end?", "end", "clear", "tell?", "tell", "clear">>
Rest(out) ==
  CASE out = "done"  -> <<"end?", "end", "clear", "tell?", "tell", "clear">>
    [] out = "fail"  -> <<"end?", "end", "clear", "tell?", "tell", "clear">>
    [] out = "panic" -> <<"clear", "end?", "end", "tell?", "tell">>
    [] out = "ask"   -> <<"submit?", "submit", "suspend", "clear", "tell?", "tell", "clear">>

Worker == [at : {"off", "run", "ready", "tool", "tail", "over"}, task : Ids,
           need : Need \cup {NoNeed}, calls : 0 .. MaxCalls, request : Ids,
           todo : Seq({"end?", "end", "clear", "tell?", "tell", "submit?", "submit", "suspend"})]
NoWorker == [at |-> "off", task |-> None, need |-> NoNeed, calls |-> 0,
        request |-> None, todo |-> <<>>]

SessionTypeOK ==
  /\ state \in [gen : 0 .. MaxGen, running : 0 .. MaxGen, task : Ids,
                suspended : [request : Ids, task : Ids]]
  /\ queue \in QueueType /\ autonomous \in BOOLEAN
  /\ user.task \in Ids /\ user.request \in Ids
  /\ worker \in [Gens -> Worker]
  /\ \A g \in Gens : worker[g].at = "tail" <=> worker[g].todo # <<>>
  /\ answered \subseteq Gens /\ used \subseteq Ids

SessionInit ==
  /\ state = [gen |-> 0, running |-> 0, task |-> None, suspended |-> NotSuspended]
  /\ queue = EmptyQueue /\ autonomous = FALSE
  /\ user = NoUserCall
  /\ worker = [g \in Gens |-> NoWorker]
  /\ answered = {} /\ used = {}

-----------------------------------------------------------------------------
(* The user's thread.                                                      *)

UserIdle == user.todo = <<>>
UserDoes(todo, task, request) ==
  user' = [todo |-> todo, task |-> task, request |-> request]
UserGoesOn == user' = IF Len(user.todo) = 1 THEN NoUserCall
                      ELSE [user EXCEPT !.todo = Tail(@)]
UserAt(step) == user.todo # <<>> /\ Head(user.todo) = step

(* A message: the turn in flight or suspended is superseded, a new task    *)
(* and turn begin.  The old task is ended and the worker spawned after     *)
(* the lock was left.                                                      *)
AfterSendKeepsTask == <<"spawn">>
AfterSend == IF state.task # None THEN <<"end", "spawn">> ELSE <<"spawn">>
Send ==
  /\ UserIdle /\ state.gen < MaxGen
  /\ LET g == state.gen + 1 IN
     /\ state' = [gen |-> g, running |-> 0, task |-> g, suspended |-> NotSuspended]
     /\ UserDoes(AfterSend, state.task, None)
  /\ UNCHANGED <<queue, autonomous, worker, answered, used>>

Cancel ==
  /\ UserIdle /\ state.gen < MaxGen
  /\ state' = [gen |-> state.gen + 1, running |-> 0, task |-> None,
               suspended |-> NotSuspended]
  /\ IF state.task # None THEN UserDoes(<<"end">>, state.task, None)
                          ELSE UNCHANGED user
  /\ UNCHANGED <<queue, autonomous, worker, answered, used>>

EndOldTask ==
  /\ UserAt("end") /\ UserGoesOn
  /\ queue' = EndTask(queue, user.task)
  /\ UNCHANGED <<state, autonomous, worker, answered, used>>

(* The worker is spawned and its handle stored in one critical section.    *)
Spawn ==
  /\ UserAt("spawn") /\ UserGoesOn
  /\ worker' = [worker EXCEPT ![state.gen] = [NoWorker EXCEPT !.at = "run", !.task = state.task]]
  /\ state' = [state EXCEPT !.running = state.gen]
  /\ UNCHANGED <<queue, autonomous, answered, used>>

(* The answer of the permission dialog, for any request the queue lists.   *)
Decide ==
  /\ UserIdle /\ state.gen < MaxGen
  /\ \E r \in queue.pending :
       /\ \/ \E life \in Lifetimes : queue' = Approve(queue, r.id, life)
          \/ queue' = Deny(queue, r.id)
       /\ UserDoes(<<"wake">>, None, r.id)
  /\ UNCHANGED <<state, autonomous, worker, answered, used>>

(* notify_decided: a suspended turn that waits for this request resumes in *)
(* a new generation, under its old task and turn.                          *)
Wake ==
  /\ UserAt("wake")
  /\ IF state.suspended.request = user.request
       THEN /\ state' = [gen |-> state.gen + 1, running |-> 0,
                         task |-> state.suspended.task, suspended |-> NotSuspended]
            /\ UserDoes(<<"spawn">>, None, None)
       ELSE UNCHANGED state /\ UserGoesOn
  /\ UNCHANGED <<queue, autonomous, worker, answered, used>>

(* The settings switch; on, it also wakes the suspended turn.              *)
Switch ==
  /\ UserIdle /\ state.gen < MaxGen
  /\ autonomous' = ~autonomous
  /\ IF autonomous THEN UNCHANGED user ELSE UserDoes(<<"peek">>, None, None)
  /\ UNCHANGED <<state, queue, worker, answered, used>>

Peek ==
  /\ UserAt("peek")
  /\ IF state.suspended = NotSuspended THEN UserGoesOn
       ELSE UserDoes(<<"withdraw">>, None, state.suspended.request)
  /\ UNCHANGED <<state, queue, autonomous, worker, answered, used>>

WithdrawPending ==
  /\ UserAt("withdraw")
  /\ IF InQueue(queue, user.request)
       THEN /\ queue' = Withdraw(queue, user.request)
            /\ UserDoes(<<"wake">>, None, user.request)
       ELSE UNCHANGED queue /\ UserGoesOn
  /\ UNCHANGED <<state, autonomous, worker, answered, used>>

GrantBroad ==
  /\ UserIdle /\ Broad # {} /\ Cardinality(queue.grants) < MaxGrants
  /\ queue' = GrantDirect(queue, Broad, "standing")
  /\ UNCHANGED <<state, autonomous, user, worker, answered, used>>

RevokeBroad ==
  /\ UserIdle
  /\ queue' = RevokeWhere(queue, Broad)
  /\ UNCHANGED <<state, autonomous, user, worker, answered, used>>

UserStep == EndOldTask \/ Spawn \/ Wake \/ Peek \/ WithdrawPending
UserCall == Send \/ Cancel \/ Decide \/ Switch \/ GrantBroad \/ RevokeBroad

-----------------------------------------------------------------------------
(* A worker.                                                               *)

Current(g) == state.gen = g
InLoop(g) == worker[g].at \in {"run", "ready", "tool"}
Outcome(g, out) ==
  worker' = [worker EXCEPT ![g] = [@ EXCEPT !.at = "tail", !.todo = Rest(out)]]

(* The model asks for a tool: the preflight lets the call pass or ends the *)
(* loop with an approval to ask for.                                       *)
Preflight(g) ==
  /\ worker[g].at = "run" /\ worker[g].calls < MaxCalls
  /\ \E n \in Need :
       IF autonomous \/ Authorizes(queue, n, worker[g].task)
         THEN worker' = [worker EXCEPT ![g] = [@ EXCEPT !.at = "ready", !.need = n,
                                              !.calls = worker[g].calls + 1]]
         ELSE worker' = [worker EXCEPT ![g] = [@ EXCEPT !.at = "tail", !.need = n,
                                                        !.todo = Rest("ask")]]
  /\ UNCHANGED <<state, queue, autonomous, user, answered, used>>

(* The commit right before the call, against the queue as it is now.       *)
OneUse(g) ==
  LET grant == FirstMatch(queue, worker[g].need, worker[g].task)
  IN IF grant.life = "once" THEN {grant.from} ELSE {}
Commit(g) ==
  /\ worker[g].at = "ready"
  /\ IF autonomous
       THEN /\ worker' = [worker EXCEPT ![g].at = "tool"]
            /\ UNCHANGED <<queue, used>>
       ELSE IF CanConsume(queue, worker[g].need, worker[g].task)
         THEN /\ worker' = [worker EXCEPT ![g].at = "tool"]
              /\ queue' = Consume(queue, worker[g].need, worker[g].task)
              /\ used' = used \cup OneUse(g)
         ELSE /\ worker' = [worker EXCEPT ![g] = [@ EXCEPT !.at = "run", !.need = NoNeed]]
              /\ UNCHANGED <<queue, used>>
  /\ UNCHANGED <<state, autonomous, user, answered>>

(* The tool answers, with a result or an error; the loop goes on.          *)
ToolReturns(g) ==
  /\ worker[g].at = "tool"
  /\ worker' = [worker EXCEPT ![g] = [@ EXCEPT !.at = "run", !.need = NoNeed]]
  /\ UNCHANGED <<state, queue, autonomous, user, answered, used>>

(* The loop ends: with the model's answer, with an error of the provider   *)
(* or of the catalog, or with a panic, that can also come from a tool.     *)
LoopEnds(g) ==
  /\ \/ worker[g].at = "run" /\ \E out \in {"done", "fail", "panic"} : Outcome(g, out)
     \/ worker[g].at = "tool" /\ Outcome(g, "panic")
  /\ UNCHANGED <<state, queue, autonomous, user, answered, used>>

(* The abort of a superseded worker takes effect at an await.              *)
Aborted(g) ==
  /\ InLoop(g) /\ ~Current(g)
  /\ worker' = [worker EXCEPT ![g] = [@ EXCEPT !.at = "over", !.need = NoNeed]]
  /\ UNCHANGED <<state, queue, autonomous, user, answered, used>>

Doing(g, step) == worker[g].at = "tail" /\ Head(worker[g].todo) = step
GoesOnWith(g, rest) ==
  worker' = [worker EXCEPT ![g] = [@ EXCEPT !.todo = rest,
               !.at = IF rest = <<>> THEN "over" ELSE "tail"]]
Leave(g) == GoesOnWith(g, Tail(worker[g].todo))

(* A look at the generation: a stale worker leaves out what follows, and   *)
(* one that had an approval to ask for returns: the handle is all it looks *)
(* after.                                                                  *)
LookAtGeneration(g) ==
  /\ \E step \in {"end?", "submit?", "tell?"} :
       /\ Doing(g, step)
       /\ IF Current(g) THEN Leave(g)
            ELSE IF step = "submit?" THEN GoesOnWith(g, <<"clear">>)
                                     ELSE GoesOnWith(g, Tail(Tail(worker[g].todo)))
  /\ UNCHANGED <<state, queue, autonomous, user, answered, used>>

EndOwnTask(g) ==
  /\ Doing(g, "end") /\ Leave(g)
  /\ queue' = EndTask(queue, worker[g].task)
  /\ UNCHANGED <<state, autonomous, user, answered, used>>

SubmitRequest(g) ==
  /\ Doing(g, "submit")
  /\ queue' = Submit(queue, worker[g].need, worker[g].task)
  /\ worker' = [worker EXCEPT ![g] = [@ EXCEPT !.todo = Tail(worker[g].todo),
                                              !.request = queue.next]]
  /\ UNCHANGED <<state, autonomous, user, answered, used>>

SuspendTurn(g) ==
  /\ Doing(g, "suspend") /\ Leave(g)
  /\ state' = IF Current(g)
                THEN [state EXCEPT !.suspended = [request |-> worker[g].request,
                                                  task |-> worker[g].task]]
                ELSE state
  /\ UNCHANGED <<queue, autonomous, user, answered, used>>

ClearRunning(g) ==
  /\ Doing(g, "clear") /\ Leave(g)
  /\ state' = IF Current(g) THEN [state EXCEPT !.running = 0] ELSE state
  /\ UNCHANGED <<queue, autonomous, user, answered, used>>

EmitTerminal(g) ==
  /\ Doing(g, "tell") /\ Leave(g)
  /\ answered' = answered \cup {g}
  /\ UNCHANGED <<state, queue, autonomous, user, used>>

WorkerStep(g) ==
  \/ Preflight(g) \/ Commit(g) \/ ToolReturns(g) \/ LoopEnds(g) \/ Aborted(g)
  \/ LookAtGeneration(g) \/ EndOwnTask(g) \/ SubmitRequest(g)
  \/ SuspendTurn(g) \/ ClearRunning(g) \/ EmitTerminal(g)

SessionNext == UserCall \/ UserStep \/ \E g \in Gens : WorkerStep(g)

(* The workers go on, and the user's thread finishes the call it is in;    *)
(* nothing makes the user call.                                            *)
Workers == \E g \in Gens : WorkerStep(g)
SessionFairness == WF_sessionVars(Workers) /\ WF_sessionVars(UserStep)
SessionSpec == SessionInit /\ [][SessionNext]_sessionVars /\ SessionFairness

-----------------------------------------------------------------------------
(* Properties.                                                             *)

Commits(g) == worker[g].at = "ready" /\ worker'[g].at = "tool" /\ ~autonomous
Serving(g) == FirstMatch(queue, worker[g].need, worker[g].task)
Tells(g) == Doing(g, "tell") /\ worker'[g].todo # worker[g].todo

(* An approval bound to a task serves no call of that task once the task   *)
(* was superseded or cancelled and its end has reached the queue, however  *)
(* late the aborted worker notices.                                        *)
ApprovalDiesWithItsTask ==
  [][\A g \in Gens : Commits(g) /\ Serving(g).life \in {"once", "task"} =>
       \/ worker[g].task = state.task
       \/ UserAt("end") /\ user.task = worker[g].task]_sessionVars

(* A one-use grant serves one call: two workers, a retry after an abort or *)
(* two calls of one response cannot share it.                              *)
OneUseServesOnce ==
  [][\A g \in Gens : Commits(g) => OneUse(g) \cap used = {}]_sessionVars

(* The stored handle is the current generation's and never one of a worker *)
(* that has finished, on every way out of a turn; and whoever sees the     *)
(* terminal event of the current turn sees the session idle.               *)
NoStaleHandle ==
  state.running # 0 => state.running = state.gen /\ worker[state.running].at # "over"
HandleFollowsTurn ==
  [][NoStaleHandle' /\ \A g \in Gens : Tells(g) /\ Current(g) => state.running = 0]_sessionVars

(* A worker's turn gets its terminal event (done, failed or suspended)     *)
(* unless the user supersedes it, whatever way the loop ends.              *)
TurnsAreAnswered ==
  \A g \in Gens : worker[g].at = "run" ~> (g \in answered \/ state.gen # g)
=============================================================================
