---------------------------- MODULE DurableTasks ----------------------------
(***************************************************************************)
(* The durable task authority: the tasks.db store (crates/task-core        *)
(* store.rs), the executor, the scheduler's bookkeeping pass, recovery,    *)
(* and the host around them (crates/task-host lib.rs): one tick loop, a    *)
(* pool of workers fed by a bounded queue, the lease renewal of a long     *)
(* agent step, and the IPC calls that create, edit, cancel, review and     *)
(* deliver events to tasks.                                                *)
(*                                                                         *)
(* The store is one mutex around one SQLite connection, so a call of it is *)
(* one step; but `update` is two of them, a read that checks the           *)
(* transition and a write of the whole row, and every operation computes   *)
(* that row from a copy read earlier.  Each actor therefore carries the    *)
(* row it is going to write, and the check and the write are steps of      *)
(* their own.                                                              *)
(*                                                                         *)
(* Time is kept as what the comparisons with `now` would say: a lease is   *)
(* held or lapsed, a wait pending or passed, a task due or not.            *)
(***************************************************************************)
EXTENDS Integers, Sequences, FiniteSets

CONSTANTS
  Tasks,               \* task ids
  NoTask,              \* "no task": the actor is between operations
  Workers,             \* the worker loops of run_worker_pool
  Clients,             \* IPC requests that can be in progress at once
  Ticker,              \* the single tick loop
  Renewer,             \* the lease renewal task of the running agent step
  Plan,                \* Plan[t]: the kinds of t's steps, in order
  Verified,            \* tasks whose result must report success
  MaxAttempts,         \* task.max_attempts
  StepMax,             \* step.max_attempts
  QueueSize,           \* DISPATCH_CHANNEL_SIZE
  LeaseOutlivesSteps,  \* no step's timeout exceeds DEFAULT_LEASE_MS
  CrashMidUpdate,      \* a crash may fall between the statements of an update
  MaxRequests,         \* bound: IPC calls after creation
  MaxCrashes           \* bound: crashes of the process

StepKinds == {"work",     \* tool, agent and notification steps
              "agent",    \* a "work" step long enough to renew its lease
              "pause",    \* a wait for a duration
              "event",    \* an avatar routine, or an event wait with timeout
              "signal",   \* an event wait without one
              "approval"}

ASSUME TasksAssumption == NoTask \notin Tasks
ASSUME ActorsAssumption ==
  /\ Workers \cap Clients = {}
  /\ Ticker \notin Workers \cup Clients
  /\ Renewer \notin Workers \cup Clients \cup {Ticker}
ASSUME PlanAssumption ==
  /\ Plan \in [Tasks -> Seq(StepKinds)]
  /\ \A t \in Tasks : Len(Plan[t]) > 0
  /\ Verified \subseteq Tasks
ASSUME BoundsAssumption ==
  /\ MaxAttempts \in Nat \ {0}
  /\ StepMax \in Nat \ {0}
  /\ QueueSize \in Nat \ {0}
  /\ MaxRequests \in Nat
  /\ MaxCrashes \in Nat
  /\ LeaseOutlivesSteps \in BOOLEAN
  /\ CrashMidUpdate \in BOOLEAN

Actors == Workers \cup Clients \cup {Ticker, Renewer}

VARIABLES
  row,       \* row[t]: the row of t in tasks, with its task_steps
  queue,     \* the dispatch channel
  inFlight,  \* ids queued or executing
  pc,        \* pc[a]: where actor a is
  op,        \* op[a]: the operation it is performing
  cur,       \* cur[a]: the task it is performing it on
  buf,       \* buf[a]: the row it holds in memory
  phase,     \* the part of collect_ready the ticker is in
  todo,      \* the rows the ticker's last query returned and still has to do
  resumes,   \* history: times t was released from a wait or a review
  executions,  \* history: times t was claimed, cut off one above its budget
  requests,  \* bound: IPC calls made
  crashes    \* bound: crashes so far

Places == {"idle", "claim", "loop", "run", "apply", "check", "write", "exit"}

Operations == {"none", "claim", "start", "skip", "finish", "done", "retryable",
               "fatal", "park_wait", "park_review", "renew", "recover",
               "expire", "promote", "cancel", "deliver", "approve", "reject",
               "edit"}

Phases == {"dispatch", "recover", "expire", "promote"}

actorVars == <<pc, op, cur, buf>>
hostVars == <<queue, inFlight>>
tickVars == <<phase, todo>>
historyVars == <<resumes, executions>>
boundVars == <<requests, crashes>>
vars == <<row, hostVars, actorVars, tickVars, historyVars, boundVars>>

Life == INSTANCE TaskLifecycle WITH status <- [t \in Tasks |-> row[t].status]

-----------------------------------------------------------------------------
(* Rows.  A completed step is "done", or "bad" when its receipt says that  *)
(* the routine did not succeed.                                            *)

StepStatus == {"pending", "running", "done", "bad", "failed"}
Waits == {"none", "timer", "timerPassed", "event", "eventPassed", "signal"}
EventWaits == {"event", "eventPassed", "signal"}
PassedWaits == {"timerPassed", "eventPassed"}

Step == [st : StepStatus, tries : Nat]
Row == [status : Life!TaskStatus \cup {Life!Absent}, idx : Nat \ {0},
        steps : Seq(Step), attempts : Nat,
        lease : {"none", "held", "lapsed"}, due : BOOLEAN, wait : Waits]

FreshSteps(t) == [i \in 1..Len(Plan[t]) |-> [st |-> "pending", tries |-> 0]]

NewRow(t) ==
  [status |-> "pending", idx |-> 1, steps |-> FreshSteps(t), attempts |-> 0,
   lease |-> "none", due |-> TRUE, wait |-> "none"]

\* No row at all; also what an actor between operations holds.
NoRow == [status |-> Life!Absent, idx |-> 1, steps |-> <<>>, attempts |-> 0,
          lease |-> "none", due |-> TRUE, wait |-> "none"]

Finished(s) == s.st \in {"done", "bad"}

\* steps.get_mut(i): nothing happens when there is no such step.
SetStep(r, i, s) ==
  IF i \in DOMAIN r.steps THEN [r EXCEPT !.steps[i].st = s] ELSE r

HasStep(r) == r.idx \in DOMAIN r.steps

-----------------------------------------------------------------------------
(* The rows the executor writes (executor.rs).                             *)

Claimed(r) ==
  [r EXCEPT !.status = "running", !.attempts = @ + 1, !.lease = "held",
            !.due = TRUE]

Started(r) ==
  [SetStep(r, r.idx, "running") EXCEPT !.steps[r.idx].tries = @ + 1,
                                       !.lease = "held"]

\* Mutant: a step that completed gives the lease back.
StepCompletedWithoutLease(r, i, result) ==
  [SetStep(r, i, result) EXCEPT !.idx = i + 1, !.lease = "none"]

\* complete_step keeps the status it read back, whatever that is.
StepCompleted(r, i, result) ==
  [SetStep(r, i, result) EXCEPT !.idx = i + 1, !.lease = "held"]

ParkedWaiting(r, i, w) ==
  [SetStep(r, i, "running") EXCEPT !.status = "waiting", !.wait = w,
                                   !.lease = "none"]

ParkedReview(r, i) ==
  [SetStep(r, i, "running") EXCEPT !.status = "needs_review", !.lease = "none"]

\* The task is retried after a backoff while it has attempts left, even when
\* its step has none.
StepFailed(r, i, retryable) ==
  LET again == retryable /\ r.attempts < MaxAttempts
      stepAgain == i \in DOMAIN r.steps /\ r.steps[i].tries < StepMax
      marked == SetStep(r, i, IF again /\ stepAgain THEN "pending" ELSE "failed")
  IN IF again
     THEN [marked EXCEPT !.status = "ready", !.lease = "none", !.due = FALSE]
     ELSE [marked EXCEPT !.status = "failed", !.lease = "none"]

\* verify_task reads the most recent step result.
HasResult(r) == {i \in DOMAIN r.steps : Finished(r.steps[i])}
VerifyTask(t, r) ==
  t \in Verified => \E i \in HasResult(r) : /\ r.steps[i].st = "done"
                                            /\ \A j \in HasResult(r) : j <= i

\* The last step whose receipt is bad, or else the last step.
VerificationRetryIndex(r) ==
  LET bad(i) == r.steps[i].st = "bad"
      last == {i \in DOMAIN r.steps : bad(i) /\ \A j \in DOMAIN r.steps : bad(j) => j <= i}
  IN IF last # {} THEN CHOOSE i \in last : TRUE
     ELSE IF r.steps = <<>> THEN 1 ELSE Len(r.steps)

FinishedTask(t, r) ==
  LET i == VerificationRetryIndex(r)
      closed == [r EXCEPT !.lease = "none"]
  IN IF VerifyTask(t, r) THEN [closed EXCEPT !.status = "completed"]
     ELSE IF r.attempts < MaxAttempts
     THEN [SetStep(closed, i, "pending") EXCEPT !.status = "ready", !.idx = i,
                                                !.due = FALSE]
     ELSE [closed EXCEPT !.status = "failed"]

-----------------------------------------------------------------------------
(* The rows the bookkeeping pass writes (recovery.rs, scheduler.rs).       *)

\* Mutants: recovery gives the step the status of the task; recovery starts
\* the steps over.
ResetToReady(r) == IF HasStep(r) THEN SetStep(r, r.idx, "ready") ELSE r
ResetEveryStep(r) ==
  [r EXCEPT !.idx = 1, !.steps = [i \in DOMAIN @ |-> [@[i] EXCEPT !.st = "pending"]]]

ResetRunningStep(r) ==
  IF HasStep(r) /\ r.steps[r.idx].st = "running"
  THEN SetStep(r, r.idx, "pending") ELSE r

\* Mutant: off by one in the attempts a crash may use.
RecoveredOnceMore(r) ==
  [ResetRunningStep(r) EXCEPT !.lease = "none", !.due = TRUE,
     !.status = IF r.attempts > MaxAttempts THEN "failed" ELSE "ready"]

Recovered(r) ==
  IF r.attempts >= MaxAttempts
  THEN [ResetRunningStep(r) EXCEPT !.status = "failed", !.lease = "none"]
  ELSE [ResetRunningStep(r) EXCEPT !.status = "ready", !.lease = "none",
                                   !.due = TRUE]

\* Advance past the current step, as done; the task is ready at once.
Advanced(r, result) ==
  [SetStep(r, r.idx, result) EXCEPT !.idx = @ + 1, !.status = "ready",
                                    !.wait = "none", !.due = TRUE]

\* Mutant: an event wait that timed out is skipped instead of tried again.
WaitExpiredSkips(r) ==
  [r EXCEPT !.wait = "none", !.status = "ready", !.idx = @ + 1, !.due = TRUE]

\* A pause is over when its timer passes (only "pause" steps arm one); an
\* event wait that timed out is tried again, or fails.
WaitExpired(r) ==
  IF r.wait \notin EventWaits THEN Advanced(r, "done")
  ELSE IF r.attempts >= MaxAttempts
  THEN [r EXCEPT !.wait = "none", !.status = "failed"]
  ELSE [r EXCEPT !.wait = "none", !.status = "ready", !.due = TRUE]

Promoted(r) == [r EXCEPT !.status = "ready"]

(* The rows the IPC calls write (scheduler.rs, tooling.rs).                *)

Cancelled(r) ==
  [r EXCEPT !.status = "cancelled", !.lease = "none", !.wait = "none"]

Approved(t, r) ==
  IF HasStep(r) /\ Plan[t][r.idx] = "approval"
  THEN [SetStep(r, r.idx, "done") EXCEPT !.idx = @ + 1, !.status = "ready",
                                         !.due = TRUE]
  ELSE [SetStep(r, r.idx, "pending") EXCEPT !.status = "ready", !.due = TRUE]

Rejected(r) == [SetStep(r, r.idx, "failed") EXCEPT !.status = "failed"]

-----------------------------------------------------------------------------
(* TaskStore::update, the last part of every operation: the actor reads    *)
(* the stored status and checks the edge, then writes its whole row.       *)

Prepare(a, o, t, r) ==
  /\ pc' = [pc EXCEPT ![a] = "check"]
  /\ op' = [op EXCEPT ![a] = o]
  /\ cur' = [cur EXCEPT ![a] = t]
  /\ buf' = [buf EXCEPT ![a] = r]

Rest(a) ==
  /\ pc' = [pc EXCEPT ![a] = "idle"]
  /\ op' = [op EXCEPT ![a] = "none"]
  /\ cur' = [cur EXCEPT ![a] = NoTask]
  /\ buf' = [buf EXCEPT ![a] = NoRow]

Goto(a, p) == pc' = [pc EXCEPT ![a] = p] /\ UNCHANGED <<op, cur, buf>>

Legal(a) ==
  LET from == row[cur[a]].status
      to == buf[a].status
  IN from = to \/ Life!CanTransition(from, to)

\* IllegalTransition: an executor gives the task up, except that a step it
\* could not claim fails as retryable; the ticker abandons its pass; the
\* other callers return the error.
UpdateRefused(a) ==
  IF a \in Workers
  THEN IF op[a] = "start"
       THEN /\ pc' = [pc EXCEPT ![a] = "apply"]
            /\ op' = [op EXCEPT ![a] = "retryable"]
            /\ UNCHANGED <<cur, buf, tickVars>>
       ELSE Goto(a, "exit") /\ UNCHANGED tickVars
  ELSE /\ Rest(a)
       /\ IF a = Ticker THEN phase' = "dispatch" /\ todo' = <<>>
                        ELSE UNCHANGED tickVars

UpdateCheck(a) ==
  /\ pc[a] = "check"
  /\ IF Legal(a) THEN Goto(a, "write") /\ UNCHANGED tickVars
                 ELSE UpdateRefused(a)
  /\ UNCHANGED <<row, hostVars, historyVars, boundVars>>

\* Where an executor goes after its update went through.
AfterWrite(o) ==
  CASE o = "start" -> "run"
    [] o \in {"claim", "skip", "done"} -> "loop"
    [] OTHER -> "exit"

\* a is about to write t back to work after a wait or a review.
Releases(a, t) ==
  /\ pc[a] = "write"
  /\ cur[a] = t
  /\ op[a] \in {"expire", "deliver", "approve"}
  /\ buf[a].status = "ready"

\* a is about to write its claim of t.
Executes(a, t) ==
  /\ op[a] = "claim"
  /\ cur[a] = t
  /\ executions[t] <= MaxAttempts + resumes[t]

UpdateWrite(a) ==
  /\ pc[a] = "write"
  /\ row' = [row EXCEPT ![cur[a]] = buf[a]]
  /\ resumes' = [t \in Tasks |-> resumes[t] + IF Releases(a, t) THEN 1 ELSE 0]
  /\ executions' = [t \in Tasks |-> executions[t] + IF Executes(a, t) THEN 1 ELSE 0]
  /\ IF a \in Workers THEN Goto(a, AfterWrite(op[a])) ELSE Rest(a)
  /\ UNCHANGED <<hostVars, tickVars, boundVars>>

Update(a) == UpdateCheck(a) \/ UpdateWrite(a)

-----------------------------------------------------------------------------
(* A worker: run_worker_pool takes an id, Executor::execute_task drives it *)
(* to a resting state, and the in-flight mark is cleared on every exit.    *)

Take(w) ==
  /\ pc[w] = "idle"
  /\ queue # <<>>
  /\ queue' = Tail(queue)
  /\ cur' = [cur EXCEPT ![w] = Head(queue)]
  /\ pc' = [pc EXCEPT ![w] = "claim"]
  /\ UNCHANGED <<row, inFlight, op, buf, tickVars, historyVars, boundVars>>

Claim(w) ==
  /\ pc[w] = "claim"
  /\ LET t == cur[w]
     IN IF row[t].status = "ready" THEN Prepare(w, "claim", t, Claimed(row[t]))
                                   ELSE Goto(w, "exit")
  /\ UNCHANGED <<row, hostVars, tickVars, historyVars, boundVars>>

\* The loop head works on the copy in memory: finish, skip or start a step.
Advance(w) ==
  /\ pc[w] = "loop"
  /\ LET t == cur[w]
         r == buf[w]
     IN IF ~HasStep(r) THEN Prepare(w, "finish", t, FinishedTask(t, r))
        ELSE IF Finished(r.steps[r.idx])
        THEN Prepare(w, "skip", t, [r EXCEPT !.idx = @ + 1])
        ELSE Prepare(w, "start", t, Started(r))
  /\ UNCHANGED <<row, hostVars, tickVars, historyVars, boundVars>>

\* Mutant: an approval step completes like any other.
OutcomesWithoutApproval(kind) ==
  IF kind \in {"work", "agent", "approval"} THEN {"done", "retryable"} ELSE {"park_wait"}

\* What the runner of a step of this kind can answer, the executor's own
\* timeout (retryable) included.  A pause of no length is over at once.
Outcomes(kind) ==
  CASE kind \in {"work", "agent"} -> {"done", "park_review", "retryable", "fatal"}
    [] kind = "approval" -> {"park_review"}
    [] kind = "pause" -> {"done", "park_wait"}
    [] OTHER -> {"park_wait"}

WaitFor(kind) == CASE kind = "pause" -> "timer"
                   [] kind = "event" -> "event"
                   [] OTHER -> "signal"

RunStep(w) ==
  /\ pc[w] = "run"
  /\ \E o \in Outcomes(Plan[cur[w]][buf[w].idx]) : op' = [op EXCEPT ![w] = o]
  /\ pc' = [pc EXCEPT ![w] = "apply"]
  /\ UNCHANGED <<row, hostVars, cur, buf, tickVars, historyVars, boundVars>>

\* The task is read again; the step index is the one from before the step.
ApplyOutcome(w) ==
  /\ pc[w] = "apply"
  /\ LET t == cur[w]
         i == buf[w].idx
         o == op[w]
         r == row[t]
     IN Prepare(w, o, t,
          CASE o = "done" -> StepCompleted(r, i, "done")
            [] o = "park_wait" -> ParkedWaiting(r, i, WaitFor(Plan[t][i]))
            [] o = "park_review" -> ParkedReview(r, i)
            [] OTHER -> StepFailed(r, i, o = "retryable"))
  /\ UNCHANGED <<row, hostVars, tickVars, historyVars, boundVars>>

\* Mutant: a worker whose execution failed keeps the mark.
ExitKeepsMark(w) ==
  /\ pc[w] = "exit"
  /\ inFlight' = IF op[w] = "none" THEN inFlight ELSE inFlight \ {cur[w]}
  /\ Rest(w)
  /\ UNCHANGED <<row, queue, tickVars, historyVars, boundVars>>

Exit(w) ==
  /\ pc[w] = "exit"
  /\ inFlight' = inFlight \ {cur[w]}
  /\ Rest(w)
  /\ UNCHANGED <<row, queue, tickVars, historyVars, boundVars>>

WorkerStep(w) ==
  \/ Take(w) \/ Claim(w) \/ Advance(w) \/ RunStep(w) \/ ApplyOutcome(w)
  \/ Update(w) \/ Exit(w)

-----------------------------------------------------------------------------
(* The lease renewal spawned beside an agent step.  Dropping it cannot     *)
(* stop an update that has begun.                                          *)

Renew(w) ==
  /\ pc[Renewer] = "idle"
  /\ pc[w] = "run"
  /\ LET t == cur[w]
     IN /\ Plan[t][buf[w].idx] = "agent"
        /\ row[t].status = "running"
        /\ Prepare(Renewer, "renew", t, [row[t] EXCEPT !.lease = "held"])
  /\ UNCHANGED <<row, hostVars, tickVars, historyVars, boundVars>>

-----------------------------------------------------------------------------
(* The tick loop.  Each part of collect_ready is a query followed by one   *)
(* update per row it returned; the last part dispatches.                   *)

\* A pass that is over rests in its last part, with nothing left to do.
NextPhase == [dispatch |-> "recover", recover |-> "expire",
              expire |-> "promote", promote |-> "dispatch"]

InBatch(r) ==
  /\ r.status \in {"pending", "scheduled", "ready"}
  /\ r.due
  /\ r.lease # "held"

\* Mutants: recovery does not look at the lease; expiry forgets the event
\* waits.
SelectedWithoutLease(p, r) ==
  CASE p = "recover" -> r.status = "running"
    [] p = "expire" -> r.status = "waiting" /\ r.wait \in PassedWaits
    [] p = "promote" -> InBatch(r) /\ r.status # "ready"
    [] OTHER -> InBatch(r)
SelectedTimersOnly(p, r) ==
  CASE p = "recover" -> r.status = "running" /\ r.lease = "lapsed"
    [] p = "expire" -> r.status = "waiting" /\ r.wait = "timerPassed"
    [] p = "promote" -> InBatch(r) /\ r.status # "ready"
    [] OTHER -> InBatch(r)

Selected(p, r) ==
  CASE p = "recover" -> r.status = "running" /\ r.lease = "lapsed"
    [] p = "expire" -> r.status = "waiting" /\ r.wait \in PassedWaits
    [] p = "promote" -> InBatch(r) /\ r.status # "ready"
    [] p = "dispatch" -> InBatch(r)
    [] OTHER -> FALSE

TickQuery ==
  /\ pc[Ticker] = "idle"
  /\ todo = <<>>
  /\ phase' = NextPhase[phase]
  /\ todo' = [t \in {u \in Tasks : Selected(phase', row[u])} |-> row[t]]
  /\ UNCHANGED <<row, hostVars, actorVars, historyVars, boundVars>>

Done(t) == todo' = [u \in DOMAIN todo \ {t} |-> todo[u]] /\ UNCHANGED phase

TickUpdate(t) ==
  /\ pc[Ticker] = "idle"
  /\ phase \in {"recover", "expire", "promote"}
  /\ t \in DOMAIN todo
  /\ LET r == todo[t]
     IN Prepare(Ticker, phase, t,
          CASE phase = "recover" -> Recovered(r)
            [] phase = "expire" -> WaitExpired(r)
            [] OTHER -> Promoted(r))
  /\ Done(t)
  /\ UNCHANGED <<row, hostVars, historyVars, boundVars>>

PassedOver(t) ==
  /\ row[t].status # "ready" \/ t \in inFlight \/ Len(queue) = QueueSize
  /\ UNCHANGED hostVars

Queue(t) ==
  /\ "ready" \in {todo[t].status, row[t].status}
  /\ Len(queue) < QueueSize
  /\ inFlight' = inFlight \cup {t}
  /\ queue' = Append(queue, t)

\* Mutant: the in-flight mark is not consulted.
DispatchTwice(t) ==
  /\ phase = "dispatch"
  /\ t \in DOMAIN todo
  /\ PassedOver(t) \/ Queue(t)
  /\ Done(t)
  /\ UNCHANGED <<row, actorVars, historyVars, boundVars>>

\* The batch is read again before any of it is marked in flight and offered
\* to the queue, so a queued task need not be ready any more; a full queue
\* takes the mark back and leaves the task ready.
Dispatch(t) ==
  /\ phase = "dispatch"
  /\ t \in DOMAIN todo
  /\ PassedOver(t) \/ (t \notin inFlight /\ Queue(t))
  /\ Done(t)
  /\ UNCHANGED <<row, actorVars, historyVars, boundVars>>

TickStep ==
  \/ TickQuery
  \/ \E t \in Tasks : TickUpdate(t) \/ Dispatch(t)
  \/ Update(Ticker)

-----------------------------------------------------------------------------
(* IPC calls and model-facing task tools.                                  *)

Create(t) ==
  /\ row[t].status = Life!Absent
  /\ \E r \in {NewRow(t), [NewRow(t) EXCEPT !.status = "scheduled", !.due = FALSE]} :
       row' = [row EXCEPT ![t] = r]
  /\ UNCHANGED <<hostVars, actorVars, tickVars, historyVars, boundVars>>

Request(c, o, t, r) ==
  /\ pc[c] = "idle"
  /\ requests < MaxRequests
  /\ requests' = requests + 1
  /\ Prepare(c, o, t, r)
  /\ UNCHANGED <<row, hostVars, tickVars, historyVars, crashes>>

Cancel(c, t) ==
  /\ row[t].status \notin Life!Terminal \cup {Life!Absent}
  /\ Request(c, "cancel", t, Cancelled(row[t]))

DeliverEvent(c, t) ==
  /\ row[t].status = "waiting"
  /\ row[t].wait \in EventWaits
  /\ \E result \in {"done", "bad"} :
       Request(c, "deliver", t, Advanced(row[t], result))

Review(c, t) ==
  /\ row[t].status = "needs_review"
  /\ \/ Request(c, "approve", t, Approved(t, row[t]))
     \/ Request(c, "reject", t, Rejected(row[t]))

\* tasks.edit: only a task that never started; the schedule is set through
\* its field alone, never through the status.
Edit(c, t) ==
  /\ row[t].status \in {"pending", "scheduled"}
  /\ row[t].attempts = 0
  /\ row[t].idx = 1
  /\ \E d \in BOOLEAN :
       Request(c, "edit", t, [row[t] EXCEPT !.steps = FreshSteps(t), !.due = d])

ClientStep(c) ==
  \/ \E t \in Tasks : Cancel(c, t) \/ DeliverEvent(c, t) \/ Review(c, t) \/ Edit(c, t)
  \/ Update(c)

-----------------------------------------------------------------------------
(* Time, and crashes of the process.                                       *)

Executing(w, t) == pc[w] # "idle" /\ cur[w] = t

LeaseLapses(t) ==
  /\ row[t].lease = "held"
  /\ LeaseOutlivesSteps => \A w \in Workers : ~Executing(w, t)
  /\ row' = [row EXCEPT ![t].lease = "lapsed"]

WaitPasses(t) ==
  /\ row[t].wait \in {"timer", "event"}
  /\ row' = [row EXCEPT ![t].wait = IF @ = "timer" THEN "timerPassed" ELSE "eventPassed"]

BecomesDue(t) ==
  /\ ~row[t].due
  /\ row' = [row EXCEPT ![t].due = TRUE]

TimePasses(t) ==
  /\ LeaseLapses(t) \/ WaitPasses(t) \/ BecomesDue(t)
  /\ UNCHANGED <<hostVars, actorVars, tickVars, historyVars, boundVars>>

\* What tasks.db can hold when the process dies inside the write of a row:
\* UPDATE tasks, DELETE FROM task_steps and one INSERT per step commit one
\* by one, as the INSERTs of a creation do.
TornRows(old, new) ==
  {[new EXCEPT !.steps = old.steps]}
    \cup {[new EXCEPT !.steps = SubSeq(@, 1, k)] : k \in 0..Len(new.steps)}

TornCreations(t) ==
  {[NewRow(t) EXCEPT !.steps = SubSeq(@, 1, k)] : k \in 0..Len(Plan[t])}

TornWrite ==
  \/ \E a \in Actors : /\ pc[a] = "write"
                       /\ \E r \in TornRows(row[cur[a]], buf[a]) :
                            row' = [row EXCEPT ![cur[a]] = r]
  \/ \E t \in Tasks : /\ row[t].status = Life!Absent
                      /\ \E r \in TornCreations(t) : row' = [row EXCEPT ![t] = r]

\* The process stops and starts again: only tasks.db survives.
Crash ==
  /\ crashes < MaxCrashes
  /\ crashes' = crashes + 1
  /\ UNCHANGED row \/ (CrashMidUpdate /\ TornWrite)
  /\ queue' = <<>>
  /\ inFlight' = {}
  /\ pc' = [a \in Actors |-> "idle"]
  /\ op' = [a \in Actors |-> "none"]
  /\ cur' = [a \in Actors |-> NoTask]
  /\ buf' = [a \in Actors |-> NoRow]
  /\ phase' = "dispatch"
  /\ todo' = <<>>
  /\ resumes' = [t \in Tasks |->
                   resumes[t] + IF /\ row'[t] # row[t]
                                   /\ \E a \in Actors : Releases(a, t)
                                THEN 1 ELSE 0]
  /\ UNCHANGED <<executions, requests>>

-----------------------------------------------------------------------------

Init ==
  /\ row = [t \in Tasks |-> NoRow]
  /\ queue = <<>>
  /\ inFlight = {}
  /\ pc = [a \in Actors |-> "idle"]
  /\ op = [a \in Actors |-> "none"]
  /\ cur = [a \in Actors |-> NoTask]
  /\ buf = [a \in Actors |-> NoRow]
  /\ phase = "dispatch"
  /\ todo = <<>>
  /\ resumes = [t \in Tasks |-> 0]
  /\ executions = [t \in Tasks |-> 0]
  /\ requests = 0
  /\ crashes = 0

Next ==
  \/ \E w \in Workers : WorkerStep(w) \/ Renew(w)
  \/ Update(Renewer)
  \/ TickStep
  \/ \E c \in Clients : ClientStep(c)
  \/ \E t \in Tasks : Create(t) \/ TimePasses(t)
  \/ Crash

\* The tokio runtime keeps polling the loops, the tick loop wakes every two
\* seconds, every runner is under a timeout and the clock advances.  Nothing
\* obliges a user to call, an event to come or the process to crash.
Fairness ==
  /\ \A w \in Workers : WF_vars(WorkerStep(w))
  /\ WF_vars(TickStep)
  /\ \A a \in Clients \cup {Renewer} : WF_vars(Update(a))
  /\ \A t \in Tasks : /\ WF_vars(TimePasses(t) /\ LeaseLapses(t))
                       /\ WF_vars(TimePasses(t) /\ WaitPasses(t))
                       /\ WF_vars(TimePasses(t) /\ BecomesDue(t))

Spec == Init /\ [][Next]_vars

FairSpec == Spec /\ Fairness

-----------------------------------------------------------------------------

\* Every variable has its type.
TypeOK ==
  /\ row \in [Tasks -> Row]
  /\ queue \in Seq(Tasks)
  /\ inFlight \subseteq Tasks
  /\ pc \in [Actors -> Places]
  /\ op \in [Actors -> Operations]
  /\ cur \in [Actors -> Tasks \cup {NoTask}]
  /\ buf \in [Actors -> Row]
  /\ phase \in Phases
  /\ DOMAIN todo \subseteq Tasks
  /\ todo \in [DOMAIN todo -> Row]
  /\ resumes \in [Tasks -> Nat]
  /\ executions \in [Tasks -> Nat]
  /\ requests \in 0..MaxRequests
  /\ crashes \in 0..MaxCrashes

-----------------------------------------------------------------------------
(* Safety.                                                                 *)

\* The in-flight set keeps a task in one place at a time: not with two
\* workers, not queued twice, not queued behind its own execution.  It is
\* what stands between a lease that lapses under a live worker and the step
\* running twice (TaskHost::tick, TaskHost::execute_task).
SingleExecution ==
  /\ \A v, w \in Workers : \A t \in Tasks :
       Executing(v, t) /\ Executing(w, t) => v = w
  /\ \A i, j \in 1..Len(queue) : queue[i] = queue[j] => i = j
  /\ \A w \in Workers : \A i \in 1..Len(queue) : ~Executing(w, queue[i])

\* No mark leaks: each belongs to a queued id or to a worker, which clears it
\* on every exit.  A leaked mark would bar the task from every later tick.
MarksAreOwned ==
  inFlight = {queue[i] : i \in 1..Len(queue)}
               \cup {cur[w] : w \in {v \in Workers : pc[v] # "idle"}}

\* A row can be found by whatever has to move it: a running task has a lease
\* for recover_stale to see and a waiting one a wait to expire or to match,
\* whichever updates overtook each other.
Recoverable ==
  \A t \in Tasks :
    /\ row[t].status = "running" => row[t].lease # "none"
    /\ row[t].status = "waiting" => row[t].wait # "none"

\* Without calls, a task is executed at most max_attempts times, and once
\* more for each wait it was released from: fail_step, finish_task,
\* recover_stale and expire_waits all count against the one number.
RetryBudget == \A t \in Tasks : executions[t] <= MaxAttempts + resumes[t]

\* "Runs one task's steps in order": all before the current one are finished.
StepsInOrder ==
  \A t \in Tasks : \A i \in DOMAIN row[t].steps :
    i < row[t].idx => Finished(row[t].steps[i])

\* "Only completes a task after": a completed task has all of its steps, each
\* of them finished.
CompletedMeansDone ==
  \A t \in Tasks : row[t].status = "completed" =>
    /\ Len(row[t].steps) = Len(Plan[t])
    /\ \A i \in DOMAIN row[t].steps : Finished(row[t].steps[i])

\* The rows tell a legal life: TaskLifecycle, through the statuses alone.
LegalLifecycle == Life!Spec

\* A step that finished is not undone, except by a verification retry.
ProgressIsKept ==
  [][\A t \in Tasks : \A i \in DOMAIN row[t].steps :
       Finished(row[t].steps[i]) =>
         /\ i \in DOMAIN row'[t].steps
         /\ \/ Finished(row'[t].steps[i])
            \/ \E w \in Workers : cur[w] = t /\ op[w] = "finish"]_row

\* Some row of t, stored or held in memory, has its approval step i finished.
PassedApproval(t, i) ==
  LET passed(r) == i \in DOMAIN r.steps /\ Finished(r.steps[i])
  IN /\ Plan[t][i] = "approval"
     /\ \/ passed(row[t])
        \/ \E a \in Actors : cur[a] = t /\ passed(buf[a])
        \/ t \in DOMAIN todo /\ passed(todo[t])

\* An approval step comes to be finished by an approval and nothing else: not
\* by a receipt, a timeout, a recovery or an executor that lost its place.
OnlyApprovalPasses ==
  [][\A t \in Tasks : \A i \in DOMAIN Plan[t] :
       ~PassedApproval(t, i) /\ PassedApproval(t, i)'
         => \E c \in Clients : cur'[c] = t /\ op'[c] = "approve"]_vars

-----------------------------------------------------------------------------
(* Liveness.                                                               *)

AtRest(t) ==
  \/ row[t].status \in Life!Terminal \cup {"needs_review"}
  \/ row[t].status = "waiting" /\ row[t].wait = "signal"

\* A created task ends, or waits for a person or for an event that has no
\* deadline: no crash, lapsed lease, full queue, backoff or refused update
\* strands it in between.
NoTaskIsStuck ==
  \A t \in Tasks : row[t].status # Life!Absent ~> AtRest(t)

=============================================================================
