------------------------------ MODULE WebTasks ------------------------------
(***************************************************************************)
(* The task service of a page that has no native host: an orchestrator     *)
(* over rows in the browser's database, in one window.  claim is one       *)
(* transaction.  update is two, one reads the row and one writes it back   *)
(* with the patch, and others come in between (any number of them here:    *)
(* the database would let in those that were asked for before).  The tick  *)
(* takes its steps one after the other; runs, cancellations and reviews    *)
(* overlap with it and with each other.  A reload forgets all but the rows.*)
(* A task that is through its steps is verified: it asks for nothing, for  *)
(* a result, which its effects leave, or for a review.                     *)
(***************************************************************************)
EXTENDS Integers, Sequences, FiniteSets

CONSTANTS
  WebTask,         \* tasks
  WebPlan,         \* their steps: "effect" (a notification or a routine),
                   \* "sleep", "event" (a wait with a timeout) or "tool"
  WebVerify,       \* the verifications each may be submitted with
  WebStepAttempts, \* maxAttempts of a step
  WebTaskAttempts, \* maxAttempts of a task
  MaxSubmits,      \* bound on tasks that are submitted
  MaxReloads,      \* bound on reloads
  MaxOrders,       \* bound on calls of cancel and of review
  MaxBeats         \* bound on heartbeats: those alone with their row change
                   \* nothing that is kept here

ASSUME WebAssumption ==
  /\ IsFiniteSet(WebTask) /\ WebVerify \in [WebTask -> SUBSET {"none", "result", "review"}]
  /\ WebPlan \in [WebTask -> Seq({"effect", "sleep", "event", "tool"})]
  /\ WebStepAttempts \in Nat \ {0} /\ WebTaskAttempts \in Nat
  /\ {MaxSubmits, MaxReloads, MaxOrders, MaxBeats} \subseteq Nat

VARIABLES
  row,      \* the rows: status, cursor, what it waits or last waited for, the
            \* attempts of each step and those of the task, its verification
            \* and whether it has a result
  run,      \* where the run of a task is, the row it holds, how its step went
  update,   \* the update that a run, the heartbeat or the user has under way
  puts,     \* those that are to write next, in the order they read
  reloads, orders, beats, \* bounds
  did       \* how often the effect of a step took place

webVars == <<row, run, update, puts, reloads, orders, beats, did>>
webCounts == <<reloads, orders, beats>>

StepCount(t) == Len(WebPlan[t])
Settled == {"none", "completed", "failed", "cancelled"}
NoRow == [status |-> "none", cursor |-> 0, waitFor |-> "none", tries |-> <<>>, attempts |-> 0,
          verify |-> "none", result |-> FALSE]
NoRun == [at |-> "none", row |-> NoRow, outcome |-> "none"]
NoUpdate == [at |-> "none", data |-> NoRow]
Writers == {"run", "beat", "user"} \X WebTask

WebTypeOK ==
  /\ \A t \in WebTask :
       /\ row[t].status \in Settled \cup {"pending", "scheduled", "ready", "running", "waiting",
                                        "needs_review"}
       /\ row[t].cursor \in 0 .. StepCount(t) + 1 + orders
       /\ row[t].tries \in Seq(Nat) /\ Len(row[t].tries) \in {0, StepCount(t)}
       /\ row[t].attempts \in 0 .. WebTaskAttempts + 1
       /\ row[t].verify \in {"none", "result", "review"} /\ row[t].result \in BOOLEAN
       /\ run[t].at \in {"none", "load", "again", "begin", "step", "outcome", "end"}
  /\ \A w \in Writers : update[w].at \in {"none", "reads", "writes"}

WebInit ==
  /\ row = [t \in WebTask |-> NoRow]
  /\ run = [t \in WebTask |-> NoRun] /\ update = [w \in Writers |-> NoUpdate]
  /\ puts = <<>> /\ reloads = 0 /\ orders = 0 /\ beats = 0
  /\ did = [t \in WebTask |-> [i \in 1 .. StepCount(t) |-> 0]]

-----------------------------------------------------------------------------
InFlight(t) == run[t].at # "none"

(* A row with what a patch says of it.                                     *)
Patched(patch, r) ==
  LET of(field) == IF field \in DOMAIN patch THEN patch[field] ELSE r[field]
  IN  [status |-> of("status"), cursor |-> of("cursor"), waitFor |-> of("waitFor"),
       tries |-> of("tries"), attempts |-> of("attempts"),
       verify |-> r.verify, result |-> of("result")]
Asks(w, patch) == update' = [update EXCEPT ![w] = [at |-> "reads", data |-> patch]]
UpdateReads(w) ==
  /\ update[w].at = "reads"
  /\ update' = [update EXCEPT ![w] = [at |-> "writes", data |-> Patched(update[w].data, row[w[2]])]]
  /\ puts' = Append(puts, w) /\ UNCHANGED <<row, run, webCounts, did>>
UpdateWrites(w) ==
  /\ update[w].at = "writes" /\ update' = [update EXCEPT ![w] = NoUpdate]
  /\ w = Head(puts) /\ puts' = Tail(puts)
  /\ row' = [row EXCEPT ![w[2]] = update[w].data]
  /\ run' = IF w[1] = "run" /\ run[w[2]].at = "end" THEN [run EXCEPT ![w[2]] = NoRun] ELSE run
  /\ UNCHANGED <<webCounts, did>>

(* What is patched: the status, the steps, the steps with the cursor and   *)
(* the result, and for a row that is not running any more the status along *)
(* with the steps.                                                         *)
Becomes(status) == [status |-> status]
Steps(r) == [tries |-> r.tries]
Advance(r) == [tries |-> r.tries, cursor |-> r.cursor + 1, result |-> TRUE]
Again(r) == [status |-> "ready", tries |-> r.tries]
Fails(r) == [status |-> "failed", tries |-> r.tries]
GoesOn(r) == [status |-> "ready", tries |-> r.tries, cursor |-> r.cursor + 1]
Parks(r, kind) == [status |-> "waiting", tries |-> r.tries, waitFor |-> kind]
Recovers(n) == [status |-> IF n > WebTaskAttempts THEN "failed" ELSE "ready", attempts |-> n]
NotAttempted(r) == r
Attempted(r) == [r EXCEPT !.tries = [i \in DOMAIN @ |-> IF i = r.cursor THEN @[i] + 1 ELSE @[i]]]

-----------------------------------------------------------------------------
(* The steps of the tick; it waits for the heartbeat's updates.            *)
Ticking ==
  /\ \A t \in WebTask : update[<<"beat", t>>] = NoUpdate
  /\ UNCHANGED <<update, puts, webCounts, did>>
ClaimsRow(t, from, patch) == row[t].status = from /\ row' = [row EXCEPT ![t] = Patched(patch, row[t])]
Waits(t, kind) == row[t].status = "waiting" /\ row[t].waitFor = kind

PromoteDue(t) ==
  /\ Ticking /\ \E from \in {"pending", "scheduled"} : ClaimsRow(t, from, Becomes("ready"))
  /\ UNCHANGED run

(* A lease lapses some time after the last heartbeat; the runs of this     *)
(* window are left alone.                                                  *)
RecoverExpiredLeases(t) ==
  /\ Ticking /\ ~InFlight(t) /\ UNCHANGED run
  /\ ClaimsRow(t, "running", Recovers(row[t].attempts + 1))

(* A wait is over: its time has come, or an event that matches.            *)
ResumeTimedOutWaits(t) ==
  /\ Ticking /\ UNCHANGED run
  /\ \/ Waits(t, "sleep") /\ ClaimsRow(t, "waiting", GoesOn(row[t]))
     \/ /\ Waits(t, "event")
        /\ LET r == Attempted(row[t]) IN
           ClaimsRow(t, "waiting", IF r.cursor <= StepCount(t) /\ r.tries[r.cursor] < WebStepAttempts
                                  THEN Again(r) ELSE Becomes("failed"))
ResumeWaitingForEvent(t) ==
  /\ Waits(t, "event") /\ ClaimsRow(t, "waiting", GoesOn(row[t]))
  /\ UNCHANGED <<run, update, puts, webCounts, did>>

HeartbeatInFlight(t) ==
  /\ beats < MaxBeats /\ beats' = beats + 1
  /\ \A r \in WebTask : update[<<"beat", r>>] = NoUpdate
  /\ InFlight(t) /\ row[t].status = "running" /\ Asks(<<"beat", t>>, <<>>)
  /\ UNCHANGED <<row, run, puts, reloads, orders, did>>

(* dispatchOne, and the launch of the run if it has none.                  *)
DispatchOne(t) ==
  /\ Ticking /\ \A r \in WebTask : row[r].status # "running"
  /\ ClaimsRow(t, "ready", Becomes("running"))
  /\ run' = IF InFlight(t) THEN run ELSE [run EXCEPT ![t].at = "load"]

-----------------------------------------------------------------------------
(* runContinuation: each step is up to the next transaction.               *)
Runs(t, at) == run[t].at = at /\ update[<<"run", t>>] = NoUpdate /\ UNCHANGED <<row, puts, webCounts>>
RunGoes(t, at, held, outcome) == run' = [run EXCEPT ![t] = [at |-> at, row |-> held, outcome |-> outcome]]
Ends(t) == run' = [run EXCEPT ![t] = NoRun] /\ UNCHANGED update

(* failTask: the step i, whose attempts may be used up.  A task without    *)
(* steps has none to fail: launch catches what is thrown.                  *)
FailTask(t, r, i) ==
  IF i \notin 1 .. StepCount(t) THEN Becomes("failed")
  ELSE IF r.tries[i] < WebStepAttempts THEN Again(r) ELSE Fails(r)

(* verifyTask and what becomes of the task.  A result that is missing      *)
(* fails the last step once more, whose attempts do not grow any further.  *)
Verified(t, r) ==
  CASE r.verify = "none" \/ (r.verify = "result" /\ r.result) -> Becomes("completed")
    [] r.verify = "review" -> Becomes("needs_review")
    [] OTHER -> FailTask(t, r, StepCount(t))

(* The head of the loop: the next step, or the verification.               *)
NextStep(t, held) ==
  IF held.cursor <= StepCount(t)
    THEN RunGoes(t, "step", Attempted(held), "none") /\ Asks(<<"run", t>>, Steps(Attempted(held)))
    ELSE RunGoes(t, "end", held, "none") /\ Asks(<<"run", t>>, Verified(t, held))
RunLoads(t) ==
  /\ Runs(t, "load") /\ UNCHANGED did
  /\ IF row[t].status = "running" THEN NextStep(t, row[t]) ELSE Ends(t)
RunLoadsAgain(t) == Runs(t, "again") /\ NextStep(t, row[t]) /\ UNCHANGED did

(* runStep: an effect that fails or times out may have taken place.        *)
StepOutcomes(kind) ==
  CASE kind = "effect" -> {"completed", "failed"}
    [] kind \in {"sleep", "event"} -> {"wait"}
    [] kind = "tool" -> {"review"}
RunStep(t) ==
  LET i == run[t].row.cursor IN
  /\ Runs(t, "step") /\ UNCHANGED update
  /\ \E outcome \in StepOutcomes(WebPlan[t][i]) :
       /\ RunGoes(t, "outcome", run[t].row, IF outcome = "wait" THEN WebPlan[t][i] ELSE outcome)
       /\ \/ outcome # "completed" /\ did' = did
          \/ outcome \in {"completed", "failed"} /\ did' = [did EXCEPT ![t][i] = @ + 1]

Checked(r) == r.status = "running"
Applied(t, outcome) ==
  LET fresh == row[t] IN
  IF outcome = "review" THEN Becomes("needs_review")
  ELSE IF outcome = "failed" \/ fresh.cursor > StepCount(t) THEN FailTask(t, fresh, fresh.cursor)
  ELSE IF outcome = "completed" THEN Advance(fresh)
  ELSE Parks(fresh, outcome)
RunOutcome(t) ==
  LET outcome == run[t].outcome IN
  /\ Runs(t, "outcome") /\ UNCHANGED did
  /\ \/ ~Checked(row[t]) /\ Ends(t)
     \/ /\ Checked(row[t]) /\ Asks(<<"run", t>>, Applied(t, outcome))
        /\ RunGoes(t, IF outcome = "completed" /\ row[t].cursor <= StepCount(t) THEN "again" ELSE "end",
                row[t], "none")

-----------------------------------------------------------------------------
SubmitTask(t) ==
  /\ row[t].status = "none" /\ UNCHANGED <<run, update, puts, webCounts, did>>
  /\ Cardinality({u \in WebTask : row[u].status # "none"}) < MaxSubmits
  /\ \E status \in {"pending", "scheduled"}, verify \in WebVerify[t] :
       row' = [row EXCEPT ![t] = [status |-> status, cursor |-> 1, waitFor |-> "none", attempts |-> 0,
                                  tries |-> [i \in 1 .. StepCount(t) |-> 0],
                                  verify |-> verify, result |-> FALSE]]
Orders(t) ==
  /\ orders < MaxOrders /\ orders' = orders + 1 /\ update[<<"user", t>>] = NoUpdate
  /\ UNCHANGED <<row, run, puts, reloads, beats, did>>
CancelTask(t) ==
  row[t].status \notin Settled /\ Orders(t) /\ Asks(<<"user", t>>, Becomes("cancelled"))
Review(t, approved) ==
  /\ row[t].status = "needs_review" /\ Orders(t)
  /\ Asks(<<"user", t>>, IF approved THEN GoesOn(row[t])
                                     ELSE Becomes("cancelled"))

(* The window is reloaded.                                                 *)
Reload ==
  /\ reloads < MaxReloads /\ reloads' = reloads + 1
  /\ run' = [t \in WebTask |-> NoRun] /\ update' = [w \in Writers |-> NoUpdate]
  /\ puts' = <<>> /\ UNCHANGED <<row, orders, beats, did>>

TickStep(t) ==
  PromoteDue(t) \/ RecoverExpiredLeases(t) \/ ResumeTimedOutWaits(t) \/ DispatchOne(t)
RunStepOf(t) == RunLoads(t) \/ RunLoadsAgain(t) \/ RunStep(t) \/ RunOutcome(t)
WebWork ==
  \/ \E t \in WebTask : TickStep(t) \/ RunStepOf(t)
  \/ \E w \in Writers : UpdateReads(w) \/ UpdateWrites(w)
WebNext ==
  \/ WebWork
  \/ \E t \in WebTask :
       \/ SubmitTask(t) \/ HeartbeatInFlight(t) \/ ResumeWaitingForEvent(t)
       \/ CancelTask(t) \/ \E approved \in BOOLEAN : Review(t, approved)
  \/ Reload

(* The poll goes on, and so do the steps of a run and the transactions.    *)
WebFairness == WF_webVars(WebWork)
WebSpec == WebInit /\ [][WebNext]_webVars /\ WebFairness

-----------------------------------------------------------------------------
(* Whatever is overwritten, a task completes only when each of its effects *)
(* took place, unless a heartbeat wrote a stale record over a review or a  *)
(* review over a heartbeat: together they may pass over a step. And each   *)
(* repetition of an effect is paid for: by an attempt of the step, a       *)
(* recovery of the task, or an update that wrote over the cursor.          *)
NothingIsSkipped ==
  beats = 0 \/ orders = 0 =>
    \A t \in WebTask : \A i \in 1 .. StepCount(t) :
      row[t].status = "completed" /\ WebPlan[t][i] = "effect" => did[t][i] > 0
RepeatsArePaid ==
  \A t \in WebTask : \A i \in 1 .. StepCount(t) :
    did[t][i] <= WebStepAttempts + WebTaskAttempts + beats + orders
EffectsAreAccounted == NothingIsSkipped /\ RepeatsArePaid

(* A task that asks for a result none of its steps has left is past its    *)
(* steps, and its last one keeps attempts that nothing uses up any more:   *)
(* the verification fails it retryably for ever.                           *)
Unverifiable(t) ==
  /\ row[t].verify = "result" /\ ~row[t].result /\ row[t].cursor > StepCount(t)
  /\ StepCount(t) > 0 /\ row[t].tries[StepCount(t)] < WebStepAttempts

(* Whatever overlaps, and if the window is reloaded, a task comes to rest: *)
(* at its end, or where the user has to act; unless it is one of these.    *)
WebTaskRests ==
  \A t \in WebTask :
    row[t].status \notin Settled ~> row[t].status \in Settled \cup {"needs_review"} \/ Unverifiable(t)
=============================================================================
