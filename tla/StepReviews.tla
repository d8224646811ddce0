----------------------------- MODULE StepReviews -----------------------------
(***************************************************************************)
(* What stands between a durable step and its side effect: the approval    *)
(* ticket that a task review leaves for the step's next run (task-host,    *)
(* capability-core), and the execution receipts that let a retry replay an *)
(* effect that has happened (task-host/runners.rs, task-core).             *)
(*                                                                         *)
(* One task with one step, a tool call or an agent turn.  Its row is what  *)
(* DurableTasks makes of it, cut down to where the step is; one worker at  *)
(* a time has it, which is SingleExecution of that module.  The worker, on *)
(* its way from await to await, can be overtaken by reviews, be dropped by *)
(* the executor's timeout, or die with the process.                        *)
(***************************************************************************)
EXTENDS Naturals, FiniteSets, Functions

CONSTANTS
  StepNeed,     \* capability-on-resource pairs that take an approval
  Reviewer,     \* concurrent task.review calls
  TaskAttempts, \* the task's max_attempts
  MaxReviews,   \* bound on the reviews
  MaxStepCalls  \* bound on the tool calls of one agent turn

ASSUME ReviewAssumption ==
  /\ TaskAttempts \in Nat \ {0} /\ MaxReviews \in Nat /\ MaxStepCalls \in Nat

VARIABLES
  step,      \* the stored row: kind, need of a tool step, status, attempts
  stash,     \* the ticket stashed for the step
  receipts,  \* the execution receipts by attempt, the unique key
  stepRun,   \* the worker that runs the step
  review,    \* the review calls
  approved,  \* approvals the user gave, by need (history)
  served,    \* calls that passed on a ticket, by need (history)
  effects,   \* how often the tool had its effect (history), and how often
  unknown    \* that left no success receipt (history)

reviewVars == <<step, stash, receipts, stepRun, review, approved, served,
                effects, unknown>>

Ungated == "ungated"
NoTicket == [need |-> Ungated, live |-> FALSE]
NoRun == [at |-> "idle", need |-> Ungated, ticket |-> NoTicket, calls |-> 0, outcome |-> "none"]
NoReview == [at |-> "idle", need |-> Ungated, approve |-> FALSE]
Total(f) == FoldFunction(+, 0, f)

StepNeeds == StepNeed \cup {Ungated}
TicketRecord == [need : StepNeeds, live : BOOLEAN]
StepRecord == [kind : {"tool", "agent"}, need : StepNeeds, attempts : Nat,
               status : {"ready", "running", "review", "done", "failed"}]
RunRecord ==
  [at : {"idle", "replay", "take", "invoke", "record", "apply", "turn", "commit", "use"},
   need : StepNeeds, calls : Nat, ticket : TicketRecord,
   outcome : {"none", "success", "failed", "late", "unknown", "replayed", "review"}]
ReviewRecord == [at : {"idle", "stash", "resume"}, need : StepNeeds, approve : BOOLEAN]

ReviewTypeOK ==
  /\ step \in StepRecord /\ stash \in TicketRecord /\ stepRun \in RunRecord
  /\ stepRun.at = "idle" \/ step.status = "running"
  /\ receipts \in [DOMAIN receipts -> {"success", "failed", "unknown"}]
  /\ DOMAIN receipts \subseteq 1 .. step.attempts
  /\ review \in [Reviewer -> ReviewRecord]
  /\ approved \in [StepNeed -> Nat] /\ served \in [StepNeed -> Nat]
  /\ effects \in Nat /\ unknown \in Nat

ReviewInit ==
  /\ \E kind \in {"tool", "agent"}, n \in StepNeeds :
       step = [kind |-> kind, need |-> IF kind = "tool" THEN n ELSE Ungated,
               status |-> "ready", attempts |-> 0]
  /\ stash = NoTicket
  /\ receipts = <<>>
  /\ stepRun = NoRun
  /\ review = [r \in Reviewer |-> NoReview]
  /\ approved = [n \in StepNeed |-> 0] /\ served = [n \in StepNeed |-> 0]
  /\ effects = 0 /\ unknown = 0

-----------------------------------------------------------------------------
RunIs(place) == stepRun.at = place
RunGoes(place) == stepRun' = [stepRun EXCEPT !.at = place]
RunEnds(outcome) == stepRun' = [stepRun EXCEPT !.at = "apply", !.outcome = outcome]

(* A worker claims the step: the attempt is counted in the row first.      *)
CountAttempt(n) == n + 1
ClaimStep ==
  /\ step.status = "ready" /\ RunIs("idle")
  /\ step' = [step EXCEPT !.status = "running", !.attempts = CountAttempt(@)]
  /\ stepRun' = [NoRun EXCEPT !.at = IF step.kind = "tool" THEN "replay" ELSE "turn"]
  /\ UNCHANGED <<stash, receipts, review, approved, served, effects, unknown>>

(* A tool step: an earlier attempt's success is replayed,                  *)
SuccessReceipt == \E a \in DOMAIN receipts : receipts[a] = "success"
ReplayOrGoOn ==
  /\ RunIs("replay")
  /\ IF SuccessReceipt THEN RunEnds("replayed") ELSE RunGoes("take")
  /\ UNCHANGED <<step, stash, receipts, review, approved, served, effects, unknown>>

(* else a stashed ticket is taken, an expired one for nothing,             *)
StashPeeked == stash
StashTaken == NoTicket
TakeTicket ==
  /\ RunIs("take")
  /\ stepRun' = [stepRun EXCEPT !.at = "invoke", !.ticket = IF stash.live THEN stash ELSE NoTicket]
  /\ stash' = StashTaken
  /\ UNCHANGED <<step, receipts, review, approved, served, effects, unknown>>

(* and the tool invoked: a gated one denies without a ticket that covers   *)
(* it (it may have expired by now), any other call has its effect, fails   *)
(* before it, or times out with or without it.                             *)
Covers(ticket, need) == ticket.live /\ ticket.need = need
Passes ==
  /\ step.need # Ungated => Covers(stepRun.ticket, step.need)
  /\ served' = IF step.need = Ungated THEN served
                 ELSE [served EXCEPT ![step.need] = @ + 1]
InvokeTool ==
  /\ RunIs("invoke")
  /\ \/ /\ step.need # Ungated
        /\ stepRun' = [stepRun EXCEPT !.at = "apply", !.outcome = "review", !.need = step.need]
        /\ UNCHANGED <<served, effects>>
     \/ /\ Passes
        /\ \E outcome \in {"success", "failed", "late", "unknown"} :
             /\ stepRun' = [stepRun EXCEPT !.at = "record", !.outcome = outcome]
             /\ effects' = IF outcome \in {"success", "late"} THEN effects + 1 ELSE effects
  /\ UNCHANGED <<step, stash, receipts, review, approved, unknown>>

(* The receipt is inserted unless its key is there; a store error is       *)
(* logged and swallowed.                                                   *)
ReceiptOf(outcome) == IF outcome = "late" THEN "unknown" ELSE outcome
Recorded ==
  receipts' = [a \in DOMAIN receipts \cup {step.attempts} |->
                 IF a \in DOMAIN receipts THEN receipts[a] ELSE ReceiptOf(stepRun.outcome)]
HadEffect == RunIs("record") /\ stepRun.outcome \in {"success", "late"}
RecordReceipt ==
  /\ RunIs("record") /\ RunGoes("apply")
  /\ \/ Recorded /\ unknown' = IF stepRun.outcome = "late" THEN unknown + 1 ELSE unknown
     \/ UNCHANGED receipts /\ unknown' = IF HadEffect THEN unknown + 1 ELSE unknown
  /\ UNCHANGED <<step, stash, review, approved, served, effects>>

(* An agent step: the model ends the turn or calls tools; a gated call     *)
(* needs a stashed ticket when it is checked, again when it is about to    *)
(* run, and then takes what is stashed, each under a lock of its own.      *)
AgentTurn ==
  /\ RunIs("turn")
  /\ \/ \E outcome \in {"success", "failed", "unknown"} : RunEnds(outcome)
     \/ /\ stepRun.calls < MaxStepCalls
        /\ \E n \in StepNeed :
             stepRun' = [stepRun EXCEPT !.need = n, !.calls = @ + 1,
               !.at = IF Covers(stash, n) THEN "commit" ELSE "apply",
               !.outcome = IF Covers(stash, n) THEN @ ELSE "review"]
  /\ UNCHANGED <<step, stash, receipts, review, approved, served, effects, unknown>>

CommitCall ==
  /\ RunIs("commit")
  /\ IF Covers(stash, stepRun.need) THEN RunGoes("use") ELSE RunGoes("turn")
  /\ UNCHANGED <<step, stash, receipts, review, approved, served, effects, unknown>>

UseTicket ==
  /\ RunIs("use") /\ RunGoes("turn")
  /\ served' = IF stash.live THEN [served EXCEPT ![stepRun.need] = @ + 1] ELSE served
  /\ stash' = StashTaken
  /\ UNCHANGED <<step, receipts, review, approved, effects, unknown>>

(* The executor stores the outcome.  A finished task is verified, and one  *)
(* that fails it runs the step again while attempts are left.              *)
AttemptsLeft == step.attempts < TaskAttempts
AfterFailure(status) == IF AttemptsLeft THEN "ready" ELSE status
StoreOutcome ==
  /\ RunIs("apply") /\ stepRun' = NoRun
  /\ LET out == stepRun.outcome IN
     \/ /\ out \in {"success", "replayed"}
        /\ step' = [step EXCEPT !.status = "done"]
     \/ /\ out \in {"success", "replayed"}
        /\ step' = [step EXCEPT !.status = AfterFailure("failed")]
     \/ /\ out = "review"
        /\ step' = [step EXCEPT !.status = "review", !.need = stepRun.need]
     \/ /\ out = "failed"
        /\ step' = [step EXCEPT !.status = "failed"]
     \/ /\ out \in {"failed", "late", "unknown"}
        /\ step' = [step EXCEPT !.status = AfterFailure("failed")]
  /\ UNCHANGED <<stash, receipts, review, approved, served, effects, unknown>>

(* The step's timeout drops the runner where it awaits: in the line for a  *)
(* slot, in the tool, which may have had its effect, or in the model's     *)
(* turn.  Between the tool's answer and the receipt there is no await.     *)
StepTimesOut ==
  /\ stepRun.at \in {"replay", "invoke", "turn"} /\ RunEnds("unknown")
  /\ \/ UNCHANGED <<served, effects, unknown>>
     \/ /\ RunIs("invoke")
        /\ Passes
        /\ effects' = effects + 1 /\ unknown' = unknown + 1
  /\ UNCHANGED <<step, stash, receipts, review, approved>>

(* The process dies; tickets and reviews under way are gone, and recovery  *)
(* makes a running step ready again or fails the task.                     *)
Recovers(status) == IF status = "running" THEN AfterFailure("failed") ELSE status
HostDies ==
  /\ step' = [step EXCEPT !.status = Recovers(@)]
  /\ stepRun' = NoRun /\ stash' = NoTicket /\ review' = [r \in Reviewer |-> NoReview]
  /\ unknown' = IF HadEffect THEN unknown + 1 ELSE unknown
  /\ UNCHANGED <<receipts, approved, served, effects>>

-----------------------------------------------------------------------------
(* A review: read the row, stash a ticket for what it asks for, resume the *)
(* task, which is refused when somebody else has resolved the review.      *)
OpenReview(r) ==
  /\ review[r].at = "idle" /\ step.status = "review"
  /\ \/ Total(approved) < MaxReviews
        /\ review' = [review EXCEPT ![r] = [at |-> "stash", need |-> step.need, approve |-> TRUE]]
     \/ review' = [review EXCEPT ![r] = [at |-> "resume", need |-> step.need, approve |-> FALSE]]
  /\ UNCHANGED <<step, stash, receipts, stepRun, approved, served, effects, unknown>>

StashTicket(r) ==
  /\ review[r].at = "stash"
  /\ stash' = [need |-> review[r].need, live |-> TRUE]
  /\ approved' = [approved EXCEPT ![review[r].need] = @ + 1]
  /\ review' = [review EXCEPT ![r].at = "resume"]
  /\ UNCHANGED <<step, receipts, stepRun, served, effects, unknown>>

StillParked == step.status = "review"
ResumeTask(r) ==
  /\ review[r].at = "resume"
  /\ step' = IF ~StillParked THEN step
               ELSE [step EXCEPT !.status = IF review[r].approve THEN "ready" ELSE "failed"]
  /\ review' = [review EXCEPT ![r] = NoReview]
  /\ UNCHANGED <<stash, receipts, stepRun, approved, served, effects, unknown>>

(* Five minutes pass.                                                      *)
TicketExpires ==
  /\ stash.live /\ stash' = [stash EXCEPT !.live = FALSE]
  /\ UNCHANGED <<step, receipts, stepRun, review, approved, served, effects, unknown>>

RunnerStep ==
  \/ ClaimStep \/ ReplayOrGoOn \/ TakeTicket \/ InvokeTool \/ RecordReceipt
  \/ AgentTurn \/ CommitCall \/ UseTicket \/ StoreOutcome
ReviewNext ==
  \/ RunnerStep \/ StepTimesOut \/ HostDies \/ TicketExpires
  \/ \E r \in Reviewer : OpenReview(r) \/ StashTicket(r) \/ ResumeTask(r)

ReviewSpec == ReviewInit /\ [][ReviewNext]_reviewVars

-----------------------------------------------------------------------------
(* However reviews, retries, timeouts and restarts fall, an approval lets  *)
(* one call through, and only one of what the user saw in the review.      *)
ApprovalServesOneCall == \A n \in StepNeed : served[n] <= approved[n]

(* A tool step has its effect a second time only when the first one left   *)
(* no success receipt: it timed out, the process died before the receipt,  *)
(* or the receipt could not be stored.                                     *)
EffectRepeatsOnlyWhenUnknown == step.kind = "tool" => effects <= 1 + unknown

(* A tool step is completed only by an effect, its own or a replayed one.  *)
CompletionHadEffect ==
  step.kind = "tool" /\ (stepRun.outcome = "replayed" \/ step.status = "done") => effects > 0

(* The receipts of tool steps say what happened, through retries, replays, *)
(* timeouts and the death of the process.                                  *)
ReceiptsTellTheTruth == EffectRepeatsOnlyWhenUnknown /\ CompletionHadEffect

(* What a step was allowed, and what it is taken to have done, is so.      *)
ReviewsAreHonest == ApprovalServesOneCall /\ ReceiptsTellTheTruth
=============================================================================
