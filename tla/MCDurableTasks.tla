--------------------------- MODULE MCDurableTasks ---------------------------
(* Instances of DurableTasks for TLC. *)
EXTENDS DurableTasks, TLC

CONSTANTS t1, t2

WorkThenEvent == t1 :> <<"work", "event">>
WorkPauseEvent == t1 :> <<"work", "pause", "event">>
TwoWorks == t1 :> <<"work">> @@ t2 :> <<"work">>

\* Workers and tasks of one kind of plan are interchangeable.
Interchangeable == Permutations(Workers) \cup Permutations(Tasks)

\* Two tasks of which one is ever created: the plan is chosen with it.  Calls
\* and crashes are bounded together, and a task that renews no lease takes
\* one call: two that overlap may undo a step (update is not atomic).
WorkOrApproval == t1 :> <<"work", "event">> @@ t2 :> <<"agent", "approval">>
Created(t) == row[t] # NoRow
Renewing(t) == Created(t) /\ \E i \in DOMAIN Plan[t] : Plan[t][i] = "agent"
SomeRenewing == \E t \in Tasks : Renewing(t)
OneOfThem ==
  /\ Cardinality({t \in Tasks : Created(t)}) <= 1
  /\ requests + crashes <= 2
  /\ requests <= 1 \/ SomeRenewing

\* A task goes through its steps in order, and is completed after all of them,
\* unless a step of it renews its lease, which may write over a later row.
StepsAreTaken == ~SomeRenewing => StepsInOrder /\ CompletedMeansDone

=============================================================================
