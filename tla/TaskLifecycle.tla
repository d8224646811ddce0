--------------------------- MODULE TaskLifecycle ---------------------------
(***************************************************************************)
(* What crates/task-core promises about one durable task: its status moves *)
(* along the edges of TaskStatus::can_transition_to and along no other     *)
(* ("arbitrary mutation is rejected", model.rs).  The module is both the   *)
(* vocabulary of the detailed specification and the abstract one it is     *)
(* compared with: a vector of statuses, one legal edge at a time.          *)
(***************************************************************************)

CONSTANT Tasks

VARIABLE status

\* A task that has not been created yet has no row; it is not a TaskStatus.
Absent == "absent"

TaskStatus == {"pending", "scheduled", "ready", "running", "waiting",
               "needs_review", "completed", "failed", "cancelled"}

Terminal == {"completed", "failed", "cancelled"}

Edges == {<<"pending", "ready">>, <<"scheduled", "ready">>,
          <<"ready", "running">>, <<"running", "ready">>,
          <<"running", "waiting">>, <<"running", "needs_review">>,
          <<"running", "completed">>, <<"running", "failed">>,
          <<"waiting", "ready">>, <<"waiting", "failed">>,
          <<"failed", "ready">>, <<"needs_review", "ready">>,
          <<"needs_review", "failed">>}

CanTransition(from, to) ==
  IF to = "cancelled" THEN from \notin Terminal ELSE <<from, to>> \in Edges

-----------------------------------------------------------------------------

Init == status = [t \in Tasks |-> Absent]

Create(t) ==
  /\ status[t] = Absent
  /\ \E s \in {"pending", "scheduled"} : status' = [status EXCEPT ![t] = s]

Move(t) ==
  /\ status[t] # Absent
  /\ \E s \in TaskStatus : /\ CanTransition(status[t], s)
                           /\ status' = [status EXCEPT ![t] = s]

Next == \E t \in Tasks : Create(t) \/ Move(t)

Spec == Init /\ [][Next]_status

=============================================================================
