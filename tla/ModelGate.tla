------------------------------ MODULE ModelGate ------------------------------
(***************************************************************************)
(* ModelExecutionGate (crates/app-host runtime/model_gate.rs): at most one *)
(* model turn at a time, shared by the interactive chat turn and by the    *)
(* agent steps of background tasks.  Interactive turns come first, until a *)
(* background turn has aged.                                               *)
(*                                                                         *)
(* acquire looks at the state under its mutex, lets go of the mutex and    *)
(* only then asks `notify` to be woken; release clears `held` under the    *)
(* mutex and only then wakes.  Each of the four is a step of its own.  A   *)
(* future dropped while it waits (the chat aborts the worker of a          *)
(* superseded turn, the executor times a step out) runs none of the code   *)
(* that follows.                                                           *)
(***************************************************************************)
EXTENDS Integers, FiniteSets

CONSTANTS
  Interactive,     \* chat turns that may be in progress
  Background,      \* agent steps that may be in progress
  MaxConsecutive,  \* GateConfig::max_consecutive_interactive
  MaxTurns,        \* bound: turns each of them makes
  MaxDrops         \* bound: turns dropped before they end

ASSUME TurnsAssumption ==
  /\ IsFiniteSet(Interactive)
  /\ IsFiniteSet(Background)
  /\ Interactive \cap Background = {}
ASSUME BoundsAssumption ==
  /\ MaxConsecutive \in Nat \ {0}
  /\ MaxTurns \in Nat
  /\ MaxDrops \in Nat

Turns == Interactive \cup Background

VARIABLES
  held,                     \* GateState::held
  interactive_waiters,      \* GateState::interactive_waiters
  consecutive_interactive,  \* its counter, cut off at MaxConsecutive
  pc,                       \* pc[a]: where turn a is
  counted,                  \* counted[a]: a's local of that name in acquire
  aged,                     \* aged[a]: a has waited max_background_wait
  turns,                    \* bound: turns a has begun
  drops                     \* bound: turns dropped so far

gateVars == <<held, interactive_waiters, consecutive_interactive>>
vars == <<gateVars, pc, counted, aged, turns, drops>>

Places == {"idle", "trying", "refused", "parked", "holding", "waking"}

Waiting == {"trying", "refused", "parked"}

-----------------------------------------------------------------------------

\* Mutant: a background turn is as good as any other.
AdmissibleAtOnce(a) == TRUE

BackgroundAdmissible(a) ==
  \/ interactive_waiters = 0
  \/ consecutive_interactive >= MaxConsecutive
  \/ aged[a]

PriorityOk(a) == a \in Interactive \/ BackgroundAdmissible(a)

Acquire(a) ==
  /\ pc[a] = "idle"
  /\ turns[a] < MaxTurns
  /\ turns' = [turns EXCEPT ![a] = @ + 1]
  /\ pc' = [pc EXCEPT ![a] = "trying"]
  /\ UNCHANGED <<gateVars, counted, aged, drops>>

\* Mutant: every admitted interactive turn is taken off the line, in it or not.
LeaveLineUncounted(a) ==
  interactive_waiters' = interactive_waiters - (IF a \in Interactive THEN 1 ELSE 0)

LeaveLine(a) ==
  interactive_waiters' = interactive_waiters - (IF counted[a] THEN 1 ELSE 0)

Admitted(a) ==
  /\ pc[a] = "trying"
  /\ PriorityOk(a)
  /\ held' = TRUE
  /\ LeaveLine(a)
  /\ consecutive_interactive' =
       IF a \in Background THEN 0
       ELSE IF consecutive_interactive < MaxConsecutive
            THEN consecutive_interactive + 1 ELSE MaxConsecutive
  /\ pc' = [pc EXCEPT ![a] = "holding"]
  /\ counted' = [counted EXCEPT ![a] = FALSE]
  /\ aged' = [aged EXCEPT ![a] = FALSE]
  /\ UNCHANGED <<turns, drops>>

\* Mutant: a turn that was woken takes the gate without looking at held.
AdmitUnlooked(a) == Admitted(a)

Admit(a) == ~held /\ Admitted(a)

Refuse(a) ==
  /\ pc[a] = "trying"
  /\ held \/ ~PriorityOk(a)
  /\ pc' = [pc EXCEPT ![a] = "refused"]
  /\ counted' = [counted EXCEPT ![a] = a \in Interactive]
  /\ interactive_waiters' =
       interactive_waiters + (IF a \in Interactive /\ ~counted[a] THEN 1 ELSE 0)
  /\ UNCHANGED <<held, consecutive_interactive, aged, turns, drops>>

\* notify.notified(): from here on notify_waiters finds it.
Park(a) ==
  /\ pc[a] = "refused"
  /\ pc' = [pc EXCEPT ![a] = "parked"]
  /\ UNCHANGED <<gateVars, counted, aged, turns, drops>>

Release(a) ==
  /\ pc[a] = "holding"
  /\ held' = FALSE
  /\ pc' = [pc EXCEPT ![a] = "waking"]
  /\ UNCHANGED <<interactive_waiters, consecutive_interactive, counted, aged, turns, drops>>

\* Mutant: one waiter is woken.
WakeOne(a) ==
  /\ pc[a] = "waking"
  /\ \E b \in Turns :
       /\ pc[b] = "parked" \/ \A c \in Turns : pc[c] # "parked"
       /\ pc' = [c \in Turns |-> IF c = a THEN "idle"
                                 ELSE IF c = b /\ pc[c] = "parked" THEN "trying" ELSE pc[c]]
  /\ UNCHANGED <<gateVars, counted, aged, turns, drops>>

\* notify_waiters: everyone that has registered.
Wake(a) ==
  /\ pc[a] = "waking"
  /\ pc' = [b \in Turns |-> IF b = a THEN "idle"
                            ELSE IF pc[b] = "parked" THEN "trying" ELSE pc[b]]
  /\ UNCHANGED <<gateVars, counted, aged, turns, drops>>

\* The future is dropped at an await: before its first poll, where it waits,
\* or when it was woken and not yet polled.  Its count stays behind.  (A turn
\* dropped while it holds the permit releases it: Release.)
Drop(a) ==
  /\ pc[a] \in {"trying", "parked"}
  /\ drops < MaxDrops
  /\ drops' = drops + 1
  /\ pc' = [pc EXCEPT ![a] = "idle"]
  /\ counted' = [counted EXCEPT ![a] = FALSE]
  /\ aged' = [aged EXCEPT ![a] = FALSE]
  /\ UNCHANGED <<gateVars, turns>>

Age(a) ==
  /\ a \in Background
  /\ pc[a] \in Waiting
  /\ ~aged[a]
  /\ aged' = [aged EXCEPT ![a] = TRUE]
  /\ UNCHANGED <<gateVars, pc, counted, turns, drops>>

-----------------------------------------------------------------------------

Init ==
  /\ held = FALSE
  /\ interactive_waiters = 0
  /\ consecutive_interactive = 0
  /\ pc = [a \in Turns |-> "idle"]
  /\ counted = [a \in Turns |-> FALSE]
  /\ aged = [a \in Turns |-> FALSE]
  /\ turns = [a \in Turns |-> 0]
  /\ drops = 0

Step(a) == Admit(a) \/ Refuse(a) \/ Park(a) \/ Release(a) \/ Wake(a)

Next == \E a \in Turns : Acquire(a) \/ Step(a) \/ Drop(a) \/ Age(a)

\* The tokio runtime polls what is ready, and a model turn is bounded.  A turn
\* need not come, nor be dropped.
Fairness == \A a \in Turns : WF_vars(Step(a)) /\ WF_vars(Age(a))

Spec == Init /\ [][Next]_vars

FairSpec == Spec /\ Fairness

-----------------------------------------------------------------------------

\* Every variable has its type; interactive_waiters, a usize, never goes
\* below zero.
TypeOK ==
  /\ held \in BOOLEAN
  /\ interactive_waiters \in Nat
  /\ consecutive_interactive \in 0..MaxConsecutive
  /\ pc \in [Turns -> Places]
  /\ counted \in [Turns -> BOOLEAN]
  /\ aged \in [Turns -> BOOLEAN]
  /\ turns \in [Turns -> 0..MaxTurns]
  /\ drops \in 0..MaxDrops

\* At most one model turn at a time, and the gate is held exactly when one
\* runs, whatever was dropped (ModelPermit, release).
MutualExclusion ==
  /\ \A a, b \in Turns : pc[a] = "holding" /\ pc[b] = "holding" => a = b
  /\ held <=> \E a \in Turns : pc[a] = "holding"

\* Interactive turns that look at the gate and find it taken are in line.
Queued == {a \in Interactive : counted[a]}

\* A background turn passes a queued interactive turn only when it has aged,
\* by time or by admissions.
InteractivePriority ==
  [][\A b \in Background : pc[b] = "trying" /\ pc'[b] = "holding" /\ Queued # {}
       => aged[b] \/ consecutive_interactive >= MaxConsecutive]_vars

\* Whoever parked while the gate was held looks at it again.
ParkedIsWoken ==
  \A a \in Turns : pc[a] = "parked" /\ held ~> pc[a] # "parked"

\* "Always completes": a turn that asks for the gate gets it, unless dropped.
AlwaysCompletes == \A a \in Turns : pc[a] = "trying" ~> pc[a] \in {"holding", "idle"}

=============================================================================
