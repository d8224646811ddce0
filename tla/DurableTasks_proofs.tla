------------------------ MODULE DurableTasks_proofs ------------------------
(***************************************************************************)
(* Theorems about DurableTasks, for every value of its constants.          *)
(*                                                                         *)
(* 1. The in-flight set: SingleExecution and MarksAreOwned.  Neither is    *)
(*    inductive alone: that a dispatched id is in one place only follows   *)
(*    from the marks being exactly the ids queued or executing, and that   *)
(*    clearing a mark leaves every other owner its own follows from the    *)
(*    ids being in one place.                                              *)
(*                                                                         *)
(* 2. The rows: type correctness, and that a row can always be found by    *)
(*    what has to move it.  An update writes a row computed from a copy    *)
(*    read earlier, and another actor may have written meanwhile.  What    *)
(*    survives that is what holds of each row by itself, stored or held    *)
(*    by an actor: the invariant says it of row, buf and todo alike, and   *)
(*    each row operator preserves it.                                      *)
(***************************************************************************)
EXTENDS DurableTasks, TLAPS

\* What the argument about the in-flight set needs of the types.
HostType ==
  /\ queue \in Seq(Tasks)
  /\ inFlight \in SUBSET Tasks
  /\ pc \in [Actors -> Places]
  /\ cur \in [Actors -> Tasks \cup {NoTask}]

HostInv == HostType /\ MarksAreOwned /\ SingleExecution

\* Appending a new id to a queue without duplicates.
LEMMA AppendDistinct ==
  ASSUME NEW q \in Seq(Tasks), NEW t \in Tasks,
         \A i, j \in 1..Len(q) : q[i] = q[j] => i = j,
         \A i \in 1..Len(q) : q[i] # t
  PROVE  /\ Append(q, t) \in Seq(Tasks)
         /\ Len(Append(q, t)) = Len(q) + 1
         /\ \A i \in 1..Len(q) : Append(q, t)[i] = q[i]
         /\ Append(q, t)[Len(q) + 1] = t
         /\ \A i, j \in 1..Len(Append(q, t)) :
              Append(q, t)[i] = Append(q, t)[j] => i = j
  OBVIOUS

\* Taking the head off a queue shifts the others by one.
LEMMA TailShifts ==
  ASSUME NEW q \in Seq(Tasks), q # <<>>
  PROVE  /\ Tail(q) \in Seq(Tasks)
         /\ Len(Tail(q)) = Len(q) - 1
         /\ \A i \in 1..Len(Tail(q)) : Tail(q)[i] = q[i + 1]
         /\ Head(q) = q[1]
         /\ Len(q) \in Nat \ {0}
  OBVIOUS

\* A step that leaves the queue, the marks and what each worker works on.
LEMMA Quiet ==
  ASSUME HostInv, HostType', UNCHANGED hostVars,
         \A w \in Workers : /\ cur'[w] = cur[w]
                            /\ pc'[w] = "idle" <=> pc[w] = "idle"
  PROVE  HostInv'
  BY DEF HostInv, MarksAreOwned, SingleExecution, Executing, hostVars

\* The parts of an operation that do not begin or end it.
LEMMA PrepareQuiet ==
  ASSUME HostInv, UNCHANGED hostVars,
         NEW a \in Actors, NEW o, NEW t \in Tasks, NEW r,
         a \in Workers => pc[a] # "idle" /\ t = cur[a],
         Prepare(a, o, t, r)
  PROVE  HostInv'
<1>1. HostType'
  BY DEF HostInv, HostType, Prepare, hostVars, Places
<1>2. \A w \in Workers : /\ cur'[w] = cur[w]
                         /\ pc'[w] = "idle" <=> pc[w] = "idle"
  BY DEF HostInv, HostType, Prepare, Actors
<1> QED BY <1>1, <1>2, Quiet

LEMMA GotoQuiet ==
  ASSUME HostInv, UNCHANGED hostVars,
         NEW a \in Actors, NEW p \in Places,
         a \in Workers => pc[a] # "idle" /\ p # "idle",
         Goto(a, p)
  PROVE  HostInv'
<1>1. HostType'
  BY DEF HostInv, HostType, Goto, hostVars
<1>2. \A w \in Workers : /\ cur'[w] = cur[w]
                         /\ pc'[w] = "idle" <=> pc[w] = "idle"
  BY DEF HostInv, HostType, Goto, Actors
<1> QED BY <1>1, <1>2, Quiet

LEMMA RestQuiet ==
  ASSUME HostInv, UNCHANGED hostVars, NEW a \in Actors, a \notin Workers, Rest(a)
  PROVE  HostInv'
<1>1. HostType'
  BY DEF HostInv, HostType, Rest, hostVars, Places
<1>2. \A w \in Workers : /\ cur'[w] = cur[w]
                         /\ pc'[w] = "idle" <=> pc[w] = "idle"
  BY DEF HostInv, HostType, Rest, Actors
<1> QED BY <1>1, <1>2, Quiet

LEMMA UpdateQuiet ==
  ASSUME HostInv, NEW a \in Actors, Update(a)
  PROVE  HostInv'
<1>0. UNCHANGED hostVars
  BY DEF Update, UpdateCheck, UpdateWrite
<1>1. CASE UpdateCheck(a)
  <2>1. CASE Legal(a)
    BY <1>0, <1>1, <2>1, GotoQuiet DEF UpdateCheck, Places
  <2>2. CASE ~Legal(a) /\ a \notin Workers
    BY <1>0, <1>1, <2>2, RestQuiet DEF UpdateCheck, UpdateRefused
  <2>3. CASE ~Legal(a) /\ a \in Workers /\ op[a] # "start"
    BY <1>0, <1>1, <2>3, GotoQuiet DEF UpdateCheck, UpdateRefused, Places
  <2>4. CASE ~Legal(a) /\ a \in Workers /\ op[a] = "start"
    <3>1. /\ pc[a] = "check"
          /\ pc' = [pc EXCEPT ![a] = "apply"]
          /\ cur' = cur
      BY <1>1, <2>4 DEF UpdateCheck, UpdateRefused
    <3>2. HostType'
      BY <1>0, <3>1 DEF HostInv, HostType, hostVars, Places
    <3>3. \A w \in Workers : /\ cur'[w] = cur[w]
                             /\ pc'[w] = "idle" <=> pc[w] = "idle"
      BY <3>1 DEF HostInv, HostType, Actors
    <3> QED BY <1>0, <3>2, <3>3, Quiet
  <2> QED BY <2>1, <2>2, <2>3, <2>4
<1>2. CASE UpdateWrite(a)
  <2>1. CASE a \in Workers
    <3>1. AfterWrite(op[a]) \in Places /\ AfterWrite(op[a]) # "idle"
      BY DEF AfterWrite, Places
    <3> QED BY <1>0, <1>2, <2>1, <3>1, GotoQuiet DEF UpdateWrite
  <2>2. CASE a \notin Workers
    BY <1>0, <1>2, <2>2, RestQuiet DEF UpdateWrite
  <2> QED BY <2>1, <2>2
<1> QED BY <1>1, <1>2 DEF Update

-----------------------------------------------------------------------------
(* The four actions that move an id.                                       *)

LEMMA TakeMoves ==
  ASSUME HostInv, NEW w \in Workers, Take(w)
  PROVE  HostInv'
<1>1. /\ queue' = Tail(queue) /\ queue # <<>>
      /\ pc[w] = "idle" /\ inFlight' = inFlight
      /\ pc' = [pc EXCEPT ![w] = "claim"]
      /\ cur' = [cur EXCEPT ![w] = queue[1]]
      /\ queue \in Seq(Tasks)
  BY TailShifts DEF HostInv, HostType, Take
<1>2. /\ Len(queue) \in Nat \ {0}
      /\ queue' \in Seq(Tasks)
      /\ Len(queue') = Len(queue) - 1
      /\ \A i \in 1..Len(queue') : queue'[i] = queue[i + 1]
  BY <1>1, TailShifts
<1>3. queue[1] \in Tasks
  BY <1>1, <1>2
<1>4. HostType'
  BY <1>1, <1>2, <1>3 DEF HostInv, HostType, Places, Actors
<1>5. \A v \in Workers : /\ v # w => pc'[v] = pc[v] /\ cur'[v] = cur[v]
                         /\ pc'[w] = "claim" /\ cur'[w] = queue[1]
  BY <1>1 DEF HostInv, HostType, Actors
<1>6. \A i \in 1..Len(queue') : i + 1 \in 1..Len(queue) /\ i + 1 # 1
  BY <1>2
<1>7. MarksAreOwned'
  <2>1. {queue[i] : i \in 1..Len(queue)} = {queue[1]} \cup {queue'[i] : i \in 1..Len(queue')}
    <3>1. \A i \in 1..Len(queue) : i = 1 \/ (i - 1 \in 1..Len(queue') /\ queue'[i - 1] = queue[i])
      BY <1>2
    <3>2. 1 \in 1..Len(queue)
      BY <1>2
    <3>3. \A i \in 1..Len(queue) :
            queue[i] = queue[1] \/ \E j \in 1..Len(queue') : queue[i] = queue'[j]
      BY <3>1
    <3>4. \A j \in 1..Len(queue') : \E i \in 1..Len(queue) : queue'[j] = queue[i]
      BY <1>2, <1>6
    <3>5. ASSUME NEW x \in {queue[i] : i \in 1..Len(queue)}
          PROVE  x \in {queue[1]} \cup {queue'[i] : i \in 1..Len(queue')}
      BY <3>3
    <3>6. ASSUME NEW x \in {queue[1]} \cup {queue'[i] : i \in 1..Len(queue')}
          PROVE  x \in {queue[i] : i \in 1..Len(queue)}
      BY <3>2, <3>4
    <3> QED BY <3>5, <3>6
  <2>2. {cur'[v] : v \in {u \in Workers : pc'[u] # "idle"}}
          = {queue[1]} \cup {cur[v] : v \in {u \in Workers : pc[u] # "idle"}}
    BY <1>1, <1>5
  <2> QED BY <1>1, <2>1, <2>2 DEF HostInv, MarksAreOwned
<1>8. SingleExecution'
  <2>1. \A u, v \in Workers : \A t \in Tasks :
          Executing(u, t)' /\ Executing(v, t)' => u = v
    <3>1. \A v \in Workers : ~Executing(v, queue[1])
      BY <1>2 DEF HostInv, SingleExecution
    <3> QED BY <1>3, <1>5, <3>1 DEF HostInv, SingleExecution, Executing
  <2>2. \A i, j \in 1..Len(queue') : queue'[i] = queue'[j] => i = j
    <3> SUFFICES ASSUME NEW i \in 1..Len(queue'), NEW j \in 1..Len(queue'),
                        queue'[i] = queue'[j]
                 PROVE  i = j
      OBVIOUS
    <3>1. queue[i + 1] = queue[j + 1]
      BY <1>2
    <3>2. i + 1 = j + 1
      BY <1>6, <3>1 DEF HostInv, SingleExecution
    <3> QED BY <1>2, <3>2
  <2>3. \A v \in Workers : \A i \in 1..Len(queue') :
          ~(pc'[v] # "idle" /\ cur'[v] = queue'[i])
    <3> SUFFICES ASSUME NEW v \in Workers, NEW i \in 1..Len(queue')
                 PROVE  ~(pc'[v] # "idle" /\ cur'[v] = queue[i + 1])
      BY <1>2
    <3>1. CASE v = w
      <4>1. queue[i + 1] # queue[1]
        BY <1>2, <1>6 DEF HostInv, SingleExecution
      <4> QED BY <1>5, <3>1, <4>1
    <3>2. CASE v # w
      BY <1>5, <1>6, <3>2 DEF HostInv, SingleExecution, Executing
    <3> QED BY <3>1, <3>2
  <2> QED BY <1>2, <2>1, <2>2, <2>3 DEF SingleExecution, Executing
<1> QED BY <1>4, <1>7, <1>8 DEF HostInv

LEMMA ExitClears ==
  ASSUME HostInv, NEW w \in Workers, Exit(w)
  PROVE  HostInv'
<1>1. /\ queue' = queue
      /\ pc[w] = "exit"
      /\ inFlight' = inFlight \ {cur[w]}
      /\ pc' = [pc EXCEPT ![w] = "idle"]
      /\ cur' = [cur EXCEPT ![w] = NoTask]
  BY DEF Exit, Rest
<1>2. HostType'
  BY <1>1 DEF HostInv, HostType, Places
<1>3. \A v \in Workers : /\ v # w => pc'[v] = pc[v] /\ cur'[v] = cur[v]
                         /\ pc'[w] = "idle"
  BY <1>1 DEF HostInv, HostType, Actors
<1>4. cur[w] \in Tasks
  BY <1>1 DEF HostInv, HostType, MarksAreOwned
<1>5. \A v \in Workers : v # w /\ pc[v] # "idle" => cur[v] # cur[w]
  BY <1>1, <1>4 DEF HostInv, SingleExecution, Executing
<1>6. \A i \in 1..Len(queue) : queue[i] # cur[w]
  BY <1>1 DEF HostInv, SingleExecution, Executing
<1>7. MarksAreOwned'
  <2>1. {cur'[v] : v \in {u \in Workers : pc'[u] # "idle"}}
          = {cur[v] : v \in {u \in Workers : pc[u] # "idle"}} \ {cur[w]}
    BY <1>1, <1>3, <1>5
  <2> QED BY <1>1, <1>6, <2>1 DEF HostInv, MarksAreOwned
<1>8. SingleExecution'
  BY <1>1, <1>3 DEF HostInv, SingleExecution, Executing
<1> QED BY <1>2, <1>7, <1>8 DEF HostInv

LEMMA DispatchMarks ==
  ASSUME HostInv, NEW t \in Tasks, Dispatch(t)
  PROVE  HostInv'
<1>1. pc' = pc /\ cur' = cur
  BY DEF Dispatch, actorVars
<1>2. CASE UNCHANGED hostVars
  <2>1. HostType'
    BY <1>1, <1>2 DEF HostInv, HostType, hostVars
  <2> QED BY <1>1, <1>2, <2>1, Quiet
<1>3. CASE /\ t \notin inFlight
           /\ inFlight' = inFlight \cup {t}
           /\ queue' = Append(queue, t)
  <2>0. queue \in Seq(Tasks) /\ Len(queue) \in Nat
    BY DEF HostInv, HostType
  <2>1. \A i \in 1..Len(queue) : queue[i] # t
    BY <1>3 DEF HostInv, MarksAreOwned
  <2>2. \A w \in Workers : pc[w] # "idle" => cur[w] # t
    BY <1>3 DEF HostInv, MarksAreOwned
  <2>3. /\ queue' \in Seq(Tasks)
        /\ Len(queue') = Len(queue) + 1
        /\ \A i \in 1..Len(queue) : queue'[i] = queue[i]
        /\ queue'[Len(queue) + 1] = t
        /\ \A i, j \in 1..Len(queue') : queue'[i] = queue'[j] => i = j
    BY <1>3, <2>0, <2>1, AppendDistinct DEF HostInv, SingleExecution
  <2>4. \A i \in 1..Len(queue') : i \in 1..Len(queue) \/ i = Len(queue) + 1
    BY <2>0, <2>3
  <2>5. HostType'
    BY <1>1, <1>3, <2>3 DEF HostInv, HostType
  <2>6. {queue'[i] : i \in 1..Len(queue')} = {queue[i] : i \in 1..Len(queue)} \cup {t}
    <3>1. \A i \in 1..Len(queue) : i \in 1..Len(queue')
      BY <2>0, <2>3
    <3>2. Len(queue) + 1 \in 1..Len(queue')
      BY <2>0, <2>3
    <3> QED BY <2>3, <2>4, <3>1, <3>2
  <2>7. MarksAreOwned'
    BY <1>1, <1>3, <2>6 DEF HostInv, MarksAreOwned
  <2>8. SingleExecution'
    BY <1>1, <2>2, <2>3, <2>4 DEF HostInv, SingleExecution, Executing
  <2> QED BY <2>5, <2>7, <2>8 DEF HostInv
<1> QED BY <1>2, <1>3 DEF Dispatch, PassedOver, Queue

LEMMA Idle ==
  ASSUME HostInv, UNCHANGED hostVars, UNCHANGED actorVars
  PROVE  HostInv'
  BY DEF HostInv, HostType, MarksAreOwned, SingleExecution, Executing,
         hostVars, actorVars

LEMMA EmptyHost ==
  ASSUME queue = <<>>, inFlight = {}, pc = [a \in Actors |-> "idle"],
         cur = [a \in Actors |-> NoTask]
  PROVE  HostInv
<1>1. HostType
  BY DEF HostType, Places
<1>2. \A w \in Workers : pc[w] = "idle"
  BY DEF Actors
<1>3. Len(queue) = 0 /\ 1..Len(queue) = {}
  OBVIOUS
<1> QED BY <1>1, <1>2, <1>3 DEF HostInv, MarksAreOwned, SingleExecution, Executing

-----------------------------------------------------------------------------

LEMMA EmptyHostNext ==
  ASSUME queue' = <<>>, inFlight' = {}, pc' = [a \in Actors |-> "idle"],
         cur' = [a \in Actors |-> NoTask]
  PROVE  HostInv'
<1>1. HostType'
  BY DEF HostType, Places
<1>2. \A w \in Workers : pc'[w] = "idle"
  BY DEF Actors
<1>3. Len(queue') = 0 /\ 1..Len(queue') = {}
  OBVIOUS
<1> QED BY <1>1, <1>2, <1>3 DEF HostInv, MarksAreOwned, SingleExecution, Executing

LEMMA HostInit == Init => HostInv
  BY EmptyHost DEF Init

LEMMA HostStep == HostInv /\ [Next]_vars => HostInv'
<1> SUFFICES ASSUME HostInv, [Next]_vars PROVE HostInv'
  OBVIOUS
<1>a. Workers \cup Clients \cup {Ticker, Renewer} = Actors
  BY DEF Actors
<1>b. \A w \in Workers : pc[w] # "idle" => cur[w] \in Tasks
  BY DEF HostInv, HostType, MarksAreOwned
<1>1. ASSUME NEW w \in Workers, WorkerStep(w) PROVE HostInv'
  <2>1. CASE Take(w) BY <2>1, TakeMoves
  <2>2. CASE Claim(w)
    BY <1>1, <1>a, <1>b, <2>2, PrepareQuiet, GotoQuiet DEF Claim, Places
  <2>3. CASE Advance(w)
    BY <1>1, <1>a, <1>b, <2>3, PrepareQuiet DEF Advance
  <2>4. CASE RunStep(w)
    <3>1. /\ UNCHANGED hostVars
          /\ pc[w] = "run" /\ pc' = [pc EXCEPT ![w] = "apply"] /\ cur' = cur
      BY <2>4 DEF RunStep
    <3>2. HostType'
      BY <3>1 DEF HostInv, HostType, hostVars, Places
    <3>3. \A v \in Workers : /\ cur'[v] = cur[v]
                             /\ pc'[v] = "idle" <=> pc[v] = "idle"
      BY <3>1 DEF HostInv, HostType, Actors
    <3> QED BY <3>1, <3>2, <3>3, Quiet
  <2>5. CASE ApplyOutcome(w)
    BY <1>1, <1>a, <1>b, <2>5, PrepareQuiet DEF ApplyOutcome
  <2>6. CASE Update(w) BY <1>1, <1>a, <2>6, UpdateQuiet
  <2>7. CASE Exit(w) BY <2>7, ExitClears
  <2> QED BY <1>1, <2>1, <2>2, <2>3, <2>4, <2>5, <2>6, <2>7 DEF WorkerStep
<1>2. ASSUME NEW w \in Workers, Renew(w) PROVE HostInv'
  <2>1. cur[w] \in Tasks
    BY <1>2, <1>b DEF Renew
  <2>2. Renewer \in Actors /\ Renewer \notin Workers
    BY <1>a, ActorsAssumption
  <2> QED BY <1>2, <2>1, <2>2, PrepareQuiet DEF Renew
<1>3. CASE Update(Renewer)
  BY <1>a, <1>3, UpdateQuiet
<1>4. CASE TickStep
  <2>0. Ticker \in Actors /\ Ticker \notin Workers
    BY <1>a, ActorsAssumption
  <2>1. CASE TickQuery
    BY <2>1, Idle DEF TickQuery
  <2>2. ASSUME NEW t \in Tasks, TickUpdate(t) PROVE HostInv'
    BY <2>0, <2>2, PrepareQuiet DEF TickUpdate
  <2>3. ASSUME NEW t \in Tasks, Dispatch(t) PROVE HostInv'
    BY <2>3, DispatchMarks
  <2>4. CASE Update(Ticker) BY <2>0, <2>4, UpdateQuiet
  <2> QED BY <1>4, <2>1, <2>2, <2>3, <2>4 DEF TickStep
<1>5. ASSUME NEW c \in Clients, ClientStep(c) PROVE HostInv'
  <2>0. c \in Actors /\ c \notin Workers
    BY <1>a, ActorsAssumption
  <2>1. ASSUME NEW t \in Tasks, NEW o, NEW r, Request(c, o, t, r) PROVE HostInv'
    BY <2>0, <2>1, PrepareQuiet DEF Request
  <2>2. ASSUME NEW t \in Tasks,
               Cancel(c, t) \/ DeliverEvent(c, t) \/ Review(c, t) \/ Edit(c, t)
        PROVE  HostInv'
    BY <2>1, <2>2 DEF Cancel, DeliverEvent, Review, Edit
  <2>3. CASE Update(c) BY <2>0, <2>3, UpdateQuiet
  <2> QED BY <1>5, <2>2, <2>3 DEF ClientStep
<1>6. ASSUME NEW t \in Tasks, Create(t) \/ TimePasses(t) PROVE HostInv'
  BY <1>6, Idle DEF Create, TimePasses
<1>7. CASE Crash
  <2> HIDE DEF HostInv
  <2> QED BY <1>7, EmptyHostNext DEF Crash
<1>8. CASE UNCHANGED vars
  BY <1>8, Idle DEF vars
<1> QED BY <1>1, <1>2, <1>3, <1>4, <1>5, <1>6, <1>7, <1>8 DEF Next

\* SingleExecution holds of every behaviour, whatever leases, crashes and
\* calls do (TaskHost::tick, TaskHost::execute_task).
THEOREM SingleExecutionHolds == Spec => []SingleExecution
<1>1. HostInv => SingleExecution BY DEF HostInv
<1> QED BY <1>1, HostInit, HostStep, PTL DEF Spec

\* MarksAreOwned holds of every behaviour: the in-flight set never leaks.
THEOREM MarksAreOwnedHolds == Spec => []MarksAreOwned
<1>1. HostInv => MarksAreOwned BY DEF HostInv
<1> QED BY <1>1, HostInit, HostStep, PTL DEF Spec

-----------------------------------------------------------------------------
Good(r) ==
  /\ r \in Row
  /\ r.status = "running" => r.lease # "none"
  /\ r.status = "waiting" => r.wait # "none"

StoreOK == row \in [Tasks -> Row] /\ \A t \in Tasks : Good(row[t])

HostOK == queue \in Seq(Tasks) /\ inFlight \subseteq Tasks

ActorsOK ==
  /\ pc \in [Actors -> Places]
  /\ op \in [Actors -> Operations]
  /\ cur \in [Actors -> Tasks \cup {NoTask}]
  /\ buf \in [Actors -> Row]
  /\ \A a \in Actors : Good(buf[a])
  /\ \A a \in Actors : pc[a] # "idle" => cur[a] \in Tasks

TickOK ==
  /\ phase \in Phases
  /\ DOMAIN todo \subseteq Tasks
  /\ todo \in [DOMAIN todo -> Row]
  /\ \A t \in DOMAIN todo : Good(todo[t])

CountsOK ==
  /\ resumes \in [Tasks -> Nat]
  /\ executions \in [Tasks -> Nat]
  /\ requests \in 0..MaxRequests
  /\ crashes \in 0..MaxCrashes

RowInv == StoreOK /\ HostOK /\ ActorsOK /\ TickOK /\ CountsOK

-----------------------------------------------------------------------------
(* Sequences of steps.                                                     *)

LEMMA StepWritten ==
  ASSUME NEW q \in Seq(Step), NEW i \in DOMAIN q, NEW e \in Step
  PROVE  /\ [q EXCEPT ![i] = e] \in Seq(Step)
         /\ DOMAIN [q EXCEPT ![i] = e] = DOMAIN q
  OBVIOUS

LEMMA SetStepRow ==
  ASSUME NEW r \in Row, NEW i, NEW s \in StepStatus
  PROVE  /\ SetStep(r, i, s) \in Row
         /\ SetStep(r, i, s).status = r.status
         /\ SetStep(r, i, s).lease = r.lease
         /\ SetStep(r, i, s).wait = r.wait
         /\ SetStep(r, i, s).attempts = r.attempts
         /\ SetStep(r, i, s).idx = r.idx
         /\ DOMAIN SetStep(r, i, s).steps = DOMAIN r.steps
<1>1. CASE i \in DOMAIN r.steps
  <2> DEFINE e == [r.steps[i] EXCEPT !.st = s]
  <2>1. r.steps \in Seq(Step) /\ r.steps[i] \in Step
    BY <1>1 DEF Row
  <2>2. e \in Step
    BY <2>1 DEF Step
  <2>3. /\ [r.steps EXCEPT ![i] = e] \in Seq(Step)
        /\ DOMAIN [r.steps EXCEPT ![i] = e] = DOMAIN r.steps
    BY <1>1, <2>1, <2>2, StepWritten
  <2>4. SetStep(r, i, s) = [r EXCEPT !.steps = [r.steps EXCEPT ![i] = e]]
    BY <1>1 DEF SetStep
  <2> HIDE DEF e
  <2> QED BY <2>3, <2>4 DEF Row
<1>2. CASE i \notin DOMAIN r.steps
  BY <1>2 DEF SetStep
<1> QED BY <1>1, <1>2

-----------------------------------------------------------------------------
(* Each row operator keeps a row good.                                     *)

LEMMA ClaimedGood ==
  ASSUME NEW r, Good(r) PROVE Good(Claimed(r))
<1>1. "running" \in Life!TaskStatus BY DEF Life!TaskStatus
<1>2. r.attempts + 1 \in Nat BY DEF Good, Row
<1>3. Claimed(r) \in Row BY <1>1, <1>2 DEF Good, Row, Claimed
<1> QED BY <1>3 DEF Good, Claimed, Row

LEMMA StartedGood ==
  ASSUME NEW r, Good(r), HasStep(r) PROVE Good(Started(r))
<1> DEFINE m == SetStep(r, r.idx, "running")
           e == [m.steps[r.idx] EXCEPT !.tries = @ + 1]
<1>1. /\ m \in Row /\ DOMAIN m.steps = DOMAIN r.steps
      /\ m.status = r.status /\ m.wait = r.wait
  BY SetStepRow DEF Good, StepStatus
<1>2. m.steps \in Seq(Step) /\ r.idx \in DOMAIN m.steps
  BY <1>1 DEF Row, HasStep
<1>3. e \in Step
  <2>1. m.steps[r.idx] \in Step
    BY <1>2
  <2> HIDE DEF m
  <2>2. m.steps[r.idx].tries + 1 \in Nat
    BY <2>1 DEF Step
  <2> QED BY <2>1, <2>2 DEF Step
<1>4. [m.steps EXCEPT ![r.idx] = e] \in Seq(Step)
  BY <1>2, <1>3, StepWritten
<1>5. Started(r) = [m EXCEPT !.steps = [m.steps EXCEPT ![r.idx] = e], !.lease = "held"]
  <2>1. Started(r) = [m EXCEPT !.steps[r.idx].tries = @ + 1, !.lease = "held"]
    BY DEF Started
  <2> HIDE DEF m
  <2> QED BY <2>1
<1> HIDE DEF m, e
<1>6. Started(r) \in Row BY <1>1, <1>4, <1>5 DEF Row
<1>7. Started(r).status = r.status /\ Started(r).wait = r.wait /\ Started(r).lease = "held"
  BY <1>1, <1>5 DEF Row
<1> QED BY <1>6, <1>7 DEF Good

LEMMA StepCompletedGood ==
  ASSUME NEW r, Good(r), NEW i \in Nat \ {0}, NEW s \in {"done", "bad"}
  PROVE  Good(StepCompleted(r, i, s))
<1> DEFINE m == SetStep(r, i, s)
<1>1. s \in StepStatus BY DEF StepStatus
<1>2. m \in Row /\ m.status = r.status /\ m.wait = r.wait
  BY <1>1, SetStepRow DEF Good
<1>3. i + 1 \in Nat \ {0} OBVIOUS
<1>4. StepCompleted(r, i, s) = [m EXCEPT !.idx = i + 1, !.lease = "held"]
  BY DEF StepCompleted
<1> HIDE DEF m
<1>5. StepCompleted(r, i, s) \in Row BY <1>2, <1>3, <1>4 DEF Row
<1>6. /\ StepCompleted(r, i, s).status = r.status
      /\ StepCompleted(r, i, s).wait = r.wait
      /\ StepCompleted(r, i, s).lease = "held"
  BY <1>2, <1>4 DEF Row
<1> QED BY <1>5, <1>6 DEF Good

LEMMA ParkedWaitingGood ==
  ASSUME NEW r, Good(r), NEW i, NEW w \in Waits \ {"none"}
  PROVE  Good(ParkedWaiting(r, i, w))
<1>1. "running" \in StepStatus BY DEF StepStatus
<1>2. "waiting" \in Life!TaskStatus BY DEF Life!TaskStatus
<1> DEFINE m == SetStep(r, i, "running")
<1>3. m \in Row BY <1>1, SetStepRow DEF Good
<1>4. ParkedWaiting(r, i, w) =
        [m EXCEPT !.status = "waiting", !.wait = w, !.lease = "none"]
  BY DEF ParkedWaiting
<1> HIDE DEF m
<1>5. ParkedWaiting(r, i, w) \in Row BY <1>2, <1>3, <1>4 DEF Row
<1>6. /\ ParkedWaiting(r, i, w).status = "waiting"
      /\ ParkedWaiting(r, i, w).wait = w
  BY <1>3, <1>4 DEF Row
<1> QED BY <1>5, <1>6 DEF Good

LEMMA ParkedReviewGood ==
  ASSUME NEW r, Good(r), NEW i PROVE Good(ParkedReview(r, i))
<1>1. "running" \in StepStatus BY DEF StepStatus
<1>2. "needs_review" \in Life!TaskStatus BY DEF Life!TaskStatus
<1> DEFINE m == SetStep(r, i, "running")
<1>3. m \in Row BY <1>1, SetStepRow DEF Good
<1>4. ParkedReview(r, i) = [m EXCEPT !.status = "needs_review", !.lease = "none"]
  BY DEF ParkedReview
<1> HIDE DEF m
<1>5. ParkedReview(r, i) \in Row BY <1>2, <1>3, <1>4 DEF Row
<1>6. ParkedReview(r, i).status = "needs_review"
  BY <1>3, <1>4 DEF Row
<1> QED BY <1>5, <1>6 DEF Good

LEMMA StepFailedGood ==
  ASSUME NEW r, Good(r), NEW i, NEW retryable \in BOOLEAN
  PROVE  Good(StepFailed(r, i, retryable))
<1>1. "pending" \in StepStatus /\ "failed" \in StepStatus BY DEF StepStatus
<1>2. "ready" \in Life!TaskStatus /\ "failed" \in Life!TaskStatus BY DEF Life!TaskStatus
<1> DEFINE again == retryable /\ r.attempts < MaxAttempts
           stepAgain == i \in DOMAIN r.steps /\ r.steps[i].tries < StepMax
           s == IF again /\ stepAgain THEN "pending" ELSE "failed"
<1>3. s \in StepStatus BY <1>1
<1>4. StepFailed(r, i, retryable) =
        IF again THEN [SetStep(r, i, s) EXCEPT !.status = "ready", !.lease = "none", !.due = FALSE]
        ELSE [SetStep(r, i, s) EXCEPT !.status = "failed", !.lease = "none"]
  BY DEF StepFailed
<1> DEFINE m == SetStep(r, i, s)
<1>5. m \in Row BY <1>3, SetStepRow DEF Good
<1> HIDE DEF s, again
<1>6. StepFailed(r, i, retryable) =
        IF again THEN [m EXCEPT !.status = "ready", !.lease = "none", !.due = FALSE]
        ELSE [m EXCEPT !.status = "failed", !.lease = "none"]
  BY <1>4
<1> HIDE DEF m
<1>7. Good([m EXCEPT !.status = "ready", !.lease = "none", !.due = FALSE])
  <2>1. [m EXCEPT !.status = "ready", !.lease = "none", !.due = FALSE] \in Row
    BY <1>2, <1>5 DEF Row
  <2> QED BY <1>5, <2>1 DEF Good, Row
<1>8. Good([m EXCEPT !.status = "failed", !.lease = "none"])
  <2>1. [m EXCEPT !.status = "failed", !.lease = "none"] \in Row
    BY <1>2, <1>5 DEF Row
  <2> QED BY <1>5, <2>1 DEF Good, Row
<1> QED BY <1>6, <1>7, <1>8

LEMMA FinishedTaskGood ==
  ASSUME NEW t, NEW r, Good(r) PROVE Good(FinishedTask(t, r))
<1>1. "pending" \in StepStatus BY DEF StepStatus
<1>2. {"ready", "failed", "completed"} \subseteq Life!TaskStatus BY DEF Life!TaskStatus
<1>3. VerificationRetryIndex(r) \in Nat \ {0}
  <2>1. r.steps \in Seq(Step) BY DEF Good, Row
  <2>2. \A i \in DOMAIN r.steps : i \in Nat \ {0} BY <2>1
  <2>3. r.steps # <<>> => Len(r.steps) \in Nat \ {0} BY <2>1
  <2> QED BY <2>2, <2>3 DEF VerificationRetryIndex
<1> DEFINE closed == [r EXCEPT !.lease = "none"]
           i == VerificationRetryIndex(r)
           retried == [SetStep(closed, i, "pending") EXCEPT
                         !.status = "ready", !.idx = i, !.due = FALSE]
<1>4. closed \in Row BY DEF Good, Row
<1>5. Good([closed EXCEPT !.status = "completed"]) /\ Good([closed EXCEPT !.status = "failed"])
  BY <1>2, <1>4 DEF Good, Row
<1>6. Good(retried)
  <2> DEFINE m == SetStep(closed, i, "pending")
  <2>1. m \in Row BY <1>1, <1>4, SetStepRow
  <2>2. "ready" \in Life!TaskStatus BY <1>2
  <2> HIDE DEF m, i, closed
  <2>3. i \in Nat \ {0} BY <1>3 DEF i
  <2>4. [m EXCEPT !.status = "ready", !.idx = i, !.due = FALSE] \in Row
    BY <2>1, <2>2, <2>3 DEF Row
  <2>5. [m EXCEPT !.status = "ready", !.idx = i, !.due = FALSE].status = "ready"
    BY <2>1 DEF Row
  <2> QED BY <2>4, <2>5 DEF Good, m
<1> QED BY <1>5, <1>6 DEF FinishedTask

LEMMA ResetRunningStepRow ==
  ASSUME NEW r \in Row
  PROVE  /\ ResetRunningStep(r) \in Row
         /\ ResetRunningStep(r).attempts = r.attempts
         /\ ResetRunningStep(r).status = r.status
         /\ ResetRunningStep(r).wait = r.wait
  BY SetStepRow DEF ResetRunningStep, StepStatus

LEMMA RecoveredGood ==
  ASSUME NEW r, Good(r) PROVE Good(Recovered(r))
<1>1. {"ready", "failed"} \subseteq Life!TaskStatus BY DEF Life!TaskStatus
<1> DEFINE m == ResetRunningStep(r)
<1>2. m \in Row BY ResetRunningStepRow DEF Good
<1>3. Recovered(r) =
        IF r.attempts >= MaxAttempts THEN [m EXCEPT !.status = "failed", !.lease = "none"]
        ELSE [m EXCEPT !.status = "ready", !.lease = "none", !.due = TRUE]
  BY DEF Recovered
<1> HIDE DEF m
<1>4. Good([m EXCEPT !.status = "failed", !.lease = "none"])
  <2>1. [m EXCEPT !.status = "failed", !.lease = "none"] \in Row
    BY <1>1, <1>2 DEF Row
  <2> QED BY <1>2, <2>1 DEF Good, Row
<1>5. Good([m EXCEPT !.status = "ready", !.lease = "none", !.due = TRUE])
  <2>1. [m EXCEPT !.status = "ready", !.lease = "none", !.due = TRUE] \in Row
    BY <1>1, <1>2 DEF Row
  <2> QED BY <1>2, <2>1 DEF Good, Row
<1> QED BY <1>3, <1>4, <1>5

LEMMA AdvancedGood ==
  ASSUME NEW r, Good(r), NEW s \in {"done", "bad"} PROVE Good(Advanced(r, s))
<1>1. s \in StepStatus /\ "ready" \in Life!TaskStatus /\ "none" \in Waits
  BY DEF StepStatus, Life!TaskStatus, Waits
<1> DEFINE m == SetStep(r, r.idx, s)
<1>2. m \in Row BY <1>1, SetStepRow DEF Good
<1>3. Advanced(r, s) = [m EXCEPT !.idx = @ + 1, !.status = "ready",
                                 !.wait = "none", !.due = TRUE]
  BY DEF Advanced
<1> HIDE DEF m
<1>4. m.idx + 1 \in Nat \ {0} BY <1>2 DEF Row
<1>5. Advanced(r, s) \in Row BY <1>1, <1>2, <1>3, <1>4 DEF Row
<1>6. Advanced(r, s).status = "ready" BY <1>2, <1>3 DEF Row
<1> QED BY <1>5, <1>6 DEF Good

LEMMA WaitExpiredGood ==
  ASSUME NEW r, Good(r) PROVE Good(WaitExpired(r))
<1>1. {"ready", "failed"} \subseteq Life!TaskStatus /\ "none" \in Waits
  BY DEF Life!TaskStatus, Waits
<1>2. CASE r.wait \notin EventWaits
  BY <1>2, AdvancedGood DEF WaitExpired
<1>3. CASE r.wait \in EventWaits
  <2>1. [r EXCEPT !.wait = "none", !.status = "failed"] \in Row
    BY <1>1 DEF Good, Row
  <2>2. [r EXCEPT !.wait = "none", !.status = "ready", !.due = TRUE] \in Row
    BY <1>1 DEF Good, Row
  <2>3. /\ Good([r EXCEPT !.wait = "none", !.status = "failed"])
        /\ Good([r EXCEPT !.wait = "none", !.status = "ready", !.due = TRUE])
    BY <2>1, <2>2 DEF Good, Row
  <2> QED BY <1>3, <2>3 DEF WaitExpired
<1> QED BY <1>2, <1>3

LEMMA CallsGood ==
  ASSUME NEW r, Good(r), NEW t
  PROVE  /\ Good(Promoted(r))
         /\ Good(Cancelled(r))
         /\ Good(Approved(t, r))
         /\ Good(Rejected(r))
<1>1. /\ {"ready", "failed", "cancelled"} \subseteq Life!TaskStatus
      /\ "none" \in Waits
      /\ {"pending", "done", "failed"} \subseteq StepStatus
  BY DEF Life!TaskStatus, Waits, StepStatus
<1>2. Good(Promoted(r))
  <2>1. Promoted(r) \in Row BY <1>1 DEF Good, Promoted, Row
  <2> QED BY <2>1 DEF Good, Promoted, Row
<1>3. Good(Cancelled(r))
  <2>1. Cancelled(r) \in Row BY <1>1 DEF Good, Cancelled, Row
  <2>2. Cancelled(r).status = "cancelled" BY DEF Good, Cancelled, Row
  <2> QED BY <2>1, <2>2 DEF Good
<1>4. Good(Rejected(r))
  <2> DEFINE m == SetStep(r, r.idx, "failed")
  <2>1. m \in Row BY <1>1, SetStepRow DEF Good
  <2>2. Rejected(r) = [m EXCEPT !.status = "failed"] BY DEF Rejected
  <2> HIDE DEF m
  <2>3. Rejected(r) \in Row BY <1>1, <2>1, <2>2 DEF Row
  <2>4. Rejected(r).status = "failed" BY <2>1, <2>2 DEF Row
  <2> QED BY <2>3, <2>4 DEF Good
<1>5. Good(Approved(t, r))
  <2> DEFINE d == SetStep(r, r.idx, "done")
             p == SetStep(r, r.idx, "pending")
             passed == [d EXCEPT !.idx = @ + 1, !.status = "ready", !.due = TRUE]
             again == [p EXCEPT !.status = "ready", !.due = TRUE]
  <2>1. d \in Row /\ p \in Row BY <1>1, SetStepRow DEF Good
  <2>2. Approved(t, r) \in {passed, again} BY DEF Approved
  <2> HIDE DEF d, p
  <2>3. d.idx + 1 \in Nat \ {0} BY <2>1 DEF Row
  <2>4. passed \in Row /\ again \in Row BY <1>1, <2>1, <2>3 DEF Row
  <2>5. passed.status = "ready" /\ again.status = "ready" BY <2>1 DEF Row
  <2> HIDE DEF passed, again
  <2> QED BY <2>2, <2>4, <2>5 DEF Good
<1> QED BY <1>2, <1>3, <1>4, <1>5

LEMMA NewRowGood ==
  ASSUME NEW t \in Tasks
  PROVE  /\ FreshSteps(t) \in Seq(Step)
         /\ Good(NewRow(t))
         /\ Good([NewRow(t) EXCEPT !.status = "scheduled", !.due = FALSE])
<1>1. Len(Plan[t]) \in Nat BY PlanAssumption
<1>2. [st |-> "pending", tries |-> 0] \in Step BY DEF Step, StepStatus
<1>3. FreshSteps(t) \in Seq(Step)
  BY <1>1, <1>2 DEF FreshSteps
<1>4. {"pending", "scheduled"} \subseteq Life!TaskStatus /\ "none" \in Waits
  BY DEF Life!TaskStatus, Waits
<1>5. NewRow(t) \in Row
  <2>1. 1 \in Nat \ {0} /\ 0 \in Nat
    OBVIOUS
  <2> QED BY <1>3, <1>4, <2>1, Zenon DEF NewRow, Row
<1>6. [NewRow(t) EXCEPT !.status = "scheduled", !.due = FALSE] \in Row
  BY <1>4, <1>5 DEF Row
<1>7. NewRow(t).status = "pending"
  BY DEF NewRow
<1>8. [NewRow(t) EXCEPT !.status = "scheduled", !.due = FALSE].status = "scheduled"
  BY DEF NewRow
<1> QED BY <1>3, <1>5, <1>6, <1>7, <1>8 DEF Good

LEMMA NoRowGood == Good(NoRow)
<1>1. <<>> \in Seq(Step) OBVIOUS
<1>2. 1 \in Nat \ {0} /\ 0 \in Nat OBVIOUS
<1>3. Life!Absent \in Life!TaskStatus \cup {Life!Absent} OBVIOUS
<1>4. "none" \in Waits BY DEF Waits
<1>5. NoRow \in Row BY <1>1, <1>2, <1>3, <1>4, Zenon DEF NoRow, Row
<1>6. NoRow.status = "absent" BY DEF NoRow, Life!Absent
<1> QED BY <1>5, <1>6 DEF Good

-----------------------------------------------------------------------------
(* The parts of the invariant, one at a time.                              *)

LEMMA PrepareOK ==
  ASSUME ActorsOK, NEW a \in Actors, NEW o \in Operations, NEW t \in Tasks,
         NEW r, Good(r), Prepare(a, o, t, r)
  PROVE  ActorsOK'
<1>1. pc' \in [Actors -> Places] /\ op' \in [Actors -> Operations]
  BY DEF ActorsOK, Prepare, Places
<1>2. cur' \in [Actors -> Tasks \cup {NoTask}]
  BY DEF ActorsOK, Prepare
<1>3. buf' \in [Actors -> Row] /\ \A b \in Actors : Good(buf'[b])
  <2>1. r \in Row BY DEF Good
  <2>2. buf' = [buf EXCEPT ![a] = r] BY DEF Prepare
  <2>3. \A b \in Actors : buf'[b] = IF b = a THEN r ELSE buf[b]
    BY <2>2 DEF ActorsOK
  <2> QED BY <2>1, <2>2, <2>3 DEF ActorsOK
<1>4. \A b \in Actors : pc'[b] # "idle" => cur'[b] \in Tasks
  BY DEF ActorsOK, Prepare
<1> QED BY <1>1, <1>2, <1>3, <1>4 DEF ActorsOK

LEMMA RestOK ==
  ASSUME ActorsOK, NEW a \in Actors, Rest(a)
  PROVE  ActorsOK'
<1>1. pc' \in [Actors -> Places] /\ op' \in [Actors -> Operations]
  BY DEF ActorsOK, Rest, Places, Operations
<1>2. cur' \in [Actors -> Tasks \cup {NoTask}]
  BY DEF ActorsOK, Rest
<1>3. buf' \in [Actors -> Row] /\ \A b \in Actors : Good(buf'[b])
  <2>1. NoRow \in Row BY NoRowGood DEF Good
  <2>2. buf' = [buf EXCEPT ![a] = NoRow] BY DEF Rest
  <2>3. \A b \in Actors : buf'[b] = IF b = a THEN NoRow ELSE buf[b]
    BY <2>2 DEF ActorsOK
  <2> QED BY <2>1, <2>2, <2>3, NoRowGood DEF ActorsOK
<1>4. \A b \in Actors : pc'[b] # "idle" => cur'[b] \in Tasks
  BY DEF ActorsOK, Rest
<1> QED BY <1>1, <1>2, <1>3, <1>4 DEF ActorsOK

LEMMA GotoOK ==
  ASSUME ActorsOK, NEW a \in Actors, pc[a] # "idle", NEW p \in Places, Goto(a, p)
  PROVE  ActorsOK'
  BY DEF ActorsOK, Goto

LEMMA AllRest ==
  ASSUME pc' = [a \in Actors |-> "idle"], op' = [a \in Actors |-> "none"],
         cur' = [a \in Actors |-> NoTask], buf' = [a \in Actors |-> NoRow]
  PROVE  ActorsOK'
<1>1. NoRow \in Row BY NoRowGood DEF Good
<1>2. "idle" \in Places /\ "none" \in Operations BY DEF Places, Operations
<1> QED BY <1>1, <1>2, NoRowGood DEF ActorsOK

\* The row an actor writes is the good one it holds.
LEMMA UpdateOK ==
  ASSUME RowInv, NEW a \in Actors, Update(a)
  PROVE  RowInv'
<1>1. CASE UpdateCheck(a)
  <2>0. StoreOK' /\ HostOK' /\ CountsOK'
    BY <1>1 DEF RowInv, StoreOK, HostOK, CountsOK, UpdateCheck, hostVars, boundVars, historyVars
  <2>1. pc[a] # "idle" /\ {"write", "exit", "apply"} \subseteq Places
        /\ "retryable" \in Operations
    BY <1>1 DEF UpdateCheck, Places, Operations
  <2>2. CASE Legal(a)
    <3>1. ActorsOK' BY <1>1, <2>1, <2>2, GotoOK DEF UpdateCheck, RowInv
    <3>2. TickOK' BY <1>1, <2>2 DEF UpdateCheck, RowInv, TickOK, tickVars
    <3> QED BY <2>0, <3>1, <3>2 DEF RowInv
  <2>3. CASE ~Legal(a) /\ a \in Workers
    <3>1. TickOK'
      BY <1>1, <2>3 DEF UpdateCheck, UpdateRefused, RowInv, TickOK, tickVars
    <3>2. CASE op[a] = "start"
      <4>1. /\ pc' = [pc EXCEPT ![a] = "apply"]
            /\ op' = [op EXCEPT ![a] = "retryable"]
            /\ UNCHANGED <<cur, buf>>
        BY <1>1, <2>3, <3>2 DEF UpdateCheck, UpdateRefused
      <4>2. ActorsOK' BY <2>1, <4>1 DEF RowInv, ActorsOK
      <4> QED BY <2>0, <3>1, <4>2 DEF RowInv
    <3>3. CASE op[a] # "start"
      <4>1. ActorsOK'
        BY <1>1, <2>1, <2>3, <3>3, GotoOK DEF UpdateCheck, UpdateRefused, RowInv
      <4> QED BY <2>0, <3>1, <4>1 DEF RowInv
    <3> QED BY <3>2, <3>3
  <2>4. CASE ~Legal(a) /\ a \notin Workers
    <3>1. ActorsOK'
      BY <1>1, <2>4, RestOK DEF UpdateCheck, UpdateRefused, RowInv
    <3>2. TickOK'
      <4>1. CASE UNCHANGED tickVars
        BY <4>1 DEF RowInv, TickOK, tickVars
      <4>2. CASE phase' = "dispatch" /\ todo' = <<>>
        BY <4>2 DEF TickOK, Phases
      <4> QED BY <1>1, <2>4, <4>1, <4>2 DEF UpdateCheck, UpdateRefused
    <3> QED BY <2>0, <3>1, <3>2 DEF RowInv
  <2> QED BY <2>2, <2>3, <2>4
<1>2. CASE UpdateWrite(a)
  <2>1. HostOK' /\ TickOK'
    BY <1>2 DEF RowInv, HostOK, TickOK, UpdateWrite, hostVars, tickVars
  <2>2. StoreOK'
    <3>1. Good(buf[a]) /\ buf[a] \in Row BY DEF RowInv, ActorsOK
    <3>2. row' = [row EXCEPT ![cur[a]] = buf[a]] BY <1>2 DEF UpdateWrite
    <3>3. \A t \in Tasks : row'[t] \in {row[t], buf[a]}
      BY <3>2 DEF RowInv, StoreOK
    <3> QED BY <3>1, <3>2, <3>3 DEF RowInv, StoreOK
  <2>3. CountsOK'
    <3>1. \A t \in Tasks : /\ resumes[t] + (IF Releases(a, t) THEN 1 ELSE 0) \in Nat
                           /\ executions[t] + (IF Executes(a, t) THEN 1 ELSE 0) \in Nat
      BY DEF RowInv, CountsOK
    <3> QED BY <1>2, <3>1 DEF RowInv, CountsOK, UpdateWrite, boundVars, historyVars
  <2>4. ActorsOK'
    <3>1. CASE a \in Workers
      <4>1. AfterWrite(op[a]) \in Places /\ pc[a] # "idle"
        BY <1>2 DEF AfterWrite, Places, UpdateWrite
      <4> QED BY <1>2, <3>1, <4>1, GotoOK DEF RowInv, UpdateWrite
    <3>2. CASE a \notin Workers
      BY <1>2, <3>2, RestOK DEF RowInv, UpdateWrite
    <3> QED BY <3>1, <3>2
  <2> QED BY <2>1, <2>2, <2>3, <2>4 DEF RowInv
<1> QED BY <1>1, <1>2 DEF Update

LEMMA WorkerStepOK ==
  ASSUME RowInv, NEW w \in Workers, WorkerStep(w)
  PROVE  RowInv'
<1>0. w \in Actors BY DEF Actors
<1>1. CASE Take(w)
  <2>1. queue \in Seq(Tasks) /\ queue # <<>> BY <1>1 DEF Take, RowInv, HostOK
  <2>2. Head(queue) \in Tasks /\ Tail(queue) \in Seq(Tasks) BY <2>1
  <2>3. /\ queue' = Tail(queue) /\ inFlight' = inFlight
        /\ pc' = [pc EXCEPT ![w] = "claim"]
        /\ cur' = [cur EXCEPT ![w] = Head(queue)]
        /\ UNCHANGED <<row, op, buf, phase, todo, resumes, executions, requests, crashes>>
    BY <1>1 DEF Take, tickVars, boundVars, historyVars
  <2>4. HostOK' BY <2>2, <2>3 DEF RowInv, HostOK
  <2>5. ActorsOK' BY <1>0, <2>2, <2>3 DEF RowInv, ActorsOK, Places
  <2>6. StoreOK' /\ TickOK' /\ CountsOK'
    BY <2>3 DEF RowInv, StoreOK, TickOK, CountsOK
  <2> QED BY <2>4, <2>5, <2>6 DEF RowInv
<1>2. ASSUME pc[w] # "idle", UNCHANGED <<row, hostVars, tickVars, historyVars, boundVars>>,
             ActorsOK'
      PROVE  RowInv'
  BY <1>2 DEF RowInv, StoreOK, HostOK, TickOK, CountsOK, hostVars, tickVars, boundVars, historyVars
<1>3. pc[w] # "idle" => cur[w] \in Tasks /\ Good(row[cur[w]])
  BY <1>0 DEF RowInv, ActorsOK, StoreOK
<1>4. Good(buf[w]) /\ buf[w].idx \in Nat \ {0}
  BY <1>0 DEF RowInv, ActorsOK, Good, Row
<1>5. CASE Claim(w)
  <2>1. pc[w] # "idle" /\ UNCHANGED <<row, hostVars, tickVars, historyVars, boundVars>>
    BY <1>5 DEF Claim
  <2>2. Good(Claimed(row[cur[w]])) BY <1>3, <2>1, ClaimedGood
  <2>3. "claim" \in Operations /\ "exit" \in Places BY DEF Operations, Places
  <2>4. ActorsOK'
    BY <1>0, <1>3, <1>5, <2>1, <2>2, <2>3, PrepareOK, GotoOK DEF Claim, RowInv
  <2> QED BY <1>2, <2>1, <2>4
<1>6. CASE Advance(w)
  <2>1. pc[w] # "idle" /\ UNCHANGED <<row, hostVars, tickVars, historyVars, boundVars>>
    BY <1>6 DEF Advance
  <2>2. {"finish", "skip", "start"} \subseteq Operations BY DEF Operations
  <2>3. Good(FinishedTask(cur[w], buf[w])) BY <1>4, FinishedTaskGood
  <2>4. Good([buf[w] EXCEPT !.idx = @ + 1])
    <3>1. [buf[w] EXCEPT !.idx = @ + 1] \in Row BY <1>4 DEF Good, Row
    <3> QED BY <1>4, <3>1 DEF Good, Row
  <2>5. HasStep(buf[w]) => Good(Started(buf[w])) BY <1>4, StartedGood
  <2>6. \E o \in Operations : \E r : Good(r) /\ Prepare(w, o, cur[w], r)
    BY <1>6, <2>2, <2>3, <2>4, <2>5 DEF Advance
  <2>7. ActorsOK' BY <1>0, <1>3, <2>1, <2>6, PrepareOK DEF RowInv
  <2> QED BY <1>2, <2>1, <2>7
<1>7. CASE RunStep(w)
  <2>1. pc[w] # "idle" /\ UNCHANGED <<row, hostVars, tickVars, historyVars, boundVars>>
    BY <1>7 DEF RunStep
  <2>2. Outcomes(Plan[cur[w]][buf[w].idx]) \subseteq Operations
    BY DEF Outcomes, Operations
  <2>3. PICK o \in Operations : op' = [op EXCEPT ![w] = o]
    BY <1>7, <2>2 DEF RunStep
  <2>4. pc' = [pc EXCEPT ![w] = "apply"] /\ UNCHANGED <<cur, buf>>
    BY <1>7 DEF RunStep
  <2>5. "apply" \in Places BY DEF Places
  <2>6. ActorsOK' BY <1>0, <2>1, <2>3, <2>4, <2>5 DEF RowInv, ActorsOK
  <2> QED BY <1>2, <2>1, <2>6
<1>8. CASE ApplyOutcome(w)
  <2> DEFINE t == cur[w]
             i == buf[w].idx
             o == op[w]
             r == row[t]
  <2>1. pc[w] # "idle" /\ UNCHANGED <<row, hostVars, tickVars, historyVars, boundVars>>
    BY <1>8 DEF ApplyOutcome
  <2>2. o \in Operations BY <1>0 DEF RowInv, ActorsOK
  <2>3. Good(r) /\ i \in Nat \ {0} BY <1>3, <1>4, <2>1
  <2>4. Good(StepCompleted(r, i, "done")) BY <2>3, StepCompletedGood
  <2>5. Good(ParkedWaiting(r, i, WaitFor(Plan[t][i])))
    <3>1. WaitFor(Plan[t][i]) \in Waits \ {"none"} BY DEF WaitFor, Waits
    <3> QED BY <2>3, <3>1, ParkedWaitingGood
  <2>6. Good(ParkedReview(r, i)) BY <2>3, ParkedReviewGood
  <2>7. Good(StepFailed(r, i, o = "retryable")) BY <2>3, StepFailedGood
  <2>8. \E x : Good(x) /\ Prepare(w, o, t, x)
    BY <1>8, <2>4, <2>5, <2>6, <2>7 DEF ApplyOutcome
  <2>9. ActorsOK' BY <1>0, <1>3, <2>1, <2>2, <2>8, PrepareOK DEF RowInv
  <2> QED BY <1>2, <2>1, <2>9
<1>9. CASE Update(w) BY <1>0, <1>9, UpdateOK
<1>10. CASE Exit(w)
  <2>1. HostOK' BY <1>10 DEF Exit, RowInv, HostOK
  <2>2. ActorsOK' BY <1>0, <1>10, RestOK DEF Exit, RowInv
  <2>3. StoreOK' /\ TickOK' /\ CountsOK'
    BY <1>10 DEF Exit, RowInv, StoreOK, TickOK, CountsOK, tickVars, boundVars, historyVars
  <2> QED BY <2>1, <2>2, <2>3 DEF RowInv
<1> QED BY <1>1, <1>5, <1>6, <1>7, <1>8, <1>9, <1>10 DEF WorkerStep

LEMMA RenewOK ==
  ASSUME RowInv, NEW w \in Workers, Renew(w)
  PROVE  RowInv'
<1>1. w \in Actors /\ Renewer \in Actors /\ "renew" \in Operations
  BY DEF Actors, Operations
<1>2. cur[w] \in Tasks /\ Good(row[cur[w]])
  BY <1>1 DEF Renew, RowInv, ActorsOK, StoreOK
<1>3. Good([row[cur[w]] EXCEPT !.lease = "held"])
  <2>1. [row[cur[w]] EXCEPT !.lease = "held"] \in Row BY <1>2 DEF Good, Row
  <2> QED BY <1>2, <2>1 DEF Good, Row
<1>4. ActorsOK' BY <1>1, <1>2, <1>3, PrepareOK DEF Renew, RowInv
<1> QED
  BY <1>4 DEF Renew, RowInv, StoreOK, HostOK, TickOK, CountsOK, hostVars, tickVars, boundVars, historyVars

LEMMA TickStepOK ==
  ASSUME RowInv, TickStep
  PROVE  RowInv'
<1>0. Ticker \in Actors BY DEF Actors
<1>1. CASE TickQuery
  <2>1. TickOK'
    <3> DEFINE S == {u \in Tasks : Selected(phase', row[u])}
    <3>1. phase' = NextPhase[phase] /\ todo' = [t \in S |-> row[t]]
      BY <1>1 DEF TickQuery
    <3>2. phase' \in Phases BY <3>1 DEF RowInv, TickOK, Phases, NextPhase
    <3>3. S \subseteq Tasks OBVIOUS
    <3> HIDE DEF S
    <3> QED BY <3>1, <3>2, <3>3 DEF RowInv, StoreOK, TickOK
  <2> QED
    BY <1>1, <2>1 DEF TickQuery, RowInv, StoreOK, HostOK, ActorsOK, CountsOK,
                      hostVars, actorVars, boundVars, historyVars
<1>2. ASSUME NEW t \in Tasks, t \in DOMAIN todo, Done(t) PROVE TickOK'
  BY <1>2 DEF Done, RowInv, TickOK
<1>3. ASSUME NEW t \in Tasks, TickUpdate(t) PROVE RowInv'
  <2>1. TickOK' BY <1>2, <1>3 DEF TickUpdate
  <2>2. Good(todo[t]) BY <1>3 DEF TickUpdate, RowInv, TickOK
  <2>3. /\ Good(Recovered(todo[t])) /\ Good(WaitExpired(todo[t]))
        /\ Good(Promoted(todo[t]))
    BY <2>2, RecoveredGood, WaitExpiredGood, CallsGood
  <2>4. phase \in Operations BY <1>3 DEF TickUpdate, Operations
  <2>5. \E r : Good(r) /\ Prepare(Ticker, phase, t, r)
    BY <1>3, <2>3 DEF TickUpdate
  <2>6. ActorsOK' BY <1>0, <2>4, <2>5, PrepareOK DEF RowInv
  <2> QED BY <1>3, <2>1, <2>6 DEF TickUpdate, RowInv, StoreOK, HostOK, CountsOK,
                                  hostVars, boundVars, historyVars
<1>4. ASSUME NEW t \in Tasks, Dispatch(t) PROVE RowInv'
  <2>1. TickOK' BY <1>2, <1>4 DEF Dispatch
  <2>2. HostOK'
    <3>1. Append(queue, t) \in Seq(Tasks) BY DEF RowInv, HostOK
    <3> QED BY <1>4, <3>1 DEF Dispatch, PassedOver, Queue, RowInv, HostOK, hostVars
  <2> QED BY <1>4, <2>1, <2>2 DEF Dispatch, RowInv, StoreOK, ActorsOK, CountsOK,
                                  actorVars, boundVars, historyVars
<1>5. CASE Update(Ticker) BY <1>0, <1>5, UpdateOK
<1> QED BY <1>1, <1>3, <1>4, <1>5 DEF TickStep

LEMMA ClientStepOK ==
  ASSUME RowInv, NEW c \in Clients, ClientStep(c)
  PROVE  RowInv'
<1>0. c \in Actors BY DEF Actors
<1>1. ASSUME NEW o \in Operations, NEW t \in Tasks, NEW r, Good(r), Request(c, o, t, r)
      PROVE  RowInv'
  <2>1. ActorsOK' BY <1>0, <1>1, PrepareOK DEF Request, RowInv
  <2>2. CountsOK'
    BY <1>1, BoundsAssumption DEF Request, RowInv, CountsOK, historyVars
  <2> QED BY <1>1, <2>1, <2>2 DEF Request, RowInv, StoreOK, HostOK, TickOK,
                                  hostVars, tickVars
<1>2. {"cancel", "deliver", "approve", "reject", "edit"} \subseteq Operations
  BY DEF Operations
<1>3. \A t \in Tasks : Good(row[t]) BY DEF RowInv, StoreOK
<1>4. ASSUME NEW t \in Tasks, Cancel(c, t) PROVE RowInv'
  BY <1>1, <1>2, <1>3, <1>4, CallsGood DEF Cancel
<1>5. ASSUME NEW t \in Tasks, DeliverEvent(c, t) PROVE RowInv'
  <2>1. PICK s \in {"done", "bad"} : Request(c, "deliver", t, Advanced(row[t], s))
    BY <1>5 DEF DeliverEvent
  <2>2. Good(Advanced(row[t], s)) BY <1>3, AdvancedGood
  <2> QED BY <1>1, <1>2, <2>1, <2>2
<1>6. ASSUME NEW t \in Tasks, Review(c, t) PROVE RowInv'
  BY <1>1, <1>2, <1>3, <1>6, CallsGood DEF Review
<1>7. ASSUME NEW t \in Tasks, Edit(c, t) PROVE RowInv'
  <2>1. PICK d \in BOOLEAN :
          Request(c, "edit", t, [row[t] EXCEPT !.steps = FreshSteps(t), !.due = d])
    BY <1>7 DEF Edit
  <2>2. [row[t] EXCEPT !.steps = FreshSteps(t), !.due = d] \in Row
    BY <1>3, NewRowGood DEF Good, Row
  <2>3. Good([row[t] EXCEPT !.steps = FreshSteps(t), !.due = d])
    BY <1>3, <2>2 DEF Good, Row
  <2> QED BY <1>1, <1>2, <2>1, <2>3
<1>8. CASE Update(c) BY <1>0, <1>8, UpdateOK
<1> QED BY <1>4, <1>5, <1>6, <1>7, <1>8 DEF ClientStep

LEMMA CreateOK ==
  ASSUME RowInv, NEW t \in Tasks, Create(t)
  PROVE  RowInv'
<1>1. PICK r \in {NewRow(t), [NewRow(t) EXCEPT !.status = "scheduled", !.due = FALSE]} :
        row' = [row EXCEPT ![t] = r]
  BY DEF Create
<1>2. Good(r) /\ r \in Row BY NewRowGood DEF Good
<1>3. \A u \in Tasks : row'[u] \in {row[u], r} BY <1>1 DEF RowInv, StoreOK
<1>4. StoreOK' BY <1>1, <1>2, <1>3 DEF RowInv, StoreOK
<1> QED BY <1>4 DEF Create, RowInv, HostOK, ActorsOK, TickOK, CountsOK,
                    hostVars, actorVars, tickVars, boundVars, historyVars

LEMMA TimePassesOK ==
  ASSUME RowInv, NEW t \in Tasks, TimePasses(t)
  PROVE  RowInv'
<1>0. Good(row[t]) BY DEF RowInv, StoreOK
<1> DEFINE l == [row[t] EXCEPT !.lease = "lapsed"]
           w == [row[t] EXCEPT !.wait = IF row[t].wait = "timer" THEN "timerPassed"
                                                                 ELSE "eventPassed"]
           d == [row[t] EXCEPT !.due = TRUE]
<1>1. Good(l)
  <2>1. l \in Row BY <1>0 DEF Good, Row
  <2> QED BY <1>0, <2>1 DEF Good, Row
<1>2. Good(w)
  <2>1. "timerPassed" \in Waits /\ "eventPassed" \in Waits BY DEF Waits
  <2>2. w \in Row BY <1>0, <2>1 DEF Good, Row
  <2>3. w.wait # "none" /\ w.status = row[t].status /\ w.lease = row[t].lease
    BY <1>0 DEF Good, Row
  <2> QED BY <1>0, <2>2, <2>3 DEF Good
<1>3. Good(d)
  <2>1. d \in Row BY <1>0 DEF Good, Row
  <2> QED BY <1>0, <2>1 DEF Good, Row
<1>4. \/ row' = [row EXCEPT ![t] = l]
      \/ row' = [row EXCEPT ![t] = w]
      \/ row' = [row EXCEPT ![t] = d]
  BY DEF TimePasses, LeaseLapses, WaitPasses, BecomesDue, RowInv, StoreOK
<1> HIDE DEF l, w, d
<1>5. PICK r : Good(r) /\ row' = [row EXCEPT ![t] = r]
  BY <1>1, <1>2, <1>3, <1>4
<1>6. \A u \in Tasks : row'[u] \in {row[u], r} BY <1>5 DEF RowInv, StoreOK
<1>7. StoreOK' BY <1>5, <1>6 DEF RowInv, StoreOK, Good
<1> QED BY <1>7 DEF TimePasses, RowInv, HostOK, ActorsOK, TickOK, CountsOK,
                    hostVars, actorVars, tickVars, boundVars, historyVars

\* A prefix of a list of steps is a list of steps.
LEMMA Prefix ==
  ASSUME NEW q \in Seq(Step), NEW k \in 0..Len(q)
  PROVE  SubSeq(q, 1, k) \in Seq(Step)
  OBVIOUS

\* A torn row is a good row with other steps, and goodness ignores the steps.
LEMMA TornGood ==
  /\ \A old, new : Good(old) /\ Good(new) => \A r \in TornRows(old, new) : Good(r)
  /\ \A t \in Tasks : \A r \in TornCreations(t) : Good(r)
<1>1. ASSUME NEW r, Good(r), NEW q \in Seq(Step) PROVE Good([r EXCEPT !.steps = q])
  <2>1. [r EXCEPT !.steps = q] \in Row BY <1>1 DEF Good, Row
  <2> QED BY <1>1, <2>1 DEF Good, Row
<1>2. \A r : Good(r) => r.steps \in Seq(Step) BY DEF Good, Row
<1>3. ASSUME NEW old, NEW new, Good(old), Good(new), NEW r \in TornRows(old, new)
      PROVE  Good(r)
  <2>1. \A k \in 0..Len(new.steps) : SubSeq(new.steps, 1, k) \in Seq(Step)
    BY <1>2, <1>3, Prefix
  <2>2. \E q \in Seq(Step) : r = [new EXCEPT !.steps = q]
    BY <1>2, <1>3, <2>1 DEF TornRows
  <2> QED BY <1>1, <1>3, <2>2
<1>4. ASSUME NEW t \in Tasks, NEW r \in TornCreations(t) PROVE Good(r)
  <2>1. Good(NewRow(t)) BY NewRowGood
  <2>2. /\ NewRow(t).steps = FreshSteps(t) /\ Len(Plan[t]) \in Nat
        /\ Len(FreshSteps(t)) = Len(Plan[t])
    BY PlanAssumption DEF NewRow, FreshSteps
  <2>3. \A k \in 0..Len(Plan[t]) : SubSeq(NewRow(t).steps, 1, k) \in Seq(Step)
    BY <2>2, NewRowGood, Prefix
  <2>4. \E q \in Seq(Step) : r = [NewRow(t) EXCEPT !.steps = q]
    BY <1>4, <2>3 DEF TornCreations
  <2> QED BY <1>1, <2>1, <2>4
<1> QED BY <1>3, <1>4

LEMMA CrashOK ==
  ASSUME RowInv, Crash
  PROVE  RowInv'
<1>1. StoreOK'
  <2>1. CASE row' = row BY <2>1 DEF RowInv, StoreOK
  <2>2. CASE row' # row
    <3>1. \E u \in Tasks : \E r : Good(r) /\ row' = [row EXCEPT ![u] = r]
      <4>1. TornWrite BY <2>2 DEF Crash
      <4>2. ASSUME NEW a \in Actors, pc[a] = "write",
                   NEW r \in TornRows(row[cur[a]], buf[a]),
                   row' = [row EXCEPT ![cur[a]] = r]
            PROVE  \E u \in Tasks : \E x : Good(x) /\ row' = [row EXCEPT ![u] = x]
        <5>1. cur[a] \in Tasks /\ Good(row[cur[a]]) /\ Good(buf[a])
          BY <4>2 DEF RowInv, ActorsOK, StoreOK
        <5> QED BY <4>2, <5>1, TornGood
      <4>3. ASSUME NEW t \in Tasks, NEW r \in TornCreations(t), row' = [row EXCEPT ![t] = r]
            PROVE  \E u \in Tasks : \E x : Good(x) /\ row' = [row EXCEPT ![u] = x]
        BY <4>3, TornGood
      <4> QED BY <4>1, <4>2, <4>3 DEF TornWrite
    <3>2. PICK u \in Tasks : \E r : Good(r) /\ row' = [row EXCEPT ![u] = r]
      BY <3>1
    <3>3. PICK r : Good(r) /\ row' = [row EXCEPT ![u] = r] BY <3>2
    <3>4. \A t \in Tasks : row'[t] \in {row[t], r} BY <3>3 DEF RowInv, StoreOK
    <3> QED BY <3>3, <3>4 DEF RowInv, StoreOK, Good
  <2> QED BY <2>1, <2>2
<1>2. HostOK' BY DEF Crash, HostOK
<1>3. ActorsOK' BY AllRest DEF Crash
<1>4. TickOK' BY DEF Crash, TickOK, Phases
<1>5. CountsOK'
  <2>1. \A t \in Tasks :
          resumes[t] + (IF /\ row'[t] # row[t]
                           /\ \E a \in Actors : Releases(a, t) THEN 1 ELSE 0) \in Nat
    BY DEF RowInv, CountsOK
  <2>2. resumes' \in [Tasks -> Nat] BY <2>1 DEF Crash
  <2> QED BY <2>2, BoundsAssumption DEF Crash, RowInv, CountsOK
<1> QED BY <1>1, <1>2, <1>3, <1>4, <1>5 DEF RowInv

-----------------------------------------------------------------------------

LEMMA RowInit == Init => RowInv
<1> SUFFICES ASSUME Init PROVE RowInv
  OBVIOUS
<1>1. NoRow \in Row BY NoRowGood DEF Good
<1>2. StoreOK BY <1>1, NoRowGood DEF Init, StoreOK
<1>3. HostOK BY DEF Init, HostOK
<1>4. ActorsOK BY <1>1, NoRowGood DEF Init, ActorsOK, Places, Operations
<1>5. TickOK BY DEF Init, TickOK, Phases
<1>6. CountsOK BY BoundsAssumption DEF Init, CountsOK
<1> QED BY <1>2, <1>3, <1>4, <1>5, <1>6 DEF RowInv

LEMMA RowStep == RowInv /\ [Next]_vars => RowInv'
<1> SUFFICES ASSUME RowInv, [Next]_vars PROVE RowInv'
  OBVIOUS
<1>1. CASE UNCHANGED vars
  BY <1>1 DEF vars, RowInv, StoreOK, HostOK, ActorsOK, TickOK, CountsOK,
              hostVars, actorVars, tickVars, boundVars, historyVars
<1>2. CASE Next
  <2>1. Renewer \in Actors BY DEF Actors
  <2> QED
    BY <1>2, <2>1, WorkerStepOK, RenewOK, UpdateOK, TickStepOK, ClientStepOK,
       CreateOK, TimePassesOK, CrashOK DEF Next
<1> QED BY <1>1, <1>2

\* Every variable has its type in every behaviour.
THEOREM TypeCorrect == Spec => []TypeOK
<1>1. RowInv => TypeOK
  BY DEF RowInv, StoreOK, HostOK, ActorsOK, TickOK, CountsOK, TypeOK
<1> QED BY <1>1, RowInit, RowStep, PTL DEF Spec

\* Whichever updates overtake each other and wherever the process dies, a
\* running task has a lease for recover_stale to see and a waiting one a wait
\* to expire or to match.
THEOREM RecoverableHolds == Spec => []Recoverable
<1>1. RowInv => Recoverable
  BY DEF RowInv, StoreOK, Good, Recoverable
<1> QED BY <1>1, RowInit, RowStep, PTL DEF Spec

=============================================================================
