--------------------------- MODULE AgentLoop_proofs ---------------------------
(***************************************************************************)
(* Theorems about the tool loop, for every set of calls, every limit and   *)
(* every number of approvals.                                              *)
(*                                                                         *)
(* The loop's latch and what the model has seen are kept apart by the      *)
(* code: the latch opens when an observation succeeds, the model sees the  *)
(* observation only when it is asked again.  What joins them is that a     *)
(* response is checked as a whole before any of it runs: from the request  *)
(* on until the first desktop action of the response nothing can make the  *)
(* observation stale, and there is only one such action.                   *)
(***************************************************************************)
EXTENDS AgentLoop, TLAPS

(* The locals of the loop, with sequences of any length.                   *)
Phases == {"model", "prepare", "execute", "waiting", "over"}
Locals ==
  [phase : Phases,
   iteration : Nat, attempt : Nat, response : Seq(ToolCall), at : Nat, available : Nat,
   prepared : Seq(ToolCall), answered : Nat, executed : Seq(ToolCall), required : BOOLEAN,
   reserved : BOOLEAN, blocked : SUBSET Blockable, nudged : BOOLEAN]

ShapeInv ==
  /\ loop \in Locals
  /\ cache \subseteq Effectful /\ succeeded \in [Effectful -> Nat] /\ resumes \in 0 .. MaxResumes
  /\ observed \in BOOLEAN /\ seen \in BOOLEAN

(* The replay cache knows every effect.                                    *)
CacheInv == \A c \in Effectful : succeeded[c] = IF c \in cache THEN 1 ELSE 0

(* The limits of the code.                                                 *)
LimitInv ==
  /\ loop.phase # "over" => loop.iteration < MaxIterations
  /\ loop.iteration <= MaxIterations /\ loop.attempt <= MaxProviderRetries
  /\ Len(loop.response) <= MaxBatch /\ loop.available <= Len(loop.response)
  /\ loop.phase = "model" => loop.prepared = <<>>

(* Every call that was taken is answered, prepared or still to be looked   *)
(* at, and there is room for the result of each: of the calls taken `an'   *)
(* are answered, p prepared, and e were executed in the task's loop.       *)
Room(phase, at, taken, an, p, e) ==
  /\ taken <= MaxToolCalls
  /\ 1 <= at /\ at <= taken + 1 /\ an + p <= taken
  /\ phase = "model" => p = 0 /\ an = 0 /\ at = 1
  /\ phase = "prepare" => an + p = at - 1
  /\ phase = "execute" => an + p = taken
  /\ e + p <= MaxToolCalls
  /\ phase = "prepare" => e + p + (taken + 1 - at) <= MaxToolCalls
CountInv == Room(loop.phase, loop.at, loop.available, loop.answered,
                 Len(loop.prepared), Len(loop.executed))

(* An open latch means an observation since the last desktop action; a     *)
(* prepared desktop action is the only one, and the model saw that.        *)
SightInv ==
  /\ ~loop.required => observed
  /\ loop.phase = "prepare" => seen = observed
  /\ \A i \in 1 .. Len(loop.prepared) : loop.prepared[i] \in Control => seen
  /\ \A i, j \in 1 .. Len(loop.prepared) :
       loop.prepared[i] \in Control /\ loop.prepared[j] \in Control => i = j
  /\ loop.phase = "prepare" =>
       \A i \in 1 .. Len(loop.prepared) : loop.prepared[i] \in Control => loop.reserved

LoopInv == ShapeInv /\ CacheInv /\ LimitInv /\ CountInv /\ SightInv

(* What most steps leave alone.                                            *)
Limits == <<loop.iteration, loop.attempt, loop.response, loop.available>>
History == <<cache, resumes, succeeded, observed, seen>>
Typed(l) ==
  /\ l.phase \in Phases /\ l.iteration \in Nat /\ l.attempt \in Nat /\ l.at \in Nat
  /\ l.available \in Nat /\ l.answered \in Nat /\ l.required \in BOOLEAN /\ l.reserved \in BOOLEAN
  /\ l.response \in Seq(ToolCall) /\ l.prepared \in Seq(ToolCall) /\ l.executed \in Seq(ToolCall)
  /\ Len(l.response) \in Nat /\ Len(l.prepared) \in Nat /\ Len(l.executed) \in Nat

-----------------------------------------------------------------------------
(* The locals of the loop have the types of the model.                     *)
LEMMA LocalsTyped == \A l \in Locals : Typed(l)
<1> SUFFICES ASSUME NEW l \in Locals PROVE Typed(l) OBVIOUS
<1>1. /\ l.phase \in Phases /\ l.iteration \in Nat /\ l.attempt \in Nat /\ l.at \in Nat
      /\ l.available \in Nat /\ l.answered \in Nat /\ l.required \in BOOLEAN /\ l.reserved \in BOOLEAN
      /\ l.response \in Seq(ToolCall) /\ l.prepared \in Seq(ToolCall) /\ l.executed \in Seq(ToolCall)
  BY DEF Locals
<1>2. \A s \in Seq(ToolCall) : Len(s) \in Nat OBVIOUS
<1> QED BY <1>1, <1>2 DEF Typed

(* The locals before and after a step have the types of the model.         *)
LEMMA StepTyped ==
  ASSUME LoopInv, loop' \in Locals
  PROVE  Typed(loop) /\ Typed(loop') /\ loop \in Locals
<1> QED BY LocalsTyped DEF LoopInv, ShapeInv

(* The limits are naturals.                                                *)
LEMMA LimitsTyped ==
  /\ MaxToolCalls \in Nat /\ MaxIterations \in Nat /\ MaxIterations > 0
  /\ MaxProviderRetries \in Nat /\ MaxBatch \in Nat /\ MaxResumes \in Nat
<1> QED BY LoopAssumption

(* The numbers of the calls, at each kind of step.                         *)
LEMMA RoomNew ==
  ASSUME NEW phase \in {"model", "over"}, NEW e \in Nat, e <= MaxToolCalls
  PROVE  Room(phase, 1, 0, 0, 0, e)
<1> QED BY LimitsTyped DEF Room

(* A loop that stops keeps its books.                                      *)
LEMMA RoomStops ==
  ASSUME NEW phase, NEW at \in Nat, NEW taken \in Nat, NEW an \in Nat, NEW p \in Nat, NEW e \in Nat,
         Room(phase, at, taken, an, p, e)
  PROVE  Room("over", at, taken, an, p, e)
<1> QED BY LimitsTyped DEF Room

(* The calls that are taken fit under the limit.                           *)
LEMMA RoomTakes ==
  ASSUME NEW taken \in Nat, NEW e \in Nat, e + taken <= MaxToolCalls
  PROVE  Room("prepare", 1, taken, 0, 0, e)
<1> QED BY LimitsTyped DEF Room

(* A call that is looked at is answered, prepared or what the loop waits for.*)
LEMMA RoomChecks ==
  ASSUME NEW at \in Nat, NEW taken \in Nat, NEW an \in Nat, NEW p \in Nat, NEW e \in Nat,
         Room("prepare", at, taken, an, p, e), at <= taken
  PROVE  /\ Room("prepare", at + 1, taken, an + 1, p, e)
         /\ Room("prepare", at + 1, taken, an + 1, p, e + 1)
         /\ Room("prepare", at + 1, taken, an, p + 1, e)
         /\ Room("waiting", at + 1, taken, an, p, e)
<1> QED BY LimitsTyped DEF Room

(* With every call looked at the prepared ones are executed.               *)
LEMMA RoomExecutes ==
  ASSUME NEW at \in Nat, NEW taken \in Nat, NEW an \in Nat, NEW p \in Nat, NEW e \in Nat,
         Room("prepare", at, taken, an, p, e), at > taken
  PROVE  Room("execute", at, taken, an, p, e)
<1> QED BY LimitsTyped DEF Room

(* A prepared call is answered, with an effect or without.                 *)
LEMMA RoomAnswers ==
  ASSUME NEW at \in Nat, NEW taken \in Nat, NEW an \in Nat, NEW p \in Nat, NEW e \in Nat,
         Room("execute", at, taken, an, p, e), p > 0
  PROVE  /\ Room("execute", at, taken, an + 1, p - 1, e)
         /\ Room("execute", at, taken, an + 1, p - 1, e + 1)
<1> QED BY LimitsTyped DEF Room

(* A new loop is well formed.                                              *)
LEMMA NewLoopOK == NewLoop \in Locals
<1>1. <<>> \in Seq(ToolCall) /\ {} \in SUBSET Blockable OBVIOUS
<1> QED BY <1>1 DEF NewLoop, Locals, Phases

(* A loop that begins has nothing prepared and its latch closed.           *)
LEMMA BeginsOK == loop = NewLoop => LimitInv /\ CountInv /\ SightInv
<1> SUFFICES ASSUME loop = NewLoop PROVE LimitInv /\ CountInv /\ SightInv OBVIOUS
<1>1. /\ loop.phase = "model" /\ loop.iteration = 0 /\ loop.attempt = 0 /\ loop.response = <<>>
      /\ loop.at = 1 /\ loop.available = 0 /\ loop.answered = 0 /\ loop.prepared = <<>>
      /\ loop.executed = <<>> /\ loop.required = TRUE
  BY DEF NewLoop
<1>2. Len(loop.prepared) = 0 /\ Len(loop.executed) = 0 /\ Len(loop.response) = 0 BY <1>1
<1>3. LimitInv BY <1>1, <1>2, LimitsTyped DEF LimitInv
<1>4. CountInv BY <1>1, <1>2, RoomNew, LimitsTyped DEF CountInv
<1>5. SightInv BY <1>1, <1>2 DEF SightInv
<1> QED BY <1>3, <1>4, <1>5

(* The invariant holds when no loop has run.                               *)
LEMMA InitOK == LoopInit => LoopInv
<1> SUFFICES ASSUME LoopInit PROVE LoopInv OBVIOUS
<1>1. loop = NewLoop /\ loop \in Locals BY NewLoopOK DEF LoopInit
<1>2. resumes \in 0 .. MaxResumes BY LimitsTyped DEF LoopInit
<1>3. ShapeInv BY <1>1, <1>2 DEF LoopInit, ShapeInv
<1>4. CacheInv BY DEF LoopInit, CacheInv
<1> QED BY <1>1, <1>3, <1>4, BeginsOK DEF LoopInv

(* A new iteration begins with nothing prepared, answered or taken.        *)
LEMMA NextIterationOK ==
  ASSUME LoopInv, NEW b \in BOOLEAN, loop.phase \in {"model", "execute"}, loop.prepared = <<>>,
         loop' = NextIteration([loop EXCEPT !.nudged = b]), UNCHANGED History
  PROVE  LoopInv'
<1>1. loop \in Locals /\ Typed(loop) BY LocalsTyped DEF LoopInv, ShapeInv
<1>2. loop' \in Locals
  <2>1. loop.iteration + 1 \in Nat /\ <<>> \in Seq(ToolCall) BY <1>1 DEF Locals
  <2>2. (IF loop.iteration + 1 = MaxIterations THEN "over" ELSE "model") \in Phases BY DEF Phases
  <2> QED BY <1>1, <2>1, <2>2 DEF NextIteration, Locals
<1>3. /\ loop'.iteration = loop.iteration + 1 /\ loop'.attempt = 0
      /\ loop'.response = <<>> /\ loop'.at = 1 /\ loop'.available = 0 /\ loop'.answered = 0
      /\ loop'.prepared = <<>> /\ loop'.executed = loop.executed /\ loop'.required = loop.required
      /\ loop'.phase = IF loop.iteration + 1 = MaxIterations THEN "over" ELSE "model"
  BY <1>1 DEF NextIteration, Locals
<1>4. Len(loop'.prepared) = 0 /\ Len(loop'.response) = 0 BY <1>3
<1>5. Len(loop.executed) \in Nat /\ Len(loop.executed) <= MaxToolCalls
  BY <1>1, LimitsTyped DEF LoopInv, CountInv, Room, Typed
<1>6. loop.iteration < MaxIterations BY DEF LoopInv, LimitInv
<1>7. ShapeInv' BY <1>2 DEF LoopInv, ShapeInv, History
<1>8. CacheInv' BY DEF LoopInv, CacheInv, History
<1>9. LimitInv'
  <2>1. /\ loop'.iteration <= MaxIterations
        /\ loop'.phase # "over" => loop'.iteration < MaxIterations
    BY <1>1, <1>3, <1>6, LimitsTyped DEF Typed
  <2> QED BY <1>3, <1>4, <2>1, LimitsTyped DEF LimitInv
<1>10. CountInv'
  <2>1. loop'.phase \in {"model", "over"} BY <1>3
  <2>2. Room(loop'.phase, 1, 0, 0, 0, Len(loop.executed)) BY <2>1, <1>5, RoomNew
  <2> QED BY <1>3, <1>4, <2>2 DEF CountInv
<1>11. SightInv' BY <1>3, <1>4 DEF LoopInv, SightInv, History
<1> QED BY <1>7, <1>8, <1>9, <1>10, <1>11 DEF LoopInv

(* What a step keeps that ends the loop or asks again.                     *)
LEMMA PhaseOK ==
  ASSUME LoopInv, loop' \in Locals, loop'.phase \in {loop.phase, "over"},
         loop'.phase = "over" \/ loop.phase = "model", loop'.attempt <= MaxProviderRetries,
         loop'.prepared = loop.prepared, loop'.answered = loop.answered,
         loop'.at = loop.at, loop'.executed = loop.executed, loop'.required = loop.required,
         loop'.iteration = loop.iteration, loop'.response = loop.response,
         loop'.available = loop.available, UNCHANGED History
  PROVE  LoopInv'
<1>1. Typed(loop) BY StepTyped
<1>2. ShapeInv' BY DEF LoopInv, ShapeInv, History
<1>3. CacheInv' BY DEF LoopInv, CacheInv, History
<1>4. LimitInv' BY DEF LoopInv, LimitInv
<1>5. CountInv'
  <2>1. Room("over", loop.at, loop.available, loop.answered, Len(loop.prepared), Len(loop.executed))
    BY <1>1, RoomStops DEF LoopInv, CountInv, Typed
  <2> QED BY <2>1 DEF LoopInv, CountInv
<1>6. SightInv' BY DEF LoopInv, SightInv, History
<1> QED BY <1>2, <1>3, <1>4, <1>5, <1>6 DEF LoopInv

(* A failed request is retried or ends the loop.                           *)
LEMMA ModelFailsOK == LoopInv /\ ModelFails => LoopInv'
<1> SUFFICES ASSUME LoopInv, ModelFails PROVE LoopInv' OBVIOUS
<1>1. loop \in Locals BY DEF LoopInv, ShapeInv
<1>2. loop.phase = "model" /\ UNCHANGED History BY DEF ModelFails, History
<1>3. CASE loop.attempt < MaxProviderRetries /\ loop' = [loop EXCEPT !.attempt = @ + 1]
  <2>1. loop.attempt + 1 \in Nat /\ loop.attempt + 1 <= MaxProviderRetries
    BY <1>1, <1>3, LimitsTyped DEF Locals
  <2>2. loop' \in Locals BY <1>1, <1>3, <2>1 DEF Locals
  <2>3. /\ loop'.phase = loop.phase /\ loop'.attempt = loop.attempt + 1
        /\ loop'.prepared = loop.prepared /\ loop'.answered = loop.answered
        /\ loop'.at = loop.at /\ loop'.executed = loop.executed /\ loop'.required = loop.required
        /\ loop'.iteration = loop.iteration /\ loop'.response = loop.response
        /\ loop'.available = loop.available
    BY <1>1, <1>3 DEF Locals
  <2> QED BY <1>2, <2>1, <2>2, <2>3, PhaseOK
<1>4. CASE loop' = [loop EXCEPT !.phase = "over"]
  <2>1. loop' \in Locals BY <1>1, <1>4 DEF Locals, Phases
  <2>2. /\ loop'.phase = "over" /\ loop'.attempt = loop.attempt
        /\ loop'.prepared = loop.prepared /\ loop'.answered = loop.answered
        /\ loop'.at = loop.at /\ loop'.executed = loop.executed /\ loop'.required = loop.required
        /\ loop'.iteration = loop.iteration /\ loop'.response = loop.response
        /\ loop'.available = loop.available
    BY <1>1, <1>4 DEF Locals
  <2>3. loop.attempt <= MaxProviderRetries BY DEF LoopInv, LimitInv
  <2> QED BY <1>2, <2>1, <2>2, <2>3, PhaseOK
<1> QED BY <1>3, <1>4 DEF ModelFails

(* An answer without calls ends the loop, or the model is nudged once.     *)
LEMMA ModelTalksOK == LoopInv /\ ModelTalks => LoopInv'
<1> SUFFICES ASSUME LoopInv, ModelTalks PROVE LoopInv' OBVIOUS
<1>1. loop.phase = "model" /\ loop.prepared = <<>> /\ UNCHANGED History
  BY DEF ModelTalks, LoopInv, LimitInv, History
<1>2. CASE loop' = [loop EXCEPT !.phase = "over"]
  <2>1. loop \in Locals BY DEF LoopInv, ShapeInv
  <2>2. loop' \in Locals BY <1>2, <2>1 DEF Locals, Phases
  <2>3. /\ loop'.phase = "over" /\ loop'.attempt = loop.attempt
        /\ loop'.prepared = loop.prepared /\ loop'.answered = loop.answered
        /\ loop'.at = loop.at /\ loop'.executed = loop.executed /\ loop'.required = loop.required
        /\ loop'.iteration = loop.iteration /\ loop'.response = loop.response
        /\ loop'.available = loop.available
    BY <1>2, <2>1 DEF Locals
  <2>4. loop.attempt <= MaxProviderRetries BY DEF LoopInv, LimitInv
  <2> QED BY <1>1, <2>2, <2>3, <2>4, PhaseOK
<1>3. CASE loop' = NextIteration([loop EXCEPT !.nudged = TRUE])
  BY <1>1, <1>3, NextIterationOK
<1> QED BY <1>2, <1>3 DEF ModelTalks

(* As many calls are taken as the response has and the limit leaves room for.*)
LEMMA AvailableOK ==
  ASSUME Len(loop.executed) \in Nat, Len(loop.executed) <= MaxToolCalls,
         NEW batch, Len(batch) \in Nat
  PROVE  /\ Available(batch) \in Nat /\ Available(batch) <= Len(batch)
         /\ Len(loop.executed) + Available(batch) <= MaxToolCalls
<1> DEFINE e == Len(loop.executed)
           n == Len(batch)
           room == MaxToolCalls - e
<1>1. Available(batch) = IF n < room THEN n ELSE room BY DEF Available
<1>2. n \in Nat /\ e \in Nat /\ e <= MaxToolCalls OBVIOUS
<1> HIDE DEF e, n
<1>3. CASE n < room BY <1>1, <1>2, <1>3, LimitsTyped DEF n, e
<1>4. CASE ~(n < room)
  <2>1. Available(batch) = room BY <1>1, <1>4
  <2>2. room \in Nat /\ room <= n /\ e + room <= MaxToolCalls BY <1>2, <1>4, LimitsTyped
  <2> QED BY <2>1, <2>2 DEF n, e
<1> QED BY <1>3, <1>4

(* A response with calls is put in the books.                              *)
LEMMA ModelCallsOK == LoopInv /\ ModelCalls => LoopInv'
<1> SUFFICES ASSUME LoopInv, ModelCalls PROVE LoopInv' OBVIOUS
<1>1. PICK batch \in BatchType \ {<<>>} :
        loop' = [loop EXCEPT !.phase = "prepare", !.response = batch, !.available = Available(batch)]
  BY DEF ModelCalls
<1>2. batch \in Seq(ToolCall) /\ Len(batch) \in Nat /\ Len(batch) <= MaxBatch
  BY LimitsTyped DEF BatchType
<1>3. loop \in Locals /\ Typed(loop) BY LocalsTyped DEF LoopInv, ShapeInv
<1>4. loop.phase = "model" /\ loop.prepared = <<>> /\ Len(loop.prepared) = 0
  BY DEF ModelCalls, LoopInv, LimitInv
<1>5. /\ loop.answered = 0 /\ loop.at = 1
      /\ Len(loop.executed) \in Nat /\ Len(loop.executed) <= MaxToolCalls
  BY <1>3, <1>4, LimitsTyped DEF LoopInv, CountInv, Room, Typed
<1>6. /\ Available(batch) \in Nat /\ Available(batch) <= Len(batch)
      /\ Len(loop.executed) + Available(batch) <= MaxToolCalls
  BY <1>2, <1>5, AvailableOK
<1>7. loop' \in Locals BY <1>1, <1>2, <1>3, <1>6 DEF Locals, Phases
<1>8. /\ loop'.phase = "prepare" /\ loop'.response = batch /\ loop'.available = Available(batch)
      /\ loop'.prepared = loop.prepared /\ loop'.answered = loop.answered
      /\ loop'.at = loop.at /\ loop'.executed = loop.executed /\ loop'.required = loop.required
      /\ loop'.iteration = loop.iteration /\ loop'.attempt = loop.attempt
  BY <1>1, <1>3 DEF Locals
<1>9. ShapeInv'
  <2>1. seen' \in BOOLEAN BY DEF LoopInv, ShapeInv, ModelCalls
  <2> QED BY <1>7, <2>1 DEF LoopInv, ShapeInv, ModelCalls
<1>10. CacheInv' BY DEF LoopInv, CacheInv, ModelCalls
<1>11. LimitInv' BY <1>2, <1>4, <1>6, <1>8 DEF LoopInv, LimitInv
<1>12. CountInv'
  <2>1. Room("prepare", 1, Available(batch), 0, 0, Len(loop.executed)) BY <1>5, <1>6, RoomTakes
  <2> QED BY <1>4, <1>5, <1>8, <2>1 DEF CountInv
<1>13. SightInv' BY <1>4, <1>8 DEF LoopInv, SightInv, ModelCalls
<1> QED BY <1>9, <1>10, <1>11, <1>12, <1>13 DEF LoopInv

-----------------------------------------------------------------------------
(* A call of the response is answered without being prepared, with a result*)
(* that counts (it was executed before) or one that does not.              *)
LEMMA AnsweredOK ==
  ASSUME LoopInv, loop.phase = "prepare", loop.at <= loop.available,
         UNCHANGED <<History, Limits>>, loop' \in Locals, loop'.phase = "prepare",
         loop'.at = loop.at + 1, loop'.answered = loop.answered + 1,
         loop'.prepared = loop.prepared,
         Len(loop'.executed) \in {Len(loop.executed), Len(loop.executed) + 1},
         ~loop'.required => ~loop.required, loop.reserved => loop'.reserved
  PROVE  LoopInv'
<1>1. Typed(loop) /\ Typed(loop') BY StepTyped
<1>2. ShapeInv' BY DEF LoopInv, ShapeInv, History
<1>3. CacheInv' BY DEF LoopInv, CacheInv, History
<1>4. LimitInv' BY DEF LoopInv, LimitInv, Limits
<1>5. CountInv'
  <2> DEFINE R(e) == Room("prepare", loop.at + 1, loop.available, loop.answered + 1,
                          Len(loop.prepared), e)
  <2>1. R(Len(loop.executed)) /\ R(Len(loop.executed) + 1)
    BY <1>1, RoomChecks DEF LoopInv, CountInv, Typed
  <2>2. R(Len(loop'.executed)) BY <2>1
  <2> QED BY <2>2 DEF CountInv, Limits
<1>6. SightInv' BY DEF LoopInv, SightInv, History
<1> QED BY <1>2, <1>3, <1>4, <1>5, <1>6 DEF LoopInv

(* A call joins the prepared ones; a desktop action only when the latch is *)
(* open and no other is among them.                                        *)
LEMMA PreparedOK ==
  ASSUME LoopInv, NEW c \in ToolCall, loop.phase = "prepare", loop.at <= loop.available,
         ~ControlPaused(c), UNCHANGED <<History, Limits>>, loop' \in Locals,
         loop'.phase = "prepare", loop'.at = loop.at + 1, loop'.answered = loop.answered,
         loop'.prepared = Append(loop.prepared, c), loop'.executed = loop.executed,
         loop'.required = loop.required, loop'.reserved = (loop.reserved \/ c \in Control)
  PROVE  LoopInv'
<1>1. Typed(loop) /\ Typed(loop') BY StepTyped
<1>2. /\ Len(loop'.prepared) = Len(loop.prepared) + 1
      /\ loop'.prepared[Len(loop.prepared) + 1] = c
      /\ \A i \in 1 .. Len(loop.prepared) : loop'.prepared[i] = loop.prepared[i]
  BY <1>1 DEF Typed
<1>3. ShapeInv' BY DEF LoopInv, ShapeInv, History
<1>4. CacheInv' BY DEF LoopInv, CacheInv, History
<1>5. LimitInv' BY DEF LoopInv, LimitInv, Limits
<1>6. CountInv'
  <2>1. Room("prepare", loop.at + 1, loop.available, loop.answered, Len(loop.prepared) + 1,
             Len(loop.executed))
    BY <1>1, RoomChecks DEF LoopInv, CountInv, Typed
  <2> QED BY <1>2, <2>1 DEF CountInv, Limits
<1>7. c \in Control => seen /\ \A i \in 1 .. Len(loop.prepared) : loop.prepared[i] \notin Control
  BY DEF ControlPaused, LoopInv, SightInv
<1>8. \A i \in 1 .. Len(loop'.prepared) :
        i \in 1 .. Len(loop.prepared) \/ i = Len(loop.prepared) + 1
  BY <1>1, <1>2 DEF Typed
<1>9. SightInv' BY <1>2, <1>7, <1>8 DEF LoopInv, SightInv, History
<1> QED BY <1>3, <1>4, <1>5, <1>6, <1>9 DEF LoopInv

(* A call is refused, answered from the cache, prepared or waited for.     *)
LEMMA PrepareCallOK == LoopInv /\ PrepareCall => LoopInv'
<1> SUFFICES ASSUME LoopInv, PrepareCall PROVE LoopInv' OBVIOUS
<1> DEFINE c == loop.response[loop.at]
           r == loop.reserved \/ c \in Control
           q == loop.required \/ c \in Control
           l == [loop EXCEPT !.at = loop.at + 1, !.reserved = r]
<1>1. loop.phase = "prepare" /\ loop.at <= loop.available /\ UNCHANGED History
  BY DEF PrepareCall, History
<1>2. loop \in Locals /\ Typed(loop) BY LocalsTyped DEF LoopInv, ShapeInv
<1>3. c \in ToolCall
  <2>1. loop.available <= Len(loop.response) /\ 1 <= loop.at
    BY DEF LoopInv, LimitInv, CountInv, Room
  <2>2. loop.at \in 1 .. Len(loop.response) BY <1>1, <1>2, <2>1 DEF Typed
  <2> QED BY <1>2, <2>2 DEF Typed
<1>4. r \in BOOLEAN /\ q \in BOOLEAN BY <1>2 DEF Typed
<1>5. loop.at + 1 \in Nat /\ loop.answered + 1 \in Nat BY <1>2 DEF Typed
<1>6. /\ Append(loop.executed, c) \in Seq(ToolCall) /\ Append(loop.prepared, c) \in Seq(ToolCall)
      /\ Len(Append(loop.executed, c)) = Len(loop.executed) + 1
  BY <1>2, <1>3 DEF Typed
<1>7. (loop.reserved => r) /\ (~q => ~loop.required) OBVIOUS
<1>8. \/ loop' = ResultGiven([loop EXCEPT !.at = loop.at + 1])
      \/ loop' = ResultGiven(l)
      \/ loop' = ResultOf([l EXCEPT !.required = q], c)
      \/ ~ControlPaused(c) /\ loop' = [l EXCEPT !.prepared = Append(loop.prepared, c)]
      \/ loop' = [l EXCEPT !.phase = "waiting"]
  BY <1>2 DEF PrepareCall, Locals
<1>9. r = (loop.reserved \/ c \in Control) OBVIOUS
<1> HIDE DEF c, r, q
<1>10. CASE loop' = ResultGiven([loop EXCEPT !.at = loop.at + 1])
  <2>1. loop' \in Locals BY <1>2, <1>5, <1>10 DEF ResultGiven, Locals
  <2>2. /\ UNCHANGED Limits /\ loop'.phase = loop.phase /\ loop'.at = loop.at + 1
        /\ loop'.answered = loop.answered + 1 /\ loop'.prepared = loop.prepared
        /\ loop'.executed = loop.executed /\ loop'.required = loop.required
        /\ loop'.reserved = loop.reserved
    BY <1>2, <1>10 DEF ResultGiven, Locals, Limits
  <2> QED BY <1>1, <2>1, <2>2, AnsweredOK
<1>11. CASE loop' = ResultGiven(l)
  <2>1. loop' \in Locals BY <1>2, <1>4, <1>5, <1>11 DEF ResultGiven, Locals
  <2>2. /\ UNCHANGED Limits /\ loop'.phase = loop.phase /\ loop'.at = loop.at + 1
        /\ loop'.answered = loop.answered + 1 /\ loop'.prepared = loop.prepared
        /\ loop'.executed = loop.executed /\ loop'.required = loop.required
        /\ loop'.reserved = r
    BY <1>2, <1>11 DEF ResultGiven, Locals, Limits
  <2> QED BY <1>1, <1>7, <2>1, <2>2, AnsweredOK
<1>12. CASE loop' = ResultOf([l EXCEPT !.required = q], c)
  <2>1. loop' \in Locals BY <1>2, <1>4, <1>5, <1>6, <1>12 DEF ResultOf, ResultGiven, Locals
  <2>2. /\ UNCHANGED Limits /\ loop'.phase = loop.phase /\ loop'.at = loop.at + 1
        /\ loop'.answered = loop.answered + 1 /\ loop'.prepared = loop.prepared
        /\ loop'.executed = Append(loop.executed, c) /\ loop'.required = q
        /\ loop'.reserved = r
    BY <1>2, <1>12 DEF ResultOf, ResultGiven, Locals, Limits
  <2> QED BY <1>1, <1>6, <1>7, <2>1, <2>2, AnsweredOK
<1>13. CASE ~ControlPaused(c) /\ loop' = [l EXCEPT !.prepared = Append(loop.prepared, c)]
  <2>1. loop' \in Locals BY <1>2, <1>4, <1>5, <1>6, <1>13 DEF Locals
  <2>2. /\ UNCHANGED Limits /\ loop'.phase = loop.phase /\ loop'.at = loop.at + 1
        /\ loop'.answered = loop.answered /\ loop'.prepared = Append(loop.prepared, c)
        /\ loop'.executed = loop.executed /\ loop'.required = loop.required
        /\ loop'.reserved = r
    BY <1>2, <1>13 DEF Locals, Limits
  <2> QED BY <1>1, <1>3, <1>9, <1>13, <2>1, <2>2, PreparedOK
<1>14. CASE loop' = [l EXCEPT !.phase = "waiting"]
  <2>1. loop' \in Locals BY <1>2, <1>4, <1>5, <1>14 DEF Locals, Phases
  <2>2. /\ UNCHANGED Limits /\ loop'.phase = "waiting" /\ loop'.at = loop.at + 1
        /\ loop'.answered = loop.answered /\ loop'.prepared = loop.prepared
        /\ loop'.executed = loop.executed /\ loop'.required = loop.required
    BY <1>2, <1>14 DEF Locals, Limits
  <2>3. ShapeInv' BY <1>1, <2>1 DEF LoopInv, ShapeInv, History
  <2>4. CacheInv' BY <1>1 DEF LoopInv, CacheInv, History
  <2>5. LimitInv' BY <1>1, <2>2 DEF LoopInv, LimitInv, Limits
  <2>6. CountInv'
    <3>1. Room("waiting", loop.at + 1, loop.available, loop.answered, Len(loop.prepared),
               Len(loop.executed))
      BY <1>1, <1>2, RoomChecks DEF LoopInv, CountInv, Typed
    <3> QED BY <2>2, <3>1 DEF CountInv, Limits
  <2>7. SightInv' BY <1>1, <2>2 DEF LoopInv, SightInv, History
  <2> QED BY <2>3, <2>4, <2>5, <2>6, <2>7 DEF LoopInv
<1> QED BY <1>8, <1>10, <1>11, <1>12, <1>13, <1>14

(* The whole response was checked.                                         *)
LEMMA AllPreparedOK == LoopInv /\ AllPrepared => LoopInv'
<1> SUFFICES ASSUME LoopInv, AllPrepared PROVE LoopInv' OBVIOUS
<1>1. loop \in Locals /\ Typed(loop) BY LocalsTyped DEF LoopInv, ShapeInv
<1>2. loop' \in Locals BY <1>1 DEF AllPrepared, Locals, Phases
<1>3. /\ UNCHANGED <<Limits, History>> /\ loop'.phase = "execute" /\ loop'.at = loop.at
      /\ loop'.answered = loop.answered /\ loop'.prepared = loop.prepared
      /\ loop'.executed = loop.executed /\ loop'.required = loop.required
  BY <1>1 DEF AllPrepared, Locals, Limits, History
<1>4. loop.phase = "prepare" /\ loop.at > loop.available BY DEF AllPrepared
<1>5. ShapeInv' BY <1>2, <1>3 DEF LoopInv, ShapeInv, History
<1>6. CacheInv' BY <1>3 DEF LoopInv, CacheInv, History
<1>7. LimitInv' BY <1>3, <1>4 DEF LoopInv, LimitInv, Limits
<1>8. CountInv'
  <2>1. Room("execute", loop.at, loop.available, loop.answered, Len(loop.prepared),
             Len(loop.executed))
    BY <1>1, <1>4, RoomExecutes DEF LoopInv, CountInv, Typed
  <2> QED BY <1>3, <2>1 DEF CountInv, Limits
<1>9. SightInv' BY <1>3 DEF LoopInv, SightInv, History
<1> QED BY <1>5, <1>6, <1>7, <1>8, <1>9 DEF LoopInv

-----------------------------------------------------------------------------
(* A prepared call has been answered, whatever came of it: the others stay *)
(* as they were, and after a desktop action there is no other.             *)
LEMMA RunOK ==
  ASSUME LoopInv, NEW c \in ToolCall, RunsNext(c),
         loop' \in Locals, loop'.prepared = Tail(loop.prepared),
         loop'.answered = loop.answered + 1, loop'.phase = loop.phase,
         loop'.at = loop.at, UNCHANGED Limits,
         Len(loop'.executed) \in {Len(loop.executed), Len(loop.executed) + 1},
         ~loop'.required => observed', c \notin Control => seen' = seen
  PROVE  LimitInv' /\ CountInv' /\ SightInv'
<1>1. Typed(loop) /\ Typed(loop') BY StepTyped
<1>2. /\ loop.prepared \in Seq(ToolCall) /\ loop.prepared # <<>> /\ c = loop.prepared[1]
      /\ loop.phase = "execute" /\ loop'.phase = "execute"
  BY <1>1 DEF RunsNext, Typed
<1>3. /\ Len(loop.prepared) \in Nat /\ Len(loop.prepared) > 0
      /\ Len(loop'.prepared) = Len(loop.prepared) - 1
      /\ \A i \in 1 .. Len(loop'.prepared) :
            i + 1 \in 1 .. Len(loop.prepared) /\ loop'.prepared[i] = loop.prepared[i + 1]
      /\ 1 \in 1 .. Len(loop.prepared)
  BY <1>2
<1>4. LimitInv' BY <1>2 DEF LoopInv, LimitInv, Limits
<1>5. CountInv'
  <2> DEFINE R(e) == Room("execute", loop.at, loop.available, loop.answered + 1,
                          Len(loop.prepared) - 1, e)
  <2>1. R(Len(loop.executed)) /\ R(Len(loop.executed) + 1)
    BY <1>1, <1>2, <1>3, RoomAnswers DEF LoopInv, CountInv, Typed
  <2>2. R(Len(loop'.executed)) BY <2>1
  <2> QED BY <1>2, <1>3, <2>2 DEF CountInv, Limits
<1>6. \A i \in 1 .. Len(loop'.prepared) : c \in Control => loop'.prepared[i] \notin Control
  <2> SUFFICES ASSUME NEW i \in 1 .. Len(loop'.prepared), c \in Control
               PROVE  loop'.prepared[i] \notin Control
    OBVIOUS
  <2>1. i + 1 # 1 BY <1>1 DEF Typed
  <2> QED BY <1>2, <1>3, <2>1 DEF LoopInv, SightInv
<1>7. \A i \in 1 .. Len(loop'.prepared) : loop'.prepared[i] \in Control => seen'
  BY <1>3, <1>6 DEF LoopInv, SightInv
<1>8. \A i, j \in 1 .. Len(loop'.prepared) :
         loop'.prepared[i] \in Control /\ loop'.prepared[j] \in Control => i = j
  <2> SUFFICES ASSUME NEW i \in 1 .. Len(loop'.prepared), NEW j \in 1 .. Len(loop'.prepared),
                      loop'.prepared[i] \in Control, loop'.prepared[j] \in Control
               PROVE  i = j
    OBVIOUS
  <2>1. i + 1 = j + 1 BY <1>3 DEF LoopInv, SightInv
  <2> QED BY <1>1, <2>1 DEF Typed
<1>9. SightInv' BY <1>2, <1>7, <1>8 DEF SightInv
<1> QED BY <1>4, <1>5, <1>9

(* What the four ways to answer a prepared call share.                     *)
LEMMA AfterCallOK ==
  ASSUME LoopInv, NEW c \in ToolCall, RunsNext(c)
  PROVE  /\ Tail(loop.prepared) \in Seq(ToolCall)
         /\ Append(loop.executed, c) \in Seq(ToolCall)
         /\ Len(Append(loop.executed, c)) = Len(loop.executed) + 1
         /\ loop.answered + 1 \in Nat
         /\ (loop.required \/ c \in Control) \in BOOLEAN
<1>1. Typed(loop) BY LocalsTyped DEF LoopInv, ShapeInv
<1> QED BY <1>1 DEF RunsNext, Typed

(* A prepared call is answered from the cache.                             *)
LEMMA ReplayCallOK == ASSUME NEW c \in ToolCall, LoopInv, ReplayCall(c) PROVE LoopInv'
<1> DEFINE q == loop.required \/ c \in Control
<1>1. loop \in Locals /\ RunsNext(c) /\ UNCHANGED History
  BY DEF ReplayCall, LoopInv, ShapeInv, History
<1>2. /\ Tail(loop.prepared) \in Seq(ToolCall) /\ Append(loop.executed, c) \in Seq(ToolCall)
      /\ Len(Append(loop.executed, c)) = Len(loop.executed) + 1
      /\ loop.answered + 1 \in Nat /\ q \in BOOLEAN
  BY <1>1, AfterCallOK
<1>3. loop' = [loop EXCEPT !.prepared = Tail(loop.prepared), !.required = q,
                           !.executed = Append(loop.executed, c), !.answered = loop.answered + 1]
  BY <1>1 DEF ReplayCall, AfterCall, ResultOf, ResultGiven, Locals
<1>4. ~q => observed
  BY DEF LoopInv, SightInv
<1> HIDE DEF q
<1>5. loop' \in Locals BY <1>1, <1>2, <1>3 DEF Locals
<1>6. /\ UNCHANGED Limits /\ loop'.phase = loop.phase /\ loop'.at = loop.at
      /\ loop'.prepared = Tail(loop.prepared) /\ loop'.answered = loop.answered + 1
      /\ loop'.executed = Append(loop.executed, c) /\ loop'.required = q
  BY <1>1, <1>3 DEF Locals, Limits
<1>7. observed' = observed /\ seen' = seen BY <1>1 DEF History
<1>8. LimitInv' /\ CountInv' /\ SightInv'
  BY <1>1, <1>2, <1>4, <1>5, <1>6, <1>7, RunOK
<1>9. ShapeInv' BY <1>1, <1>5 DEF History, LoopInv, ShapeInv
<1>10. CacheInv' BY <1>1 DEF History, LoopInv, CacheInv
<1> QED BY <1>8, <1>9, <1>10 DEF LoopInv

(* A prepared call is answered without having run.                         *)
LEMMA CommitFailsOK == ASSUME NEW c \in ToolCall, LoopInv, CommitFails(c) PROVE LoopInv'
<1> DEFINE q == loop.required \/ c \in Control
<1>1. loop \in Locals /\ RunsNext(c) /\ UNCHANGED History
  BY DEF CommitFails, LoopInv, ShapeInv, History
<1>2. Tail(loop.prepared) \in Seq(ToolCall) /\ loop.answered + 1 \in Nat /\ q \in BOOLEAN
  BY <1>1, AfterCallOK
<1>3. loop' = [loop EXCEPT !.prepared = Tail(loop.prepared), !.required = q,
                           !.answered = loop.answered + 1]
  BY <1>1 DEF CommitFails, AfterCall, ResultGiven, Locals
<1>4. ~q => observed
  BY DEF LoopInv, SightInv
<1> HIDE DEF q
<1>5. loop' \in Locals BY <1>1, <1>2, <1>3 DEF Locals
<1>6. /\ UNCHANGED Limits /\ loop'.phase = loop.phase /\ loop'.at = loop.at
      /\ loop'.prepared = Tail(loop.prepared) /\ loop'.answered = loop.answered + 1
      /\ loop'.executed = loop.executed /\ loop'.required = q
  BY <1>1, <1>3 DEF Locals, Limits
<1>7. observed' = observed /\ seen' = seen BY <1>1 DEF History
<1>8. LimitInv' /\ CountInv' /\ SightInv'
  BY <1>1, <1>4, <1>5, <1>6, <1>7, RunOK
<1>9. ShapeInv' BY <1>1, <1>5 DEF History, LoopInv, ShapeInv
<1>10. CacheInv' BY <1>1 DEF History, LoopInv, CacheInv
<1> QED BY <1>8, <1>9, <1>10 DEF LoopInv

(* Only a call that has had no effect yet can have one now.                *)
LEMMA InvokeCallOK == ASSUME NEW c \in ToolCall, LoopInv, InvokeCall(c) PROVE LoopInv'
<1> DEFINE q == loop.required \/ c \in Control
<1>1. /\ RunsNext(c) /\ c \notin cache /\ resumes' = resumes /\ seen' = (seen /\ c \notin Control)
      /\ loop \in Locals /\ ShapeInv
  BY DEF InvokeCall, Replayed, InCache, LoopInv, ShapeInv
<1>2. c \in Control => c \notin Observation
  BY LoopAssumption
<1>3. (c \notin Control => seen' = seen) /\ seen' \in BOOLEAN
  BY <1>1 DEF ShapeInv
<1>4. /\ Tail(loop.prepared) \in Seq(ToolCall) /\ Append(loop.executed, c) \in Seq(ToolCall)
      /\ Len(Append(loop.executed, c)) = Len(loop.executed) + 1
      /\ loop.answered + 1 \in Nat /\ q \in BOOLEAN
  BY <1>1, AfterCallOK
<1>5. ~loop.required => observed
  BY DEF LoopInv, SightInv
<1>6. CASE /\ loop' = ResultOf([AfterCall(c) EXCEPT !.required = @ /\ c \notin Observation], c)
           /\ cache' = IF c \in Effectful THEN cache \cup {c} ELSE cache
           /\ succeeded' = IF c \in Effectful THEN [succeeded EXCEPT ![c] = @ + 1] ELSE succeeded
           /\ observed' = IF c \in Control THEN FALSE ELSE observed \/ c \in Observation
  <2> DEFINE latch == q /\ c \notin Observation
  <2>1. latch \in BOOLEAN BY <1>4
  <2>2. ~latch => observed' BY <1>2, <1>5, <1>6
  <2>3. loop' = [loop EXCEPT !.prepared = Tail(loop.prepared), !.required = latch,
                             !.executed = Append(loop.executed, c),
                             !.answered = loop.answered + 1]
    BY <1>1, <1>6 DEF AfterCall, ResultOf, ResultGiven, Locals
  <2> HIDE DEF latch
  <2>4. loop' \in Locals BY <1>1, <1>4, <2>1, <2>3 DEF Locals
  <2>5. /\ UNCHANGED Limits /\ loop'.phase = loop.phase /\ loop'.at = loop.at
        /\ loop'.prepared = Tail(loop.prepared) /\ loop'.answered = loop.answered + 1
        /\ loop'.executed = Append(loop.executed, c) /\ loop'.required = latch
    BY <1>1, <2>3 DEF Locals, Limits
  <2>6. LimitInv' /\ CountInv' /\ SightInv'
    BY <1>1, <1>3, <1>4, <2>2, <2>4, <2>5, RunOK
  <2>7. observed' \in BOOLEAN /\ cache' \subseteq Effectful
    BY <1>1, <1>6 DEF ShapeInv
  <2>8. succeeded' \in [Effectful -> Nat] /\ CacheInv'
    BY <1>1, <1>6 DEF LoopInv, CacheInv, ShapeInv
  <2>9. ShapeInv'
    BY <1>1, <1>3, <2>4, <2>7, <2>8 DEF ShapeInv
  <2> QED BY <2>6, <2>8, <2>9 DEF LoopInv
<1>7. CASE /\ \E barred \in {{}, {c} \cap Blockable} :
                loop' = ResultGiven([AfterCall(c) EXCEPT !.blocked = @ \cup barred])
           /\ observed' = (observed /\ c \notin Control)
           /\ UNCHANGED <<cache, succeeded>>
  <2>1. PICK barred \in SUBSET Blockable :
          loop' = ResultGiven([AfterCall(c) EXCEPT !.blocked = @ \cup barred])
    BY <1>7
  <2>2. loop.blocked \cup barred \in SUBSET Blockable
    BY <1>1 DEF Locals
  <2>3. loop' = [loop EXCEPT !.prepared = Tail(loop.prepared), !.required = q,
                             !.blocked = loop.blocked \cup barred,
                             !.answered = loop.answered + 1]
    BY <1>1, <2>1 DEF AfterCall, ResultGiven, Locals
  <2>4. ~q => observed' BY <1>5, <1>7
  <2> HIDE DEF q
  <2>5. loop' \in Locals
    BY <1>1, <1>4, <2>2, <2>3 DEF Locals
  <2>6. /\ UNCHANGED Limits /\ loop'.phase = loop.phase /\ loop'.at = loop.at
        /\ loop'.prepared = Tail(loop.prepared) /\ loop'.answered = loop.answered + 1
        /\ loop'.executed = loop.executed /\ loop'.required = q
    BY <1>1, <2>3 DEF Locals, Limits
  <2>7. LimitInv' /\ CountInv' /\ SightInv'
    BY <1>1, <1>3, <2>4, <2>5, <2>6, RunOK
  <2>8. ShapeInv'
    BY <1>1, <1>3, <1>7, <2>5 DEF ShapeInv
  <2>9. CacheInv'
    BY <1>7 DEF LoopInv, CacheInv
  <2> QED BY <2>7, <2>8, <2>9 DEF LoopInv
<1> QED BY <1>6, <1>7 DEF InvokeCall

(* The results go to the model.                                            *)
LEMMA EndIterationOK == LoopInv /\ EndIteration => LoopInv'
<1> SUFFICES ASSUME LoopInv, EndIteration PROVE LoopInv' OBVIOUS
<1>1. loop = [loop EXCEPT !.nudged = loop.nudged] /\ loop.nudged \in BOOLEAN
  BY DEF LoopInv, ShapeInv, Locals
<1> QED BY <1>1, NextIterationOK DEF EndIteration, History

(* An approved loop starts again from its cache.                           *)
LEMMA ResumeLoopOK == LoopInv /\ ResumeLoop => LoopInv'
<1> SUFFICES ASSUME LoopInv, ResumeLoop PROVE LoopInv' OBVIOUS
<1>1. NewLoop \in Locals /\ loop' = NewLoop BY NewLoopOK DEF ResumeLoop
<1>2. resumes' \in 0 .. MaxResumes
  BY LimitsTyped DEF ResumeLoop, LoopInv, ShapeInv
<1>3. ShapeInv' BY <1>1, <1>2 DEF ResumeLoop, LoopInv, ShapeInv
<1>4. CacheInv' BY DEF ResumeLoop, LoopInv, CacheInv
<1>5. /\ loop'.phase = "model" /\ loop'.iteration = 0 /\ loop'.attempt = 0 /\ loop'.response = <<>>
      /\ loop'.at = 1 /\ loop'.available = 0 /\ loop'.answered = 0 /\ loop'.prepared = <<>>
      /\ loop'.executed = <<>> /\ loop'.required = TRUE
  BY <1>1 DEF NewLoop
<1>6. Len(loop'.prepared) = 0 /\ Len(loop'.executed) = 0 /\ Len(loop'.response) = 0 BY <1>5
<1>7. LimitInv' BY <1>5, <1>6, LimitsTyped DEF LimitInv
<1>8. CountInv' BY <1>5, <1>6, RoomNew, LimitsTyped DEF CountInv
<1>9. SightInv' BY <1>5, <1>6 DEF SightInv
<1> QED BY <1>3, <1>4, <1>7, <1>8, <1>9 DEF LoopInv

(* Every step keeps the invariant.                                         *)
LEMMA StepOK == LoopInv /\ [LoopNext]_loopVars => LoopInv'
<1> SUFFICES ASSUME LoopInv, [LoopNext]_loopVars PROVE LoopInv' OBVIOUS
<1>1. CASE UNCHANGED loopVars
  BY <1>1 DEF loopVars, LoopInv, ShapeInv, CacheInv, LimitInv, CountInv, SightInv
<1>2. CASE \E c \in ToolCall : ReplayCall(c) \/ CommitFails(c) \/ InvokeCall(c)
  BY <1>2, ReplayCallOK, CommitFailsOK, InvokeCallOK
<1> QED BY <1>1, <1>2, ModelFailsOK, ModelTalksOK, ModelCallsOK, PrepareCallOK, AllPreparedOK,
           EndIterationOK, ResumeLoopOK DEF LoopNext

(* The books of the loop, its latch and the calls agree the way LoopInv says. *)
THEOREM LoopInvariant == LoopSpec => []LoopInv
<1> QED BY InitOK, StepOK, PTL DEF LoopSpec

-----------------------------------------------------------------------------
(* The loop's variables keep their types: the counters and batches stay    *)
(* within the limits of the code, whatever the provider sends.             *)
THEOREM LoopTypeCorrect == LoopSpec => []LoopTypeOK
<1>1. LoopInv => LoopTypeOK
  <2> SUFFICES ASSUME LoopInv PROVE LoopTypeOK OBVIOUS
  <2>1. \A s \in Seq(ToolCall) : Len(s) <= MaxBatch => s \in BatchType
    <3> SUFFICES ASSUME NEW s \in Seq(ToolCall), Len(s) <= MaxBatch PROVE s \in BatchType OBVIOUS
    <3>1. Len(s) \in 0 .. MaxBatch /\ s \in [1 .. Len(s) -> ToolCall]
      BY LimitsTyped
    <3> QED BY <3>1 DEF BatchType
  <2>2. loop \in Locals /\ Typed(loop)
    BY LocalsTyped DEF LoopInv, ShapeInv
  <2>3. /\ Len(loop.response) <= MaxBatch /\ loop.available <= Len(loop.response)
        /\ loop.attempt <= MaxProviderRetries /\ loop.iteration <= MaxIterations
    BY DEF LoopInv, LimitInv
  <2>4. /\ loop.available <= MaxToolCalls /\ 1 <= loop.at /\ loop.at <= loop.available + 1
        /\ loop.answered + Len(loop.prepared) <= loop.available
        /\ Len(loop.executed) + Len(loop.prepared) <= MaxToolCalls
    BY DEF LoopInv, CountInv, Room
  <2>5. /\ Len(loop.prepared) <= MaxBatch /\ Len(loop.executed) <= MaxToolCalls
        /\ loop.answered \in 0 .. MaxBatch /\ loop.at \in 1 .. MaxBatch + 1
        /\ loop.available \in 0 .. MaxToolCalls
        /\ loop.iteration \in 0 .. MaxIterations /\ loop.attempt \in 0 .. MaxProviderRetries
    <3> DEFINE p == Len(loop.prepared)
               e == Len(loop.executed)
               an == loop.answered
               taken == loop.available
               at == loop.at
               n == Len(loop.response)
    <3>1. p \in Nat /\ e \in Nat /\ an \in Nat /\ taken \in Nat /\ at \in Nat /\ n \in Nat
      BY <2>2 DEF Typed
    <3>2. loop.iteration \in 0 .. MaxIterations /\ loop.attempt \in 0 .. MaxProviderRetries
      BY <2>2, <2>3, LimitsTyped DEF Typed
    <3>3. /\ n <= MaxBatch /\ taken <= n /\ taken <= MaxToolCalls /\ 1 <= at /\ at <= taken + 1
          /\ an + p <= taken /\ e + p <= MaxToolCalls
      BY <2>3, <2>4
    <3> HIDE DEF p, e, an, taken, at, n
    <3>4. /\ p <= MaxBatch /\ e <= MaxToolCalls /\ an \in 0 .. MaxBatch /\ at \in 1 .. MaxBatch + 1
          /\ taken \in 0 .. MaxToolCalls
      BY <3>1, <3>3, LimitsTyped
    <3> QED BY <3>2, <3>4 DEF p, e, an, taken, at
  <2>6. loop.response \in BatchType /\ loop.prepared \in BatchType
    BY <2>1, <2>2, <2>3, <2>5 DEF Typed
  <2>7. /\ loop.phase \in {"model", "prepare", "execute", "waiting", "over"}
        /\ loop.blocked \subseteq Blockable
    BY <2>2 DEF Locals, Phases
  <2>8. cache \subseteq Effectful /\ resumes \in 0 .. MaxResumes /\ succeeded \in [Effectful -> Nat]
    BY DEF LoopInv, ShapeInv
  <2> QED BY <2>5, <2>6, <2>7, <2>8 DEF LoopTypeOK
<1> QED BY <1>1, LoopInvariant, PTL

(* An effectful call has its effect at most once in a task, and every call *)
(* that was taken gets one result.                                         *)
THEOREM CallsSettled == LoopSpec => []CallsAreSettled
<1>1. LoopInv => CallsAreSettled
  BY DEF LoopInv, CacheInv, CountInv, Room, CallsAreSettled, EffectOncePerTask, OneResultPerCall
<1> QED BY <1>1, LoopInvariant, PTL

(* No desktop action runs on a picture the model has not seen or that an   *)
(* earlier action has made stale.                                          *)
THEOREM ControlIsSighted == LoopSpec => NoBlindControl
<1>1. LoopInv => \A c \in Control : RunsNext(c) => seen
  <2> SUFFICES ASSUME LoopInv, NEW c \in Control, RunsNext(c) PROVE seen OBVIOUS
  <2>1. loop.prepared \in Seq(ToolCall) /\ loop.prepared # <<>> /\ c = loop.prepared[1]
    BY DEF RunsNext, LoopInv, ShapeInv, Locals
  <2>2. 1 \in 1 .. Len(loop.prepared) BY <2>1
  <2> QED BY <2>1, <2>2 DEF LoopInv, SightInv
<1>2. LoopInv /\ [LoopNext]_loopVars =>
        [\A c \in Control : RunsNext(c) /\ ~Replayed(c) /\ loop' # loop => seen]_loopVars
  BY <1>1
<1> QED BY <1>2, LoopInvariant, PTL DEF LoopSpec, NoBlindControl
=============================================================================
