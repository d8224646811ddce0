--------------------------- MODULE LiveParts_proofs ---------------------------
(***************************************************************************)
(* Theorems about the gate of the model's turns and about the speech and   *)
(* the tasks of the page, for every number of turns, segments and tasks.   *)
(*                                                                         *)
(* Gate.  A dropped turn leaves its count behind, so interactive_waiters   *)
(* is not the number of queued interactive turns; it is never less, and    *)
(* that is what keeps it from going below zero and what interactive        *)
(* priority rests on.                                                      *)
(* Speech.  Requests run ahead of the sound and end in any order.  What    *)
(* keeps the sound in order is that a segment is in one of three places:   *)
(* behind the runner, at it, or in the channel, and the channel is the     *)
(* rest of the utterance; and that a session begins when no other is open. *)
(* Page.  An update of a row is a read and a later write, and whatever was *)
(* written meanwhile is lost. What keeps a task from completing early is   *)
(* that a row, also one an update still carries, tells the truth about the *)
(* effects below its cursor; and that only a run, and a review that finds  *)
(* none, take the cursor further.                                          *)
(***************************************************************************)
EXTENDS ModelGate, VoiceQueue, WebTasks, FiniteSetTheorems, SequenceTheorems, TLAPS

-----------------------------------------------------------------------------
(* The gate.                                                               *)
LineInv ==
  /\ Cardinality(Queued) <= interactive_waiters
  /\ \A a \in Turns : counted[a] => a \in Interactive
  /\ \A a \in Turns : counted[a] => pc[a] \in Waiting

GateInv == TypeOK /\ MutualExclusion /\ LineInv

\* One turn leaves or joins the line.
LEMMA QueueChanges ==
  ASSUME GateInv, NEW a \in Turns, NEW v \in BOOLEAN, v => a \in Interactive,
         counted' = [counted EXCEPT ![a] = v]
  PROVE  /\ IsFiniteSet(Queued)
         /\ Cardinality(Queued) \in Nat
         /\ counted[a] /\ ~v => Cardinality(Queued') = Cardinality(Queued) - 1
         /\ ~counted[a] /\ v => Cardinality(Queued') = Cardinality(Queued) + 1
         /\ counted[a] = v => Cardinality(Queued') = Cardinality(Queued)
         /\ counted[a] => Cardinality(Queued) > 0
<1>1. IsFiniteSet(Queued)
  BY TurnsAssumption, FS_Subset DEF Queued
<1>2. Cardinality(Queued) \in Nat
  BY <1>1, FS_CardinalityType
<1>3. a \in Queued <=> counted[a]
  BY DEF GateInv, LineInv, Queued
<1>4. Queued' = IF v THEN Queued \cup {a} ELSE Queued \ {a}
  BY DEF GateInv, TypeOK, Queued, Turns
<1>5. /\ Cardinality(Queued \cup {a}) = IF a \in Queued THEN Cardinality(Queued) ELSE Cardinality(Queued) + 1
      /\ Cardinality(Queued \ {a}) = IF a \in Queued THEN Cardinality(Queued) - 1 ELSE Cardinality(Queued)
  BY <1>1, FS_AddElement, FS_RemoveElement
<1>6. Queued = {} <=> Cardinality(Queued) = 0
  BY <1>1, FS_EmptySet
<1> QED BY <1>1, <1>2, <1>3, <1>4, <1>5, <1>6

LEMMA AdmitOK ==
  ASSUME GateInv, NEW a \in Turns, Admit(a)
  PROVE  GateInv'
<1>1. counted' = [counted EXCEPT ![a] = FALSE] BY DEF Admit, Admitted
<1>2. /\ Cardinality(Queued) \in Nat
      /\ counted[a] => Cardinality(Queued') = Cardinality(Queued) - 1 /\ Cardinality(Queued) > 0
      /\ ~counted[a] => Cardinality(Queued') = Cardinality(Queued)
  BY <1>1, QueueChanges DEF GateInv, TypeOK
<1>3. interactive_waiters' \in Nat /\ Cardinality(Queued') <= interactive_waiters'
  BY <1>2 DEF GateInv, TypeOK, LineInv, Admit, Admitted, LeaveLine
<1>4. TypeOK'
  BY <1>3, BoundsAssumption DEF GateInv, TypeOK, Admit, Admitted, Places
<1>5. MutualExclusion'
  BY DEF GateInv, TypeOK, MutualExclusion, Admit, Admitted
<1>6. LineInv'
  BY <1>3 DEF GateInv, TypeOK, LineInv, Admit, Admitted
<1> QED BY <1>4, <1>5, <1>6 DEF GateInv

LEMMA RefuseOK ==
  ASSUME GateInv, NEW a \in Turns, Refuse(a)
  PROVE  GateInv'
<1> DEFINE v == a \in Interactive
<1>1. counted' = [counted EXCEPT ![a] = v] BY DEF Refuse
<1>2. /\ Cardinality(Queued) \in Nat
      /\ v /\ ~counted[a] => Cardinality(Queued') = Cardinality(Queued) + 1
      /\ counted[a] = v => Cardinality(Queued') = Cardinality(Queued)
  <2> HIDE DEF v
  <2>1. v \in BOOLEAN /\ (v => a \in Interactive) BY DEF v
  <2> QED BY <1>1, <2>1, QueueChanges
<1>3. counted[a] \in BOOLEAN /\ (counted[a] => v)
  BY DEF GateInv, TypeOK, LineInv
<1>4. interactive_waiters' = interactive_waiters + (IF v /\ ~counted[a] THEN 1 ELSE 0)
  BY DEF Refuse
<1>5. interactive_waiters' \in Nat /\ Cardinality(Queued') <= interactive_waiters'
  BY <1>2, <1>3, <1>4 DEF GateInv, TypeOK, LineInv
<1>6. TypeOK'
  BY <1>5 DEF GateInv, TypeOK, Refuse, Places
<1>7. MutualExclusion'
  BY DEF GateInv, TypeOK, MutualExclusion, Refuse
<1>8. LineInv'
  BY <1>5 DEF GateInv, TypeOK, LineInv, Refuse, Waiting
<1> QED BY <1>6, <1>7, <1>8 DEF GateInv

LEMMA DropOK ==
  ASSUME GateInv, NEW a \in Turns, Drop(a)
  PROVE  GateInv'
<1>1. counted' = [counted EXCEPT ![a] = FALSE] BY DEF Drop
<1>2. /\ Cardinality(Queued) \in Nat
      /\ counted[a] => Cardinality(Queued') = Cardinality(Queued) - 1
      /\ ~counted[a] => Cardinality(Queued') = Cardinality(Queued)
  BY <1>1, QueueChanges DEF GateInv, TypeOK
<1>3. Cardinality(Queued') <= interactive_waiters'
  BY <1>2 DEF GateInv, TypeOK, LineInv, Drop, gateVars
<1>4. TypeOK'
  BY BoundsAssumption DEF GateInv, TypeOK, Drop, gateVars, Places
<1>5. MutualExclusion'
  BY DEF GateInv, TypeOK, MutualExclusion, Drop, gateVars
<1>6. LineInv'
  BY <1>3 DEF GateInv, TypeOK, LineInv, Drop
<1> QED BY <1>4, <1>5, <1>6 DEF GateInv

\* The steps that leave the line as it is.
LEMMA LineUnchanged ==
  ASSUME GateInv, UNCHANGED <<interactive_waiters, counted>>, TypeOK', MutualExclusion',
         \A a \in Turns : pc[a] \in Waiting => pc'[a] \in Waiting
  PROVE  GateInv'
  BY DEF GateInv, LineInv, Queued

LEMMA OthersOK ==
  ASSUME GateInv, NEW a \in Turns,
         Acquire(a) \/ Park(a) \/ Release(a) \/ Wake(a) \/ Age(a)
  PROVE  GateInv'
<1>1. CASE Acquire(a)
  <2>1. TypeOK' BY <1>1, BoundsAssumption DEF GateInv, TypeOK, Acquire, gateVars, Places
  <2>2. MutualExclusion' BY <1>1 DEF GateInv, TypeOK, MutualExclusion, Acquire, gateVars
  <2> QED BY <1>1, <2>1, <2>2, LineUnchanged DEF GateInv, TypeOK, Acquire, gateVars, Waiting
<1>2. CASE Park(a)
  <2>1. TypeOK' BY <1>2 DEF GateInv, TypeOK, Park, gateVars, Places
  <2>2. MutualExclusion' BY <1>2 DEF GateInv, TypeOK, MutualExclusion, Park, gateVars
  <2> QED BY <1>2, <2>1, <2>2, LineUnchanged DEF GateInv, TypeOK, Park, gateVars, Waiting
<1>3. CASE Release(a)
  <2>1. TypeOK' BY <1>3 DEF GateInv, TypeOK, Release, Places
  <2>2. MutualExclusion' BY <1>3 DEF GateInv, TypeOK, MutualExclusion, Release
  <2> QED BY <1>3, <2>1, <2>2, LineUnchanged DEF GateInv, TypeOK, Release, Waiting
<1>4. CASE Wake(a)
  <2>1. TypeOK' BY <1>4 DEF GateInv, TypeOK, Wake, gateVars, Places
  <2>2. MutualExclusion' BY <1>4 DEF GateInv, TypeOK, MutualExclusion, Wake, gateVars
  <2> QED BY <1>4, <2>1, <2>2, LineUnchanged DEF GateInv, TypeOK, Wake, gateVars, Waiting
<1>5. CASE Age(a)
  <2>1. TypeOK' BY <1>5 DEF GateInv, TypeOK, Age, gateVars
  <2>2. MutualExclusion' BY <1>5 DEF GateInv, MutualExclusion, Age, gateVars
  <2> QED BY <1>5, <2>1, <2>2, LineUnchanged DEF Age, gateVars
<1> QED BY <1>1, <1>2, <1>3, <1>4, <1>5

LEMMA GateInit == Init => GateInv
<1> SUFFICES ASSUME Init PROVE GateInv
  OBVIOUS
<1>1. Queued = {} BY DEF Init, Queued, Turns
<1>2. Cardinality(Queued) = 0 BY <1>1, FS_EmptySet
<1>3. 0 \in Nat /\ 0 \in 0..MaxConsecutive /\ 0 \in 0..MaxTurns /\ 0 \in 0..MaxDrops
  BY BoundsAssumption
<1>4. TypeOK BY <1>3 DEF Init, TypeOK, Places
<1>5. MutualExclusion BY DEF Init, MutualExclusion
<1>6. Cardinality(Queued) <= interactive_waiters BY <1>2 DEF Init
<1>7. LineInv BY <1>6 DEF Init, LineInv
<1> QED BY <1>4, <1>5, <1>7 DEF GateInv

LEMMA GateStep == GateInv /\ [Next]_vars => GateInv'
<1> SUFFICES ASSUME GateInv, [Next]_vars PROVE GateInv'
  OBVIOUS
<1>1. CASE UNCHANGED vars
  BY <1>1 DEF vars, gateVars, GateInv, TypeOK, MutualExclusion, LineInv, Queued
<1>2. CASE Next
  BY <1>2, AdmitOK, RefuseOK, DropOK, OthersOK DEF Next, Step
<1> QED BY <1>1, <1>2

\* interactive_waiters never underflows, and every variable has its type.
THEOREM GateTypeCorrect == Spec => []TypeOK
<1>1. GateInv => TypeOK BY DEF GateInv
<1> QED BY <1>1, GateInit, GateStep, PTL DEF Spec

\* At most one model turn at a time, whatever is dropped.
THEOREM GateExcludes == Spec => []MutualExclusion
<1>1. GateInv => MutualExclusion BY DEF GateInv
<1> QED BY <1>1, GateInit, GateStep, PTL DEF Spec

\* A background turn passes a queued interactive turn only when it has aged.
THEOREM GatePriority == Spec => InteractivePriority
<1> DEFINE Priority ==
      \A b \in Background : pc[b] = "trying" /\ pc'[b] = "holding" /\ Queued # {}
        => aged[b] \/ consecutive_interactive >= MaxConsecutive
<1>1. GateInv /\ [Next]_vars => [Priority]_vars
  <2> SUFFICES ASSUME GateInv, Next, NEW b \in Background,
                      pc[b] = "trying", pc'[b] = "holding", Queued # {}
               PROVE  aged[b] \/ consecutive_interactive >= MaxConsecutive
    OBVIOUS
  <2>1. IsFiniteSet(Queued) BY TurnsAssumption, FS_Subset DEF Queued
  <2>2. Cardinality(Queued) \in Nat /\ Cardinality(Queued) # 0
    BY <2>1, FS_EmptySet, FS_CardinalityType
  <2>3. interactive_waiters # 0
    BY <2>2 DEF GateInv, LineInv, TypeOK
  <2>4. b \in Turns /\ b \notin Interactive
    BY TurnsAssumption DEF Turns
  <2>5. Admit(b)
    BY <2>4 DEF Next, Step, Acquire, Admit, Admitted, Refuse, Park, Release, Wake,
                Drop, Age, GateInv, TypeOK
  <2> QED BY <2>3, <2>4, <2>5 DEF Admit, Admitted, PriorityOk, BackgroundAdmissible
<1>2. Spec => [][Priority]_vars
  BY <1>1, GateInit, GateStep, PTL DEF Spec
<1> QED BY <1>2 DEF InteractivePriority

-----------------------------------------------------------------------------
(* Speech.                                                                 *)

(* The variables have their types, and no more sessions are opened or      *)
(* awaited than the store was asked for.                                   *)
VoiceTyped ==
  /\ VoiceTypeOK
  /\ session + Len(utterances) <= said

(* A segment whose sound is still to come, as long as nobody calls stop.   *)
Ahead == {"line", "granted", "fetching", "ready", "failed"}

(* The line for a place at the provider holds what waits in it, once.      *)
RequestsInv ==
  /\ \A i \in DOMAIN line : synthesis[line[i]] = "line"
  /\ \A i, j \in DOMAIN line : line[i] = line[j] => i = j

(* Sessions come one after another: those before this one are over and     *)
(* aborted by their successor, those after it have not begun.              *)
PastInv ==
  /\ aborted = 1 .. session - 1
  /\ \A s \in Sessions : s < session =>
       /\ pipelineDone[s] = "seen" /\ runner[s].at = "over"
       /\ \A j \in 1 .. MaxSegments : synthesis[<<s, j>>] \in {"none", "spoken", "failed"}
  /\ \A s \in Sessions : s > session =>
       /\ pipelineDone[s] = "none" /\ runner[s].at = "none"
       /\ \A j \in 1 .. MaxSegments : synthesis[<<s, j>>] = "none"

(* The store is speaking while the promise of the session is open or not   *)
(* yet looked at, and the promise is settled when the runner is through.   *)
ClaimInv ==
  /\ isSpeaking <=> session > 0 /\ pipelineDone[session] \in {"pending", "ok", "failed"}
  /\ unresolved = IF session > 0 /\ pipelineDone[session] = "pending" THEN session ELSE 0
  /\ session > 0 => 
      /\ pipelineDone[session] # "none"
      /\ runner[session].at # "none"
      /\ runner[session].at = "over" <=> pipelineDone[session] # "pending"
      /\ pipelineDone[session] = "ok" => ~pipelineErrors
      /\ pipelineDone[session] = "failed" => pipelineErrors

(* Of the n segments of session s those before k are over; k is at the     *)
(* runner, unless all are over; those after it are in the channel.         *)
Played(s, n, k) ==
  /\ channel = [i \in 1 .. n - k |-> <<s, k + i>>]
  /\ runner[s].at \in SegmentPlaces <=> k <= n
  /\ runner[s].at \in SegmentPlaces => runner[s].segment = <<s, k>>
  /\ sounding \subseteq {g \in {<<s, k>>} : runner[s].at = "sound"}
  /\ \A j \in 1 .. MaxSegments :
       /\ j > n => synthesis[<<s, j>>] = "none"
       /\ j <= n /\ j < k => synthesis[<<s, j>>] \in {"spoken", "failed"}
       /\ j <= n /\ j >= k => synthesis[<<s, j>>] \in Ahead
       /\ j = k /\ runner[s].at \in {"play", "sound"} => synthesis[<<s, j>>] = "ready"
  /\ pipelineErrors <=> \E j \in 1 .. n : j < k /\ synthesis[<<s, j>>] = "failed"
PlayInv ==
  IF session = 0 THEN sounding = {}
  ELSE \E n \in 0 .. MaxSegments, k \in 1 .. MaxSegments + 1 : k <= n + 1 /\ Played(session, n, k)

PlaysInTurn == RequestsInv /\ PastInv /\ ClaimInv /\ PlayInv
VoiceInv == VoiceTyped /\ (stops = 0 => PlaysInTurn)

-----------------------------------------------------------------------------
LEMMA SegmentParts ==
  \A g \in Segments : \E t \in Sessions, j \in 1 .. MaxSegments : g = <<t, j>>
BY DEF Segments

LEMMA VoiceInitially == VoiceInit => VoiceInv
<1> SUFFICES ASSUME VoiceInit PROVE VoiceInv OBVIOUS
<1> USE VoiceAssumption DEF VoiceInit
<1>1. VoiceTyped
  <2>1. /\ utterances \in Seq(0 .. MaxSegments) /\ Len(utterances) = 0
        /\ channel \in Seq(Segments) /\ line \in Seq(Segments)
    OBVIOUS
  <2>5. slots \in Nat BY DEF Infinity
  <2>2. runner \in [Sessions -> [at : RunnerPlaces, segment : Segments \cup {NoSegment}]]
    BY DEF NoRunner, RunnerPlaces
  <2>3. synthesis \in [Segments -> SegmentStates] BY DEF SegmentStates
  <2>4. \A s \in Sessions : runner[s].at \notin SegmentPlaces BY DEF NoRunner, SegmentPlaces
  <2>6. said \in 0 .. MaxSessions /\ stops \in 0 .. MaxStops /\ session \in 0 .. MaxSessions
        /\ unresolved \in 0 .. session /\ session + 0 <= said
    OBVIOUS
  <2>7. pipelineDone \in [Sessions -> {"none", "pending", "ok", "failed", "seen"}] OBVIOUS
  <2>8. isSpeaking \in BOOLEAN /\ pipelineErrors \in BOOLEAN /\ sounding \subseteq Segments /\ currentSource \in Segments \cup {NoSegment}
    OBVIOUS
  <2> HIDE DEF VoiceInit
  <2> QED BY <2>1, <2>2, <2>3, <2>4, <2>5, <2>6, <2>7, <2>8 DEF VoiceTyped, VoiceTypeOK
<1>2. RequestsInv BY DEF RequestsInv
<1>3. PastInv BY DEF PastInv, Sessions, Segments, NoRunner
<1>4. ClaimInv BY DEF ClaimInv
<1>5. PlayInv BY DEF PlayInv
<1> QED BY <1>1, <1>2, <1>3, <1>4, <1>5 DEF VoiceInv, PlaysInTurn

-----------------------------------------------------------------------------
(* Types                                                                    *)

LEMMA TakesTyped ==
  ASSUME VoiceTypeOK, NEW s \in Sessions, NEW items \in Seq(Segments), Takes(s, items)
  PROVE  /\ runner' \in [Sessions -> [at : RunnerPlaces, segment : Segments \cup {NoSegment}]]
         /\ channel' \in Seq(Segments)
         /\ \A t \in Sessions : runner'[t].at \in SegmentPlaces => runner'[t].segment \in Segments
<1>1. CASE items = <<>>
  <2>1. runner' = [runner EXCEPT ![s] = [at |-> "null", segment |-> NoSegment]] /\ channel' = <<>>
    BY <1>1 DEF Takes, Goes
  <2> QED BY <2>1 DEF VoiceTypeOK, RunnerPlaces, SegmentPlaces
<1>2. CASE items # <<>>
  <2>1. runner' = [runner EXCEPT ![s] = [at |-> "buffer", segment |-> Head(items)]] /\ channel' = Tail(items)
    BY <1>2 DEF Takes, Goes
  <2>2. Head(items) \in Segments /\ Tail(items) \in Seq(Segments) BY <1>2
  <2> QED BY <2>1, <2>2 DEF VoiceTypeOK, RunnerPlaces, SegmentPlaces
<1> QED BY <1>1, <1>2

LEMMA GoesTyped ==
  ASSUME VoiceTypeOK, NEW s \in Sessions, NEW p \in RunnerPlaces, NEW g \in Segments \cup {NoSegment},
         p \in SegmentPlaces => g \in Segments, Goes(s, p, g)
  PROVE  /\ runner' \in [Sessions -> [at : RunnerPlaces, segment : Segments \cup {NoSegment}]]
         /\ \A t \in Sessions : runner'[t].at \in SegmentPlaces => runner'[t].segment \in Segments
BY DEF VoiceTypeOK, Goes

LEMMA ResolvedTyped ==
  ASSUME VoiceTypeOK, NEW how \in {"ok", "failed"},
         NEW done \in [Sessions -> {"none", "pending", "ok", "failed", "seen"}]
  PROVE  Resolved(done, how) \in [Sessions -> {"none", "pending", "ok", "failed", "seen"}]
BY DEF Resolved

LEMMA RunQueueTyped ==
  ASSUME VoiceTypeOK, NEW claimed \in BOOLEAN, NEW queue \in Seq(0 .. MaxSegments),
         session + Len(queue) <= said', said' \in 0 .. MaxSessions, stops' = stops,
         NEW done \in [Sessions -> {"none", "pending", "ok", "failed", "seen"}],
         RunQueue(claimed, queue, done)
  PROVE  VoiceTyped'
<1> USE VoiceAssumption
<1>1. CASE queue # <<>> /\ Claims(claimed)
  <2> DEFINE n == Head(queue)
             s == session + 1
  <2>1. /\ n \in 0 .. MaxSegments
        /\ Tail(queue) \in Seq(0 .. MaxSegments)
        /\ Len(queue) \in Nat /\ Len(Tail(queue)) = Len(queue) - 1 /\ Len(queue) > 0
    BY <1>1
  <2>2. s \in Sessions /\ s \in 1 .. MaxSessions
    BY <2>1 DEF VoiceTypeOK, Sessions
  <2>3. isSpeaking' = TRUE /\ utterances' = Tail(queue) /\ SpeakSegments(n, done)
    BY <1>1 DEF RunQueue
  <2> HIDE DEF n
  <2>4. [i \in 1 .. n |-> <<s, i>>] \in Seq(Segments)
    BY <2>1, <2>2 DEF Segments
  <2>5. Takes(s, [i \in 1 .. n |-> <<s, i>>])
    BY <2>3 DEF SpeakSegments
  <2>6. /\ runner' \in [Sessions -> [at : RunnerPlaces, segment : Segments \cup {NoSegment}]]
        /\ channel' \in Seq(Segments)
        /\ \A t \in Sessions : runner'[t].at \in SegmentPlaces => runner'[t].segment \in Segments
    <3> HIDE DEF s
    <3> QED BY <2>2, <2>4, <2>5, TakesTyped
  <2>7. slots' \in Nat /\ line' \in Seq(Segments)
    <3> DEFINE late == IF n > SynthesisLimit THEN n - SynthesisLimit ELSE 0
    <3>1. slots' = SynthesisLimit - (n - late) /\ line' = [i \in 1 .. late |-> <<s, SynthesisLimit + i>>]
      BY <2>3 DEF SpeakSegments
    <3>2. late \in Nat /\ SynthesisLimit - (n - late) \in Nat
      BY <2>1
    <3>3. ASSUME NEW i \in 1 .. late PROVE <<s, SynthesisLimit + i>> \in Segments
      BY <2>1, <2>2 DEF Segments
    <3> QED BY <3>1, <3>2, <3>3
  <2>8. synthesis' \in [Segments -> SegmentStates]
    <3>1. synthesis' = [g \in Segments |->
             IF g[1] = s /\ g[2] <= n THEN (IF g[2] <= SynthesisLimit THEN "granted" ELSE "line")
             ELSE IF InLine(g) THEN "granted" ELSE synthesis[g]]
      BY <2>3 DEF SpeakSegments
    <3> QED BY <3>1 DEF VoiceTypeOK, SegmentStates
  <2>9. pipelineDone' \in [Sessions -> {"none", "pending", "ok", "failed", "seen"}]
    <3>1. pipelineDone' = [Resolved(done, "ok") EXCEPT ![s] = "pending"]
      BY <2>3 DEF SpeakSegments
    <3> QED BY <3>1, ResolvedTyped
  <2>10. /\ session' = s /\ unresolved' = s /\ pipelineErrors' \in BOOLEAN
         /\ sounding' = sounding \ {currentSource} /\ currentSource' = NoSegment
    BY <2>3 DEF SpeakSegments
  <2>11. utterances' \in Seq(0 .. MaxSegments) /\ session' + Len(utterances') <= said'
    BY <2>1, <2>3, <2>10 DEF VoiceTypeOK
  <2> QED BY <2>1, <2>2, <2>3, <2>6, <2>7, <2>8, <2>9, <2>10, <2>11 DEF VoiceTyped, VoiceTypeOK
<1>2. CASE queue = <<>> \/ ~Claims(claimed)
  BY <1>2 DEF RunQueue, VoiceTypeOK, VoiceTyped
<1> QED BY <1>1, <1>2

LEMMA ReleasedTyped ==
  ASSUME VoiceTypeOK, NEW g \in Segments, NEW state \in SegmentStates, Released(g, state)
  PROVE  slots' \in Nat /\ line' \in Seq(Segments) /\ synthesis' \in [Segments -> SegmentStates]
<1>1. CASE line = <<>>
  BY <1>1 DEF Released, VoiceTypeOK, Infinity
<1>2. CASE line # <<>>
  <2>1. Head(line) \in Segments /\ Tail(line) \in Seq(Segments) BY <1>2 DEF VoiceTypeOK
  <2> QED BY <1>2, <2>1 DEF Released, VoiceTypeOK, SegmentStates
<1> QED BY <1>1, <1>2

LEMMA VoiceTypeKept ==
  ASSUME VoiceTyped, VoiceNext
  PROVE  VoiceTyped'
<1> USE VoiceAssumption
<1>0. VoiceTypeOK BY DEF VoiceTyped
<1>1. ASSUME NEW n \in 0 .. MaxSegments, Speak(n) PROVE VoiceTyped'
  <2>1. /\ Append(utterances, n) \in Seq(0 .. MaxSegments)
        /\ Len(Append(utterances, n)) = Len(utterances) + 1 /\ Len(utterances) \in Nat
    BY <1>0 DEF VoiceTypeOK
  <2>2. /\ said' = said + 1 /\ said' \in 0 .. MaxSessions /\ stops' = stops
        /\ session + Len(Append(utterances, n)) <= said'
    BY <1>1, <2>1 DEF Speak, VoiceTyped, VoiceTypeOK
  <2>3. RunQueue(isSpeaking, Append(utterances, n), pipelineDone) BY <1>1 DEF Speak
  <2>4. isSpeaking \in BOOLEAN /\ pipelineDone \in [Sessions -> {"none", "pending", "ok", "failed", "seen"}]
    BY <1>0 DEF VoiceTypeOK
  <2> QED BY <1>0, <2>1, <2>2, <2>3, <2>4, RunQueueTyped
<1>2. ASSUME StopSpeaking PROVE VoiceTyped'
  <2>1. synthesis' \in [Segments -> SegmentStates]
    BY <1>2, <1>0 DEF StopSpeaking, VoiceTypeOK, SegmentStates
  <2>2. pipelineDone' \in [Sessions -> {"none", "pending", "ok", "failed", "seen"}]
    BY <1>2, <1>0, ResolvedTyped DEF StopSpeaking, VoiceTypeOK
  <2>3. /\ utterances' \in Seq(0 .. MaxSegments) /\ Len(utterances') = 0
        /\ channel' \in Seq(Segments) /\ line' \in Seq(Segments)
    BY <1>2 DEF StopSpeaking
  <2>4. slots' \in Nat BY <1>2 DEF StopSpeaking, Infinity
  <2>5. session' = session /\ session \in Nat /\ said' = said /\ session <= said'
    BY <1>2, <1>0 DEF StopSpeaking, VoiceTyped, VoiceTypeOK
  <2>6. isSpeaking' \in BOOLEAN /\ pipelineErrors' \in BOOLEAN
    BY <1>2, <1>0 DEF StopSpeaking, VoiceTypeOK
  <2>10. said' \in 0 .. MaxSessions /\ stops' \in 0 .. MaxStops
    <3>1. stops < MaxStops /\ stops' = stops + 1 /\ said' = said BY <1>2 DEF StopSpeaking
    <3>2. said \in 0 .. MaxSessions /\ stops \in 0 .. MaxStops BY <1>0 DEF VoiceTypeOK
    <3> QED BY <3>1, <3>2
  <2>7. session' \in 0 .. MaxSessions /\ unresolved' \in 0 .. session'
    BY <1>2, <1>0 DEF StopSpeaking, VoiceTypeOK
  <2>8. /\ runner' \in [Sessions -> [at : RunnerPlaces, segment : Segments \cup {NoSegment}]]
        /\ \A s \in Sessions : runner'[s].at \in SegmentPlaces => runner'[s].segment \in Segments
    BY <1>2, <1>0 DEF StopSpeaking, VoiceTypeOK
  <2>9. sounding' \subseteq Segments /\ currentSource' \in Segments \cup {NoSegment}
    BY <1>2, <1>0 DEF StopSpeaking, VoiceTypeOK
  <2> QED BY <2>1, <2>2, <2>3, <2>4, <2>5, <2>6, <2>7, <2>8, <2>9, <2>10 DEF VoiceTyped, VoiceTypeOK
<1>3. ASSUME NEW s \in Sessions, PlayEnds(s) PROVE VoiceTyped'
  <2> DEFINE done == [pipelineDone EXCEPT ![s] = "seen"]
  <2>1. done \in [Sessions -> {"none", "pending", "ok", "failed", "seen"}]
    BY <1>0 DEF VoiceTypeOK
  <2>2. RunQueue(FALSE, utterances, done) /\ said' = said /\ stops' = stops BY <1>3 DEF PlayEnds
  <2> HIDE DEF done
  <2> QED BY <1>0, <2>1, <2>2, RunQueueTyped DEF VoiceTyped, VoiceTypeOK
<1>4. ASSUME NEW s \in Sessions, RunnerStep(s) PROVE VoiceTyped'
  <2> DEFINE g == runner[s].segment
  <2>1. Running BY <1>4 DEF RunnerStep, ChannelEnds, TakeBuffer, PlayBuffer, AfterSound
  <2>2. ASSUME Finish(s) PROVE VoiceTyped'
    <3>1. Goes(s, "over", NoSegment) BY <2>2 DEF Finish
    <3>2. /\ runner' \in [Sessions -> [at : RunnerPlaces, segment : Segments \cup {NoSegment}]]
          /\ \A t \in Sessions : runner'[t].at \in SegmentPlaces => runner'[t].segment \in Segments
      BY <3>1, <1>0, GoesTyped DEF RunnerPlaces, SegmentPlaces
    <3>3. pipelineDone' \in [Sessions -> {"none", "pending", "ok", "failed", "seen"}]
      BY <2>2, <1>0, ResolvedTyped DEF Finish, VoiceTypeOK
    <3> QED BY <2>1, <2>2, <3>2, <3>3 DEF Finish, Running, VoiceTyped, VoiceTypeOK
  <2>3. ASSUME g \in Segments, NEW p \in SegmentPlaces, Goes(s, p, g), UNCHANGED <<channel, synthesis, unresolved, pipelineDone>>,
               sounding' \subseteq Segments, currentSource' \in Segments \cup {NoSegment},
               pipelineErrors' \in BOOLEAN
        PROVE  VoiceTyped'
    <3>1. /\ runner' \in [Sessions -> [at : RunnerPlaces, segment : Segments \cup {NoSegment}]]
          /\ \A t \in Sessions : runner'[t].at \in SegmentPlaces => runner'[t].segment \in Segments
      BY <2>3, <1>0, GoesTyped DEF RunnerPlaces
    <3> QED BY <2>1, <2>3, <3>1 DEF Running, VoiceTyped, VoiceTypeOK
  <2>4. ASSUME Takes(s, channel), synthesis' \in [Segments -> SegmentStates],
               UNCHANGED <<unresolved, pipelineDone, sounding, currentSource>>,
               pipelineErrors' \in BOOLEAN
        PROVE  VoiceTyped'
    <3>1. channel \in Seq(Segments) BY <1>0 DEF VoiceTypeOK
    <3>2. /\ runner' \in [Sessions -> [at : RunnerPlaces, segment : Segments \cup {NoSegment}]]
          /\ channel' \in Seq(Segments)
          /\ \A t \in Sessions : runner'[t].at \in SegmentPlaces => runner'[t].segment \in Segments
      BY <2>4, <3>1, <1>0, TakesTyped
    <3> QED BY <2>1, <2>4, <3>2 DEF Running, VoiceTyped, VoiceTypeOK
  <2>5. CASE ChannelEnds(s) BY <2>5, <2>2 DEF ChannelEnds
  <2>6. CASE TakeBuffer(s)
    <3>1. g \in Segments BY <2>6, <1>0 DEF TakeBuffer, VoiceTypeOK, SegmentPlaces
    <3>5. synthesis[g] # "cut" => pipelineErrors' \in BOOLEAN BY <2>6 DEF TakeBuffer, Remembers
    <3>2. CASE synthesis[g] = "cut" /\ Finish(s) BY <3>2, <2>2
    <3>3. CASE synthesis[g] # "cut" /\ Goes(s, "play", g) /\ UNCHANGED <<channel, synthesis, unresolved, pipelineDone, sounding, currentSource>>
      BY <3>1, <3>3, <3>5, <2>3, <1>0 DEF SegmentPlaces, VoiceTypeOK
    <3>4. CASE synthesis[g] # "cut" /\ Takes(s, channel) /\ UNCHANGED <<synthesis, unresolved, pipelineDone, sounding, currentSource>>
      BY <3>4, <3>5, <2>4, <1>0 DEF VoiceTypeOK
    <3> QED BY <2>6, <3>2, <3>3, <3>4 DEF TakeBuffer
  <2>7. CASE PlayBuffer(s)
    <3>1. g \in Segments BY <2>7, <1>0 DEF PlayBuffer, VoiceTypeOK, SegmentPlaces
    <3> QED BY <3>1, <2>7, <2>3, <1>0 DEF PlayBuffer, SegmentPlaces, VoiceTypeOK
  <2>8. CASE AfterSound(s)
    <3>1. synthesis' \in [Segments -> SegmentStates] BY <2>8, <1>0 DEF AfterSound, VoiceTypeOK, SegmentStates
    <3> QED BY <3>1, <2>8, <2>4, <1>0 DEF AfterSound, VoiceTypeOK
  <2> QED BY <1>4, <2>5, <2>6, <2>7, <2>8 DEF RunnerStep
<1>5. ASSUME NEW g \in Segments, StartFetch(g) PROVE VoiceTyped'
  <2>1. slots' \in Nat /\ line' \in Seq(Segments) /\ synthesis' \in [Segments -> SegmentStates]
    <3>1. CASE Released(g, "dropped") BY <3>1, <1>0, ReleasedTyped DEF SegmentStates
    <3>2. CASE synthesis' = [synthesis EXCEPT ![g] = "fetching"] /\ UNCHANGED <<slots, line>>
      BY <3>2, <1>0 DEF VoiceTypeOK, SegmentStates
    <3> QED BY <1>5, <3>1, <3>2 DEF StartFetch
  <2> QED BY <1>5, <2>1 DEF StartFetch, Fetching, VoiceTyped, VoiceTypeOK
<1>6. ASSUME NEW g \in Segments, FetchEnds(g) PROVE VoiceTyped'
  <2>1. slots' \in Nat /\ line' \in Seq(Segments) /\ synthesis' \in [Segments -> SegmentStates]
    BY <1>6, <1>0, ReleasedTyped DEF FetchEnds, GivesBack, SegmentStates
  <2> QED BY <1>6, <2>1 DEF FetchEnds, Fetching, VoiceTyped, VoiceTypeOK
<1>7. ASSUME NEW g \in Segments, SourceEnds(g) PROVE VoiceTyped'
  BY <1>7 DEF SourceEnds, Running, VoiceTyped, VoiceTypeOK
<1> QED BY <1>1, <1>2, <1>3, <1>4, <1>5, <1>6, <1>7 DEF VoiceNext, VoiceWork

-----------------------------------------------------------------------------
(* A session at a time                                                      *)

\* A runner takes the next segment, or finds that there is none.
LEMMA TakesNext ==
  ASSUME VoiceTypeOK, NEW s \in Sessions, NEW n \in 0 .. MaxSegments, NEW k \in 0 .. MaxSegments,
         k <= n, Takes(s, [i \in 1 .. n - k |-> <<s, k + i>>])
  PROVE  /\ \A t \in Sessions \ {s} : runner'[t] = runner[t]
         /\ runner'[s] = IF k < n THEN [at |-> "buffer", segment |-> <<s, k + 1>>]
                                  ELSE [at |-> "null", segment |-> NoSegment]
         /\ channel' = [i \in 1 .. n - (k + 1) |-> <<s, (k + 1) + i>>]
<1> DEFINE items == [i \in 1 .. n - k |-> <<s, k + i>>]
<1> USE VoiceAssumption
<1>1. n - k \in Nat /\ n \in Nat /\ k \in Nat OBVIOUS
<1>2. items \in Seq(Segments) /\ Len(items) = n - k
  BY <1>1 DEF Segments
<1>3. CASE n = k
  <2>1. items = <<>>
    <3> HIDE DEF items
    <3> QED BY <1>1, <1>2, <1>3
  <2>2. runner' = [runner EXCEPT ![s] = [at |-> "null", segment |-> NoSegment]] /\ channel' = <<>>
    BY <2>1 DEF Takes, Goes
  <2>3. [i \in 1 .. n - (k + 1) |-> <<s, (k + 1) + i>>] = <<>> BY <1>1, <1>3
  <2> QED BY <1>1, <1>3, <2>2, <2>3 DEF VoiceTypeOK
<1>4. CASE k < n
  <2>1. items # <<>>
    <3> HIDE DEF items
    <3> QED BY <1>1, <1>2, <1>4
  <2>2. runner' = [runner EXCEPT ![s] = [at |-> "buffer", segment |-> Head(items)]] /\ channel' = Tail(items)
    BY <2>1 DEF Takes, Goes
  <2>3. Head(items) = <<s, k + 1>> BY <1>1, <1>4
  <2>4. Tail(items) = [i \in 1 .. n - (k + 1) |-> <<s, (k + 1) + i>>]
    <3>1. /\ Tail(items) \in Seq(Segments) /\ Len(Tail(items)) = n - (k + 1)
          /\ \A i \in 1 .. n - (k + 1) : Tail(items)[i] = items[i + 1]
      <4> HIDE DEF items
      <4> QED BY <1>1, <1>2, <1>4, <2>1
    <3>2. \A i \in 1 .. n - (k + 1) : items[i + 1] = <<s, (k + 1) + i>>
      BY <1>1, <1>4
    <3>3. Tail(items) \in [1 .. n - (k + 1) -> Segments]
      <4> HIDE DEF items
      <4> QED BY <3>1, LenProperties
    <3>4. Tail(items) = [i \in 1 .. n - (k + 1) |-> Tail(items)[i]]
      BY <3>3, Zenon
    <3>5. \A i \in 1 .. n - (k + 1) : Tail(items)[i] = <<s, (k + 1) + i>>
      <4> HIDE DEF items
      <4> QED BY <3>1, <3>2
    <3> HIDE DEF items
    <3> QED BY <3>4, <3>5, Zenon
  <2> QED BY <1>4, <2>2, <2>3, <2>4 DEF VoiceTypeOK
<1> QED BY <1>1, <1>3, <1>4

\* Segments on their way move on: nothing else depends on it.
LEMMA AheadMoves ==
  ASSUME VoiceTyped, PlaysInTurn, RequestsInv',
         synthesis' \in [Segments -> SegmentStates],
         \A h \in Segments : \/ synthesis'[h] = synthesis[h]
                             \/ synthesis[h] \in {"line", "granted", "fetching"} /\ synthesis'[h] \in Ahead,
         Fetching
  PROVE  PlaysInTurn'
<1>1. PastInv'
  <2>1. \A t \in Sessions, j \in 1 .. MaxSegments :
           synthesis[<<t, j>>] \in {"none", "spoken", "failed"} => synthesis'[<<t, j>>] = synthesis[<<t, j>>]
    BY DEF Segments
  <2>2. UNCHANGED <<session, aborted, pipelineDone, runner>> BY DEF Fetching
  <2>3. PastInv BY DEF PlaysInTurn
  <2> QED BY <2>1, <2>2, <2>3 DEF PastInv
<1>2. ClaimInv' BY DEF PlaysInTurn, ClaimInv, Fetching
<1>3. PlayInv'
  <2>1. CASE session = 0 BY <2>1 DEF PlaysInTurn, PlayInv, Fetching
  <2>2. CASE session # 0
    <3>1. PICK n \in 0 .. MaxSegments, k \in 1 .. MaxSegments + 1 : k <= n + 1 /\ Played(session, n, k)
      BY <2>2 DEF PlaysInTurn, PlayInv
    <3>2. \A j \in 1 .. MaxSegments : <<session, j>> \in Segments
      BY <2>2 DEF VoiceTyped, VoiceTypeOK, Segments, Sessions
    <3>3. \A j \in 1 .. MaxSegments : 
            /\ j > n => synthesis'[<<session, j>>] = "none"
            /\ j <= n /\ j < k => synthesis'[<<session, j>>] = synthesis[<<session, j>>]
            /\ j <= n /\ j >= k => synthesis'[<<session, j>>] \in Ahead
            /\ j = k /\ runner[session].at \in {"play", "sound"} => synthesis'[<<session, j>>] = "ready"
      BY <3>1, <3>2 DEF Played
    <3>4. n \in Nat /\ n <= MaxSegments BY VoiceAssumption
    <3>5. Played(session, n, k)'
      BY <3>1, <3>3, <3>4, VoiceAssumption DEF Played, Fetching
    <3>6. session' = session BY DEF Fetching
    <3> QED BY <2>2, <3>1, <3>5, <3>6 DEF PlayInv
  <2> QED BY <2>1, <2>2
<1> QED BY <1>1, <1>2, <1>3 DEF PlaysInTurn

\* A slot goes to the next in line.
LEMMA ReleasedMoves ==
  ASSUME VoiceTyped, PlaysInTurn, NEW g \in Segments, synthesis[g] = "fetching",
         NEW state \in {"ready", "failed"}, Released(g, state), Fetching
  PROVE  PlaysInTurn'
<1> USE DEF VoiceTyped
<1>1. synthesis' \in [Segments -> SegmentStates]
  BY ReleasedTyped DEF SegmentStates
<1>2. CASE line = <<>>
  <2>1. synthesis' = [synthesis EXCEPT ![g] = state] /\ line' = line
    BY <1>2 DEF Released
  <2>2. RequestsInv' BY <1>2, <2>1 DEF RequestsInv
  <2> QED BY <1>1, <2>1, <2>2, AheadMoves DEF VoiceTypeOK, Ahead
<1>3. CASE line # <<>>
  <2>1. Head(line) \in Segments /\ Head(line) = line[1] /\ 1 \in DOMAIN line
    BY <1>3 DEF VoiceTypeOK
  <2>2. synthesis[Head(line)] = "line" BY <2>1 DEF PlaysInTurn, RequestsInv
  <2>3. synthesis' = [synthesis EXCEPT ![g] = state, ![Head(line)] = "granted"] /\ line' = Tail(line)
    BY <1>3 DEF Released
  <2>4. \A h \in Segments : synthesis'[h] = IF h = Head(line) THEN "granted" ELSE IF h = g THEN state ELSE synthesis[h]
    BY <2>1, <2>2, <2>3 DEF VoiceTypeOK
  <2>5. RequestsInv'
    <3>1. \A i \in DOMAIN line' : i + 1 \in DOMAIN line /\ line'[i] = line[i + 1] /\ i \in Nat /\ i > 0
      BY <1>3, <2>3 DEF VoiceTypeOK
    <3>2. \A i \in DOMAIN line : line[i] \in Segments /\ synthesis[line[i]] = "line"
      BY DEF VoiceTypeOK, PlaysInTurn, RequestsInv
    <3>3. \A i \in DOMAIN line : line[i] = line[1] => i = 1
      BY <2>1 DEF PlaysInTurn, RequestsInv
    <3>4. \A i \in DOMAIN line' : synthesis'[line'[i]] = "line"
      BY <2>1, <2>4, <3>1, <3>2, <3>3
    <3>5. \A i, j \in DOMAIN line' : line'[i] = line'[j] => i = j
      BY <3>1 DEF PlaysInTurn, RequestsInv
    <3> QED BY <3>4, <3>5 DEF RequestsInv
  <2> QED BY <1>1, <2>2, <2>4, <2>5, AheadMoves DEF Ahead
<1> QED BY <1>2, <1>3

LEMMA FetchMoves ==
  ASSUME VoiceTyped, PlaysInTurn, NEW g \in Segments, StartFetch(g) \/ FetchEnds(g)
  PROVE  PlaysInTurn'
<1>1. synthesis[g] \in {"granted", "fetching"} /\ Fetching BY DEF StartFetch, FetchEnds
<1>2. g[1] \in Sessions /\ g[2] \in 1 .. MaxSegments /\ g = <<g[1], g[2]>> BY DEF Segments
<1>3. g[1] \notin aborted
  <2>1. ASSUME g[1] < session PROVE FALSE
    <3>1. synthesis[<<g[1], g[2]>>] \in {"none", "spoken", "failed"}
      BY <1>2, <2>1 DEF PlaysInTurn, PastInv
    <3> QED BY <1>1, <1>2, <3>1
  <2> QED BY <2>1, <1>2 DEF PlaysInTurn, PastInv, Sessions, VoiceTyped, VoiceTypeOK
<1>4. CASE StartFetch(g)
  <2>1. synthesis[g] = "granted" /\ synthesis' = [synthesis EXCEPT ![g] = "fetching"] /\ line' = line
    BY <1>3, <1>4 DEF StartFetch
  <2>2. \A h \in Segments : synthesis'[h] = IF h = g THEN "fetching" ELSE synthesis[h]
    BY <2>1 DEF VoiceTyped, VoiceTypeOK
  <2>3. RequestsInv'
    <3>1. \A i \in DOMAIN line : line[i] \in Segments /\ synthesis[line[i]] = "line"
      BY DEF VoiceTyped, VoiceTypeOK, PlaysInTurn, RequestsInv
    <3> QED BY <2>1, <2>2, <3>1 DEF RequestsInv, PlaysInTurn
  <2>4. synthesis' \in [Segments -> SegmentStates] BY <2>1 DEF VoiceTyped, VoiceTypeOK, SegmentStates
  <2> QED BY <1>1, <2>1, <2>2, <2>3, <2>4, AheadMoves DEF Ahead
<1>5. CASE FetchEnds(g)
  <2>1. PICK state \in {"ready", "failed"} : Released(g, state)
    BY <1>3, <1>5 DEF FetchEnds, GivesBack
  <2> QED BY <1>1, <1>5, <2>1, ReleasedMoves DEF FetchEnds
<1> QED BY <1>4, <1>5

(* No session is open: what the store sees between two utterances.          *)
Unclaimed(done) ==
  /\ unresolved = 0 /\ sounding = {} /\ aborted = 1 .. session - 1
  /\ \A t \in Sessions :
       /\ t <= session => /\ done[t] = "seen" /\ runner[t].at = "over"
                          /\ \A j \in 1 .. MaxSegments : synthesis[<<t, j>>] \in {"none", "spoken", "failed"}
       /\ t > session => /\ done[t] = "none" /\ runner[t].at = "none"
                         /\ \A j \in 1 .. MaxSegments : synthesis[<<t, j>>] = "none"

LEMMA SessionBegins ==
  ASSUME VoiceTypeOK, RequestsInv, NEW n \in 0 .. MaxSegments, NEW s \in Sessions, s = session + 1,
         NEW done \in [Sessions -> {"none", "pending", "ok", "failed", "seen"}],
         Unclaimed(done), isSpeaking' = TRUE, SpeakSegments(n, done)
  PROVE  PlaysInTurn'
<1> DEFINE late == IF n > SynthesisLimit THEN n - SynthesisLimit ELSE 0
<1> USE VoiceAssumption
<1>0. /\ session \in Nat /\ s \in Nat /\ s \in Sessions /\ s > 0 /\ n \in Nat /\ late \in Nat
      /\ \A t \in Sessions : t \in Nat /\ t > 0 
  BY DEF VoiceTypeOK, Sessions
<1>1. /\ session' = s /\ aborted' = 1 .. s - 1 /\ pipelineErrors' = FALSE /\ unresolved' = s
      /\ sounding' = {} /\ pipelineDone' = [done EXCEPT ![s] = "pending"]
      /\ line' = [i \in 1 .. late |-> <<s, SynthesisLimit + i>>]
  <2>1. aborted' = (1 .. session - 1) \cup ({session} \ {0}) BY DEF SpeakSegments, Unclaimed
  <2>2. aborted' = 1 .. s - 1 BY <1>0, <2>1
  <2> QED BY <2>2 DEF SpeakSegments, Unclaimed, Resolved
<1>2. \A i \in DOMAIN line : FALSE
  <2> SUFFICES ASSUME NEW i \in DOMAIN line PROVE FALSE OBVIOUS
  <2>1. line[i] \in Segments /\ synthesis[line[i]] = "line" BY DEF VoiceTypeOK, RequestsInv
  <2>2. PICK t \in Sessions, j \in 1 .. MaxSegments : line[i] = <<t, j>> BY <2>1, SegmentParts
  <2> QED BY <1>0, <2>1, <2>2 DEF Unclaimed, Sessions
<1>3. \A t \in Sessions, j \in 1 .. MaxSegments :
         synthesis'[<<t, j>>] = IF t = s /\ j <= n THEN (IF j <= SynthesisLimit THEN "granted" ELSE "line")
                                ELSE synthesis[<<t, j>>]
  <2>1. synthesis' = [g \in Segments |->
           IF g[1] = s /\ g[2] <= n THEN (IF g[2] <= SynthesisLimit THEN "granted" ELSE "line")
           ELSE IF InLine(g) THEN "granted" ELSE synthesis[g]]
    BY DEF SpeakSegments
  <2>2. \A g \in Segments : ~InLine(g) BY <1>2 DEF InLine
  <2> QED BY <2>1, <2>2 DEF Segments
<1>4. Takes(s, [i \in 1 .. n |-> <<s, i>>]) BY DEF SpeakSegments
<1>6. /\ \A t \in Sessions \ {s} : runner'[t] = runner[t]
      /\ runner'[s] = IF 0 < n THEN [at |-> "buffer", segment |-> <<s, 1>>]
                                ELSE [at |-> "null", segment |-> NoSegment]
      /\ channel' = [i \in 1 .. n - 1 |-> <<s, 1 + i>>]
  <2>1. PICK k \in 0 .. MaxSegments : k = 0 BY <1>0
  <2>2. [i \in 1 .. n |-> <<s, i>>] = [i \in 1 .. n - k |-> <<s, k + i>>] BY <1>0, <2>1
  <2>3. k <= n /\ Takes(s, [i \in 1 .. n - k |-> <<s, k + i>>]) BY <1>0, <1>4, <2>1, <2>2
  <2>4. /\ \A t \in Sessions \ {s} : runner'[t] = runner[t]
        /\ runner'[s] = IF k < n THEN [at |-> "buffer", segment |-> <<s, k + 1>>]
                                  ELSE [at |-> "null", segment |-> NoSegment]
        /\ channel' = [i \in 1 .. n - (k + 1) |-> <<s, (k + 1) + i>>]
    BY <2>3, TakesNext, ZenonT(30)
  <2> QED BY <1>0, <2>1, <2>4
<1>7. RequestsInv'
  <2>1. \A i \in DOMAIN line' : /\ i \in Nat /\ i > 0 /\ SynthesisLimit + i \in 1 .. MaxSegments
                                /\ SynthesisLimit + i <= n /\ SynthesisLimit + i > SynthesisLimit
                                /\ line'[i] = <<s, SynthesisLimit + i>>
    BY <1>0, <1>1
  <2>2. \A i \in DOMAIN line' : synthesis'[line'[i]] = "line" BY <1>0, <1>3, <2>1
  <2>3. \A i, j \in DOMAIN line' : line'[i] = line'[j] => i = j BY <2>1
  <2> QED BY <2>2, <2>3 DEF RequestsInv
<1>8. PastInv'
  <2>1. \A t \in Sessions : t # s => pipelineDone'[t] = done[t] /\ runner'[t] = runner[t]
    BY <1>1, <1>6
  <2>2. \A t \in Sessions : t < s <=> t <= session BY <1>0
  <2>3. \A t \in Sessions : t > s => t > session BY <1>0
  <2>4. \A t \in Sessions : t < s \/ t > s => t # s BY <1>0
  <2> QED BY <1>1, <1>3, <2>1, <2>2, <2>3, <2>4 DEF PastInv, Unclaimed
<1>9. ClaimInv'
  BY <1>0, <1>1, <1>6 DEF ClaimInv
<1>10. PlayInv'
  <2>1. \A j \in 1 .. MaxSegments : synthesis[<<s, j>>] = "none" BY <1>0 DEF Unclaimed
  <2>2. \A j \in 1 .. MaxSegments : synthesis'[<<s, j>>] = 
           IF j <= n THEN (IF j <= SynthesisLimit THEN "granted" ELSE "line") ELSE "none"
    BY <1>0, <1>3, <2>1
  <2> DEFINE r == runner'[s]
  <2>3. /\ r.at \in SegmentPlaces <=> 1 <= n
        /\ r.at \in SegmentPlaces => r.segment = <<s, 1>>
        /\ r.at \notin {"play", "sound"}
    BY <1>0, <1>6 DEF SegmentPlaces
  <2> HIDE DEF r
  <2>4. /\ \A j \in 1 .. MaxSegments :
             /\ j > n => synthesis'[<<s, j>>] = "none"
             /\ ~(j <= n /\ j < 1)
             /\ j <= n => synthesis'[<<s, j>>] \in Ahead
        /\ ~ \E j \in 1 .. n : j < 1
    BY <1>0, <2>2 DEF Ahead
  <2>5. Played(s, n, 1)'
    BY <1>0, <1>1, <1>6, <2>3, <2>4 DEF Played, r
  <2> QED BY <1>0, <1>1, <2>5 DEF PlayInv
<1> QED BY <1>7, <1>8, <1>9, <1>10 DEF PlaysInTurn

\* The store claims the next utterance, or rests.
LEMMA QueueRuns ==
  ASSUME VoiceTyped, RequestsInv, PlayInv, NEW queue \in Seq(0 .. MaxSegments),
         session + Len(queue) <= said', said' \in 0 .. MaxSessions,
         NEW done \in [Sessions -> {"none", "pending", "ok", "failed", "seen"}],
         Unclaimed(done), RunQueue(FALSE, queue, done)
  PROVE  PlaysInTurn'
<1> USE VoiceAssumption DEF VoiceTyped
<1>1. CASE queue # <<>>
  <2>1. /\ Head(queue) \in 0 .. MaxSegments /\ Len(queue) \in Nat /\ Len(queue) > 0 BY <1>1
  <2>2. session + 1 \in Sessions BY <2>1 DEF VoiceTypeOK, Sessions
  <2>3. isSpeaking' = TRUE /\ SpeakSegments(Head(queue), done) BY <1>1 DEF RunQueue, Claims
  <2>4. \A s \in Sessions : s = session + 1 => PlaysInTurn'
    BY <2>1, <2>3, SessionBegins
  <2> QED BY <2>2, <2>4
<1>2. CASE queue = <<>>
  <2>1. /\ isSpeaking' = FALSE /\ pipelineDone' = done
        /\ UNCHANGED <<session, channel, aborted, line, synthesis, pipelineErrors,
                       unresolved, runner, sounding>>
    BY <1>2 DEF RunQueue
  <2>2. session \in Nat /\ session <= MaxSessions BY DEF VoiceTypeOK
  <2>3. RequestsInv' BY <2>1, Zenon DEF RequestsInv
  <2>4. PastInv'
    <3>1. \A t \in Sessions : t \in Nat BY DEF Sessions
    <3>2. \A t \in Sessions : t < session => t <= session BY <2>2, <3>1
    <3> QED BY <2>1, <3>2, Zenon DEF PastInv, Unclaimed
  <2>5. ClaimInv'
    <3>1. session > 0 => done[session] = "seen" /\ runner[session].at = "over"
      BY <2>2 DEF Unclaimed, Sessions
    <3> QED BY <2>1, <2>2, <3>1 DEF ClaimInv, Unclaimed
  <2>6. PlayInv'
    <3>1. \A n, k : Played(session, n, k) => Played(session, n, k)' BY <2>1 DEF Played
    <3> QED BY <2>1, <3>1 DEF PlayInv
  <2> QED BY <2>3, <2>4, <2>5, <2>6 DEF PlaysInTurn
<1> QED BY <1>1, <1>2

LEMMA SpeakInTurn ==
  ASSUME VoiceTyped, PlaysInTurn, VoiceTyped', NEW n \in 0 .. MaxSegments, Speak(n)
  PROVE  PlaysInTurn'
<1> DEFINE queue == Append(utterances, n)
<1>0. RunQueue(isSpeaking, queue, pipelineDone) /\ said' = said + 1 BY DEF Speak
<1>1. CASE isSpeaking
  <2>1. UNCHANGED <<isSpeaking, session, channel, aborted, line, synthesis, pipelineErrors,
                       unresolved, pipelineDone, runner, sounding>>
    BY <1>0, <1>1 DEF RunQueue, Claims
  <2>2. RequestsInv' BY <2>1 DEF RequestsInv, PlaysInTurn
  <2>3. PastInv' BY <2>1 DEF PastInv, PlaysInTurn
  <2>4. ClaimInv' BY <2>1 DEF ClaimInv, PlaysInTurn
  <2>5. PlayInv' BY <2>1 DEF PlayInv, Played, PlaysInTurn
  <2> QED BY <2>2, <2>3, <2>4, <2>5 DEF PlaysInTurn
<1>2. CASE ~isSpeaking
  <2>1. /\ queue \in Seq(0 .. MaxSegments) /\ Len(queue) = Len(utterances) + 1 /\ Len(utterances) \in Nat
    BY DEF VoiceTyped, VoiceTypeOK
  <2>2. session + Len(queue) <= said' /\ said' \in 0 .. MaxSessions
    BY <1>0, <2>1 DEF VoiceTyped, VoiceTypeOK
  <2>3. session \in Nat /\ session <= MaxSessions BY VoiceAssumption DEF VoiceTyped, VoiceTypeOK
  <2>4. session = 0 \/ (pipelineDone[session] = "seen" /\ session \in Sessions)
    <3>1. session > 0 => session \in Sessions BY <2>3 DEF Sessions
    <3>2. session > 0 => pipelineDone[session] \in {"none", "pending", "ok", "failed", "seen"}
      BY <3>1 DEF VoiceTyped, VoiceTypeOK
    <3> QED BY <1>2, <2>3, <3>1, <3>2 DEF PlaysInTurn, ClaimInv
  <2>5. Unclaimed(pipelineDone)
    <3>1. unresolved = 0 BY <2>4 DEF PlaysInTurn, ClaimInv
    <3>2. aborted = 1 .. session - 1 BY DEF PlaysInTurn, PastInv
    <3>3. CASE session = 0
      BY <3>1, <3>2, <3>3, <2>3 DEF PlaysInTurn, PlayInv, PastInv, Unclaimed, Sessions
    <3>4. CASE session # 0
      <4>1. runner[session].at = "over" BY <2>3, <2>4, <3>4 DEF PlaysInTurn, ClaimInv
      <4>2. sounding = {} /\ \A j \in 1 .. MaxSegments : synthesis[<<session, j>>] \in {"none", "spoken", "failed"}
        <5>1. PICK m \in 0 .. MaxSegments, k \in 1 .. MaxSegments + 1 : k <= m + 1 /\ Played(session, m, k)
          BY <3>4 DEF PlaysInTurn, PlayInv
        <5>2. m \in Nat /\ k \in Nat /\ ~(k <= m) BY <4>1, <5>1, VoiceAssumption DEF Played, SegmentPlaces
        <5> QED BY <4>1, <5>1, <5>2 DEF Played
      <4>3. \A t \in Sessions : t <= session => t < session \/ t = session BY <2>3 DEF Sessions
      <4> QED BY <2>4, <3>1, <3>2, <3>4, <4>1, <4>2, <4>3 DEF PlaysInTurn, PastInv, Unclaimed
    <3> QED BY <3>3, <3>4
  <2> HIDE DEF queue
  <2>6. pipelineDone \in [Sessions -> {"none", "pending", "ok", "failed", "seen"}]
    BY DEF VoiceTyped, VoiceTypeOK
  <2>7. isSpeaking = FALSE BY <1>2 DEF VoiceTyped, VoiceTypeOK
  <2> QED BY <1>0, <2>1, <2>2, <2>5, <2>6, <2>7, QueueRuns DEF PlaysInTurn
<1> QED BY <1>1, <1>2

LEMMA EndsInTurn ==
  ASSUME VoiceTyped, PlaysInTurn, NEW s \in Sessions, PlayEnds(s)
  PROVE  PlaysInTurn'
<1> DEFINE done == [pipelineDone EXCEPT ![s] = "seen"]
<1>1. /\ pipelineDone[s] \in {"ok", "failed"} /\ said' = said
      /\ RunQueue(FALSE, utterances, done)
  BY DEF PlayEnds
<1>2. s = session /\ session \in Nat /\ session > 0
  BY <1>1 DEF PlaysInTurn, PastInv, Sessions, VoiceTyped, VoiceTypeOK
<1>3. unresolved = 0 /\ runner[s].at = "over" 
  BY <1>1, <1>2 DEF PlaysInTurn, ClaimInv
<1>4. sounding = {} /\ \A j \in 1 .. MaxSegments : synthesis[<<s, j>>] \in {"none", "spoken", "failed"}
  <2>1. PICK n \in 0 .. MaxSegments, k \in 1 .. MaxSegments + 1 : k <= n + 1 /\ Played(s, n, k)
    BY <1>2 DEF PlaysInTurn, PlayInv
  <2>2. n \in Nat /\ k \in Nat /\ ~(k <= n) BY <1>3, <2>1, VoiceAssumption DEF Played, SegmentPlaces
  <2> QED BY <1>3, <2>1, <2>2 DEF Played
<1>5. Unclaimed(done)
  <2>1. \A t \in Sessions : t <= session => t < session \/ t = s BY <1>2 DEF Sessions
  <2>2. \A t \in Sessions : t # s => done[t] = pipelineDone[t] OBVIOUS
  <2>3. done[s] = "seen" BY DEF VoiceTyped, VoiceTypeOK
  <2>4. \A t \in Sessions : (t < session \/ t > session) => t # s BY <1>2 DEF Sessions
  <2> HIDE DEF done
  <2> QED BY <1>2, <1>3, <1>4, <2>1, <2>2, <2>3, <2>4 DEF PlaysInTurn, PastInv, Unclaimed
<1>6. done \in [Sessions -> {"none", "pending", "ok", "failed", "seen"}]
  BY DEF VoiceTyped, VoiceTypeOK
<1> HIDE DEF done
<1> QED BY <1>1, <1>5, <1>6, QueueRuns DEF PlaysInTurn, VoiceTyped, VoiceTypeOK

-----------------------------------------------------------------------------
(* The runner of the open session                                           *)

\* Only the last session has a runner that is not over.
LEMMA OpenRunner ==
  ASSUME VoiceTyped, PlaysInTurn, NEW s \in Sessions, runner[s].at \in {"null"} \cup SegmentPlaces
  PROVE  /\ s = session /\ session \in Nat /\ session > 0
         /\ pipelineDone[s] = "pending" /\ unresolved = s
         /\ \A t \in Sessions : (t < session \/ t > session) => t # s
<1>1. s = session /\ session \in Nat /\ session > 0
  BY DEF PlaysInTurn, PastInv, Sessions, SegmentPlaces, VoiceTyped, VoiceTypeOK
<1>2. runner[session].at # "over" BY <1>1 DEF SegmentPlaces
<1> QED BY <1>1, <1>2 DEF PlaysInTurn, ClaimInv, Sessions

\* What a step of that runner leaves alone.
LEMMA PastStays ==
  ASSUME VoiceTyped, PlaysInTurn, NEW s \in Sessions, s = session,
         \A t \in Sessions \ {s} : runner'[t] = runner[t] /\ pipelineDone'[t] = pipelineDone[t],
         \A h \in Segments : h[1] # s => synthesis'[h] = synthesis[h],
         Running
  PROVE  PastInv'
<1>1. \A t \in Sessions : t < session \/ t > session => t # s BY DEF Sessions
<1>2. \A t \in Sessions, j \in 1 .. MaxSegments : t # s => synthesis'[<<t, j>>] = synthesis[<<t, j>>]
  BY DEF Segments
<1>3. UNCHANGED <<session, aborted>> BY DEF Running
<1>4. PastInv BY DEF PlaysInTurn
<1> QED BY <1>1, <1>2, <1>3, <1>4 DEF PastInv

LEMMA RunnerFinishes ==
  ASSUME VoiceTyped, PlaysInTurn, NEW s \in Sessions, runner[s].at = "null", Finish(s), Running
  PROVE  PlaysInTurn'
<1>1. /\ s = session /\ session \in Nat /\ session > 0
      /\ pipelineDone[s] = "pending" /\ unresolved = s
  BY OpenRunner
<1>2. /\ runner' = [runner EXCEPT ![s] = [at |-> "over", segment |-> NoSegment]]
      /\ pipelineDone' = [pipelineDone EXCEPT ![s] = IF pipelineErrors THEN "failed" ELSE "ok"]
      /\ unresolved' = 0 /\ UNCHANGED <<channel, synthesis, pipelineErrors, sounding>>
  BY <1>1 DEF Finish, Goes, Resolved, Sessions
<1>3. /\ runner'[s] = [at |-> "over", segment |-> NoSegment]
      /\ pipelineDone'[s] = IF pipelineErrors THEN "failed" ELSE "ok"
      /\ \A t \in Sessions \ {s} : runner'[t] = runner[t] /\ pipelineDone'[t] = pipelineDone[t]
  BY <1>2 DEF VoiceTyped, VoiceTypeOK
<1>4. RequestsInv' BY <1>2 DEF RequestsInv, PlaysInTurn, Running
<1>5. PastInv' BY <1>1, <1>2, <1>3, PastStays
<1>6. UNCHANGED <<isSpeaking, session>> BY DEF Running
<1>7. ClaimInv' BY <1>1, <1>2, <1>3, <1>6 DEF ClaimInv, PlaysInTurn
<1>8. PlayInv'
  <2>1. PICK n \in 0 .. MaxSegments, k \in 1 .. MaxSegments + 1 : k <= n + 1 /\ Played(s, n, k)
    BY <1>1 DEF PlaysInTurn, PlayInv
  <2>2. Played(s, n, k)'
    <3>1. /\ ~(k <= n) /\ sounding = {} BY <2>1 DEF Played, SegmentPlaces
    <3>2. runner'[s].at = "over" /\ runner'[s].at \notin SegmentPlaces BY <1>3 DEF SegmentPlaces
    <3> QED BY <1>2, <2>1, <3>1, <3>2 DEF Played
  <2> QED BY <1>1, <1>6, <2>1, <2>2 DEF PlayInv
<1> QED BY <1>4, <1>5, <1>7, <1>8 DEF PlaysInTurn

\* The segment that was taken is over, and the next is taken.
LEMMA RunnerTakes ==
  ASSUME VoiceTyped, PlaysInTurn, NEW s \in Sessions, runner[s].at \in {"buffer", "sound"},
         Takes(s, channel), Running, UNCHANGED <<unresolved, pipelineDone, sounding>>, sounding = {},
         NEW state \in {"spoken", "failed"},
         synthesis' = [synthesis EXCEPT ![runner[s].segment] = state],
         RequestsInv', pipelineErrors' = (pipelineErrors \/ state = "failed")
  PROVE  PlaysInTurn'
<1> USE VoiceAssumption
<1>0. runner[s].at \in SegmentPlaces /\ runner[s].at \in {"null"} \cup SegmentPlaces BY DEF SegmentPlaces
<1>1. /\ s = session /\ session \in Nat /\ session > 0
      /\ pipelineDone[s] = "pending" /\ unresolved = s
  BY <1>0, OpenRunner
<1>2. PICK n \in 0 .. MaxSegments, k \in 1 .. MaxSegments + 1 : k <= n + 1 /\ Played(s, n, k)
  BY <1>1 DEF PlaysInTurn, PlayInv
<1>3. /\ k <= n /\ k \in 1 .. MaxSegments /\ k \in Nat /\ n \in Nat /\ k \in 0 .. MaxSegments
      /\ runner[s].segment = <<s, k>> /\ <<s, k>> \in Segments
      /\ channel = [i \in 1 .. n - k |-> <<s, k + i>>]
  BY <1>0, <1>2 DEF Played, Segments
<1>4. Takes(s, [i \in 1 .. n - k |-> <<s, k + i>>]) BY <1>3, Zenon
<1>5. VoiceTypeOK BY DEF VoiceTyped
<1>6. /\ \A t \in Sessions \ {s} : runner'[t] = runner[t]
      /\ runner'[s] = IF k < n THEN [at |-> "buffer", segment |-> <<s, k + 1>>]
                               ELSE [at |-> "null", segment |-> NoSegment]
      /\ channel' = [i \in 1 .. n - (k + 1) |-> <<s, (k + 1) + i>>]
  BY <1>3, <1>4, <1>5, TakesNext, ZenonT(30)
<1>7. \A h \in Segments : synthesis'[h] = IF h = <<s, k>> THEN state ELSE synthesis[h]
  BY <1>3, <1>5 DEF VoiceTypeOK
<1>8. PastInv'
  BY <1>1, <1>6, <1>7, PastStays
<1>9. UNCHANGED <<isSpeaking, session>> BY DEF Running
<1>10. ClaimInv'
  <2>1. runner'[s].at \in {"null", "buffer"} BY <1>6
  <2> QED BY <1>1, <1>9, <2>1 DEF ClaimInv, PlaysInTurn
<1>11. PlayInv'
  <2> DEFINE m == k + 1
  <2>1. m \in 1 .. MaxSegments + 1 /\ m <= n + 1 /\ (m <= n <=> k < n) /\ m \in Nat BY <1>3
  <2>2. /\ runner'[s].at \in SegmentPlaces <=> m <= n
        /\ runner'[s].at \in SegmentPlaces => runner'[s].segment = <<s, m>>
        /\ runner'[s].at \notin {"play", "sound"}
    BY <1>6, <2>1 DEF SegmentPlaces
  <2>3. \A j \in 1 .. MaxSegments : synthesis'[<<s, j>>] = IF j = k THEN state ELSE synthesis[<<s, j>>]
    BY <1>7 DEF Segments
  <2>4. \A j \in 1 .. MaxSegments : /\ j \in Nat /\ (j < m <=> j < k \/ j = k) /\ (j >= m => j >= k /\ j # k)
    BY <1>3
  <2>5. pipelineErrors' <=> \E j \in 1 .. n : j < m /\ synthesis'[<<s, j>>] = "failed"
    <3>1. pipelineErrors <=> \E j \in 1 .. n : j < k /\ synthesis[<<s, j>>] = "failed"
      BY <1>2 DEF Played
    <3>2. \A j \in 1 .. n : j \in 1 .. MaxSegments /\ (j < k => j # k) BY <1>3
    <3>3. k \in 1 .. n BY <1>3
    <3> QED BY <2>3, <2>4, <3>1, <3>2, <3>3
  <2>6. channel' = [i \in 1 .. n - m |-> <<s, m + i>>] BY <1>6
  <2>7. \A j \in 1 .. MaxSegments :
          /\ j > n => synthesis'[<<s, j>>] = "none"
          /\ j <= n /\ j < m => synthesis'[<<s, j>>] \in {"spoken", "failed"}
          /\ j <= n /\ j >= m => synthesis'[<<s, j>>] \in Ahead
    <3>1. \A j \in 1 .. MaxSegments : j > n => j # k BY <1>3
    <3> QED BY <1>2, <2>3, <2>4, <3>1 DEF Played
  <2> HIDE DEF m
  <2>8. Played(s, n, m)' BY <2>2, <2>5, <2>6, <2>7 DEF Played
  <2> QED BY <1>1, <1>2, <1>9, <2>1, <2>8 DEF PlayInv
<1> QED BY <1>8, <1>10, <1>11 DEF PlaysInTurn

\* The segment that was taken is played.
LEMMA RunnerPlays ==
  ASSUME VoiceTyped, PlaysInTurn, NEW s \in Sessions, Running,
         runner[s].at \in {"buffer", "play"}, NEW p \in {"play", "sound"},
         Goes(s, p, runner[s].segment),
         UNCHANGED <<channel, synthesis, pipelineErrors, unresolved, pipelineDone>>,
         runner[s].at = "buffer" => synthesis[runner[s].segment] = "ready",
         sounding' \subseteq {g \in {runner[s].segment} : p = "sound"}
  PROVE  PlaysInTurn'
<1>0. runner[s].at \in SegmentPlaces /\ runner[s].at \in {"null"} \cup SegmentPlaces BY DEF SegmentPlaces
<1>1. /\ s = session /\ session \in Nat /\ session > 0
      /\ pipelineDone[s] = "pending" /\ unresolved = s
  BY <1>0, OpenRunner
<1>2. PICK n \in 0 .. MaxSegments, k \in 1 .. MaxSegments + 1 : k <= n + 1 /\ Played(s, n, k)
  BY <1>1 DEF PlaysInTurn, PlayInv
<1>3. k <= n /\ runner[s].segment = <<s, k>> BY <1>0, <1>2 DEF Played
<1>4. /\ runner'[s] = [at |-> p, segment |-> <<s, k>>]
      /\ \A t \in Sessions \ {s} : runner'[t] = runner[t]
  BY <1>3 DEF Goes, VoiceTyped, VoiceTypeOK
<1>5. RequestsInv' BY DEF RequestsInv, PlaysInTurn, Running
<1>6. PastInv' BY <1>1, <1>4, PastStays
<1>7. UNCHANGED <<isSpeaking, session>> BY DEF Running
<1>8. ClaimInv' BY <1>1, <1>4, <1>7 DEF ClaimInv, PlaysInTurn
<1>9. PlayInv'
  <2>1. runner'[s].at \in SegmentPlaces /\ runner'[s].segment = <<s, k>> /\ runner'[s].at = p
    BY <1>4 DEF SegmentPlaces
  <2>2. synthesis[<<s, k>>] = "ready" 
    <3>1. k \in 1 .. MaxSegments BY <1>2, <1>3, VoiceAssumption
    <3> QED BY <1>2, <1>3, <3>1 DEF Played
  <2>3. sounding' \subseteq {g \in {<<s, k>>} : runner'[s].at = "sound"} BY <1>3, <2>1
  <2>4. Played(s, n, k)' BY <1>2, <1>3, <2>1, <2>2, <2>3 DEF Played
  <2> QED BY <1>1, <1>2, <1>7, <2>4 DEF PlayInv
<1> QED BY <1>5, <1>6, <1>8, <1>9 DEF PlaysInTurn

\* The segment a runner has taken has not been given up.
LEMMA TakenIsAhead ==
  ASSUME VoiceTyped, PlaysInTurn, NEW s \in Sessions, runner[s].at \in SegmentPlaces
  PROVE  /\ runner[s].segment \in Segments
         /\ synthesis[runner[s].segment] \in Ahead
         /\ runner[s].at # "sound" => sounding = {}
         /\ sounding \subseteq {runner[s].segment}
<1>1. s = session /\ session > 0 BY OpenRunner
<1>2. PICK n \in 0 .. MaxSegments, k \in 1 .. MaxSegments + 1 : k <= n + 1 /\ Played(s, n, k)
  BY <1>1 DEF PlaysInTurn, PlayInv
<1>3. k <= n /\ runner[s].segment = <<s, k>> BY <1>2 DEF Played
<1>4. k \in 1 .. MaxSegments BY <1>2, <1>3, VoiceAssumption
<1> QED BY <1>2, <1>3, <1>4, VoiceAssumption DEF Played, Segments

LEMMA RunnerInTurn ==
  ASSUME VoiceTyped, PlaysInTurn, NEW s \in Sessions, RunnerStep(s)
  PROVE  PlaysInTurn'
<1> DEFINE g == runner[s].segment
<1>1. CASE ChannelEnds(s) BY <1>1, RunnerFinishes DEF ChannelEnds
<1>2. CASE TakeBuffer(s)
  <2>1. runner[s].at = "buffer" /\ Running BY <1>2 DEF TakeBuffer
  <2>2. g \in Segments /\ synthesis[g] \in Ahead /\ sounding = {}
    BY <2>1, TakenIsAhead DEF SegmentPlaces
  <2>3. synthesis[g] \in {"ready", "failed"} BY <1>2, <2>2 DEF TakeBuffer, Ahead
  <2>4. /\ pipelineErrors' = (pipelineErrors \/ synthesis[g] = "failed")
        /\ UNCHANGED <<synthesis, unresolved, pipelineDone, sounding>>
    BY <1>2, <2>3 DEF TakeBuffer, Remembers
  <2>5. CASE synthesis[g] = "ready"
    <3>1. Goes(s, "play", g) /\ UNCHANGED channel BY <1>2, <2>5 DEF TakeBuffer
    <3>2. pipelineErrors' = pipelineErrors
      <4>1. pipelineErrors \in BOOLEAN BY DEF VoiceTyped, VoiceTypeOK
      <4> QED BY <2>4, <2>5, <4>1
    <3> QED BY <2>1, <2>2, <2>4, <2>5, <3>1, <3>2, RunnerPlays
  <2>6. CASE synthesis[g] = "failed"
    <3>1. Takes(s, channel) BY <1>2, <2>6 DEF TakeBuffer
    <3>2. synthesis' = [synthesis EXCEPT ![g] = "failed"] BY <2>2, <2>4, <2>6 DEF VoiceTyped, VoiceTypeOK
    <3>3. RequestsInv' BY <2>1, <2>4 DEF RequestsInv, PlaysInTurn, Running
    <3> QED BY <2>1, <2>2, <2>4, <2>6, <3>1, <3>2, <3>3, RunnerTakes
  <2> QED BY <2>3, <2>5, <2>6
<1>3. CASE PlayBuffer(s)
  <2>1. runner[s].at = "play" /\ Running /\ Goes(s, "sound", g)
    BY <1>3 DEF PlayBuffer
  <2>2. sounding = {} BY <2>1, TakenIsAhead DEF SegmentPlaces
  <2>3. sounding' = {g} /\ UNCHANGED <<channel, synthesis, pipelineErrors, unresolved, pipelineDone>>
    BY <1>3, <2>2 DEF PlayBuffer
  <2> QED BY <2>1, <2>3, RunnerPlays
<1>4. CASE AfterSound(s)
  <2>1. /\ runner[s].at = "sound" /\ Running /\ Takes(s, channel) /\ g \notin sounding
        /\ synthesis' = [synthesis EXCEPT ![g] = "spoken"]
        /\ UNCHANGED <<pipelineErrors, unresolved, pipelineDone, sounding>>
    BY <1>4 DEF AfterSound
  <2>2. g \in Segments /\ synthesis[g] \in Ahead /\ sounding = {}
    BY <2>1, TakenIsAhead DEF SegmentPlaces
  <2>3. RequestsInv'
    <3>1. \A i \in DOMAIN line : line[i] \in Segments /\ synthesis[line[i]] = "line"
      BY DEF VoiceTyped, VoiceTypeOK, PlaysInTurn, RequestsInv
    <3>2. synthesis[g] = "ready"
      <4>1. s = session /\ session > 0 BY <2>1, OpenRunner DEF SegmentPlaces
      <4>2. PICK n \in 0 .. MaxSegments, k \in 1 .. MaxSegments + 1 : k <= n + 1 /\ Played(s, n, k)
        BY <4>1 DEF PlaysInTurn, PlayInv
      <4>3. k <= n /\ g = <<s, k>> BY <2>1, <4>2 DEF Played, SegmentPlaces
      <4>4. k \in 1 .. MaxSegments BY <4>2, <4>3, VoiceAssumption
      <4> QED BY <2>1, <4>2, <4>3, <4>4 DEF Played
    <3>3. \A h \in Segments : h # g => synthesis'[h] = synthesis[h] BY <2>1 DEF VoiceTyped, VoiceTypeOK
    <3>4. UNCHANGED line BY <2>1 DEF Running
    <3>5. \A i \in DOMAIN line : line[i] # g BY <3>1, <3>2
    <3> HIDE DEF g
    <3> QED BY <3>1, <3>3, <3>4, <3>5 DEF RequestsInv, PlaysInTurn
  <2>4. pipelineErrors' = (pipelineErrors \/ "spoken" = "failed")
    <3>1. pipelineErrors \in BOOLEAN BY DEF VoiceTyped, VoiceTypeOK
    <3> QED BY <2>1, <3>1
  <2> QED BY <2>1, <2>2, <2>3, <2>4, RunnerTakes
<1> QED BY <1>1, <1>2, <1>3, <1>4 DEF RunnerStep

-----------------------------------------------------------------------------
LEMMA VoiceStep == VoiceInv /\ [VoiceNext]_voiceVars => VoiceInv'
<1> SUFFICES ASSUME VoiceInv, [VoiceNext]_voiceVars PROVE VoiceInv' OBVIOUS
<1>1. CASE UNCHANGED voiceVars
  <2>1. VoiceTyped' BY <1>1 DEF voiceVars, VoiceInv, VoiceTyped, VoiceTypeOK
  <2>2. (stops = 0 => PlaysInTurn)'
    <3>1. stops' = stops /\ (RequestsInv => RequestsInv') /\ (PastInv => PastInv') /\ (ClaimInv => ClaimInv')
      BY <1>1 DEF voiceVars, RequestsInv, PastInv, ClaimInv
    <3>2. PlayInv => PlayInv'
      <4>1. \A n, k : Played(session, n, k) => Played(session, n, k)' BY <1>1 DEF voiceVars, Played
      <4> QED BY <1>1, <4>1 DEF voiceVars, PlayInv
    <3> QED BY <3>1, <3>2 DEF VoiceInv, PlaysInTurn
  <2> QED BY <2>1, <2>2 DEF VoiceInv
<1>2. CASE VoiceNext
  <2>1. VoiceTyped' BY <1>2, VoiceTypeKept DEF VoiceInv
  <2>2. ASSUME stops' = 0 PROVE PlaysInTurn'
    <3>1. ~StopSpeaking BY <2>2, VoiceAssumption DEF StopSpeaking, VoiceInv, VoiceTyped, VoiceTypeOK
    <3>2. stops' = stops
      BY <1>2, <3>1 DEF VoiceNext, VoiceWork, Speak, PlayEnds, RunnerStep, ChannelEnds, TakeBuffer,
                        PlayBuffer, AfterSound, StartFetch, FetchEnds, SourceEnds, Running, Fetching
    <3>3. VoiceTyped /\ PlaysInTurn BY <2>2, <3>2 DEF VoiceInv
    <3>4. ASSUME NEW g \in Segments, SourceEnds(g) PROVE PlaysInTurn'
      <4>1. /\ sounding' \subseteq sounding
            /\ UNCHANGED <<session, isSpeaking, aborted, line, channel, synthesis, pipelineErrors,
                           unresolved, pipelineDone, runner>>
        BY <3>4 DEF SourceEnds, Running
      <4>2. RequestsInv' /\ PastInv' /\ ClaimInv' BY <3>3, <4>1 DEF PlaysInTurn, RequestsInv, PastInv, ClaimInv
      <4>3. PlayInv'
        <5>1. \A n, k : Played(session, n, k) => Played(session, n, k)' BY <4>1 DEF Played
        <5> QED BY <3>3, <4>1, <5>1 DEF PlayInv, PlaysInTurn
      <4> QED BY <4>2, <4>3 DEF PlaysInTurn
    <3> QED BY <1>2, <2>1, <3>1, <3>3, <3>4, SpeakInTurn, EndsInTurn, RunnerInTurn, FetchMoves
            DEF VoiceNext, VoiceWork
  <2> QED BY <2>1, <2>2 DEF VoiceInv
<1> QED BY <1>1, <1>2

LEMMA VoiceIsHonest == VoiceInv => SpeechIsHonest
<1> SUFFICES ASSUME VoiceInv, stops = 0 PROVE HeardInOrder /\ PromiseIsHonest
  BY DEF SpeechIsHonest, HeardInOrder, Undisturbed
<1>1. VoiceTypeOK /\ VoiceTyped /\ PlaysInTurn BY DEF VoiceInv, VoiceTyped
<1>2. session \in Nat /\ \A t \in Sessions : t \in Nat /\ t > 0 BY <1>1 DEF VoiceTypeOK, Sessions
<1>3. CASE session = 0
  <2>1. sounding = {} BY <1>1, <1>3 DEF PlaysInTurn, PlayInv
  <2>2. \A s \in Sessions : pipelineDone[s] = "none" BY <1>1, <1>2, <1>3 DEF PlaysInTurn, PastInv
  <2>3. Cardinality({}) = 0 BY FS_EmptySet
  <2> QED BY <2>1, <2>2, <2>3 DEF HeardInOrder, PromiseIsHonest
<1>4. CASE session # 0
  <2>0. session \in Sessions BY <1>1, <1>2, <1>4 DEF VoiceTypeOK, Sessions
  <2>1. PICK n \in 0 .. MaxSegments, k \in 1 .. MaxSegments + 1 : k <= n + 1 /\ Played(session, n, k)
    BY <1>1, <1>4 DEF PlaysInTurn, PlayInv
  <2>2. n \in Nat /\ k \in Nat /\ n <= MaxSegments BY VoiceAssumption
  <2>3. HeardInOrder
    <3>1. sounding \subseteq {<<session, k>>} BY <2>1 DEF Played
    <3>2. IsFiniteSet({<<session, k>>}) /\ Cardinality({<<session, k>>}) = 1 BY FS_Singleton
    <3>3. Cardinality(sounding) <= 1 BY <3>1, <3>2, FS_Subset
    <3>4. ASSUME NEW g \in sounding, NEW h \in Segments, h[1] < g[1] \/ (h[1] = g[1] /\ h[2] < g[2])
          PROVE  synthesis[h] \in {"none", "spoken", "failed"}
      <4>1. g = <<session, k>> BY <3>1
      <4>2. PICK t \in Sessions, j \in 1 .. MaxSegments : h = <<t, j>> BY DEF Segments
      <4>3. t < session \/ (t = session /\ j < k) BY <3>4, <4>1, <4>2
      <4>4. CASE t < session BY <1>1, <4>2, <4>4 DEF PlaysInTurn, PastInv
      <4>5. CASE t = session /\ j < k
        <5>1. j <= n \/ j > n BY <2>2
        <5> QED BY <2>1, <4>2, <4>5, <5>1 DEF Played
      <4> QED BY <4>3, <4>4, <4>5
    <3> QED BY <3>3, <3>4 DEF HeardInOrder
  <2>4. PromiseIsHonest
    <3> SUFFICES ASSUME NEW s \in Sessions \ aborted
                 PROVE  /\ pipelineDone[s] = "ok" => \A g \in SegmentsOf(s) : synthesis[g] = "spoken"
                        /\ pipelineDone[s] = "failed" => \E g \in SegmentsOf(s) : synthesis[g] = "failed"
      BY DEF PromiseIsHonest
    <3>1. s >= session BY <1>1, <1>2 DEF PlaysInTurn, PastInv, Sessions
    <3>2. CASE s > session BY <1>1, <3>2 DEF PlaysInTurn, PastInv
    <3>3. CASE s = session
      <4>1. ASSUME pipelineDone[s] = "ok", NEW g \in SegmentsOf(s) PROVE synthesis[g] = "spoken"
        <5>1. runner[s].at = "over" /\ ~pipelineErrors BY <1>1, <1>2, <1>4, <3>3, <4>1 DEF PlaysInTurn, ClaimInv
        <5>2. ~(k <= n) BY <2>1, <3>3, <5>1 DEF Played, SegmentPlaces
        <5>3. PICK j \in 1 .. MaxSegments : g = <<s, j>> /\ synthesis[<<s, j>>] # "none"
          BY DEF SegmentsOf, Segments
        <5>4. j <= n /\ j < k /\ j \in 1 .. n
          <6>1. ~(j > n) BY <2>1, <3>3, <5>3 DEF Played
          <6> QED BY <6>1, <5>2, <2>2
        <5> QED BY <2>1, <3>3, <5>1, <5>3, <5>4 DEF Played
      <4>2. ASSUME pipelineDone[s] = "failed" PROVE \E g \in SegmentsOf(s) : synthesis[g] = "failed"
        <5>1. pipelineErrors BY <1>1, <1>2, <1>4, <3>3, <4>2 DEF PlaysInTurn, ClaimInv
        <5>2. PICK j \in 1 .. n : synthesis[<<s, j>>] = "failed" BY <2>1, <3>3, <5>1 DEF Played
        <5>3. <<s, j>> \in SegmentsOf(s) BY <2>2, <5>2, VoiceAssumption DEF SegmentsOf, Segments
        <5> QED BY <5>2, <5>3
      <4> QED BY <4>1, <4>2
    <3> QED BY <1>2, <3>1, <3>2, <3>3
  <2> QED BY <2>3, <2>4
<1> QED BY <1>3, <1>4

(* Every variable of the speech queue keeps its type, whatever is said and *)
(* stopped and whatever requests fail.                                     *)
THEOREM VoiceTypeCorrect == VoiceSpec => []VoiceTypeOK
<1>1. VoiceInv => VoiceTypeOK BY DEF VoiceInv, VoiceTyped
<1> QED BY <1>1, VoiceInitially, VoiceStep, PTL DEF VoiceSpec

(* Until somebody calls stop, the segments of every utterance are heard    *)
(* one at a time and in order, and the promise of an utterance is resolved *)
(* when all of them were, rejected when one failed.                        *)
THEOREM SpeechHonest == VoiceSpec => []SpeechIsHonest
BY VoiceInitially, VoiceStep, VoiceIsHonest, PTL DEF VoiceSpec

-----------------------------------------------------------------------------
(* The tasks of a page without a host.                                     *)
Fields == {"status", "cursor", "waitFor", "tries", "attempts", "result"}
Live == {"pending", "scheduled", "ready", "running", "waiting", "needs_review"}
WaitKind == {"none", "sleep", "event"}
RowRecord == [status : Settled \cup Live, cursor : Nat, waitFor : WaitKind, tries : Seq(Nat), attempts : Nat,
              verify : {"none", "result", "review"}, result : BOOLEAN]
RunRecord == [at : {"none", "load", "again", "step", "outcome", "end"}, row : RowRecord,
              outcome : {"none", "completed", "failed", "sleep", "event", "review"}]

(* Every effect below a cursor took place; d is how often each one did.    *)
Passed(t, d, c) == \A i \in 1 .. StepCount(t) : i < c /\ WebPlan[t][i] = "effect" => d[i] > 0
(* What a row says of the effects: those below its cursor took place, also *)
(* the one it stands at when it waits; at the end all of them; and only    *)
(* before the task is submitted the cursor is not set.                     *)
Earned(t, d, status, c) ==
  /\ Passed(t, d, c)
  /\ status \in {"waiting", "needs_review"} => Passed(t, d, c + 1)
  /\ status = "completed" => Passed(t, d, StepCount(t) + 1)
  /\ status = "none" <=> c = 0

(* The patches of the user and of a run that are still to read the row r.  *)
PatchOK(patch) ==
  /\ DOMAIN patch \subseteq Fields
  /\ "status" \in DOMAIN patch => patch.status \in Settled \cup Live
  /\ "cursor" \in DOMAIN patch => patch.cursor \in Nat
  /\ "waitFor" \in DOMAIN patch => patch.waitFor \in WaitKind
  /\ "tries" \in DOMAIN patch => patch.tries \in Seq(Nat)
  /\ "attempts" \in DOMAIN patch => patch.attempts \in Nat
  /\ "result" \in DOMAIN patch => patch.result \in BOOLEAN
Verdict(r, g, patch) ==
  \/ DOMAIN patch = {"status"} /\ patch.status = "cancelled" /\ r.cursor # 0
  \/ /\ DOMAIN patch = {"status", "tries", "cursor"} /\ patch.status = "ready"
     /\ r.status = "needs_review" /\ g.at = "none" /\ patch.cursor = r.cursor + 1
RunPatch(t, d, r, g, patch) ==
  \/ g.at = "step" /\ DOMAIN patch = {"tries"}
  \/ /\ g.at = "again" /\ DOMAIN patch = {"tries", "cursor", "result"}
     /\ patch.cursor >= r.cursor /\ Passed(t, d, patch.cursor)
  \/ /\ g.at = "end" /\ "status" \in DOMAIN patch /\ "cursor" \notin DOMAIN patch
     /\ Earned(t, d, patch.status, g.row.cursor)

(* An update that is on its way: what it writes is true of the effects,    *)
(* and only the run and a review take the cursor further.                  *)
BeatFits(t, d, r, g, u) ==
  \/ u = NoUpdate
  \/ u.at = "reads" /\ PatchOK(u.data) /\ DOMAIN u.data = {}
  \/ /\ u.at = "writes" /\ u.data \in RowRecord
     /\ Earned(t, d, u.data.status, u.data.cursor) /\ u.data.cursor <= r.cursor
     /\ g.at # "none" => u.data.status \in {"running", "cancelled"}
UserFits(t, d, r, g, u) ==
  \/ u = NoUpdate
  \/ u.at = "reads" /\ PatchOK(u.data) /\ Verdict(r, g, u.data)
  \/ /\ u.at = "writes" /\ u.data \in RowRecord /\ Earned(t, d, u.data.status, u.data.cursor)
     /\ \/ u.data.status = "cancelled" /\ u.data.cursor <= r.cursor
        \/ /\ u.data.status = "ready" /\ r.status = "needs_review" /\ g.at = "none"
           /\ u.data.cursor = r.cursor + 1
OwnFits(t, d, r, g, u) ==
  \/ u = NoUpdate
  \/ u.at = "reads" /\ PatchOK(u.data) /\ RunPatch(t, d, r, g, u.data)
  \/ /\ u.at = "writes" /\ u.data \in RowRecord
     /\ Earned(t, d, u.data.status, u.data.cursor) /\ r.cursor <= u.data.cursor
     /\ g.at \in {"step", "again", "end"}
     /\ g.at \in {"step", "end"} => u.data.cursor <= g.row.cursor
     /\ g.at \in {"step", "again"} => u.data.status \in {"running", "cancelled"}

(* The run: what it holds is never behind the row.                         *)
RunFits(t, d, r, g) ==
  /\ g.at \in {"step", "outcome", "end"} => r.cursor <= g.row.cursor /\ Passed(t, d, g.row.cursor)
  /\ g.at = "step" => g.row.cursor \in 1 .. StepCount(t)
  /\ g.at = "outcome" => g.outcome # "none"
  /\ g.at = "outcome" /\ g.outcome # "failed" => Passed(t, d, g.row.cursor + 1)
  /\ g.at # "none" => r.status \in {"running", "cancelled"}

(* A task: how often its effects took place, its row, its run, and the     *)
(* updates of the heartbeat, of the user and of the run.                   *)
Fits(t, d, r, g, beat, user, own) ==
  /\ d \in [1 .. StepCount(t) -> Nat] /\ r \in RowRecord /\ g \in RunRecord
  /\ Earned(t, d, r.status, r.cursor) /\ RunFits(t, d, r, g)
  /\ BeatFits(t, d, r, g, beat) /\ UserFits(t, d, r, g, user) /\ OwnFits(t, d, r, g, own)
  /\ beat = NoUpdate \/ user = NoUpdate

TaskFits(t) ==
  Fits(t, did[t], row[t], run[t], update[<<"beat", t>>], update[<<"user", t>>], update[<<"run", t>>])
Apart == beats = 0 \/ orders = 0
WebInv ==
  /\ DOMAIN row = WebTask /\ DOMAIN run = WebTask /\ DOMAIN update = Writers /\ DOMAIN did = WebTask
  /\ beats \in Nat /\ orders \in Nat
  /\ \A t \in WebTask : /\ beats = 0 => update[<<"beat", t>>] = NoUpdate
                        /\ orders = 0 => update[<<"user", t>>] = NoUpdate
  /\ Apart => \A t \in WebTask : TaskFits(t)

-----------------------------------------------------------------------------
\* The steps of a task are counted.
LEMMA CountIsNat == \A t \in WebTask : StepCount(t) \in Nat
<1> SUFFICES ASSUME NEW t \in WebTask PROVE StepCount(t) \in Nat OBVIOUS
<1>1. WebPlan[t] \in Seq({"effect", "sleep", "event", "tool"}) BY WebAssumption
<1> QED BY <1>1 DEF StepCount

\* A patch takes the fields it has from itself and the others from the row.
LEMMA PatchedIsRow ==
  ASSUME NEW patch, PatchOK(patch), NEW r \in RowRecord
  PROVE  /\ Patched(patch, r) \in RowRecord
         /\ Patched(patch, r).status = IF "status" \in DOMAIN patch THEN patch.status ELSE r.status
         /\ Patched(patch, r).cursor = IF "cursor" \in DOMAIN patch THEN patch.cursor ELSE r.cursor
BY DEF Patched, PatchOK, RowRecord

\* An attempt is counted in the row alone.
LEMMA AttemptedIsRow ==
  ASSUME NEW r \in RowRecord
  PROVE  /\ Attempted(r) \in RowRecord
         /\ Attempted(r).status = r.status /\ Attempted(r).cursor = r.cursor
<1> DEFINE s == [i \in DOMAIN r.tries |-> IF i = r.cursor THEN r.tries[i] + 1 ELSE r.tries[i]]
<1>1. r.tries \in Seq(Nat) BY DEF RowRecord
<1>2. s \in Seq(Nat) BY <1>1
<1>3. Attempted(r) = [r EXCEPT !.tries = s] BY DEF Attempted
<1> HIDE DEF s
<1> QED BY <1>2, <1>3 DEF RowRecord

\* The patches the code builds.
LEMMA PatchesAreOK ==
  ASSUME NEW r \in RowRecord
  PROVE  /\ \A s \in Settled \cup Live : PatchOK(Becomes(s)) /\ DOMAIN Becomes(s) = {"status"}
         /\ PatchOK(Steps(r)) /\ DOMAIN Steps(r) = {"tries"}
         /\ PatchOK(Advance(r)) /\ DOMAIN Advance(r) = {"tries", "cursor", "result"}
         /\ PatchOK(Again(r)) /\ DOMAIN Again(r) = {"status", "tries"} /\ Again(r).status = "ready"
         /\ PatchOK(Fails(r)) /\ DOMAIN Fails(r) = {"status", "tries"} /\ Fails(r).status = "failed"
         /\ PatchOK(GoesOn(r)) /\ DOMAIN GoesOn(r) = {"status", "tries", "cursor"}
         /\ \A k \in WaitKind : /\ PatchOK(Parks(r, k)) /\ DOMAIN Parks(r, k) = {"status", "tries", "waitFor"}
                                /\ Parks(r, k).status = "waiting"
         /\ \A n \in Nat : /\ PatchOK(Recovers(n)) /\ DOMAIN Recovers(n) = {"status", "attempts"}
                           /\ Recovers(n).status \in {"failed", "ready"}
<1>1. r.tries \in Seq(Nat) /\ r.cursor + 1 \in Nat BY DEF RowRecord
<1>2. \A s \in Settled \cup Live : PatchOK(Becomes(s)) /\ DOMAIN Becomes(s) = {"status"}
  BY DEF PatchOK, Becomes, Fields
<1>3. PatchOK(Steps(r)) /\ DOMAIN Steps(r) = {"tries"} BY <1>1 DEF PatchOK, Steps, Fields
<1>4. PatchOK(Advance(r)) /\ DOMAIN Advance(r) = {"tries", "cursor", "result"} BY <1>1 DEF PatchOK, Advance, Fields
<1>5. PatchOK(Again(r)) /\ DOMAIN Again(r) = {"status", "tries"} /\ Again(r).status = "ready"
  BY <1>1 DEF PatchOK, Again, Fields, Live
<1>6. PatchOK(GoesOn(r)) /\ DOMAIN GoesOn(r) = {"status", "tries", "cursor"}
  BY <1>1 DEF PatchOK, GoesOn, Fields, Live
<1>7. \A k \in WaitKind : /\ PatchOK(Parks(r, k)) /\ DOMAIN Parks(r, k) = {"status", "tries", "waitFor"}
                          /\ Parks(r, k).status = "waiting"
  BY <1>1 DEF PatchOK, Parks, Fields, Live
<1>8. \A n \in Nat : /\ PatchOK(Recovers(n)) /\ DOMAIN Recovers(n) = {"status", "attempts"}
                     /\ Recovers(n).status \in {"failed", "ready"}
  BY DEF PatchOK, Recovers, Fields, Live, Settled
<1>9. PatchOK(Fails(r)) /\ DOMAIN Fails(r) = {"status", "tries"} /\ Fails(r).status = "failed"
  BY <1>1 DEF PatchOK, Fails, Fields, Settled
<1> QED BY <1>2, <1>3, <1>4, <1>5, <1>6, <1>7, <1>8, <1>9

\* A step that fails leaves the cursor where it is.
LEMMA FailIsOK ==
  ASSUME NEW t, NEW i, NEW r \in RowRecord
  PROVE  /\ PatchOK(FailTask(t, r, i)) /\ "status" \in DOMAIN FailTask(t, r, i)
         /\ "cursor" \notin DOMAIN FailTask(t, r, i) /\ FailTask(t, r, i).status \in {"failed", "ready"}
<1>1. FailTask(t, r, i) \in {Becomes("failed"), Again(r), Fails(r)} BY DEF FailTask
<1>2. Becomes("failed").status = "failed" BY DEF Becomes
<1> QED BY <1>1, <1>2, PatchesAreOK DEF Settled

\* Effects are not undone.
LEMMA EffectsStay ==
  ASSUME NEW t \in WebTask, NEW d \in [1 .. StepCount(t) -> Nat], NEW e \in [1 .. StepCount(t) -> Nat],
         \A i \in 1 .. StepCount(t) : e[i] >= d[i]
  PROVE  /\ \A c : Passed(t, d, c) => Passed(t, e, c)
         /\ \A c, s : Earned(t, d, s, c) => Earned(t, e, s, c)
<1>1. \A c : Passed(t, d, c) => Passed(t, e, c) BY DEF Passed
<1> QED BY <1>1 DEF Earned

\* What is true of a cursor is true of those before it.
LEMMA PassedBefore ==
  ASSUME NEW t \in WebTask, NEW d, NEW c \in Nat, NEW b \in Nat, b <= c, Passed(t, d, c)
  PROVE  Passed(t, d, b)
BY CountIsNat DEF Passed

\* More effects took place: nothing else changes.
LEMMA FitsStays ==
  ASSUME NEW t \in WebTask, NEW d, NEW r, NEW g, NEW b, NEW u, NEW o, Fits(t, d, r, g, b, u, o),
         NEW e \in [1 .. StepCount(t) -> Nat], \A i \in 1 .. StepCount(t) : e[i] >= d[i]
  PROVE  Fits(t, e, r, g, b, u, o)
<1>1. /\ \A c : Passed(t, d, c) => Passed(t, e, c)
      /\ \A c, s : Earned(t, d, s, c) => Earned(t, e, s, c)
  BY EffectsStay DEF Fits
<1> QED BY <1>1 DEF Fits, RunFits, BeatFits, UserFits, OwnFits, RunPatch

\* An update reads the row.
LEMMA BeatReads ==
  ASSUME NEW t \in WebTask, NEW d, NEW r, NEW g, NEW b, NEW u, NEW o, Fits(t, d, r, g, b, u, o),
         b.at = "reads"
  PROVE  Fits(t, d, r, g, [at |-> "writes", data |-> Patched(b.data, r)], u, o)
<1> DEFINE q == Patched(b.data, r)
           n == [at |-> "writes", data |-> q]
<1>1. PatchOK(b.data) /\ DOMAIN b.data = {} /\ b # NoUpdate BY DEF Fits, BeatFits, NoUpdate
<1>2. q \in RowRecord /\ q.status = r.status /\ q.cursor = r.cursor BY <1>1, PatchedIsRow DEF Fits
<1>3. r.cursor \in Nat BY DEF Fits, RowRecord
<1> HIDE DEF q
<1>4. BeatFits(t, d, r, g, n) BY <1>2, <1>3 DEF Fits, BeatFits, RunFits
<1> QED BY <1>1, <1>4 DEF Fits, q

\* The user's update reads: it carries the row with the verdict.
LEMMA UserReads ==
  ASSUME NEW t \in WebTask, NEW d, NEW r, NEW g, NEW b, NEW u, NEW o, Fits(t, d, r, g, b, u, o),
         u.at = "reads"
  PROVE  Fits(t, d, r, g, b, [at |-> "writes", data |-> Patched(u.data, r)], o)
<1> DEFINE q == Patched(u.data, r)
           n == [at |-> "writes", data |-> q]
<1>1. PatchOK(u.data) /\ Verdict(r, g, u.data) /\ u # NoUpdate BY DEF Fits, UserFits, NoUpdate
<1>2. /\ q \in RowRecord
      /\ q.status = IF "status" \in DOMAIN u.data THEN u.data.status ELSE r.status
      /\ q.cursor = IF "cursor" \in DOMAIN u.data THEN u.data.cursor ELSE r.cursor
  BY <1>1, PatchedIsRow DEF Fits
<1>3. r.cursor \in Nat /\ Earned(t, d, r.status, r.cursor) BY DEF Fits, RowRecord
<1> HIDE DEF q
<1>4. CASE DOMAIN u.data = {"status"} /\ u.data.status = "cancelled" /\ r.cursor # 0
  <2>1. q.status = "cancelled" /\ q.cursor = r.cursor BY <1>2, <1>4
  <2>2. Earned(t, d, q.status, q.cursor) BY <2>1, <1>3, <1>4 DEF Earned
  <2>3. UserFits(t, d, r, g, n) BY <2>1, <2>2, <1>2, <1>3 DEF UserFits
  <2> QED BY <1>1, <2>3 DEF Fits, q
<1>5. CASE /\ DOMAIN u.data = {"status", "tries", "cursor"} /\ u.data.status = "ready"
           /\ r.status = "needs_review" /\ g.at = "none" /\ u.data.cursor = r.cursor + 1
  <2>1. q.status = "ready" /\ q.cursor = r.cursor + 1 BY <1>2, <1>5
  <2>2. Earned(t, d, q.status, q.cursor) BY <2>1, <1>3, <1>5 DEF Earned
  <2>3. UserFits(t, d, r, g, n) BY <2>1, <2>2, <1>2, <1>5 DEF UserFits
  <2> QED BY <1>1, <2>3 DEF Fits, q
<1> QED BY <1>1, <1>4, <1>5 DEF Verdict

\* The run's update reads: it carries the row with the run's patch.
LEMMA OwnReads ==
  ASSUME NEW t \in WebTask, NEW d, NEW r, NEW g, NEW b, NEW u, NEW o, Fits(t, d, r, g, b, u, o),
         o.at = "reads"
  PROVE  Fits(t, d, r, g, b, u, [at |-> "writes", data |-> Patched(o.data, r)])
<1> DEFINE q == Patched(o.data, r)
           n == [at |-> "writes", data |-> q]
<1>1. PatchOK(o.data) /\ RunPatch(t, d, r, g, o.data) /\ o # NoUpdate BY DEF Fits, OwnFits, NoUpdate
<1>2. /\ q \in RowRecord
      /\ q.status = IF "status" \in DOMAIN o.data THEN o.data.status ELSE r.status
      /\ q.cursor = IF "cursor" \in DOMAIN o.data THEN o.data.cursor ELSE r.cursor
  BY <1>1, PatchedIsRow DEF Fits
<1>3. /\ r.cursor \in Nat /\ Earned(t, d, r.status, r.cursor) /\ RunFits(t, d, r, g)
      /\ g.row.cursor \in Nat
  BY DEF Fits, RowRecord, RunRecord
<1> HIDE DEF q
<1>4. CASE g.at = "step" /\ DOMAIN o.data = {"tries"}
  <2>1. q.status = r.status /\ q.cursor = r.cursor BY <1>2, <1>4
  <2>2. OwnFits(t, d, r, g, n) BY <2>1, <1>2, <1>3, <1>4 DEF OwnFits, RunFits
  <2> QED BY <2>2 DEF Fits, q
<1>5. CASE /\ g.at = "again" /\ DOMAIN o.data = {"tries", "cursor", "result"}
           /\ o.data.cursor >= r.cursor /\ Passed(t, d, o.data.cursor)
  <2>1. q.status = r.status /\ q.cursor = o.data.cursor /\ q.cursor \in Nat BY <1>2, <1>5 DEF RowRecord
  <2>2. r.status \in {"running", "cancelled"} BY <1>3, <1>5 DEF RunFits
  <2>3. Earned(t, d, q.status, q.cursor) BY <2>1, <2>2, <1>3, <1>5 DEF Earned
  <2>4. OwnFits(t, d, r, g, n) BY <2>1, <2>2, <2>3, <1>2, <1>3, <1>5 DEF OwnFits
  <2> QED BY <2>4 DEF Fits, q
<1>6. CASE /\ g.at = "end" /\ "status" \in DOMAIN o.data /\ "cursor" \notin DOMAIN o.data
           /\ Earned(t, d, o.data.status, g.row.cursor)
  <2>1. q.status = o.data.status /\ q.cursor = r.cursor BY <1>2, <1>6
  <2>2. r.cursor <= g.row.cursor BY <1>3, <1>6 DEF RunFits
  <2>3. Earned(t, d, q.status, q.cursor)
    <3>1. Passed(t, d, r.cursor) BY <1>3 DEF Earned
    <3>2. q.status \in {"waiting", "needs_review"} => Passed(t, d, r.cursor + 1)
      <4> SUFFICES ASSUME q.status \in {"waiting", "needs_review"} PROVE Passed(t, d, r.cursor + 1) OBVIOUS
      <4>1. Passed(t, d, g.row.cursor + 1) BY <1>6, <2>1 DEF Earned
      <4> QED BY <4>1, <2>2, <1>3, PassedBefore
    <3>3. q.status # "none" /\ r.cursor # 0
      <4>1. r.cursor # 0 BY <1>3, <1>6 DEF Earned, RunFits
      <4>2. g.row.cursor # 0 BY <4>1, <2>2, <1>3
      <4> QED BY <4>1, <4>2, <1>6, <2>1 DEF Earned
    <3> QED BY <3>1, <3>2, <3>3, <2>1, <1>6 DEF Earned
  <2>4. OwnFits(t, d, r, g, n) BY <2>1, <2>2, <2>3, <1>2, <1>3, <1>6 DEF OwnFits
  <2> QED BY <2>4 DEF Fits, q
<1> QED BY <1>1, <1>4, <1>5, <1>6 DEF RunPatch

\* An update writes its row.
LEMMA BeatWrites ==
  ASSUME NEW t \in WebTask, NEW d, NEW r, NEW g, NEW b, NEW u, NEW o, Fits(t, d, r, g, b, u, o),
         b.at = "writes"
  PROVE  Fits(t, d, b.data, g, NoUpdate, u, o)
<1> DEFINE q == b.data
<1>1. b # NoUpdate /\ u = NoUpdate BY DEF Fits, NoUpdate
<1>2. /\ q \in RowRecord /\ Earned(t, d, q.status, q.cursor) /\ q.cursor <= r.cursor
      /\ g.at # "none" => q.status \in {"running", "cancelled"}
  BY <1>1 DEF Fits, BeatFits
<1>3. q.cursor \in Nat /\ r.cursor \in Nat /\ g.row.cursor \in Nat BY <1>2 DEF Fits, RowRecord, RunRecord
<1> HIDE DEF q
<1>4. RunFits(t, d, q, g) BY <1>2, <1>3 DEF Fits, RunFits
<1>5. OwnFits(t, d, q, g, o)
  <2>1. CASE o = NoUpdate BY <2>1 DEF OwnFits
  <2>2. CASE o.at = "reads" /\ PatchOK(o.data) /\ RunPatch(t, d, r, g, o.data)
    <3>1. RunPatch(t, d, q, g, o.data)
      <4>1. "cursor" \in DOMAIN o.data => o.data.cursor \in Nat BY <2>2 DEF PatchOK
      <4> QED BY <4>1, <2>2, <1>2, <1>3 DEF RunPatch
    <3> QED BY <3>1, <2>2 DEF OwnFits
  <2>3. CASE o.at = "writes" /\ o.data \in RowRecord /\ o # NoUpdate
    <3>1. o.data.cursor \in Nat BY <2>3 DEF RowRecord
    <3> QED BY <3>1, <2>3, <1>2, <1>3 DEF Fits, OwnFits
  <2> QED BY <2>1, <2>2, <2>3 DEF Fits, OwnFits
<1> QED BY <1>1, <1>2, <1>4, <1>5 DEF Fits, BeatFits, UserFits, q

\* The user's update writes: the row is cancelled, or past the review.
LEMMA UserWrites ==
  ASSUME NEW t \in WebTask, NEW d, NEW r, NEW g, NEW b, NEW u, NEW o, Fits(t, d, r, g, b, u, o),
         u.at = "writes"
  PROVE  Fits(t, d, u.data, g, b, NoUpdate, o)
<1> DEFINE q == u.data
<1>1. u # NoUpdate /\ b = NoUpdate BY DEF Fits, NoUpdate
<1>2. /\ q \in RowRecord /\ Earned(t, d, q.status, q.cursor)
      /\ \/ q.status = "cancelled" /\ q.cursor <= r.cursor
         \/ q.status = "ready" /\ g.at = "none"
  BY <1>1 DEF Fits, UserFits
<1>3. q.cursor \in Nat /\ r.cursor \in Nat /\ g.row.cursor \in Nat BY <1>2 DEF Fits, RowRecord, RunRecord
<1> HIDE DEF q
<1>4. RunFits(t, d, q, g) BY <1>2, <1>3 DEF Fits, RunFits
<1>5. OwnFits(t, d, q, g, o)
  <2>1. CASE o = NoUpdate BY <2>1 DEF OwnFits
  <2>2. CASE o.at = "reads" /\ PatchOK(o.data) /\ RunPatch(t, d, r, g, o.data)
    <3>1. RunPatch(t, d, q, g, o.data)
      <4>1. "cursor" \in DOMAIN o.data => o.data.cursor \in Nat BY <2>2 DEF PatchOK
      <4> QED BY <4>1, <2>2, <1>2, <1>3 DEF RunPatch
    <3> QED BY <3>1, <2>2 DEF OwnFits
  <2>3. CASE o.at = "writes" /\ o.data \in RowRecord /\ o # NoUpdate
    <3>1. o.data.cursor \in Nat BY <2>3 DEF RowRecord
    <3> QED BY <3>1, <2>3, <1>2, <1>3 DEF Fits, OwnFits
  <2> QED BY <2>1, <2>2, <2>3 DEF Fits, OwnFits
<1> QED BY <1>1, <1>2, <1>4, <1>5 DEF Fits, BeatFits, UserFits, q

\* No run is a run of its own.
LEMMA NoRunIsRun == NoRun \in RunRecord /\ NoRun.at = "none" /\ NoRow \in RowRecord
<1>1. NoRow \in RowRecord BY DEF NoRow, RowRecord, Settled, WaitKind
<1> QED BY <1>1 DEF NoRun, RunRecord

\* The run's update writes; at its end the run is over.
LEMMA OwnWrites ==
  ASSUME NEW t \in WebTask, NEW d, NEW r, NEW g, NEW b, NEW u, NEW o, Fits(t, d, r, g, b, u, o),
         o.at = "writes"
  PROVE  Fits(t, d, o.data, IF g.at = "end" THEN NoRun ELSE g, b, u, NoUpdate)
<1> DEFINE q == o.data
           h == IF g.at = "end" THEN NoRun ELSE g
<1>1. o # NoUpdate BY DEF NoUpdate
<1>2. /\ q \in RowRecord /\ Earned(t, d, q.status, q.cursor) /\ r.cursor <= q.cursor
      /\ g.at \in {"step", "again", "end"}
      /\ g.at \in {"step", "end"} => q.cursor <= g.row.cursor
      /\ g.at \in {"step", "again"} => q.status \in {"running", "cancelled"}
  BY <1>1 DEF Fits, OwnFits
<1>3. q.cursor \in Nat /\ r.cursor \in Nat BY <1>2 DEF Fits, RowRecord
<1> HIDE DEF q
<1>4. h \in RunRecord /\ RunFits(t, d, q, h) BY <1>2, <1>3, NoRunIsRun DEF Fits, RunFits
<1>5. BeatFits(t, d, q, h, b)
  <2>1. CASE b.at = "writes" /\ b.data \in RowRecord /\ b # NoUpdate
    <3>1. b.data.cursor \in Nat BY <2>1 DEF RowRecord
    <3> QED BY <3>1, <2>1, <1>2, <1>3, NoRunIsRun DEF Fits, BeatFits
  <2> QED BY <2>1 DEF Fits, BeatFits
<1>6. UserFits(t, d, q, h, u)
  <2>1. CASE u.at = "writes" /\ u.data \in RowRecord /\ u # NoUpdate
    <3>1. u.data.cursor \in Nat BY <2>1 DEF RowRecord
    <3> QED BY <3>1, <2>1, <1>2, <1>3 DEF Fits, UserFits
  <2>2. CASE u.at = "reads" /\ u # NoUpdate
    <3>1. PatchOK(u.data) /\ Verdict(r, g, u.data) BY <2>2 DEF Fits, UserFits
    <3>2. Verdict(q, h, u.data) BY <3>1, <1>2, <1>3 DEF Verdict, Fits, RunFits
    <3> QED BY <2>2, <3>1, <3>2 DEF UserFits
  <2> QED BY <2>1, <2>2 DEF Fits, UserFits
<1> QED BY <1>2, <1>4, <1>5, <1>6 DEF Fits, OwnFits, q

\* A claim by the tick takes a row that no run is with, and may launch one.
LEMMA ClaimFits ==
  ASSUME NEW t \in WebTask, NEW d, NEW r, NEW g, NEW b, NEW u, NEW o, Fits(t, d, r, g, b, u, o),
         g.at = "none", r.status # "needs_review",
         NEW q \in RowRecord, r.cursor <= q.cursor, Earned(t, d, q.status, q.cursor),
         NEW h \in RunRecord, h.at = "none" \/ (h.at = "load" /\ b = NoUpdate /\ q.status = "running")
  PROVE  Fits(t, d, q, h, b, u, o)
<1>1. o = NoUpdate BY DEF Fits, OwnFits, RunPatch
<1>2. q.cursor \in Nat /\ r.cursor \in Nat BY DEF Fits, RowRecord
<1>3. RunFits(t, d, q, h) BY DEF RunFits
<1>4. BeatFits(t, d, q, h, b)
  <2>1. CASE b.at = "writes" /\ b.data \in RowRecord /\ b # NoUpdate
    <3>1. b.data.cursor \in Nat BY <2>1 DEF RowRecord
    <3> QED BY <3>1, <2>1, <1>2 DEF Fits, BeatFits
  <2> QED BY <2>1 DEF Fits, BeatFits
<1>5. UserFits(t, d, q, h, u)
  <2>1. CASE u.at = "writes" /\ u.data \in RowRecord /\ u # NoUpdate
    <3>1. u.data.cursor \in Nat BY <2>1 DEF RowRecord
    <3> QED BY <3>1, <2>1, <1>2 DEF Fits, UserFits
  <2>2. CASE u.at = "reads" /\ u # NoUpdate
    <3>1. PatchOK(u.data) /\ Verdict(r, g, u.data) BY <2>2 DEF Fits, UserFits
    <3>2. Verdict(q, h, u.data) BY <3>1, <1>2 DEF Verdict
    <3> QED BY <2>2, <3>1, <3>2 DEF UserFits
  <2> QED BY <2>1, <2>2 DEF Fits, UserFits
<1> QED BY <1>1, <1>3, <1>4, <1>5 DEF Fits, OwnFits

\* The heartbeat and the user ask for an update.
LEMMA BeatAsks ==
  ASSUME NEW t \in WebTask, NEW d, NEW r, NEW g, NEW b, NEW u, NEW o, Fits(t, d, r, g, b, u, o),
         u = NoUpdate, NEW patch, DOMAIN patch = {}
  PROVE  Fits(t, d, r, g, [at |-> "reads", data |-> patch], u, o)
BY DEF Fits, BeatFits, PatchOK

\* The user asks, while no heartbeat is about.
LEMMA UserAsks ==
  ASSUME NEW t \in WebTask, NEW d, NEW r, NEW g, NEW b, NEW u, NEW o, Fits(t, d, r, g, b, u, o),
         b = NoUpdate, NEW patch, PatchOK(patch), Verdict(r, g, patch)
  PROVE  Fits(t, d, r, g, b, [at |-> "reads", data |-> patch], o)
BY DEF Fits, UserFits

\* A run ends, without an update of its own.
LEMMA RunEnds ==
  ASSUME NEW t \in WebTask, NEW d, NEW r, NEW g, NEW b, NEW u, NEW o, Fits(t, d, r, g, b, u, o),
         o = NoUpdate
  PROVE  Fits(t, d, r, NoRun, b, u, o)
<1>1. RunFits(t, d, r, NoRun) BY NoRunIsRun DEF RunFits
<1>2. BeatFits(t, d, r, NoRun, b) BY NoRunIsRun DEF Fits, BeatFits
<1>3. UserFits(t, d, r, NoRun, u) BY NoRunIsRun DEF Fits, UserFits, Verdict
<1>4. OwnFits(t, d, r, NoRun, o) BY DEF OwnFits
<1> QED BY <1>1, <1>2, <1>3, <1>4, NoRunIsRun DEF Fits

\* The page forgets all but the rows.
LEMMA ReloadFits ==
  ASSUME NEW t \in WebTask, NEW d, NEW r, NEW g, NEW b, NEW u, NEW o, Fits(t, d, r, g, b, u, o)
  PROVE  Fits(t, d, r, NoRun, NoUpdate, NoUpdate, NoUpdate)
<1>1. RunFits(t, d, r, NoRun) BY NoRunIsRun DEF RunFits
<1> QED BY <1>1, NoRunIsRun DEF Fits, BeatFits, UserFits, OwnFits

\* A run in flight goes on with an update of its own; what the heartbeat and
\* the user have under way does not depend on where it is.
LEMMA RunMoves ==
  ASSUME NEW t \in WebTask, NEW d, NEW r, NEW g, NEW b, NEW u, NEW o, Fits(t, d, r, g, b, u, o),
         g.at # "none", NEW h \in RunRecord, h.at # "none", NEW p, OwnFits(t, d, r, h, p), RunFits(t, d, r, h)
  PROVE  Fits(t, d, r, h, b, u, p)
<1>1. BeatFits(t, d, r, h, b) BY DEF Fits, BeatFits
<1>2. UserFits(t, d, r, h, u) BY DEF Fits, UserFits, Verdict
<1> QED BY <1>1, <1>2 DEF Fits

\* The next step begins.
LEMMA StepBegins ==
  ASSUME NEW t \in WebTask, NEW d, NEW r, NEW g, NEW b, NEW u, NEW o, Fits(t, d, r, g, b, u, o),
         g.at # "none", r.cursor <= StepCount(t)
  PROVE  Fits(t, d, r, [at |-> "step", row |-> Attempted(r), outcome |-> "none"], b, u,
              [at |-> "reads", data |-> Steps(Attempted(r))])
<1> DEFINE a == Attempted(r)
           h == [at |-> "step", row |-> a, outcome |-> "none"]
           p == [at |-> "reads", data |-> Steps(a)]
<1>1. a \in RowRecord /\ a.cursor = r.cursor BY AttemptedIsRow DEF Fits
<1>2. PatchOK(Steps(a)) /\ DOMAIN Steps(a) = {"tries"} BY <1>1, PatchesAreOK
<1> HIDE DEF a
<1>3. h \in RunRecord BY <1>1 DEF RunRecord
<1>4. RunFits(t, d, r, h)
  <2>1. r.cursor \in Nat /\ Passed(t, d, r.cursor) /\ r.status \in {"running", "cancelled"}
    BY DEF Fits, RunFits, RowRecord, Earned
  <2>2. r.cursor # 0 BY <2>1 DEF Fits, Earned
  <2> QED BY <2>1, <2>2, <1>1, CountIsNat DEF RunFits
<1>5. OwnFits(t, d, r, h, p) BY <1>2 DEF OwnFits, RunPatch
<1>6. Fits(t, d, r, h, b, u, p) BY <1>3, <1>4, <1>5, RunMoves
<1> QED BY <1>6 DEF a

\* There is no step any more: the verification.
LEMMA Verifies ==
  ASSUME NEW t \in WebTask, NEW d, NEW r, NEW g, NEW b, NEW u, NEW o, Fits(t, d, r, g, b, u, o),
         g.at # "none", ~(r.cursor <= StepCount(t))
  PROVE  Fits(t, d, r, [at |-> "end", row |-> r, outcome |-> "none"], b, u,
              [at |-> "reads", data |-> Verified(t, r)])
<1> DEFINE h == [at |-> "end", row |-> r, outcome |-> "none"]
           patch == Verified(t, r)
           p == [at |-> "reads", data |-> patch]
<1>1. r \in RowRecord BY DEF Fits
<1>2. /\ PatchOK(patch) /\ "status" \in DOMAIN patch /\ "cursor" \notin DOMAIN patch
      /\ patch.status \in {"completed", "needs_review", "failed", "ready"}
  <2>1. patch \in {Becomes("completed"), Becomes("needs_review"), FailTask(t, r, StepCount(t))} BY DEF Verified
  <2>2. /\ Becomes("completed").status = "completed" /\ Becomes("needs_review").status = "needs_review"
        /\ {"completed", "needs_review"} \subseteq Settled \cup Live
    BY DEF Becomes, Settled, Live
  <2> HIDE DEF patch
  <2> QED BY <1>1, <2>1, <2>2, PatchesAreOK, FailIsOK
<1>3. h \in RunRecord BY DEF RunRecord, Fits
<1>4. r.cursor \in Nat \ {0} /\ Passed(t, d, r.cursor) /\ r.status \in {"running", "cancelled"}
  BY DEF Fits, RunFits, RowRecord, Earned
<1>5. RunFits(t, d, r, h) BY <1>4 DEF RunFits
<1> HIDE DEF patch
<1>6. Earned(t, d, patch.status, r.cursor)
  <2>1. \A i \in 1 .. StepCount(t) : i < r.cursor BY <1>4, CountIsNat
  <2>2. \A c : Passed(t, d, c) BY <2>1, <1>4 DEF Passed
  <2> QED BY <2>2, <1>2, <1>4 DEF Earned
<1>7. OwnFits(t, d, r, h, p) BY <1>2, <1>6 DEF OwnFits, RunPatch
<1>8. Fits(t, d, r, h, b, u, p) BY <1>3, <1>5, <1>7, RunMoves
<1> QED BY <1>8 DEF patch

\* A step is taken: only an effect completes, and then it took place.
LEMMA StepTaken ==
  ASSUME NEW t \in WebTask, NEW d, NEW r, NEW g, NEW b, NEW u, NEW o, Fits(t, d, r, g, b, u, o),
         g.at = "step", o = NoUpdate,
         NEW e \in [1 .. StepCount(t) -> Nat], \A i \in 1 .. StepCount(t) : e[i] >= d[i],
         NEW outcome \in {"completed", "failed", "sleep", "event", "review"},
         outcome = "completed" /\ g.row.cursor \in 1 .. StepCount(t) => e[g.row.cursor] > 0,
         outcome \in {"sleep", "event", "review"} => WebPlan[t][g.row.cursor] # "effect"
  PROVE  Fits(t, e, r, [at |-> "outcome", row |-> g.row, outcome |-> outcome], b, u, o)
<1> DEFINE h == [at |-> "outcome", row |-> g.row, outcome |-> outcome]
<1>1. Fits(t, e, r, g, b, u, o) BY FitsStays
<1>2. h \in RunRecord BY DEF RunRecord, Fits
<1>3. /\ r.cursor <= g.row.cursor /\ Passed(t, e, g.row.cursor) /\ g.row.cursor \in Nat
      /\ r.status \in {"running", "cancelled"}
  BY <1>1 DEF Fits, RunFits, RunRecord, RowRecord
<1>4. outcome # "failed" => Passed(t, e, g.row.cursor + 1)
  <2> SUFFICES ASSUME outcome # "failed", NEW i \in 1 .. StepCount(t), i < g.row.cursor + 1,
                      WebPlan[t][i] = "effect"
               PROVE  e[i] > 0
    BY DEF Passed
  <2>1. i \in Nat BY CountIsNat
  <2>2. i < g.row.cursor \/ i = g.row.cursor BY <2>1, <1>3
  <2> QED BY <2>2, <1>3 DEF Passed
<1>5. RunFits(t, e, r, h) BY <1>3, <1>4 DEF RunFits
<1>6. OwnFits(t, e, r, h, o) BY DEF OwnFits
<1> QED BY <1>1, <1>2, <1>5, <1>6, RunMoves

\* What comes of a step.
LEMMA OutcomeApplied ==
  ASSUME NEW t \in WebTask, NEW d, NEW r, NEW g, NEW b, NEW u, NEW o, Fits(t, d, r, g, b, u, o),
         g.at = "outcome", row[t] = r
  PROVE  Fits(t, d, r, [at |-> IF g.outcome = "completed" /\ r.cursor <= StepCount(t) THEN "again" ELSE "end",
                        row |-> r, outcome |-> "none"], b, u,
              [at |-> "reads", data |-> Applied(t, g.outcome)])
<1> DEFINE at == IF g.outcome = "completed" /\ r.cursor <= StepCount(t) THEN "again" ELSE "end"
           h == [at |-> at, row |-> r, outcome |-> "none"]
           patch == Applied(t, g.outcome)
           p == [at |-> "reads", data |-> patch]
<1>1. h \in RunRecord BY DEF RunRecord, Fits
<1>2. /\ r \in RowRecord /\ r.cursor \in Nat \ {0} /\ Passed(t, d, r.cursor) /\ r.status \in {"running", "cancelled"}
      /\ g.outcome \in {"completed", "failed", "sleep", "event", "review"}
  BY DEF Fits, RunFits, RowRecord, RunRecord, Earned
<1>3. g.outcome # "failed" => Passed(t, d, r.cursor + 1)
  <2> SUFFICES ASSUME g.outcome # "failed" PROVE Passed(t, d, r.cursor + 1) OBVIOUS
  <2>1. r.cursor <= g.row.cursor /\ Passed(t, d, g.row.cursor + 1) /\ g.row.cursor \in Nat
    BY DEF Fits, RunFits, RunRecord, RowRecord
  <2> QED BY <2>1, <1>2, PassedBefore
<1>4. RunFits(t, d, r, h) BY <1>2 DEF RunFits
<1>5. OwnFits(t, d, r, h, p)
  <2> USE DEF OwnFits, RunPatch
  <2> HIDE DEF patch
  <2>1. CASE g.outcome = "review"
    <3>1. patch = Becomes("needs_review") BY <2>1 DEF Applied, patch
    <3>2. Earned(t, d, "needs_review", r.cursor) BY <1>2, <1>3, <2>1 DEF Earned
    <3>3. PatchOK(patch) /\ DOMAIN patch = {"status"} /\ patch.status = "needs_review"
      BY <3>1, <1>2, PatchesAreOK DEF Live, Becomes
    <3> QED BY <3>2, <3>3, <2>1
  <2>2. CASE patch = FailTask(t, r, r.cursor) /\ at = "end"
    <3>1. /\ PatchOK(patch) /\ "status" \in DOMAIN patch /\ "cursor" \notin DOMAIN patch
          /\ patch.status \in {"failed", "ready"}
      BY <1>2, <2>2, FailIsOK
    <3>2. Earned(t, d, patch.status, r.cursor) BY <1>2, <3>1 DEF Earned
    <3> QED BY <3>1, <3>2, <2>2
  <2>3. CASE g.outcome = "completed" /\ r.cursor <= StepCount(t)
    <3>1. patch = Advance(r)
      <4>1. ~(r.cursor > StepCount(t)) BY <2>3, <1>2, CountIsNat
      <4> QED BY <2>3, <4>1 DEF Applied, patch
    <3>2. PatchOK(patch) /\ DOMAIN patch = {"tries", "cursor", "result"} /\ patch.cursor = r.cursor + 1
      BY <3>1, <1>2, PatchesAreOK DEF Advance
    <3> QED BY <3>2, <2>3, <1>2, <1>3
  <2>4. CASE g.outcome \in {"sleep", "event"} /\ ~(r.cursor > StepCount(t))
    <3>1. patch = Parks(r, g.outcome) BY <2>4 DEF Applied, patch
    <3>2. PatchOK(patch) /\ DOMAIN patch = {"status", "tries", "waitFor"} /\ patch.status = "waiting"
      BY <3>1, <2>4, <1>2, PatchesAreOK DEF WaitKind
    <3>3. Earned(t, d, "waiting", r.cursor) BY <1>2, <1>3, <2>4 DEF Earned
    <3> QED BY <3>2, <3>3, <2>4
  <2>5. g.outcome = "failed" \/ (g.outcome # "review" /\ r.cursor > StepCount(t)) => patch = FailTask(t, r, r.cursor)
    BY DEF Applied, patch
  <2>6. ~(r.cursor <= StepCount(t)) => r.cursor > StepCount(t) BY <1>2, CountIsNat
  <2>7. at = "end" \/ (g.outcome = "completed" /\ r.cursor <= StepCount(t)) OBVIOUS
  <2> QED BY <2>1, <2>2, <2>3, <2>4, <2>5, <2>6, <2>7, <1>2
<1> QED BY <1>1, <1>4, <1>5, RunMoves

\* A step moves one task: it is enough to look at that one.
LEMMA OneTaskMoves ==
  ASSUME WebInv, NEW t \in WebTask,
         DOMAIN row' = WebTask, DOMAIN run' = WebTask, DOMAIN update' = Writers, DOMAIN did' = WebTask,
         beats' \in Nat, orders' \in Nat, beats' >= beats, orders' >= orders,
         \A x \in WebTask : x # t =>
           /\ row'[x] = row[x] /\ run'[x] = run[x] /\ did'[x] = did[x]
           /\ \A k \in {"run", "beat", "user"} : update'[<<k, x>>] = update[<<k, x>>],
         beats' = 0 => update'[<<"beat", t>>] = NoUpdate,
         orders' = 0 => update'[<<"user", t>>] = NoUpdate,
         Apart' /\ TaskFits(t) => TaskFits(t)'
  PROVE  WebInv'
<1>1. \A x \in WebTask : /\ beats' = 0 => update'[<<"beat", x>>] = NoUpdate
                         /\ orders' = 0 => update'[<<"user", x>>] = NoUpdate
  <2> SUFFICES ASSUME NEW x \in WebTask, x # t
               PROVE  /\ beats' = 0 => update'[<<"beat", x>>] = NoUpdate
                      /\ orders' = 0 => update'[<<"user", x>>] = NoUpdate
    OBVIOUS
  <2>1. (beats' = 0 => beats = 0) /\ (orders' = 0 => orders = 0) BY DEF WebInv
  <2> QED BY <2>1 DEF WebInv
<1>2. ASSUME Apart' PROVE \A x \in WebTask : TaskFits(x)'
  <2>1. Apart BY <1>2 DEF Apart, WebInv
  <2>2. TaskFits(t)' BY <1>2, <2>1 DEF WebInv
  <2>3. ASSUME NEW x \in WebTask, x # t PROVE TaskFits(x)'
    <3>1. TaskFits(x) BY <2>1 DEF WebInv
    <3>2. /\ row'[x] = row[x] /\ run'[x] = run[x] /\ did'[x] = did[x]
          /\ update'[<<"run", x>>] = update[<<"run", x>>] /\ update'[<<"beat", x>>] = update[<<"beat", x>>]
          /\ update'[<<"user", x>>] = update[<<"user", x>>]
      BY <2>3
    <3> QED BY <3>1, <3>2 DEF TaskFits
  <2> QED BY <2>2, <2>3
<1> QED BY <1>1, <1>2 DEF WebInv

\* At the start nothing is submitted.
LEMMA WebInitially == WebInit => WebInv
<1> SUFFICES ASSUME WebInit PROVE WebInv OBVIOUS
<1>1. /\ DOMAIN row = WebTask /\ DOMAIN run = WebTask /\ DOMAIN update = Writers /\ DOMAIN did = WebTask
      /\ beats = 0 /\ orders = 0
  BY DEF WebInit
<1>2. ASSUME NEW t \in WebTask
      PROVE  /\ row[t] = NoRow /\ run[t] = NoRun /\ did[t] = [i \in 1 .. StepCount(t) |-> 0]
             /\ \A k \in {"run", "beat", "user"} : update[<<k, t>>] = NoUpdate
  <2>1. \A k \in {"run", "beat", "user"} : <<k, t>> \in Writers BY DEF Writers
  <2> QED BY <2>1 DEF WebInit
<1>3. ASSUME NEW t \in WebTask PROVE TaskFits(t)
  <2>0. /\ row[t] = NoRow /\ run[t] = NoRun /\ did[t] = [i \in 1 .. StepCount(t) |-> 0]
        /\ \A k \in {"run", "beat", "user"} : update[<<k, t>>] = NoUpdate
    BY <1>2
  <2>1. did[t] \in [1 .. StepCount(t) -> Nat] BY <2>0
  <2>2. NoRow.cursor = 0 /\ NoRow.status = "none" BY DEF NoRow
  <2>3. Earned(t, did[t], NoRow.status, NoRow.cursor)
    <3>1. \A i \in 1 .. StepCount(t) : ~(i < 0) BY CountIsNat
    <3> QED BY <2>2, <3>1 DEF Earned, Passed
  <2>4. RunFits(t, did[t], NoRow, NoRun) BY NoRunIsRun DEF RunFits
  <2>5. Fits(t, did[t], NoRow, NoRun, NoUpdate, NoUpdate, NoUpdate)
    BY <2>1, <2>3, <2>4, NoRunIsRun DEF Fits, BeatFits, UserFits, OwnFits
  <2> QED BY <2>0, <2>5 DEF TaskFits
<1> QED BY <1>1, <1>2, <1>3 DEF WebInv

\* The two transactions of an update.
LEMMA UpdatesRead ==
  ASSUME WebInv, NEW w \in Writers, UpdateReads(w)
  PROVE  WebInv'
<1>1. PICK k \in {"run", "beat", "user"}, t \in WebTask : w = <<k, t>> BY DEF Writers
<1> DEFINE new == [at |-> "writes", data |-> Patched(update[w].data, row[t])]
<1>2. /\ update[w].at = "reads" /\ update' = [update EXCEPT ![w] = new]
      /\ UNCHANGED <<row, run, did, beats, orders>>
  BY <1>1 DEF UpdateReads, webCounts
<1> HIDE DEF new
<1>3. DOMAIN update' = Writers /\ update'[w] = new BY <1>2 DEF WebInv
<1>4. \A v \in Writers : v # w => update'[v] = update[v] BY <1>2 DEF WebInv
<1>5. \A x \in WebTask, j \in {"run", "beat", "user"} : x # t \/ j # k => update'[<<j, x>>] = update[<<j, x>>]
  BY <1>1, <1>4 DEF Writers
<1>6. update[w] # NoUpdate BY <1>2 DEF NoUpdate
<1>7. Apart' /\ TaskFits(t) => TaskFits(t)'
  <2> SUFFICES ASSUME TaskFits(t) PROVE TaskFits(t)' OBVIOUS
  <2>1. CASE k = "beat"
    <3>1. Fits(t, did[t], row[t], run[t], new, update[<<"user", t>>], update[<<"run", t>>])
      BY <2>1, <1>1, <1>2, BeatReads DEF TaskFits, new
    <3> QED BY <3>1, <2>1, <1>1, <1>2, <1>3, <1>5 DEF TaskFits
  <2>2. CASE k = "user"
    <3>1. Fits(t, did[t], row[t], run[t], update[<<"beat", t>>], new, update[<<"run", t>>])
      BY <2>2, <1>1, <1>2, UserReads DEF TaskFits, new
    <3> QED BY <3>1, <2>2, <1>1, <1>2, <1>3, <1>5 DEF TaskFits
  <2>3. CASE k = "run"
    <3>1. Fits(t, did[t], row[t], run[t], update[<<"beat", t>>], update[<<"user", t>>], new)
      BY <2>3, <1>1, <1>2, OwnReads DEF TaskFits, new
    <3> QED BY <3>1, <2>3, <1>1, <1>2, <1>3, <1>5 DEF TaskFits
  <2> QED BY <2>1, <2>2, <2>3
<1>8. /\ beats' = 0 => update'[<<"beat", t>>] = NoUpdate
      /\ orders' = 0 => update'[<<"user", t>>] = NoUpdate
  BY <1>1, <1>2, <1>5, <1>6 DEF WebInv
<1>9. /\ DOMAIN row = WebTask /\ DOMAIN run = WebTask /\ DOMAIN update = Writers /\ DOMAIN did = WebTask
      /\ beats \in Nat /\ orders \in Nat
  BY DEF WebInv
<1>10. beats' \in Nat /\ orders' \in Nat /\ beats' >= beats /\ orders' >= orders BY <1>2, <1>9
<1> QED BY <1>2, <1>3, <1>5, <1>7, <1>8, <1>9, <1>10, OneTaskMoves

\* An update writes.
LEMMA UpdatesWrite ==
  ASSUME WebInv, NEW w \in Writers, UpdateWrites(w)
  PROVE  WebInv'
<1>1. PICK k \in {"run", "beat", "user"}, t \in WebTask : w = <<k, t>> BY DEF Writers
<1>2. /\ update[w].at = "writes" /\ update' = [update EXCEPT ![w] = NoUpdate]
      /\ row' = [row EXCEPT ![t] = update[w].data]
      /\ run' = IF k = "run" /\ run[t].at = "end" THEN [run EXCEPT ![t] = NoRun] ELSE run
      /\ UNCHANGED <<did, beats, orders>>
  <2>1. w[1] = k /\ w[2] = t BY <1>1
  <2> QED BY <2>1 DEF UpdateWrites, webCounts
<1>3. DOMAIN update' = Writers /\ update'[w] = NoUpdate /\ DOMAIN row' = WebTask /\ DOMAIN run' = WebTask
  BY <1>2 DEF WebInv
<1>4. \A v \in Writers : v # w => update'[v] = update[v] BY <1>2 DEF WebInv
<1>5. \A x \in WebTask, j \in {"run", "beat", "user"} : x # t \/ j # k => update'[<<j, x>>] = update[<<j, x>>]
  BY <1>1, <1>4 DEF Writers
<1>6. \A x \in WebTask : x # t => row'[x] = row[x] /\ run'[x] = run[x] BY <1>2 DEF WebInv
<1>7. row'[t] = update[w].data /\ run'[t] = IF k = "run" /\ run[t].at = "end" THEN NoRun ELSE run[t]
  BY <1>2 DEF WebInv
<1>8. Apart' /\ TaskFits(t) => TaskFits(t)'
  <2> SUFFICES ASSUME TaskFits(t) PROVE TaskFits(t)' OBVIOUS
  <2>1. CASE k = "beat"
    <3>1. Fits(t, did[t], update[w].data, run[t], NoUpdate, update[<<"user", t>>], update[<<"run", t>>])
      BY <2>1, <1>1, <1>2, BeatWrites DEF TaskFits
    <3> QED BY <3>1, <2>1, <1>1, <1>2, <1>3, <1>5, <1>7 DEF TaskFits
  <2>2. CASE k = "user"
    <3>1. Fits(t, did[t], update[w].data, run[t], update[<<"beat", t>>], NoUpdate, update[<<"run", t>>])
      BY <2>2, <1>1, <1>2, UserWrites DEF TaskFits
    <3> QED BY <3>1, <2>2, <1>1, <1>2, <1>3, <1>5, <1>7 DEF TaskFits
  <2>3. CASE k = "run"
    <3>1. Fits(t, did[t], update[w].data, IF run[t].at = "end" THEN NoRun ELSE run[t],
               update[<<"beat", t>>], update[<<"user", t>>], NoUpdate)
      BY <2>3, <1>1, <1>2, OwnWrites DEF TaskFits
    <3> QED BY <3>1, <2>3, <1>1, <1>2, <1>3, <1>5, <1>7 DEF TaskFits
  <2> QED BY <2>1, <2>2, <2>3
<1>9. /\ beats' = 0 => update'[<<"beat", t>>] = NoUpdate
      /\ orders' = 0 => update'[<<"user", t>>] = NoUpdate
  BY <1>1, <1>2, <1>3, <1>5 DEF WebInv
<1>10. /\ DOMAIN row = WebTask /\ DOMAIN run = WebTask /\ DOMAIN update = Writers /\ DOMAIN did = WebTask
       /\ beats \in Nat /\ orders \in Nat
  BY DEF WebInv
<1>11. beats' \in Nat /\ orders' \in Nat /\ beats' >= beats /\ orders' >= orders BY <1>2, <1>10
<1> QED BY <1>2, <1>3, <1>5, <1>6, <1>8, <1>9, <1>10, <1>11, OneTaskMoves

\* A row changes that no run is with: the tick, an event, a submission.
LEMMA RowMoves ==
  ASSUME WebInv, NEW t \in WebTask, NEW q, NEW h, UNCHANGED <<update, beats, orders, did>>,
         row' = [row EXCEPT ![t] = q],
         run' = [run EXCEPT ![t] = h] \/ (run' = run /\ h = run[t]),
         TaskFits(t) =>
           Fits(t, did[t], q, h, update[<<"beat", t>>], update[<<"user", t>>], update[<<"run", t>>])
  PROVE  WebInv'
<1>1. /\ DOMAIN row' = WebTask /\ DOMAIN run' = WebTask /\ row'[t] = q /\ run'[t] = h
      /\ \A x \in WebTask : x # t => row'[x] = row[x] /\ run'[x] = run[x]
  BY DEF WebInv
<1>2. TaskFits(t) => TaskFits(t)' BY <1>1 DEF TaskFits
<1>3. /\ DOMAIN row = WebTask /\ DOMAIN run = WebTask /\ DOMAIN update = Writers /\ DOMAIN did = WebTask
      /\ beats \in Nat /\ orders \in Nat
  BY DEF WebInv
<1>4. beats' \in Nat /\ orders' \in Nat /\ beats' >= beats /\ orders' >= orders BY <1>3
<1>5. /\ beats' = 0 => update'[<<"beat", t>>] = NoUpdate
      /\ orders' = 0 => update'[<<"user", t>>] = NoUpdate
  BY DEF WebInv
<1>6. DOMAIN update' = Writers /\ DOMAIN did' = WebTask /\ update' = update /\ did' = did BY <1>3
<1> QED BY <1>1, <1>2, <1>4, <1>5, <1>6, OneTaskMoves

\* A run or an update moves, and a count with it.
LEMMA TaskMoves ==
  ASSUME WebInv, NEW t \in WebTask, NEW k \in {"run", "beat", "user"}, NEW h, NEW u,
         UNCHANGED row, run' = [run EXCEPT ![t] = h] \/ (run' = run /\ h = run[t]),
         update' = [update EXCEPT ![<<k, t>>] = u] \/ (update' = update /\ u = update[<<k, t>>]),
         DOMAIN did' = WebTask, \A x \in WebTask : x # t => did'[x] = did[x],
         beats' \in Nat, orders' \in Nat, beats' >= beats, orders' >= orders,
         beats' = 0 => k # "beat", orders' = 0 => k # "user",
         Apart' /\ TaskFits(t) =>
           Fits(t, did'[t], row[t], h, IF k = "beat" THEN u ELSE update[<<"beat", t>>],
                IF k = "user" THEN u ELSE update[<<"user", t>>],
                IF k = "run" THEN u ELSE update[<<"run", t>>])
  PROVE  WebInv'
<1>1. /\ DOMAIN run' = WebTask /\ run'[t] = h /\ DOMAIN update' = Writers
      /\ \A x \in WebTask : x # t => run'[x] = run[x]
  BY DEF WebInv
<1>2. <<k, t>> \in Writers BY DEF Writers
<1>3. update'[<<k, t>>] = u BY <1>2 DEF WebInv
<1>4. \A x \in WebTask, j \in {"run", "beat", "user"} : x # t \/ j # k => update'[<<j, x>>] = update[<<j, x>>]
  BY DEF Writers, WebInv
<1>5. Apart' /\ TaskFits(t) => TaskFits(t)'
  <2> SUFFICES ASSUME Apart', TaskFits(t) PROVE TaskFits(t)' OBVIOUS
  <2>1. /\ update'[<<"beat", t>>] = IF k = "beat" THEN u ELSE update[<<"beat", t>>]
        /\ update'[<<"user", t>>] = IF k = "user" THEN u ELSE update[<<"user", t>>]
        /\ update'[<<"run", t>>] = IF k = "run" THEN u ELSE update[<<"run", t>>]
    BY <1>3, <1>4
  <2> QED BY <2>1, <1>1 DEF TaskFits
<1>6. /\ beats' = 0 => update'[<<"beat", t>>] = NoUpdate
      /\ orders' = 0 => update'[<<"user", t>>] = NoUpdate
  <2>1. (beats' = 0 => beats = 0) /\ (orders' = 0 => orders = 0) BY DEF WebInv
  <2> QED BY <2>1, <1>4 DEF WebInv
<1>7. DOMAIN row' = WebTask /\ row' = row BY DEF WebInv
<1> QED BY <1>1, <1>4, <1>5, <1>6, <1>7, OneTaskMoves

\* The tick's claims, an event, a submission.
LEMMA TickMoves ==
  ASSUME WebInv, NEW t \in WebTask, TickStep(t) \/ ResumeWaitingForEvent(t) \/ SubmitTask(t)
  PROVE  WebInv'
<1> DEFINE r == row[t]
           b == update[<<"beat", t>>]
           u == update[<<"user", t>>]
           o == update[<<"run", t>>]
           Claimed(q, h) == TaskFits(t) => Fits(t, did[t], q, h, b, u, o)
<1>1. TaskFits(t) =>
        /\ r \in RowRecord /\ r.cursor \in Nat /\ r.attempts \in Nat /\ run[t] \in RunRecord
        /\ Fits(t, did[t], r, run[t], b, u, o)
        /\ Earned(t, did[t], r.status, r.cursor)
        /\ r.status \notin {"running", "cancelled"} => run[t].at = "none"
  BY DEF TaskFits, Fits, RunFits, RowRecord
\* Any patch of a status that asks nothing of the effects.
<1>2. ASSUME NEW patch, TaskFits(t) => PatchOK(patch) /\ "cursor" \notin DOMAIN patch /\ "status" \in DOMAIN patch,
             TaskFits(t) => patch.status \in {"ready", "failed"},
             run[t].at = "none" \/ r.status \notin {"running", "cancelled"}, r.status \notin {"needs_review", "none"}
      PROVE  Claimed(Patched(patch, r), run[t])
  <2> SUFFICES ASSUME TaskFits(t) PROVE Fits(t, did[t], Patched(patch, r), run[t], b, u, o) OBVIOUS
  <2> DEFINE q == Patched(patch, r)
  <2>1. q \in RowRecord /\ q.status = patch.status /\ q.cursor = r.cursor BY <1>1, <1>2, PatchedIsRow
  <2>2. Earned(t, did[t], q.status, q.cursor) BY <2>1, <1>1, <1>2 DEF Earned
  <2>3. r.cursor <= q.cursor BY <2>1, <1>1
  <2> HIDE DEF q
  <2> QED BY <2>1, <2>2, <2>3, <1>1, <1>2, ClaimFits DEF q
\* A wait is over.
<1>3. ASSUME r.status = "waiting" PROVE Claimed(Patched(GoesOn(r), r), run[t])
  <2> SUFFICES ASSUME TaskFits(t) PROVE Fits(t, did[t], Patched(GoesOn(r), r), run[t], b, u, o) OBVIOUS
  <2> DEFINE q == Patched(GoesOn(r), r)
  <2>1. q \in RowRecord /\ q.status = "ready" /\ q.cursor = r.cursor + 1
    <3>1. PatchOK(GoesOn(r)) /\ DOMAIN GoesOn(r) = {"status", "tries", "cursor"} BY <1>1, PatchesAreOK
    <3>2. GoesOn(r).status = "ready" /\ GoesOn(r).cursor = r.cursor + 1 BY DEF GoesOn
    <3> QED BY <3>1, <3>2, <1>1, PatchedIsRow
  <2>2. Earned(t, did[t], q.status, q.cursor) BY <2>1, <1>1, <1>3 DEF Earned
  <2>3. r.cursor <= q.cursor BY <2>1, <1>1
  <2> HIDE DEF q
  <2> QED BY <2>1, <2>2, <2>3, <1>1, <1>3, ClaimFits DEF q
<1>4. ASSUME NEW q, row' = [row EXCEPT ![t] = q], UNCHANGED <<run, update, beats, orders, did>>, Claimed(q, run[t])
      PROVE  WebInv'
  BY <1>4, RowMoves
<1> HIDE DEF Claimed
<1>5. CASE PromoteDue(t)
  <2>1. /\ r.status \in {"pending", "scheduled"} /\ row' = [row EXCEPT ![t] = Patched(Becomes("ready"), r)]
        /\ UNCHANGED <<run, update, beats, orders, did>>
    BY <1>5 DEF PromoteDue, ClaimsRow, Ticking, webCounts
  <2>2. TaskFits(t) => PatchOK(Becomes("ready")) /\ DOMAIN Becomes("ready") = {"status"} /\ Becomes("ready").status = "ready"
    BY <1>1, PatchesAreOK DEF Live, Becomes
  <2>3. Claimed(Patched(Becomes("ready"), r), run[t]) BY <2>1, <2>2, <1>2
  <2> QED BY <2>1, <2>3, <1>4
<1>6. CASE RecoverExpiredLeases(t)
  <2> DEFINE patch == Recovers(r.attempts + 1)
  <2>1. /\ r.status = "running" /\ run[t].at = "none" /\ row' = [row EXCEPT ![t] = Patched(patch, r)]
        /\ UNCHANGED <<run, update, beats, orders, did>>
    BY <1>6 DEF RecoverExpiredLeases, ClaimsRow, Ticking, webCounts, InFlight
  <2>2. TaskFits(t) => /\ PatchOK(patch) /\ DOMAIN patch = {"status", "attempts"}
                       /\ patch.status \in {"failed", "ready"}
    BY <1>1, PatchesAreOK
  <2> HIDE DEF patch
  <2>3. Claimed(Patched(patch, r), run[t]) BY <2>1, <2>2, <1>2
  <2> QED BY <2>1, <2>3, <1>4
<1>7. CASE ResumeTimedOutWaits(t) \/ ResumeWaitingForEvent(t)
  <2>1. /\ r.status = "waiting" /\ UNCHANGED <<run, update, beats, orders, did>>
        /\ \/ row' = [row EXCEPT ![t] = Patched(GoesOn(r), r)]
           \/ row' = [row EXCEPT ![t] = Patched(Again(Attempted(r)), r)]
           \/ row' = [row EXCEPT ![t] = Patched(Becomes("failed"), r)]
    BY <1>7 DEF ResumeTimedOutWaits, ResumeWaitingForEvent, ClaimsRow, Ticking, webCounts, Waits
  <2>2. CASE row' = [row EXCEPT ![t] = Patched(GoesOn(r), r)] BY <2>1, <2>2, <1>3, <1>4
  <2>3. CASE row' = [row EXCEPT ![t] = Patched(Again(Attempted(r)), r)]
    <3> DEFINE patch == Again(Attempted(r))
    <3>1. TaskFits(t) => PatchOK(patch) /\ DOMAIN patch = {"status", "tries"} /\ patch.status = "ready"
      <4>1. TaskFits(t) => Attempted(r) \in RowRecord BY <1>1, AttemptedIsRow
      <4> QED BY <4>1, PatchesAreOK
    <3> HIDE DEF patch
    <3>2. Claimed(Patched(patch, r), run[t]) BY <2>1, <3>1, <1>2
    <3> QED BY <2>1, <2>3, <3>2, <1>4 DEF patch
  <2>4. CASE row' = [row EXCEPT ![t] = Patched(Becomes("failed"), r)]
    <3>1. TaskFits(t) => PatchOK(Becomes("failed")) /\ DOMAIN Becomes("failed") = {"status"} /\ Becomes("failed").status = "failed"
      BY <1>1, PatchesAreOK DEF Settled, Becomes
    <3>2. Claimed(Patched(Becomes("failed"), r), run[t]) BY <2>1, <3>1, <1>2
    <3> QED BY <2>1, <2>4, <3>2, <1>4
  <2> QED BY <2>1, <2>2, <2>3, <2>4
<1>8. CASE DispatchOne(t)
  <2> DEFINE q == Patched(Becomes("running"), r)
             h == IF InFlight(t) THEN run[t] ELSE [run[t] EXCEPT !.at = "load"]
  <2>1. /\ r.status = "ready" /\ row' = [row EXCEPT ![t] = q] /\ UNCHANGED <<update, beats, orders, did>>
        /\ b = NoUpdate
        /\ IF InFlight(t) THEN run' = run ELSE run' = [run EXCEPT ![t].at = "load"]
    BY <1>8 DEF DispatchOne, ClaimsRow, Ticking, webCounts
  <2>2. run' = [run EXCEPT ![t] = h] \/ (run' = run /\ h = run[t]) BY <2>1
  <2>3. Claimed(q, h)
    <3> SUFFICES ASSUME TaskFits(t) PROVE Fits(t, did[t], q, h, b, u, o) BY DEF Claimed
    <3>1. PatchOK(Becomes("running")) /\ DOMAIN Becomes("running") = {"status"} /\ Becomes("running").status = "running"
      BY <1>1, PatchesAreOK DEF Live, Becomes
    <3>2. q \in RowRecord /\ q.status = "running" /\ q.cursor = r.cursor BY <3>1, <1>1, PatchedIsRow
    <3>3. Earned(t, did[t], q.status, q.cursor) BY <3>2, <2>1, <1>1 DEF Earned
    <3>4. run[t].at = "none" /\ h = [run[t] EXCEPT !.at = "load"] BY <2>1, <1>1 DEF InFlight
    <3>5. h \in RunRecord /\ h.at = "load" BY <3>4, <1>1 DEF RunRecord
    <3>6. r.cursor <= q.cursor BY <3>2, <1>1
    <3> HIDE DEF q, h
    <3> QED BY <3>2, <3>3, <3>4, <3>5, <3>6, <2>1, <1>1, ClaimFits
  <2> HIDE DEF q, h
  <2> QED BY <2>1, <2>2, <2>3, RowMoves DEF Claimed
<1>9. CASE SubmitTask(t)
  <2>1. PICK s \in {"pending", "scheduled"}, verify \in WebVerify[t] :
          row' = [row EXCEPT ![t] = [status |-> s, cursor |-> 1, waitFor |-> "none", attempts |-> 0,
                                     tries |-> [i \in 1 .. StepCount(t) |-> 0],
                                     verify |-> verify, result |-> FALSE]]
    BY <1>9 DEF SubmitTask
  <2>2. r.status = "none" /\ UNCHANGED <<run, update, beats, orders, did>> BY <1>9 DEF SubmitTask, webCounts
  <2> DEFINE q == [status |-> s, cursor |-> 1, waitFor |-> "none", attempts |-> 0,
                   tries |-> [i \in 1 .. StepCount(t) |-> 0], verify |-> verify, result |-> FALSE]
  <2>3. q \in RowRecord /\ q.status = s /\ q.cursor = 1
    <3>1. [i \in 1 .. StepCount(t) |-> 0] \in Seq(Nat) BY CountIsNat
    <3>2. verify \in {"none", "result", "review"} BY WebAssumption
    <3> QED BY <3>1, <3>2 DEF RowRecord, Live, WaitKind
  <2> HIDE DEF q
  <2>4. Claimed(q, run[t])
    <3> SUFFICES ASSUME TaskFits(t) PROVE Fits(t, did[t], q, run[t], b, u, o) BY DEF Claimed
    <3>1. r.cursor = 0 BY <1>1, <2>2 DEF Earned
    <3>2. \A i \in 1 .. StepCount(t) : ~(i < 1) BY CountIsNat
    <3>3. Earned(t, did[t], q.status, q.cursor) BY <2>3, <3>2 DEF Earned, Passed
    <3>4. r.cursor <= q.cursor BY <3>1, <2>3
    <3> QED BY <2>2, <2>3, <3>3, <3>4, <1>1, ClaimFits
  <2> QED BY <2>1, <2>2, <2>4, <1>4 DEF q
<1> QED BY <1>5, <1>6, <1>7, <1>8, <1>9 DEF TickStep

\* One more effect.
LEMMA EffectCounted ==
  ASSUME NEW t \in WebTask, NEW d \in [1 .. StepCount(t) -> Nat], NEW i \in 1 .. StepCount(t)
  PROVE  /\ [d EXCEPT ![i] = @ + 1] \in [1 .. StepCount(t) -> Nat] /\ [d EXCEPT ![i] = @ + 1][i] > 0
         /\ \A n \in 1 .. StepCount(t) : [d EXCEPT ![i] = @ + 1][n] >= d[n]
<1> DEFINE e == [d EXCEPT ![i] = @ + 1]
<1>1. \A n \in 1 .. StepCount(t) : d[n] \in Nat OBVIOUS
<1>2. e \in [1 .. StepCount(t) -> Nat] BY <1>1
<1>3. e[i] = d[i] + 1 OBVIOUS
<1>4. \A n \in 1 .. StepCount(t) : n # i => e[n] = d[n] OBVIOUS
<1> HIDE DEF e
<1>5. e[i] > 0 /\ \A n \in 1 .. StepCount(t) : e[n] >= d[n]
  <2>1. \A n \in 1 .. StepCount(t) : n = i \/ n # i OBVIOUS
  <2> QED BY <2>1, <1>1, <1>3, <1>4
<1> QED BY <1>2, <1>5 DEF e

\* The steps of a run.
LEMMA RunStepMoves ==
  ASSUME WebInv, NEW t \in WebTask, RunStepOf(t)
  PROVE  WebInv'
<1> DEFINE r == row[t]
           g == run[t]
           b == update[<<"beat", t>>]
           u == update[<<"user", t>>]
           o == update[<<"run", t>>]
           w == <<"run", t>>
<1>0. /\ DOMAIN did = WebTask /\ beats \in Nat /\ orders \in Nat BY DEF WebInv
<1>1. TaskFits(t) => Fits(t, did[t], r, g, b, u, o) /\ r \in RowRecord /\ r.cursor \in Nat
  BY DEF TaskFits, Fits, RowRecord
<1>2. ASSUME NEW h, NEW p, UNCHANGED <<row, did, beats, orders>>, run' = [run EXCEPT ![t] = h],
             update' = [update EXCEPT ![w] = p] \/ (update' = update /\ p = o),
             TaskFits(t) => Fits(t, did[t], r, h, b, u, p)
      PROVE  WebInv'
  <2>1. DOMAIN did' = WebTask /\ \A x \in WebTask : x # t => did'[x] = did[x] BY <1>2, <1>0
  <2>2. beats' \in Nat /\ orders' \in Nat /\ beats' >= beats /\ orders' >= orders BY <1>2, <1>0
  <2>3. did' = did /\ row' = row BY <1>2
  <2> QED BY <1>2, <2>1, <2>2, <2>3, TaskMoves
<1>3. ASSUME UNCHANGED <<row, did, beats, orders>>, NextStep(t, r), g.at # "none"
      PROVE  WebInv'
  <2>1. CASE r.cursor <= StepCount(t)
    <3>1. /\ run' = [run EXCEPT ![t] = [at |-> "step", row |-> Attempted(r), outcome |-> "none"]]
          /\ update' = [update EXCEPT ![w] = [at |-> "reads", data |-> Steps(Attempted(r))]]
      BY <1>3, <2>1 DEF NextStep, RunGoes, Asks
    <3>2. TaskFits(t) => Fits(t, did[t], r, [at |-> "step", row |-> Attempted(r), outcome |-> "none"], b, u,
                              [at |-> "reads", data |-> Steps(Attempted(r))])
      BY <1>1, <1>3, <2>1, StepBegins
    <3> QED BY <3>1, <3>2, <1>2, <1>3
  <2>2. CASE ~(r.cursor <= StepCount(t))
    <3>1. /\ run' = [run EXCEPT ![t] = [at |-> "end", row |-> r, outcome |-> "none"]]
          /\ update' = [update EXCEPT ![w] = [at |-> "reads", data |-> Verified(t, r)]]
      BY <1>3, <2>2 DEF NextStep, RunGoes, Asks
    <3>2. TaskFits(t) => Fits(t, did[t], r, [at |-> "end", row |-> r, outcome |-> "none"], b, u,
                              [at |-> "reads", data |-> Verified(t, r)])
      BY <1>1, <1>3, <2>2, Verifies
    <3> QED BY <3>1, <3>2, <1>2, <1>3
  <2> QED BY <2>1, <2>2
<1>4. ASSUME UNCHANGED <<row, did, beats, orders>>, Ends(t), o = NoUpdate
      PROVE  WebInv'
  <2>1. run' = [run EXCEPT ![t] = NoRun] /\ update' = update BY <1>4 DEF Ends
  <2>2. TaskFits(t) => Fits(t, did[t], r, NoRun, b, u, o) BY <1>1, <1>4, RunEnds
  <2> QED BY <2>1, <2>2, <1>2, <1>4
<1>5. CASE RunLoads(t)
  <2>1. UNCHANGED <<row, did, beats, orders>> /\ g.at = "load" /\ o = NoUpdate
    BY <1>5 DEF RunLoads, Runs, webCounts
  <2>2. NextStep(t, r) \/ Ends(t) BY <1>5 DEF RunLoads
  <2> QED BY <2>1, <2>2, <1>3, <1>4
<1>6. CASE RunLoadsAgain(t)
  <2>1. UNCHANGED <<row, did, beats, orders>> /\ g.at = "again" /\ NextStep(t, r)
    BY <1>6 DEF RunLoadsAgain, Runs, webCounts
  <2> QED BY <2>1, <1>3
<1>7. CASE RunOutcome(t)
  <2>1. UNCHANGED <<row, did, beats, orders>> /\ g.at = "outcome" /\ o = NoUpdate
    BY <1>7 DEF RunOutcome, Runs, webCounts
  <2>2. CASE Ends(t) BY <2>1, <2>2, <1>4
  <2>3. CASE ~Ends(t)
    <3> DEFINE h == [at |-> IF g.outcome = "completed" /\ r.cursor <= StepCount(t) THEN "again" ELSE "end",
                     row |-> r, outcome |-> "none"]
               p == [at |-> "reads", data |-> Applied(t, g.outcome)]
    <3>1. run' = [run EXCEPT ![t] = h] /\ update' = [update EXCEPT ![w] = p]
      BY <1>7, <2>3 DEF RunOutcome, RunGoes, Asks
    <3>2. TaskFits(t) => Fits(t, did[t], r, h, b, u, p) BY <1>1, <2>1, OutcomeApplied
    <3> HIDE DEF h, p
    <3> QED BY <3>1, <3>2, <2>1, <1>2
  <2> QED BY <2>2, <2>3
<1>8. CASE RunStep(t)
  <2> DEFINE i == g.row.cursor
  <2>1. /\ UNCHANGED <<row, update, beats, orders>> /\ g.at = "step" /\ o = NoUpdate
    BY <1>8 DEF RunStep, Runs, webCounts
  <2>2. PICK outcome \in StepOutcomes(WebPlan[t][i]) :
          /\ run' = [run EXCEPT ![t] = [at |-> "outcome", row |-> g.row,
                                        outcome |-> IF outcome = "wait" THEN WebPlan[t][i] ELSE outcome]]
          /\ \/ outcome # "completed" /\ did' = did
             \/ outcome \in {"completed", "failed"} /\ did' = [did EXCEPT ![t][i] = @ + 1]
    BY <1>8 DEF RunStep, RunGoes
  <2> DEFINE out == IF outcome = "wait" THEN WebPlan[t][i] ELSE outcome
             h == [at |-> "outcome", row |-> g.row, outcome |-> out]
  <2>3. DOMAIN did' = WebTask /\ \A x \in WebTask : x # t => did'[x] = did[x] BY <2>2, <1>0
  <2>4. TaskFits(t) => Fits(t, did'[t], r, h, b, u, o)
    <3> SUFFICES ASSUME TaskFits(t) PROVE Fits(t, did'[t], r, h, b, u, o) OBVIOUS
    <3>1. i \in 1 .. StepCount(t) /\ did[t] \in [1 .. StepCount(t) -> Nat]
      BY <1>1, <2>1 DEF Fits, RunFits, RunRecord, RowRecord
    <3>2. /\ did'[t] \in [1 .. StepCount(t) -> Nat] /\ \A n \in 1 .. StepCount(t) : did'[t][n] >= did[t][n]
          /\ outcome = "completed" /\ i \in 1 .. StepCount(t) => did'[t][i] > 0
      <4>1. did' = did \/ did'[t] = [did[t] EXCEPT ![i] = @ + 1] BY <2>2, <1>0
      <4>2. outcome = "completed" => did'[t] = [did[t] EXCEPT ![i] = @ + 1] BY <2>2, <1>0
      <4>3. CASE did' = did /\ outcome # "completed"
        <5>1. did'[t] \in [1 .. StepCount(t) -> Nat] BY <4>3, <3>1
        <5>2. \A n \in 1 .. StepCount(t) : did'[t][n] >= did[t][n]
          <6>1. \A n \in 1 .. StepCount(t) : did[t][n] \in Nat BY <3>1
          <6> QED BY <6>1, <4>3
        <5> QED BY <5>1, <5>2, <4>3
      <4>4. CASE did'[t] = [did[t] EXCEPT ![i] = @ + 1] BY <4>4, <3>1, EffectCounted
      <4> QED BY <4>1, <4>2, <4>3, <4>4
    <3>3. /\ out \in {"completed", "failed", "sleep", "event", "review"}
          /\ out \in {"sleep", "event", "review"} => WebPlan[t][i] # "effect"
          /\ out = "completed" => outcome = "completed"
      <4>1. WebPlan[t][i] \in {"effect", "sleep", "event", "tool"}
        <5>1. WebPlan[t] \in Seq({"effect", "sleep", "event", "tool"}) BY WebAssumption
        <5> QED BY <5>1, <3>1 DEF StepCount
      <4>2. outcome \in {"completed", "failed", "wait", "review"} BY <4>1 DEF StepOutcomes
      <4>3. outcome = "wait" => WebPlan[t][i] \in {"sleep", "event"} BY <4>1 DEF StepOutcomes
      <4>4. outcome = "review" => WebPlan[t][i] = "tool" BY <4>1 DEF StepOutcomes
      <4> QED BY <4>2, <4>3, <4>4
    <3> HIDE DEF out, i
    <3>4. Fits(t, did'[t], r, [at |-> "outcome", row |-> g.row, outcome |-> out], b, u, o)
      BY <3>2, <3>3, <1>1, <2>1, StepTaken DEF i
    <3> QED BY <3>4
  <2>5. beats' \in Nat /\ orders' \in Nat /\ beats' >= beats /\ orders' >= orders BY <2>1, <1>0
  <2>6. run' = [run EXCEPT ![t] = h] /\ update' = update /\ row' = row BY <2>1, <2>2
  <2> HIDE DEF h, out
  <2> QED BY <2>3, <2>4, <2>5, <2>6, TaskMoves
<1> QED BY <1>5, <1>6, <1>7, <1>8 DEF RunStepOf

\* A heartbeat asks for nothing but the time, which no property tells apart.
LEMMA BeatComes ==
  ASSUME WebInv, NEW t \in WebTask, HeartbeatInFlight(t)
  PROVE  WebInv'
<1> DEFINE new == [at |-> "reads", data |-> <<>>]
           h == run[t]
<1>1. /\ beats' = beats + 1 /\ update' = [update EXCEPT ![<<"beat", t>>] = new]
      /\ UNCHANGED <<row, run, orders, did>>
  BY DEF HeartbeatInFlight, Asks
<1>2. beats \in Nat /\ orders \in Nat /\ DOMAIN did = WebTask /\ (orders = 0 => update[<<"user", t>>] = NoUpdate)
  BY DEF WebInv
<1>3. /\ beats' \in Nat /\ orders' \in Nat /\ beats' >= beats /\ orders' >= orders /\ beats' # 0
      /\ DOMAIN did' = WebTask /\ \A x \in WebTask : x # t => did'[x] = did[x]
  BY <1>1, <1>2
<1>4. Apart' /\ TaskFits(t) => Fits(t, did[t], row[t], h, new, update[<<"user", t>>], update[<<"run", t>>])
  <2> SUFFICES ASSUME Apart', TaskFits(t)
               PROVE  Fits(t, did[t], row[t], h, new, update[<<"user", t>>], update[<<"run", t>>])
    OBVIOUS
  <2>1. update[<<"user", t>>] = NoUpdate BY <1>1, <1>2, <1>3 DEF Apart
  <2>2. DOMAIN <<>> = {} OBVIOUS
  <2> QED BY <2>1, <2>2, BeatAsks DEF TaskFits
<1>5. did' = did /\ row' = row /\ run' = run BY <1>1
<1> HIDE DEF new, h
<1> QED BY <1>1, <1>3, <1>4, <1>5, TaskMoves DEF h

\* A cancellation and a review.
LEMMA UserOrders ==
  ASSUME WebInv, NEW t \in WebTask, CancelTask(t) \/ \E approved \in BOOLEAN : Review(t, approved)
  PROVE  WebInv'
<1> DEFINE r == row[t]
           h == run[t]
<1>1. PICK patch : /\ update' = [update EXCEPT ![<<"user", t>>] = [at |-> "reads", data |-> patch]]
                   /\ \/ patch = Becomes("cancelled") /\ (r.status \notin Settled \/ r.status = "needs_review")
                      \/ patch = GoesOn(r) /\ r.status = "needs_review"
  BY DEF CancelTask, Review, Asks
<1>2. orders' = orders + 1 /\ UNCHANGED <<row, run, beats, did>>
  BY DEF CancelTask, Review, Orders
<1>3. beats \in Nat /\ orders \in Nat /\ DOMAIN did = WebTask /\ (beats = 0 => update[<<"beat", t>>] = NoUpdate)
  BY DEF WebInv
<1>4. /\ beats' \in Nat /\ orders' \in Nat /\ beats' >= beats /\ orders' >= orders /\ orders' # 0
      /\ DOMAIN did' = WebTask /\ \A x \in WebTask : x # t => did'[x] = did[x]
  BY <1>2, <1>3
<1> DEFINE new == [at |-> "reads", data |-> patch]
<1>5. Apart' /\ TaskFits(t) => Fits(t, did[t], r, h, update[<<"beat", t>>], new, update[<<"run", t>>])
  <2> SUFFICES ASSUME Apart', TaskFits(t)
               PROVE  Fits(t, did[t], r, h, update[<<"beat", t>>], new, update[<<"run", t>>])
    OBVIOUS
  <2>1. update[<<"beat", t>>] = NoUpdate BY <1>2, <1>3, <1>4 DEF Apart
  <2>2. Fits(t, did[t], r, h, update[<<"beat", t>>], update[<<"user", t>>], update[<<"run", t>>])
    BY DEF TaskFits
  <2>3. /\ r \in RowRecord
        /\ r.status # "none" => r.cursor # 0
        /\ r.status = "needs_review" => h.at = "none"
    BY <2>2 DEF Fits, Earned, RunFits
  <2>4. PatchOK(patch) /\ Verdict(r, h, patch)
    <3>1. CASE patch = Becomes("cancelled") /\ (r.status \notin Settled \/ r.status = "needs_review")
      <4>1. PatchOK(patch) /\ DOMAIN patch = {"status"} /\ patch.status = "cancelled"
        BY <3>1, <2>3, PatchesAreOK DEF Settled, Becomes
      <4>2. r.cursor # 0 BY <3>1, <2>3 DEF Settled
      <4> QED BY <4>1, <4>2 DEF Verdict
    <3>2. CASE patch = GoesOn(r) /\ r.status = "needs_review"
      <4>1. PatchOK(patch) /\ DOMAIN patch = {"status", "tries", "cursor"} BY <3>2, <2>3, PatchesAreOK
      <4>2. patch.status = "ready" /\ patch.cursor = r.cursor + 1 BY <3>2 DEF GoesOn
      <4> QED BY <4>1, <4>2, <3>2, <2>3 DEF Verdict
    <3> QED BY <1>1, <3>1, <3>2
  <2> QED BY <2>1, <2>2, <2>4, UserAsks
<1>6. did' = did /\ row' = row /\ run' = run /\ update' = [update EXCEPT ![<<"user", t>>] = new]
  BY <1>1, <1>2
<1> HIDE DEF new, h
<1> QED BY <1>4, <1>5, <1>6, TaskMoves DEF h

\* A reload forgets the runs and the updates.
LEMMA ReloadMoves == ASSUME WebInv, Reload PROVE WebInv'
<1>1. /\ run' = [t \in WebTask |-> NoRun] /\ update' = [w \in Writers |-> NoUpdate]
      /\ UNCHANGED <<row, orders, beats, did>>
  BY DEF Reload
<1>2. \A t \in WebTask : run'[t] = NoRun /\ \A k \in {"run", "beat", "user"} : update'[<<k, t>>] = NoUpdate
  <2>1. \A t \in WebTask, k \in {"run", "beat", "user"} : <<k, t>> \in Writers BY DEF Writers
  <2> QED BY <1>1, <2>1
<1>3. ASSUME NEW t \in WebTask, TaskFits(t) PROVE TaskFits(t)'
  <2>1. Fits(t, did[t], row[t], NoRun, NoUpdate, NoUpdate, NoUpdate) BY <1>3, ReloadFits DEF TaskFits
  <2> QED BY <2>1, <1>1, <1>2 DEF TaskFits
<1>4. DOMAIN run' = WebTask /\ DOMAIN update' = Writers BY <1>1
<1>5. Apart' => \A t \in WebTask : TaskFits(t)'
  <2>1. Apart' => Apart BY <1>1 DEF Apart
  <2> QED BY <2>1, <1>3 DEF WebInv
<1> QED BY <1>1, <1>2, <1>4, <1>5 DEF WebInv

\* Every step keeps the invariant.
LEMMA WebStep == ASSUME WebInv, [WebNext]_webVars PROVE WebInv'
<1>1. CASE \E t \in WebTask : TickStep(t) \/ RunStepOf(t) BY <1>1, TickMoves, RunStepMoves
<1>2. CASE \E w \in Writers : UpdateReads(w) \/ UpdateWrites(w) BY <1>2, UpdatesRead, UpdatesWrite
<1>3. CASE \E t \in WebTask : SubmitTask(t) \/ ResumeWaitingForEvent(t) BY <1>3, TickMoves
<1>4. CASE \E t \in WebTask : HeartbeatInFlight(t) BY <1>4, BeatComes
<1>5. CASE \E t \in WebTask : CancelTask(t) \/ \E approved \in BOOLEAN : Review(t, approved) BY <1>5, UserOrders
<1>6. CASE Reload BY <1>6, ReloadMoves
<1>7. CASE UNCHANGED webVars
  <2>1. row' = row /\ run' = run /\ update' = update /\ did' = did /\ beats' = beats /\ orders' = orders
    BY <1>7 DEF webVars
  <2>2. Apart' => Apart BY <2>1 DEF Apart
  <2>3. \A t \in WebTask : TaskFits(t) => TaskFits(t)' BY <2>1 DEF TaskFits
  <2> QED BY <2>1, <2>2, <2>3 DEF WebInv
<1> QED BY <1>1, <1>2, <1>3, <1>4, <1>5, <1>6, <1>7 DEF WebNext, WebWork

\* Whatever is overwritten, and wherever the page is reloaded, a task of the
\* page completes only when each of its effects took place, unless stale
\* heartbeats meet orders of the user (executor.ts, scheduler.ts, the store).
THEOREM NothingSkipped == WebSpec => []NothingIsSkipped
<1>1. WebInv => NothingIsSkipped
  <2> SUFFICES ASSUME WebInv, Apart, NEW t \in WebTask, NEW i \in 1 .. StepCount(t),
                      row[t].status = "completed", WebPlan[t][i] = "effect"
               PROVE  did[t][i] > 0
    BY DEF NothingIsSkipped, Apart
  <2>1. Passed(t, did[t], StepCount(t) + 1) BY DEF WebInv, TaskFits, Fits, Earned
  <2>2. i < StepCount(t) + 1 BY CountIsNat
  <2> QED BY <2>1, <2>2 DEF Passed
<1> QED BY <1>1, WebInitially, WebStep, PTL DEF WebSpec
=============================================================================
