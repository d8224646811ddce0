----------------------------- MODULE ModelStream -----------------------------
(***************************************************************************)
(* One model turn on the wire: the agent core's retries of a provider that *)
(* is busy (agent-core), the adapter's one retry without a medium that the *)
(* provider refuses, the answer's server-sent lines as they come in chunks *)
(* cut anywhere, the watchdog on the bytes, and the assembly of the lines  *)
(* into text deltas and whole tool calls (model-openai-compatible: the     *)
(* OpenAI-compatible and the Anthropic adapter).                           *)
(*                                                                         *)
(* A line carries one thing: a piece of text, the name of the tool call    *)
(* with an index, a piece of a call's arguments, the reason for finishing, *)
(* the end.  Lines that carry nothing are left out, except that any bytes  *)
(* restart the watchdog.                                                   *)
(***************************************************************************)
EXTENDS Naturals, Sequences, FiniteSets, SequencesExt

CONSTANTS
  Media,            \* kinds of media the catalog says the model takes
  Index,            \* indices of tool calls in a response
  MaxRetries,       \* max_provider_retries
  MaxEvents,        \* max_stream_events
  MaxText,          \* max_output_bytes, in pieces of text
  StallAfter,       \* stream_stall_timeout
  MaxLines          \* bound on the lines of one response

ASSUME StreamAssumption ==
  /\ Index \subseteq Nat /\ IsFiniteSet(Index) /\ IsFiniteSet(Media)
  /\ MaxRetries \in Nat /\ MaxEvents \in Nat \ {0} /\ MaxText \in Nat
  /\ StallAfter \in Nat \ {0} /\ MaxLines \in Nat

Adapter == {"openai", "anthropic"}
Line == [kind : {"text", "reason", "stop"}] \cup [kind : {"name", "args"}, at : Index]
NoLine == [kind |-> "none"]

VARIABLES
  adapter,      \* which adapter the turn uses
  request,      \* where the turn is, and the caps of the request in progress
  assembler,    \* the assembler, the buffer of an unfinished line, the watchdog
  turn,         \* the locals and the result of stream_turn_once
  posts,        \* caps and media of every request of this attempt (history)
  lines,        \* the whole lines of this response (history)
  said          \* the text deltas the listener got, each with its attempt (history)

streamVars == <<adapter, request, assembler, turn, posts, lines, said>>

NewAssembler == [queued |-> <<>>, tools |-> [i \in Index |-> [named |-> FALSE, parts |-> 0]],
                 reason |-> FALSE, done |-> FALSE, finished |-> FALSE,
                 texts |-> 0, buffer |-> NoLine, idle |-> 0]
NewTurn == [text |-> <<>>, calls |-> <<>>, events |-> 0, truncated |-> FALSE]

StreamTypeOK ==
  /\ adapter \in Adapter
  /\ request.phase \in {"post", "stream", "answered", "failed"}
  /\ request.attempt \in 0 .. MaxRetries /\ request.caps \subseteq Media
  /\ assembler.buffer \in Line \cup {NoLine} /\ assembler.idle \in 0 .. StallAfter
  /\ turn.events <= MaxEvents /\ Len(turn.text) <= MaxText
  /\ lines \in Seq(Line) /\ Len(lines) <= MaxLines

StreamInit ==
  /\ adapter \in Adapter
  /\ request = [phase |-> "post", attempt |-> 0, caps |-> Media, again |-> FALSE]
  /\ assembler = NewAssembler /\ turn = NewTurn
  /\ posts = <<>> /\ lines = <<>> /\ said = <<>>

-----------------------------------------------------------------------------
(* The turn fails for good.                                                *)
Fatal == request' = [request EXCEPT !.phase = "failed"]

(* A busy provider (429, 408, 5xx) is asked again, with what it was asked  *)
(* first: nothing has been said or done yet.                               *)
MayRetry == request.attempt < MaxRetries
Retry == request' = [phase |-> "post", attempt |-> request.attempt + 1,
                     caps |-> Media, again |-> FALSE]

(* The body: of the media that the caps allow, only images go on the wire, *)
(* everything else is told in words.  An image's artifact may be gone or   *)
(* too big, which ends the turn before the request is made.                *)
OpenAIInline == {"image"}
AnthropicInline == {"image"}
Sent(caps) == caps \cap (IF adapter = "openai" THEN OpenAIInline ELSE AnthropicInline)
Posted == posts' = Append(posts, [caps |-> request.caps, media |-> Sent(request.caps)])
BodyFails ==
  /\ request.phase = "post" /\ Sent(request.caps) # {}
  /\ Fatal
  /\ UNCHANGED <<adapter, assembler, turn, posts, lines, said>>

(* No answer in time, a refusal, an answer that is no stream.              *)
PostFails ==
  /\ request.phase = "post"
  /\ Fatal /\ Posted
  /\ UNCHANGED <<adapter, assembler, turn, lines, said>>

PostBusy ==
  /\ request.phase = "post"
  /\ IF MayRetry THEN Retry /\ posts' = <<>> ELSE Fatal /\ Posted
  /\ UNCHANGED <<adapter, assembler, turn, lines, said>>

(* A refusal that names a medium the request may hold is answered with one *)
(* request without it.                                                     *)
Without(m) == [request EXCEPT !.caps = @ \ {m}, !.again = TRUE]
PostRefused ==
  /\ request.phase = "post"
  /\ \E m \in Media :
       IF m \in request.caps /\ ~request.again THEN request' = Without(m) ELSE Fatal
  /\ Posted
  /\ UNCHANGED <<adapter, assembler, turn, lines, said>>

PostAccepted ==
  /\ request.phase = "post"
  /\ request' = [request EXCEPT !.phase = "stream"]
  /\ assembler' = NewAssembler /\ turn' = NewTurn /\ lines' = <<>>
  /\ Posted
  /\ UNCHANGED <<adapter, said>>

-----------------------------------------------------------------------------
Call(i, a) == [kind |-> "call", at |-> i, parts |-> a.tools[i].parts]
NamedCalls(a) ==
  LET named == SetToSortSeq({i \in Index : a.tools[i].named}, <)
  IN [k \in DOMAIN named |-> Call(named[k], a)]

(* The end of a response: the calls, whole and in the order of their       *)
(* indices, then the end.  What comes after it is not looked at.           *)
Finish(a) ==
  IF a.done THEN a
    ELSE [a EXCEPT !.done = TRUE,
                   !.queued = @ \o NamedCalls(a) \o <<[kind |-> "done"]>>,
                   !.tools = NewAssembler.tools]

(* One line.  A named call may get its arguments before its name.  With    *)
(* the OpenAI-compatible adapter the reason is the end.                    *)
FeedLine(a, line) ==
  IF a.done THEN a
    ELSE CASE line.kind = "text" ->
                [a EXCEPT !.texts = @ + 1,
                          !.queued = Append(@, [kind |-> "text", at |-> a.texts + 1])]
           [] line.kind = "name" -> [a EXCEPT !.tools[line.at].named = TRUE]
           [] line.kind = "args" -> [a EXCEPT !.tools[line.at].parts = @ + 1]
           [] line.kind = "reason" ->
                IF adapter = "openai" THEN Finish([a EXCEPT !.reason = TRUE])
                  ELSE [a EXCEPT !.reason = TRUE]
           [] line.kind = "stop" -> Finish(a)

(* The turn polls for the next event: the queue first, the bytes when it   *)
(* is empty.                                                               *)
Polls == request.phase = "stream" /\ assembler.queued = <<>> /\ ~assembler.finished

(* The whole lines that a chunk completes, the one begun before it first.  *)
Completed(whole) == (IF assembler.buffer = NoLine THEN <<>> ELSE <<assembler.buffer>>) \o whole
ReadChunk(whole, rest) ==
  /\ Polls
  /\ Len(lines) + Len(Completed(whole)) + (IF rest = NoLine THEN 0 ELSE 1) <= MaxLines
  /\ assembler' = FoldLeft(FeedLine, [assembler EXCEPT !.buffer = rest, !.idle = 0],
                           Completed(whole))
  /\ lines' = IF assembler.buffer = NoLine THEN lines \o whole
                ELSE Append(lines, assembler.buffer) \o whole
  /\ UNCHANGED <<adapter, request, turn, posts, said>>

(* Bytes that complete no line: a comment, more of the same line.          *)
ReadBytes ==
  /\ Polls /\ assembler.idle > 0
  /\ assembler' = [assembler EXCEPT !.idle = 0]
  /\ UNCHANGED <<adapter, request, turn, posts, lines, said>>

(* The chunk ends inside a character: every chunk must be text by itself.  *)
ReadTorn ==
  /\ Polls /\ Fatal
  /\ UNCHANGED <<adapter, assembler, turn, posts, lines, said>>

(* The bytes end, cleanly or not; a line without its end is dropped.       *)
ReadEnd ==
  /\ Polls
  /\ assembler' = Finish([assembler EXCEPT !.finished = TRUE])
  /\ UNCHANGED <<adapter, request, turn, posts, lines, said>>
ReadErrorAgain ==
  /\ Polls /\ MayRetry /\ Retry
  /\ UNCHANGED <<adapter, assembler, turn, posts, lines, said>>
ReadError ==
  /\ Polls /\ Fatal
  /\ UNCHANGED <<adapter, assembler, turn, posts, lines, said>>

(* Time passes without a byte; then the watchdog ends the turn.            *)
Silence ==
  /\ Polls /\ assembler.idle < StallAfter
  /\ assembler' = [assembler EXCEPT !.idle = @ + 1]
  /\ UNCHANGED <<adapter, request, turn, posts, lines, said>>
Stalled ==
  /\ Polls /\ assembler.idle = StallAfter /\ Fatal
  /\ UNCHANGED <<adapter, assembler, turn, posts, lines, said>>

-----------------------------------------------------------------------------
(* The turn takes the next event: too many of them fail it, too much text  *)
(* ends it, a delta goes to the listener at once, a call waits.            *)
Answered(t) == turn' = t /\ request' = [request EXCEPT !.phase = "answered"]
Goes(t) == turn' = t /\ UNCHANGED request
TakeEvent ==
  /\ request.phase = "stream" /\ assembler.queued # <<>>
  /\ LET event == Head(assembler.queued)
         t == [turn EXCEPT !.events = @ + 1]
     IN IF turn.events = MaxEvents THEN Fatal /\ UNCHANGED <<turn, said>>
          ELSE \/ /\ event.kind = "text" /\ Len(turn.text) < MaxText
                  /\ Goes([t EXCEPT !.text = Append(@, event.at)])
                  /\ said' = Append(said, [attempt |-> request.attempt, at |-> event.at])
               \/ /\ event.kind = "text" /\ Len(turn.text) = MaxText
                  /\ Answered([t EXCEPT !.truncated = TRUE]) /\ UNCHANGED said
               \/ /\ event.kind = "call"
                  /\ Goes([t EXCEPT !.calls = Append(@, event)]) /\ UNCHANGED said
               \/ /\ event.kind = "done"
                  /\ Answered(t) /\ UNCHANGED said
  /\ assembler' = [assembler EXCEPT !.queued = Tail(@)]
  /\ UNCHANGED <<adapter, posts, lines>>

StreamNext ==
  \/ BodyFails \/ PostFails \/ PostBusy \/ PostRefused \/ PostAccepted
  \/ /\ Polls
     /\ \E n \in 0 .. 2 :
          /\ Len(lines) + n <= MaxLines
          /\ \E whole \in [1 .. n -> Line], rest \in Line \cup {NoLine} :
               Completed(whole) # <<>> /\ ReadChunk(whole, rest)
  \/ Polls /\ assembler.buffer = NoLine /\ \E rest \in Line : ReadChunk(<<>>, rest)
  \/ ReadBytes \/ ReadTorn \/ ReadEnd \/ ReadError \/ Silence \/ Stalled
  \/ TakeEvent

StreamSpec == StreamInit /\ [][StreamNext]_streamVars

-----------------------------------------------------------------------------
(* What the user reads is one response: the deltas are its first pieces,   *)
(* in order, none of them twice, whatever was retried, and the answer the  *)
(* turn returns is what was read.                                          *)
TextIsSaidOnce ==
  /\ \A k \in DOMAIN said : said[k] = [attempt |-> request.attempt, at |-> k]
  /\ Len(said) = Len(turn.text)

(* A medium that was refused is not sent again in the same attempt, and no *)
(* attempt makes more than two requests.                                   *)
RefusedMediaStayOut ==
  /\ Len(posts) <= 2
  /\ Len(posts) = 2 =>
       /\ posts[2].caps # posts[1].caps /\ posts[2].caps \subseteq posts[1].caps
       /\ posts[2].media \subseteq posts[1].media

(* The lines up to the one that ends the response, for each adapter.       *)
Ends(k) == lines[k].kind \in (IF adapter = "openai" THEN {"reason", "stop"} ELSE {"stop"})
Heard == {k \in DOMAIN lines : \A j \in 1 .. k - 1 : ~Ends(j)}
CallsOf(ks) == {lines[k].at : k \in {j \in ks : lines[j].kind = "name"}}
PartsOf(i, ks) == Cardinality({k \in ks : lines[k].kind = "args" /\ lines[k].at = i})

(* A turn that got its answer runs exactly the calls that the response     *)
(* named, once each, in the order of their indices and with every piece of *)
(* their arguments, however the chunks were cut; a turn whose text was cut *)
(* off, and one that failed, runs none.                                    *)
CallsAreWhole ==
  request.phase = "answered" =>
    IF turn.truncated THEN turn.calls = <<>>
      ELSE /\ {turn.calls[k].at : k \in DOMAIN turn.calls} = CallsOf(Heard)
           /\ \A k \in DOMAIN turn.calls :
                /\ turn.calls[k].parts = PartsOf(turn.calls[k].at, Heard)
                /\ \A j \in 1 .. k - 1 : turn.calls[j].at < turn.calls[k].at

(* TurnsAreHeard: what a turn says and does is what one response said,     *)
(* through busy providers, refused media, retries and cut chunks.          *)
TurnsAreHeard == TextIsSaidOnce /\ RefusedMediaStayOut /\ CallsAreWhole
=============================================================================
