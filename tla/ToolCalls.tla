----------------------------- MODULE ToolCalls ------------------------------
(* One call of a tool, from the question what it needs to its answer.  In  *)
(* a model's turn the host asks the tool beforehand, has every requirement *)
(* granted, mints a ticket for each and invokes it.  A step of a durable   *)
(* task is invoked first, and what it was refused for is put to a review,  *)
(* which gives the step one ticket and lets it try again.  Meanwhile links *)
(* move, capture sessions come and go, and tickets run out.                *)
EXTENDS BrowserCalls, DesktopCalls, FileCalls, HostCalls

CONSTANTS MaxMoves,     \* changes of the world during a call
          MaxReviews    \* reviews of one step

ASSUME CallsAssumption ==
  /\ MaxMoves \in Nat /\ MaxReviews \in Nat \ {0}
  /\ None \notin {"ok", "invalid", "denied", "permission", "out_of_bounds", "failed"}

VARIABLES call,         \* the tool, who calls it and the arguments
          at, open,     \* the world: where names lead, open sessions
          moves,
          phase,
          asked,        \* requirements put to the user
          allowed,      \* requirements the user agreed to
          tickets,      \* tickets the invocation holds
          todo,         \* steps of the invocation still to take
          touched,      \* alternatives under which something was touched
          result, lapsed, reviews
callVars == <<call, at, open, moves, phase, asked, allowed, tickets, todo, touched,
              result, lapsed, reviews>>

ToolId == BrowserTool \cup DesktopTool \cup FileTool \cup HostTool
Described(t, v) ==
  CASE t \in BrowserTool -> BrowserCall(t, v)
    [] t \in DesktopTool -> DesktopCall(t, v)
    [] t \in FileTool -> FileCall(t, v)
    [] t \in HostTool -> HostCall(t, v)

View == [one |-> call.one, two |-> call.two, image |-> call.image, args |-> call.args,
         at |-> at, open |-> open]
Now == Described(call.tool, View)

(* Names that are looked up, and tools that look at the open sessions.     *)
Resolving == {"process.spawn", "filesystem.list", "filesystem.stat", "filesystem.read",
              "filesystem.read_range", "filesystem.search_text", "filesystem.glob",
              "filesystem.patch", "filesystem.write"}
Watching == {"desktop.observe", "audio.capture_status", "audio.capture_stop",
             "camera.capture_frame", "camera.capture_stop"}
Paired == {"browser.open", "browser.navigate", "desktop.observe", "archive.extract",
           "archive.create", "http.get"}
Optional == {"desktop.observe", "filesystem.write"}

First == CHOOSE s \in Subject : TRUE
Links == {f \in [Subject -> Subject] : \A s \in Subject : f[f[s]] = f[s]}
CallArguments ==
  {c \in [tool : ToolId, route : {"turn", "task"}, one : {First, None, Wrong},
          two : Subject \cup {None, Wrong}, image : BOOLEAN, args : BOOLEAN] :
     /\ c.two # None => c.tool \in Paired
     /\ c.image => c.tool \in Optional}

CallsInit ==
  /\ call \in CallArguments
  /\ at \in Links /\ (call.tool \notin Resolving => \A s \in Subject : at[s] = s)
  /\ open \in SUBSET Subject /\ (call.tool \notin Watching => open = {})
  /\ moves = 0 /\ phase = "new" /\ asked = {} /\ allowed = {} /\ tickets = {} /\ todo = <<>>
  /\ touched = {} /\ result = None /\ lapsed = FALSE /\ reviews = 0

Answers(a) == phase' = "done" /\ result' = a

(* The turn asks the tool for all its requirements and the user for each.  *)
AskNeeds ==
  /\ phase = "new" /\ call.route = "turn"
  /\ asked' = Now.asks /\ phase' = "asked"
  /\ UNCHANGED <<call, at, open, moves, allowed, tickets, todo, touched, result, lapsed, reviews>>
UserAgrees ==
  /\ phase = "asked" /\ phase' = "agreed" /\ allowed' = asked
  /\ UNCHANGED <<call, at, open, moves, asked, tickets, todo, touched, result, lapsed, reviews>>
UserRefuses ==
  /\ phase = "asked" /\ asked # {} /\ Answers("denied")
  /\ UNCHANGED <<call, at, open, moves, asked, allowed, tickets, todo, touched, lapsed, reviews>>

(* The grants are used up one by one; one that was revoked in between ends *)
(* the call.  Otherwise there is a ticket for each requirement.            *)
Execute ==
  /\ phase = "agreed"
  /\ \/ tickets' = asked /\ todo' = Now.does /\ phase' = "running" /\ UNCHANGED result
     \/ asked # {} /\ Answers("denied") /\ UNCHANGED <<tickets, todo>>
  /\ UNCHANGED <<call, at, open, moves, asked, allowed, touched, lapsed, reviews>>

(* A task's step is invoked with the ticket its review left, if any.       *)
RunStep ==
  /\ phase = "new" /\ call.route = "task"
  /\ todo' = Now.does /\ phase' = "running"
  /\ UNCHANGED <<call, at, open, moves, asked, allowed, tickets, touched, result, lapsed, reviews>>

(* A refusal parks the step with the one requirement a review is about.    *)
PutToReview == call.route = "task" /\ reviews < MaxReviews
Refused ==
  IF PutToReview
    THEN phase' = "review" /\ asked' = Now.single /\ tickets' = {} /\ UNCHANGED result
    ELSE Answers("permission") /\ UNCHANGED <<asked, tickets>>
GrantReview ==
  /\ phase = "review" /\ phase' = "new" /\ reviews' = reviews + 1
  /\ tickets' = asked /\ allowed' = allowed \cup asked /\ lapsed' = FALSE
  /\ UNCHANGED <<call, at, open, moves, asked, todo, touched, result>>
DenyReview ==
  /\ phase = "review" /\ Answers("denied")
  /\ UNCHANGED <<call, at, open, moves, asked, allowed, tickets, todo, touched, lapsed, reviews>>

(* One step of the invocation.                                             *)
Passes(s) == s.ok /\ (s.do = "ticket" => s.needs \cap tickets # {})
Does(s) ==
  \/ /\ Passes(s) /\ todo' = Tail(todo)
     /\ touched' = IF s.do = "effect" THEN touched \cup {s.needs} ELSE touched
     /\ IF Len(todo) = 1 THEN Answers("ok") ELSE UNCHANGED <<phase, result>>
     /\ UNCHANGED <<asked, tickets>>
  \/ /\ \/ s.do = "check" /\ ~s.ok /\ Answers("invalid")
        \/ s.do = "gate" /\ Answers("out_of_bounds")
        \/ s.do = "effect" /\ Answers("failed")
     /\ UNCHANGED <<todo, touched, asked, tickets>>
  \/ /\ s.do \in {"bar", "ticket"} /\ ~Passes(s) /\ Refused
     /\ todo' = <<>> /\ UNCHANGED touched
TakeStep ==
  /\ phase = "running" /\ Does(Head(todo))
  /\ UNCHANGED <<call, at, open, moves, allowed, lapsed, reviews>>

(* The world moves while the call is under way.                            *)
Move ==
  /\ phase \in {"asked", "agreed", "review", "new"} /\ moves < MaxMoves /\ moves' = moves + 1
  /\ \/ call.tool \in Resolving /\ at' \in Links \ {at} /\ UNCHANGED open
     \/ call.tool \in Watching /\ open' \in (SUBSET Subject) \ {open} /\ UNCHANGED at
  /\ UNCHANGED <<call, phase, asked, allowed, tickets, todo, touched, result, lapsed, reviews>>
Lapse ==
  /\ phase \in {"running", "new"} /\ tickets # {} /\ tickets' = {} /\ lapsed' = TRUE
  /\ UNCHANGED <<call, at, open, moves, phase, asked, allowed, todo, touched, result, reviews>>

CallsNext ==
  AskNeeds \/ UserAgrees \/ UserRefuses \/ Execute \/ RunStep \/ GrantReview \/ DenyReview \/ TakeStep
    \/ Move \/ Lapse
CallsSpec == CallsInit /\ [][CallsNext]_callVars

-----------------------------------------------------------------------------
CallsTypeOK ==
  /\ call \in CallArguments /\ at \in Links /\ open \subseteq Subject /\ moves \in 0..MaxMoves
  /\ phase \in {"new", "asked", "agreed", "running", "review", "done"}
  /\ tickets \subseteq asked /\ tickets \subseteq allowed
  /\ result \in {None, "ok", "invalid", "denied", "permission", "out_of_bounds", "failed"}
  /\ (result # None) <=> (phase = "done")
  /\ lapsed \in BOOLEAN /\ reviews \in 0..MaxReviews

(* Tools that meet a requirement only on their way: the remote named in a  *)
(* repository's configuration, the target of a redirect, and the device a  *)
(* session was opened on.                                                  *)
FindsOut == {"git.fetch", "http.get"}
SessionTools == {"audio.capture_status", "audio.capture_stop", "camera.capture_frame",
                 "camera.capture_stop"}

(* What was agreed to is enough: a tool all of whose requirements the user *)
(* granted is not refused for want of a ticket, unless a ticket ran out, a *)
(* name it looks up led elsewhere in between, it wrote through a link, it  *)
(* is one that meets a requirement on its way, or it was a task's step     *)
(* with more than one requirement, of which a review grants one.           *)
GrantSuffices ==
  result = "permission" =>
    \/ lapsed
    \/ call.tool \in Resolving /\ (moves > 0 \/ call.tool = "filesystem.write")
    \/ call.tool \in FindsOut \cup SessionTools
    \/ call.route = "task" /\ Cardinality(Now.asks) > 1

(* Nothing is touched that the user did not agree to, whatever moved       *)
(* between the question and the invocation.                                *)
EffectsAreAsked == \A ways \in touched : ways = {} \/ ways \cap allowed # {}
=============================================================================
