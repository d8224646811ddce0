------------------------------ MODULE CallTerms ------------------------------
(* The words in which a tool that answers in one call is described: what   *)
(* it says it needs when the host asks beforehand, and what it does, in    *)
(* its order, when it is invoked.  A call is seen by the tool as a record  *)
(*   one, two   the things the arguments name (None: left out, Wrong: of a *)
(*              form the tool refuses)                                     *)
(*   image      whether a picture, or missing parents, were asked for too  *)
(*   args       whether the remaining arguments are well formed            *)
(*   at         where each name leads at this moment                       *)
(*   open       the capture sessions open at this moment                   *)
EXTENDS Naturals, Sequences, FiniteSets

CONSTANTS Subject,      \* what arguments name: paths, tabs, windows, devices
          None, Wrong

ASSUME NamesDiffer == None \notin Subject /\ Wrong \notin Subject /\ None # Wrong

(* A capability on a resource.                                             *)
Need(cap, kind, id) == [cap |-> cap, kind |-> kind, id |-> id]

Present(x) == x \notin {None, Wrong}
Fits(x) == x # Wrong
When(cond, needs) == IF cond THEN needs ELSE {}

(* The steps of an invocation.                                             *)
Valid(ok)      == <<[do |-> "check", ok |-> ok, needs |-> {}]>>
Stoppable      == <<[do |-> "gate", ok |-> TRUE, needs |-> {}]>>
InScope(named) == IF named THEN Stoppable ELSE <<>>
Barred(never)  == <<[do |-> "bar", ok |-> ~never, needs |-> {}]>>
Holds(needs)   == <<[do |-> "ticket", ok |-> TRUE, needs |-> needs]>>
Touches(needs) == <<[do |-> "effect", ok |-> TRUE, needs |-> needs]>>
Acts           == Touches({})

(* A tool: what it asks for as a whole, the one requirement a review of a  *)
(* task's step is about, and its steps.                                    *)
Tool(asks, does) == [asks |-> asks, single |-> asks, does |-> does]
Compound(asks, single, does) == [asks |-> asks, single |-> single, does |-> does]

(* The usual tool: one requirement, asked for when the name it is made of  *)
(* is in order, and the same ticket demanded before the effect.            *)
Guarded(named, n, before, after) ==
  Tool(When(named, {n}), Valid(named) \o before \o Holds({n}) \o after \o Touches({n}))
Plain(named, n) == Guarded(named, n, <<>>, <<>>)
Unguarded(before) == Tool({}, before \o Acts)
=============================================================================
