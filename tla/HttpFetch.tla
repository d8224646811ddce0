----------------------------- MODULE HttpFetch ------------------------------
(* One HTTP tool call: a chain of requests in which every hop, the first   *)
(* and each redirect's target, is authorized and looked up by itself, and  *)
(* a body that is read in chunks up to a cap.  Servers, which choose the   *)
(* answers, and tickets, which run out, are not the tool's to control.     *)
EXTENDS Naturals, FiniteSets, Sequences

CONSTANTS Url,            \* triples: host and port, scheme, page
          Start,          \* the address the call names
          Method,         \* methods a call may use
          Status,         \* statuses that redirect
          MaxRedirects,   \* redirects that are followed
          Cap, MaxBody    \* bytes accepted, bytes a server may send

VARIABLES web,      \* the call
          reach,    \* the sites tickets cover and the sites that are public
          sent      \* the requests that left the host
webVars == <<web, reach, sent>>

Site(u) == u[1]
SameOrigin(u, v) == u[1] = v[1] /\ u[2] = v[2]
Supported(u) == u[2] \in {"http", "https"}
Bodied == Method \ {"GET", "HEAD"}

WebStarts(methods, secrets, covers) ==
  /\ \E m \in methods, secret \in secrets, body \in BOOLEAN :
       /\ body => m \in Bodied
       /\ web = [at |-> "hop", url |-> Start, method |-> m, secret |-> secret, body |-> body,
                 seen |-> <<Start>>, size |-> 0, got |-> 0, said |-> "none"]
  /\ \E held, public \in covers :
       reach = [held |-> held, granted |-> held, public |-> public]
  /\ sent = <<>>
WebInit == WebStarts(Method, BOOLEAN, SUBSET {Site(u) : u \in Url})

Settle(what) == web' = [web EXCEPT !.at = "over", !.said = what] /\ UNCHANGED <<reach, sent>>
Stands(where) == web' = [web EXCEPT !.at = where]

(* A hop without a ticket for its own host and port ends the call.         *)
HopAllowed(u) == Site(u) \in reach.held
AuthorizeHop ==
  /\ web.at = "hop"
  /\ IF HopAllowed(web.url) THEN Stands("lookup") /\ UNCHANGED <<reach, sent>>
       ELSE Settle(IF Len(web.seen) = 1 THEN "permission" ELSE "redirect_permission")

(* Every address the name resolves to must be public.                      *)
CheckDestination ==
  /\ web.at = "lookup"
  /\ \/ Site(web.url) \in reach.public /\ Stands("send") /\ UNCHANGED <<reach, sent>>
     \/ Settle("denied")

SendRequest ==
  /\ web.at = "send"
  /\ \/ /\ sent' = Append(sent, [url |-> web.url, method |-> web.method, secret |-> web.secret,
                                 body |-> web.body])
        /\ Stands("answer") /\ UNCHANGED reach
     \/ Settle("denied")

(* The last answer, with or without a declared length.                     *)
Final ==
  /\ web.at = "answer"
  /\ \/ Settle("denied") \/ Settle("status")
     \/ \E n \in 0..MaxBody, declared \in BOOLEAN :
          IF declared /\ n > Cap THEN Settle("too_large")
            ELSE web' = [web EXCEPT !.at = "body", !.size = n] /\ UNCHANGED <<reach, sent>>

(* The next hop's method, body and credentials.                            *)
BecomesGet(s, m) == s = 303 \/ (s \in {301, 302} /\ m \notin {"GET", "HEAD"})
KeepsSecret(u, v) == SameOrigin(u, v)
Follow(s, u) ==
  web' = [web EXCEPT !.at = "hop", !.url = u, !.seen = Append(@, u),
            !.method = IF BecomesGet(s, @) THEN "GET" ELSE @,
            !.body = @ /\ ~BecomesGet(s, web.method),
            !.secret = @ /\ KeepsSecret(web.url, u)]
Redirect(s, u) ==
  /\ web.at = "answer"
  /\ IF Len(web.seen) > MaxRedirects \/ u \in {web.seen[i] : i \in DOMAIN web.seen}
       THEN Settle("redirects")
       ELSE IF ~Supported(u) THEN Settle("invalid")
              ELSE Follow(s, u) /\ UNCHANGED <<reach, sent>>

TakeChunk(n) ==
  /\ web.at = "body" /\ web.got + n <= web.size
  /\ IF web.got + n > Cap THEN Settle("too_large")
       ELSE web' = [web EXCEPT !.got = @ + n] /\ UNCHANGED <<reach, sent>>
BodyEnds == web.at = "body" /\ ((web.got = web.size /\ Settle("ok")) \/ Settle("denied"))

TicketsLapse ==
  /\ web.at # "over" /\ reach.held # {}
  /\ reach' = [reach EXCEPT !.held = {}] /\ UNCHANGED <<web, sent>>

WebNext ==
  \/ AuthorizeHop \/ CheckDestination \/ SendRequest \/ Final \/ BodyEnds \/ TicketsLapse
  \/ \E s \in Status, u \in Url : Redirect(s, u)
  \/ \E n \in 1..MaxBody : TakeChunk(n)
WebSpec == WebInit /\ [][WebNext]_webVars

-----------------------------------------------------------------------------
WebTypeOK ==
  /\ web.at \in {"hop", "lookup", "send", "answer", "body", "over"}
  /\ web.url \in Url /\ web.method \in Method /\ web.secret \in BOOLEAN /\ web.body \in BOOLEAN
  /\ web.seen \in Seq(Url) /\ web.size \in 0..MaxBody /\ web.got \in 0..MaxBody
  /\ reach.held \subseteq reach.granted /\ Len(sent) <= Len(web.seen)

(* However the servers redirect: a request goes only where a ticket and    *)
(* the lookup allow, no address is asked twice, credentials never reach    *)
(* another origin than the one the call named, not even after a detour, a  *)
(* method is only ever replaced by GET, a body travels only with the       *)
(* method it was given for, and an answer that is called good is whole.    *)
FetchStaysGranted ==
  /\ \A i \in DOMAIN sent :
       /\ Site(sent[i].url) \in reach.granted \cap reach.public
       /\ sent[i].secret => \A j \in 1..i : SameOrigin(sent[j].url, Start)
       /\ sent[i].method \in {sent[1].method, "GET"}
       /\ sent[i].body => sent[i].method = sent[1].method
  /\ \A i, j \in DOMAIN sent : sent[i].url = sent[j].url => i = j
  /\ Len(sent) <= MaxRedirects + 1
  /\ web.said = "ok" => web.got = web.size /\ web.got <= Cap
=============================================================================
