----------------------------- MODULE ModelSetup -----------------------------
(* Which model a turn talks to and what it may send it.  The settings form *)
(* writes the identity into rows of the settings table and the key into    *)
(* the operating system's keychain, one after the other; a turn reads      *)
(* both, moves a key of an older version over, asks the service what the   *)
(* model can do, or a catalog that remembers for a while, and heeds what   *)
(* services refused lately.                                                *)
EXTENDS Naturals, Sequences, FiniteSets, SequencesExt

CONSTANTS Service,      \* each a provider, its address and its model
          Keyed,        \* services that need a key
          ApiKey,       \* keys the user has
          Asker,        \* threads that run turns
          CatalogTtl,   \* how long a catalog is remembered
          RefusalTtl,   \* how long a refusal is heeded
          MaxForms,     \* forms saved
          MaxSetups,    \* turns begun
          MaxFaults,    \* operations that fail and crashes
          MaxOffers,    \* changes of what a service offers
          MaxClock      \* ticks of the clock

ASSUME SetupAssumption ==
  /\ {CatalogTtl, RefusalTtl, MaxForms, MaxFaults, MaxOffers, MaxClock} \subseteq Nat
  /\ MaxSetups \in Nat \ {0, 1}

VARIABLES rows,       \* the settings table
          keychain,   \* the key in the keychain
          form,       \* the form being saved
          asks,       \* the turn of each thread
          tableLock,  \* who holds the settings' lock
          catalog,    \* what services said, by provider, address and key
          refusals,   \* when a service refused an image, by identity
          offer,      \* what each service offers each key, images or text only
          world       \* the clock, what has been used up, the first key
setupVars == <<rows, keychain, form, asks, tableLock, catalog, refusals, offer, world>>

NoKey == "no key"
Never == [says |-> "never"]
Statements == <<"provider", "base", "name", "vision", "legacy">>
RowsOf(s, v, legacy) == [provider |-> s, base |-> s, name |-> s, vision |-> v, legacy |-> legacy]
NewForm == [at |-> "idle", service |-> "none", vision |-> "auto", key |-> "keep", old |-> NoKey, said |-> "none"]
NewAsk == [at |-> "over", set |-> RowsOf("none", "auto", NoKey), key |-> NoKey, of |-> <<>>,
           says |-> "unknown", since |-> 0, made |-> 0, warned |-> Never, image |-> FALSE, said |-> "none"]
NothingKept == [i \in {} |-> Never]

(* An older version kept the key in the settings table.  What is used up   *)
(* from the start tells three situations apart: forms and faults, forms    *)
(* and changing offers, turns and time.                                    *)
Situations ==
  {[forms |-> 0, faults |-> 0, offers |-> MaxOffers, clock |-> MaxClock, asked |-> MaxSetups - 1],
   [forms |-> 0, faults |-> MaxFaults, offers |-> 0, clock |-> MaxClock, asked |-> MaxSetups - 2],
   [forms |-> MaxForms, faults |-> MaxFaults, offers |-> 0, clock |-> 0, asked |-> 0]}
SetupInit ==
  \E s \in Service, k \in ApiKey \cup {NoKey}, old \in BOOLEAN, u \in Situations :
    /\ u.faults # 0 => ~old /\ k # NoKey /\ s \notin Keyed
    /\ rows = RowsOf(s, "auto", IF old THEN k ELSE NoKey) /\ keychain = IF old THEN NoKey ELSE k
    /\ form = NewForm /\ asks = [t \in Asker |-> NewAsk] /\ tableLock = "free"
    /\ catalog = NothingKept /\ refusals = NothingKept
    /\ offer = [o \in Service \X (ApiKey \cup {NoKey}) |-> "image"]
    /\ world = [forms |-> u.forms, faults |-> u.faults, offers |-> u.offers, clock |-> u.clock,
                asked |-> u.asked, first |-> k, moved |-> old]

May(fails) == world.faults + (IF fails THEN 1 ELSE 0) <= MaxFaults
Spend(fails) == world' = [world EXCEPT !.faults = @ + (IF fails THEN 1 ELSE 0)]
Table == <<rows, tableLock>>
Talk == <<catalog, refusals, offer>>

-----------------------------------------------------------------------------
(* The form: the key that is there is remembered, the new one stored, the  *)
(* rows written; when a row cannot be, the old key comes back.  The page's *)
(* calls come in one by one.                                               *)
OpenForm ==
  /\ form.at = "idle" /\ world.forms < MaxForms
  /\ \E s \in Service, k \in ApiKey \cup {"keep", "clear"}, v \in {"auto", "on", "off"} :
       form' = [NewForm EXCEPT !.at = "old", !.service = s, !.key = k, !.vision = v]
  /\ world' = [world EXCEPT !.forms = @ + 1]
  /\ UNCHANGED <<Table, Talk, keychain, asks>>

ReadOldKey ==
  /\ form.at = "old" /\ UNCHANGED <<Table, Talk, keychain, asks>>
  /\ \E fails \in BOOLEAN :
       /\ May(fails) /\ Spend(fails)
       /\ form' = [form EXCEPT !.at = "key", !.old = IF fails THEN NoKey ELSE keychain,
                               !.said = IF fails THEN "blind" ELSE "none"]

StoreKey ==
  /\ form.at = "key" /\ UNCHANGED <<Table, Talk, asks>>
  /\ \E fails \in BOOLEAN :
       /\ May(fails) /\ Spend(fails) /\ (fails => form.key # "keep")
       /\ IF fails THEN form' = [form EXCEPT !.at = "idle", !.said = "no key stored"] /\ UNCHANGED keychain
            ELSE /\ form' = [form EXCEPT !.at = "rows"]
                 /\ keychain' = CASE form.key = "keep" -> keychain
                                  [] form.key = "clear" -> NoKey [] OTHER -> form.key

(* Each row is a statement of its own: those before the one that fails     *)
(* stay written.                                                           *)
WriteRows ==
  /\ form.at = "rows" /\ tableLock = "free" /\ UNCHANGED <<tableLock, Talk, keychain, asks>>
  /\ \E n \in 0..Len(Statements) :
       LET fails == n < Len(Statements)
           new == RowsOf(form.service, form.vision, NoKey)
           written == ToSet(SubSeq(Statements, 1, n))
       IN  /\ May(fails) /\ Spend(fails)
           /\ rows' = [r \in DOMAIN rows |-> IF r \in written THEN new[r] ELSE rows[r]]
           /\ form' = [form EXCEPT !.at = IF fails THEN "restore" ELSE "idle",
                                   !.said = IF fails THEN @ ELSE "saved"]

RestoreKey ==
  /\ form.at = "restore" /\ UNCHANGED <<Table, Talk, asks>>
  /\ \E fails \in BOOLEAN :
       /\ May(fails) /\ Spend(fails)
       /\ form' = [form EXCEPT !.at = "idle", !.said = IF fails \/ @ = "blind" THEN "failed" ELSE "undone"]
       /\ keychain' = IF fails THEN keychain ELSE IF form.old # NoKey THEN form.old
                      ELSE IF form.key # "keep" THEN NoKey ELSE keychain

-----------------------------------------------------------------------------
(* A turn reads the identity and the key under the settings' lock; a key   *)
(* found only in the table is moved to the keychain before the lock goes.  *)
BeginAsk(t) ==
  /\ asks[t].at = "over" /\ world.asked < MaxSetups
  /\ asks' = [asks EXCEPT ![t] = [NewAsk EXCEPT !.at = "new"]]
  /\ world' = [world EXCEPT !.asked = @ + 1]
  /\ UNCHANGED <<Table, Talk, keychain, form>>

Target(set) == <<set.provider, set.base, set.name>>
Refused(target) == IF target \in DOMAIN refusals THEN refusals[target] ELSE Never
ReadSetup(t) ==
  /\ asks[t].at = "new" /\ tableLock = "free" /\ UNCHANGED <<rows, Talk, keychain, form>>
  /\ \E fails \in BOOLEAN :
       LET moves == (fails \/ keychain = NoKey) /\ rows.legacy # NoKey
           key == IF moves THEN rows.legacy ELSE IF fails THEN NoKey ELSE keychain
       IN  /\ May(fails) /\ Spend(fails)
           /\ asks' = [asks EXCEPT ![t] = [@ EXCEPT !.at = IF moves THEN "move" ELSE "have", !.set = rows,
                                              !.key = key, !.warned = Refused(Target(rows))]]
           /\ tableLock' = IF moves THEN t ELSE "free"

MoveKey(t) ==
  /\ asks[t].at = "move" /\ UNCHANGED <<rows, Talk, form>>
  /\ \E fails \in BOOLEAN :
       /\ May(fails) /\ Spend(fails)
       /\ keychain' = IF fails THEN keychain ELSE asks[t].key
       /\ asks' = [asks EXCEPT ![t] = IF fails THEN NewAsk ELSE [@ EXCEPT !.at = "drop"]]
       /\ tableLock' = IF fails THEN "free" ELSE t

DropOldKey(t) ==
  /\ asks[t].at = "drop" /\ tableLock' = "free" /\ UNCHANGED <<Talk, keychain, form>>
  /\ \E fails \in BOOLEAN :
       /\ May(fails) /\ Spend(fails)
       /\ rows' = IF fails THEN rows ELSE [rows EXCEPT !.legacy = NoKey]
       /\ asks' = [asks EXCEPT ![t] = IF fails THEN NewAsk ELSE [@ EXCEPT !.at = "have"]]

-----------------------------------------------------------------------------
(* What the model can do: remembered, or asked of the service.             *)
Lasts(since, ttl) == world.clock - since <= ttl
Identity(a) == <<a.set.provider, a.set.base, a.key>>
Remembered(a) ==
  IF Identity(a) \in DOMAIN catalog /\ Lasts(catalog[Identity(a)].since, CatalogTtl)
    THEN catalog[Identity(a)] ELSE Never

(* A recent refusal takes the image away, and what the user set by hand    *)
(* wins over both.                                                         *)
Heeded(target) == Refused(target) # Never /\ Lasts(Refused(target).since, RefusalTtl)
Ready(a, entry) ==
  LET told == entry.says = "image" /\ a.set.name = a.set.base /\ ~Heeded(Target(a.set))
  IN  [a EXCEPT !.at = "ready", !.of = entry.of, !.since = entry.since, !.made = world.clock,
                !.image = IF a.set.vision = "auto" THEN told ELSE a.set.vision = "on"]
Unknown == [says |-> "unknown", of |-> <<>>, since |-> 0]

LookUpModel(t) ==
  /\ asks[t].at = "have" /\ UNCHANGED <<Table, Talk, keychain, form, world>>
  /\ LET a == asks[t]
     IN  asks' = [asks EXCEPT ![t] =
                    IF a.key = NoKey /\ a.set.provider \in Keyed THEN NewAsk
                    ELSE IF Remembered(a) # Never THEN Ready(a, Remembered(a))
                    ELSE [a EXCEPT !.at = "fetch"]]

AnswerFetch(t) ==
  /\ asks[t].at = "fetch" /\ UNCHANGED <<Table, Talk, keychain, form>>
  /\ \E fails \in BOOLEAN :
       LET a == asks[t]
           o == <<a.set.base, a.key>>
       IN  /\ May(fails) /\ Spend(fails)
           /\ asks' = [asks EXCEPT ![t] = IF fails THEN Ready(a, Unknown)
                                           ELSE [a EXCEPT !.at = "store", !.says = offer[o], !.of = o]]

(* The answer is kept, what has lapsed is thrown out.                      *)
StoreCatalog(t) ==
  /\ asks[t].at = "store" /\ UNCHANGED <<Table, refusals, offer, keychain, form, world>>
  /\ LET a == asks[t]
         entry == [says |-> a.says, of |-> a.of, since |-> world.clock]
         fresh == {i \in DOMAIN catalog : Lasts(catalog[i].since, CatalogTtl)}
     IN  /\ catalog' = [i \in fresh \cup {Identity(a)} |-> IF i = Identity(a) THEN entry ELSE catalog[i]]
         /\ asks' = [asks EXCEPT ![t] = Ready(a, entry)]

(* The service takes the request, or refuses the image in it: the refusal  *)
(* is noted, the catalog forgotten, and the request sent without.          *)
SendRequestTo(t) ==
  /\ asks[t].at = "ready" /\ UNCHANGED <<Table, Talk, keychain, form, world>>
  /\ LET a == asks[t]
     IN  asks' = [asks EXCEPT ![t] = IF a.image /\ offer[<<a.set.base, a.key>>] = "text"
                                       THEN [a EXCEPT !.at = "refused"] ELSE NewAsk]
NoteRefusal(t) ==
  /\ asks[t].at = "refused" /\ UNCHANGED <<Table, catalog, offer, keychain, form, world>>
  /\ LET i == Target(asks[t].set)
     IN  refusals' = [j \in DOMAIN refusals \cup {i} |->
                        IF j = i THEN [says |-> "refused", since |-> world.clock] ELSE refusals[j]]
  /\ asks' = [asks EXCEPT ![t].at = "forget"]
ForgetCatalog(t) ==
  /\ asks[t].at = "forget" /\ UNCHANGED <<Table, refusals, offer, keychain, form, world>>
  /\ catalog' = [i \in DOMAIN catalog \ {Identity(asks[t])} |-> catalog[i]]
  /\ asks' = [asks EXCEPT ![t] = NewAsk]

-----------------------------------------------------------------------------
(* A service changes what it offers a key; time passes; the process dies   *)
(* and starts again with what the table and the keychain hold.             *)
OfferChanges ==
  /\ world.offers < MaxOffers /\ world' = [world EXCEPT !.offers = @ + 1]
  /\ \E o \in DOMAIN offer : offer' = [offer EXCEPT ![o] = IF @ = "text" THEN "image" ELSE "text"]
  /\ UNCHANGED <<Table, catalog, refusals, keychain, form, asks>>
HoursPass ==
  /\ world.clock < MaxClock /\ world' = [world EXCEPT !.clock = @ + 1]
  /\ UNCHANGED <<Table, Talk, keychain, form, asks>>
Die ==
  /\ May(TRUE) /\ Spend(TRUE) /\ UNCHANGED <<rows, keychain, offer>>
  /\ form' = NewForm /\ asks' = [t \in Asker |-> NewAsk] /\ tableLock' = "free"
  /\ catalog' = NothingKept /\ refusals' = NothingKept

SetupNext ==
  \/ OpenForm \/ ReadOldKey \/ StoreKey \/ WriteRows \/ RestoreKey
  \/ \E t \in Asker :
       \/ BeginAsk(t) \/ ReadSetup(t) \/ MoveKey(t) \/ DropOldKey(t) \/ LookUpModel(t) \/ AnswerFetch(t)
       \/ StoreCatalog(t) \/ SendRequestTo(t) \/ NoteRefusal(t) \/ ForgetCatalog(t)
  \/ OfferChanges \/ HoursPass \/ Die
SetupSpec == SetupInit /\ [][SetupNext]_setupVars

-----------------------------------------------------------------------------
SetupTypeOK ==
  /\ keychain \in ApiKey \cup {NoKey} /\ rows.legacy \in ApiKey \cup {NoKey}
  /\ tableLock \in Asker \cup {"free"} /\ form.at \in {"idle", "old", "key", "rows", "restore"}
  /\ \A t \in Asker : asks[t].at \in {"new", "move", "drop", "have", "fetch", "store", "ready", "refused", "forget", "over"}

(* What a turn takes its model to be able to do was said of that model to  *)
(* the turn's own key, not longer ago than the catalog lasts; and a turn   *)
(* begun after a refusal does not send the image again while the refusal   *)
(* is heeded, though an answer from before it may have been kept after it. *)
ModelIsKnown ==
  \A t \in Asker :
    LET a == asks[t]
    IN  a.at = "ready" /\ a.image /\ a.set.vision = "auto" =>
          /\ a.of = <<a.set.name, a.key>> /\ a.made - a.since <= CatalogTtl
          /\ a.warned # Never => a.made - a.warned.since > RefusalTtl

(* The key of the older version is in one of the two places however the    *)
(* move is cut off; and a form whose rows failed, that saw the old key and *)
(* met no move, leaves the key as it was.                                  *)
KeysAreKept ==
  /\ world.forms = 0 => world.first \in {keychain, rows.legacy}
  /\ form.at = "idle" /\ form.said = "undone" /\ ~world.moved => keychain = form.old
=============================================================================
