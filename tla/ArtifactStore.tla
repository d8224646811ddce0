---------------------------- MODULE ArtifactStore ----------------------------
(***************************************************************************)
(* The expiring in-memory store of artifacts (artifact-core): every        *)
(* operation runs under one lock, first sweeps what has expired, and keeps *)
(* the count of bytes by hand; nobody sweeps in between.  A session's tool *)
(* can put an artifact after the session was stopped: it was on the way.   *)
(***************************************************************************)
EXTENDS Naturals, FiniteSets, FiniteSetsExt

CONSTANTS
  Artifact,          \* ids, one for every put
  Size, Ttl, Owner,  \* sizes, times to live by source, sessions
  MaxArtifacts, MaxBytes, MaxArtifactBytes,
  MaxTime            \* bound on the clock

ASSUME StoreAssumption ==
  /\ Size \subseteq Nat /\ Ttl \subseteq Nat \ {0} /\ MaxTime \in Nat
  /\ MaxArtifacts \in Nat \ {0} /\ MaxBytes \in Nat \ {0}
  /\ MaxArtifactBytes \in 1 .. MaxBytes

Unowned == "no session"

VARIABLES
  now,       \* the clock
  artifacts, \* the stored artifacts, with size, expiry and owner
  bytes,     \* the store's own count of their bytes
  given      \* ids that were given out; they are fresh

storeVars == <<now, artifacts, bytes, given>>

ArtifactType == [id : Artifact, size : Size, expires : 0 .. MaxTime + Max(Ttl \cup {0}),
                 owner : Owner \cup {Unowned}]
SizeOf(set) == MapThenSumSet(LAMBDA a : a.size, set)

StoreTypeOK ==
  /\ now \in 0 .. MaxTime /\ artifacts \subseteq ArtifactType
  /\ \A a, b \in artifacts : a.id = b.id => a = b
  /\ bytes \in 0 .. MaxBytes /\ Cardinality(artifacts) <= MaxArtifacts
  /\ given \subseteq Artifact /\ {a.id : a \in artifacts} \subseteq given

StoreInit ==
  /\ now = 0 /\ artifacts = {} /\ bytes = 0 /\ given = {}

-----------------------------------------------------------------------------
Ticks ==
  /\ now < MaxTime /\ now' = now + 1
  /\ UNCHANGED <<artifacts, bytes, given>>

Swept == {a \in artifacts : a.expires > now}
Monus(m, n) == IF m > n THEN m - n ELSE 0
(* The count of bytes after the entries of gone were removed.              *)
WithoutSwept(gone) == Monus(bytes, SizeOf(gone \cap Swept))
Without(gone) == Monus(bytes, SizeOf(gone))
KeepOnly(kept) == artifacts' = kept /\ bytes' = Without(artifacts \ kept)

(* Room is made from the artifact that expires first on, until the new one *)
(* fits; which of two with one expiry goes first is not determined.  An    *)
(* artifact is no larger than the store, so room is always found.          *)
Fits(kept, size) ==
  Cardinality(kept) < MaxArtifacts /\ Without(artifacts \ kept) + size <= MaxBytes
MakesRoom(kept, size) ==
  /\ Fits(kept, size)
  /\ \A gone \in Swept \ kept, a \in kept : gone.expires <= a.expires
  /\ kept # Swept => \E last \in Swept \ kept :
       /\ \A gone \in Swept \ kept : gone.expires <= last.expires
       /\ ~Fits(kept \cup {last}, size)

PutArtifact(id, size, ttl, owner) ==
  /\ id \notin given /\ size <= MaxArtifactBytes
  /\ \E kept \in SUBSET Swept :
       /\ MakesRoom(kept, size)
       /\ artifacts' = kept \cup {[id |-> id, size |-> size, expires |-> now + ttl, owner |-> owner]}
       /\ bytes' = Without(artifacts \ kept) + size
  /\ given' = given \cup {id}
  /\ UNCHANGED now

(* get, metadata, len and contains only sweep.                             *)
LooksUp == KeepOnly(Swept) /\ UNCHANGED <<now, given>>
DeleteArtifact(a) ==
  /\ a \in Swept /\ KeepOnly(Swept \ {a}) /\ UNCHANGED <<now, given>>
(* The end of a session: delete_owner.                                     *)
StopOwner(owner) ==
  KeepOnly({a \in Swept : a.owner # owner}) /\ UNCHANGED <<now, given>>

StoreNext ==
  \/ Ticks \/ LooksUp
  \/ \E id \in Artifact, size \in Size, ttl \in Ttl, owner \in Owner \cup {Unowned} :
       PutArtifact(id, size, ttl, owner)
  \/ \E a \in artifacts : DeleteArtifact(a)
  \/ \E owner \in Owner : StopOwner(owner)

StoreSpec == StoreInit /\ [][StoreNext]_storeVars

-----------------------------------------------------------------------------
(* The store's count of bytes is what it holds, over every order of puts,  *)
(* sweeps, evictions and deletions; a count that ran ahead would refuse    *)
(* puts for good.                                                          *)
BytesAreCounted == bytes = SizeOf(artifacts)
=============================================================================
