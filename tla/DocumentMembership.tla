------------------------ MODULE DocumentMembership ------------------------
(***************************************************************************)
(* Members of a document kept by core/src/peerborne-document.ts: writers    *)
(* and readers are added and removed locally, remote ACL changes are merged,*)
(* and signatures are verified meanwhile against a cache of the writers.    *)
(*                                                                          *)
(* Local operations and merges take turns in the mutation queue and await   *)
(* in them; verifications do not wait for a turn.  A staged change goes     *)
(* live in one synchronous commit after its publication.  Providers may     *)
(* fail in a claim or a finalizer.  BeeKEM is reduced to its leaves and the *)
(* key of each, an epoch to the members who can derive it.  Codecs of       *)
(* identities and sizes of messages are left out.                           *)
(***************************************************************************)
EXTENDS Integers, FiniteSets, Sequences

CONSTANTS
    Local,          \* the user of this instance
    Others,         \* other identities
    Slots,          \* bound: operations at one time
    Verifiers,      \* bound: verifications at one time
    MaxCalls        \* bound: operations in all

ASSUME MembershipAssumption == Local \notin Others /\ MaxCalls \in Nat

VARIABLES
    createdLocally, \* _createdLocally
    writers,        \* _writers
    readers,        \* _readers
    leaves,         \* _beekem: the KEM key of every leaf; << >> is no tree
    kemOf,          \* _readerKemPublicKeys
    leafOf,         \* _readerLeafIndices
    holders,        \* who can derive the current document key
    revoked,        \* whose removeReader has returned, since their last addReader
    poisoned,       \* _bootstrapLoadApplicationState
    call,           \* the operation of each caller
    calls,          \* operations so far
    cached,         \* _cachedWriterKeys
    version,        \* _writerKeysVersion has moved since a verifier's start, per verifier
    inFlight,       \* _writerMutationsInFlight
    fetch           \* the writer-key read of each verifier

membershipVars == <<createdLocally, writers, readers, leaves, kemOf, leafOf, holders, revoked,
                    poisoned, call, calls, cached, version, inFlight, fetch>>
liveVars == <<writers, readers, leaves, kemOf, leafOf, holders, revoked>>
cacheVars == <<cached, version, inFlight>>

Identities == {Local} \cup Others
LocalKey == 0
Keys == 0 .. 1
None == -1
Blank == -2

NoCall == [phase |-> "idle"]
NoFetch == [phase |-> "idle"]
NotCached == [known |-> FALSE, keys |-> {}]

-----------------------------------------------------------------------------
(* The tree                                                                 *)

findLeafByPublicKey(key) ==
    LET owners == {i \in DOMAIN leaves : leaves[i] = key}
    IN  IF Cardinality(owners) = 1 THEN CHOOSE i \in owners : TRUE ELSE None

hasOnlyLocalLiveLeaf == leaves # << >> /\ \A i \in DOMAIN leaves : leaves[i] \in {LocalKey, Blank}

(* A key has one owner.                                                     *)
_assertKemPublicKeyAvailableForNewLeaf(key) ==
    IF leaves = << >> THEN key # LocalKey ELSE \A i \in DOMAIN leaves : leaves[i] # key

(* What a registration installs: nothing, the recovered leaf, or a leaf.    *)
SameRegistration(x) == [leaves |-> leaves, kem |-> kemOf[x], leaf |-> leafOf[x]]

CanRegister(x, key) ==
    /\ kemOf[x] \in {None, key}
    /\ IF leafOf[x] # None \/ kemOf[x] # None
       THEN /\ kemOf[x] # None /\ leaves # << >>
            /\ findLeafByPublicKey(key) \notin {None, 1}
            /\ leafOf[x] \in {None, findLeafByPublicKey(key)}
       ELSE /\ _assertKemPublicKeyAvailableForNewLeaf(key)
            /\ leaves = << >> => createdLocally
            /\ Len(leaves) < 2

_prepareBeeKEMReaderRegistration(x, key) ==
    IF kemOf[x] # None
    THEN [SameRegistration(x) EXCEPT !.leaf = findLeafByPublicKey(key)]
    ELSE LET tree == IF leaves = << >> THEN <<LocalKey>> ELSE leaves
         IN  [leaves |-> Append(tree, key), kem |-> key, leaf |-> Len(tree) + 1]

-----------------------------------------------------------------------------
(* The cache of writer keys                                                 *)

_invalidateWriterKeyCache ==
    /\ cached' = NotCached
    /\ version' = [v \in Verifiers |-> TRUE]

VersionUnchanged(v) == ~version[v]

Answered(keys) == [phase |-> "answered", keys |-> keys]

(* _getWriterKeys: from the cache, or from the ACL.                         *)
GetWriterKeys(v) ==
    /\ fetch[v].phase = "idle"
    /\ fetch' = [fetch EXCEPT ![v] =
           IF inFlight = 0 /\ cached.known THEN Answered(cached.keys) ELSE [phase |-> "asked"]]
    /\ version' = [version EXCEPT ![v] = FALSE]
    /\ UNCHANGED <<createdLocally, liveVars, poisoned, call, calls, cached, inFlight>>

FetchReads(v) ==
    /\ fetch[v].phase = "asked"
    /\ fetch' = [fetch EXCEPT ![v] = [phase |-> "fetched", keys |-> writers]]
    /\ UNCHANGED <<createdLocally, liveVars, poisoned, call, calls, cacheVars>>

(* Returned and cached, returned only, or read again.                       *)
FetchReturns(v) ==
    /\ fetch[v].phase = "fetched"
    /\ IF VersionUnchanged(v)
       THEN /\ fetch' = [fetch EXCEPT ![v] = Answered(fetch[v].keys)]
            /\ cached' = IF inFlight = 0 THEN [known |-> TRUE, keys |-> fetch[v].keys] ELSE cached
            /\ UNCHANGED version
       ELSE /\ fetch' = [fetch EXCEPT ![v] =
                   IF inFlight = 0 /\ cached.known THEN Answered(cached.keys) ELSE [phase |-> "asked"]]
            /\ version' = [version EXCEPT ![v] = FALSE]
            /\ UNCHANGED cached
    /\ UNCHANGED <<createdLocally, liveVars, poisoned, call, calls, inFlight>>

(* The signatures are checked against the answer.                           *)
_verifyWriterSignature(v) ==
    /\ fetch[v].phase = "answered"
    /\ fetch' = [fetch EXCEPT ![v] = NoFetch]
    /\ UNCHANGED <<createdLocally, liveVars, poisoned, call, calls, cacheVars>>

-----------------------------------------------------------------------------
(* Calls and turns                                                          *)

InTurn(c) == call[c].phase \notin {"idle", "queued"}

_runStateMutation(c) == ~poisoned /\ \A d \in Slots : ~InTurn(d)

Call(c, kind, x, key) ==
    /\ call[c].phase = "idle" /\ ~poisoned
    /\ calls < MaxCalls
    /\ call' = [call EXCEPT ![c] = [phase |-> "queued", kind |-> kind, who |-> x, key |-> key]]
    /\ calls' = calls + 1
    /\ UNCHANGED <<createdLocally, liveVars, poisoned, cacheVars, fetch>>

LocalKinds == {"addWriter", "removeWriter", "addReader", "removeReader"}
MergeKinds == {"mergeWriter", "dropWriter", "mergeReader", "dropReader"}

(* addWriter: an onboarded reader, whose recorded key is that of one leaf.  *)
CanAddWriter(x) ==
    /\ x \in readers /\ leaves # << >>
    /\ kemOf[x] # None
    /\ findLeafByPublicKey(kemOf[x]) \notin {None, 1}
    /\ leafOf[x] \in {None, findLeafByPublicKey(kemOf[x])}

CanRemoveWriter(x) == x # Local /\ x \in readers

(* addReader: one collaborator, or the one there is again.                  *)
CanAddReader(x, key) ==
    /\ leaves = << >> => createdLocally
    /\ x \in readers \/ /\ readers = {} /\ Len(leaves) <= 1
                        /\ _assertKemPublicKeyAvailableForNewLeaf(key)
    /\ CanRegister(x, key)

NothingRecorded(x) == x \notin readers /\ kemOf[x] = None /\ leafOf[x] = None
RowAbsent(x) == x \notin readers
NothingToRevoke(x) == NothingRecorded(x) /\ hasOnlyLocalLiveLeaf

CanRemoveReader(x) ==
    /\ x \notin writers
    /\ \/ NothingToRevoke(x)
       \/ /\ leaves # << >> /\ kemOf[x] # None
          /\ findLeafByPublicKey(kemOf[x]) \notin {None, 1}
          /\ leafOf[x] \in {None, findLeafByPublicKey(kemOf[x])}

Allowed(c) ==
    LET x == call[c].who
    IN  CASE call[c].kind \in MergeKinds -> TRUE
          [] call[c].kind = "addWriter" -> Local \in writers /\ CanAddWriter(x)
          [] call[c].kind = "removeWriter" -> Local \in writers /\ (x \in writers => CanRemoveWriter(x))
          [] call[c].kind = "addReader" -> Local \in writers /\ CanAddReader(x, call[c].key)
          [] call[c].kind = "removeReader" -> Local \in writers /\ CanRemoveReader(x)

(* The operation has nothing to change and returns.                         *)
AlreadyDone(c) ==
    LET x == call[c].who
    IN  CASE call[c].kind = "addWriter" -> x \in writers
          [] call[c].kind = "removeWriter" -> x \notin writers
          [] call[c].kind = "removeReader" -> NothingToRevoke(x)
          [] OTHER -> FALSE

Ends(c) == call' = [call EXCEPT ![c] = NoCall]

CallRefused(c) ==
    /\ call[c].phase = "queued"
    /\ poisoned \/ (_runStateMutation(c) /\ ~Allowed(c))
    /\ Ends(c)
    /\ UNCHANGED <<createdLocally, liveVars, poisoned, calls, cacheVars, fetch>>

ReturnsUnchanged(c) ==
    /\ call[c].phase = "queued" /\ _runStateMutation(c)
    /\ Allowed(c) /\ AlreadyDone(c)
    /\ revoked' = IF call[c].kind = "removeReader" THEN revoked \cup {call[c].who} ELSE revoked
    /\ Ends(c)
    /\ UNCHANGED <<createdLocally, writers, readers, leaves, kemOf, leafOf, holders, poisoned, calls,
                   cacheVars, fetch>>

-----------------------------------------------------------------------------
(* Local changes                                                            *)

Begins(c, kind) ==
    /\ call[c].phase = "queued" /\ call[c].kind = kind
    /\ _runStateMutation(c)
    /\ Allowed(c) /\ ~AlreadyDone(c)

(* _publishPreparedWriterChange: the prepared change is sent.               *)
PublishWriterChange(c) ==
    /\ Begins(c, "addWriter") \/ Begins(c, "removeWriter")
    /\ call' = [call EXCEPT ![c].phase = "publishing"]
    /\ inFlight' = inFlight + 1
    /\ _invalidateWriterKeyCache
    /\ UNCHANGED <<createdLocally, liveVars, poisoned, calls, fetch>>

(* Registration and ACL change are staged before the claim.                 *)
PrepareAddReader(c) ==
    /\ Begins(c, "addReader")
    /\ call' = [call EXCEPT ![c] =
           [phase |-> "staged", kind |-> "addReader", who |-> @.who, key |-> @.key,
            row |-> @.who \notin readers,
            staged |-> _prepareBeeKEMReaderRegistration(@.who, @.key)]]
    /\ UNCHANGED <<createdLocally, liveVars, poisoned, calls, cacheVars, fetch>>

(* The leaf is blanked on a clone, which rotates the epoch.                 *)
PrepareRemoveReader(c) ==
    /\ Begins(c, "removeReader")
    /\ LET x == call[c].who
           leaf == findLeafByPublicKey(kemOf[x])
       IN  call' = [call EXCEPT ![c] =
               [phase |-> "staged", kind |-> "removeReader", who |-> x, key |-> @.key,
                row |-> x \in readers,
                staged |-> [leaves |-> [leaves EXCEPT ![leaf] = Blank], kem |-> None, leaf |-> None]]]
    /\ UNCHANGED <<createdLocally, liveVars, poisoned, calls, cacheVars, fetch>>

(* Only a change of an ACL row is published; without one the commit follows.*)
_claimPreparedCommit(c) ==
    /\ call[c].phase = "staged"
    /\ call' = [call EXCEPT ![c].phase = "publishing"]
    /\ UNCHANGED <<createdLocally, liveVars, poisoned, calls, cacheVars, fetch>>

ClaimThrows(c) ==
    /\ call[c].phase = "staged" /\ (call[c].row \/ call[c].kind = "removeReader")
    /\ poisoned' = TRUE
    /\ Ends(c)
    /\ UNCHANGED <<createdLocally, liveVars, calls, cacheVars, fetch>>

Install(x, staged) ==
    /\ leaves' = staged.leaves
    /\ kemOf' = [kemOf EXCEPT ![x] = staged.kem]
    /\ leafOf' = [leafOf EXCEPT ![x] = staged.leaf]

Publishing(c, kinds) == call[c].phase = "publishing" /\ call[c].kind \in kinds

(* The sole point where a writer change goes live.                          *)
CommitWriterChange(c) ==
    /\ Publishing(c, {"addWriter", "removeWriter"})
    /\ LET x == call[c].who
       IN  /\ writers' = IF call[c].kind = "addWriter" THEN writers \cup {x} ELSE writers \ {x}
           /\ leafOf' = IF call[c].kind = "addWriter" /\ leafOf[x] = None
                        THEN [leafOf EXCEPT ![x] = findLeafByPublicKey(kemOf[x])] ELSE leafOf
    /\ call' = [call EXCEPT ![c].phase = "notifying"]
    /\ _invalidateWriterKeyCache
    /\ UNCHANGED <<createdLocally, readers, leaves, kemOf, holders, revoked, poisoned, calls, inFlight, fetch>>

(* The handlers have run.                                                   *)
WriterMutationEnds(c) ==
    /\ call[c].phase = "notifying"
    /\ inFlight' = inFlight - 1
    /\ _invalidateWriterKeyCache
    /\ Ends(c)
    /\ UNCHANGED <<createdLocally, liveVars, poisoned, calls, fetch>>

(* Tree first, authorization last.  The Welcome carries the current key.    *)
CommitAddReader(c) ==
    /\ Publishing(c, {"addReader"})
    /\ Install(call[c].who, call[c].staged)
    /\ readers' = readers \cup {call[c].who}
    /\ holders' = holders \cup {call[c].who}
    /\ revoked' = revoked \ {call[c].who}
    /\ Ends(c)
    /\ UNCHANGED <<createdLocally, writers, poisoned, calls, cacheVars, fetch>>

(* The new epoch is derived from the tree without the leaf.                 *)
DeriveEpoch(x, tree) ==
    {y \in holders : y = Local \/ (y # x /\ \E i \in DOMAIN tree : tree[i] = kemOf[y])}

CommitRemoveReader(c) ==
    /\ Publishing(c, {"removeReader"})
    /\ readers' = readers \ {call[c].who}
    /\ holders' = DeriveEpoch(call[c].who, call[c].staged.leaves)
    /\ Install(call[c].who, call[c].staged)
    /\ revoked' = revoked \cup {call[c].who}
    /\ Ends(c)
    /\ UNCHANGED <<createdLocally, writers, poisoned, calls, cacheVars, fetch>>

IsPublished(c) == IF call[c].kind \in {"addWriter", "removeWriter"} THEN TRUE ELSE call[c].row

(* _makeChange rolls its own bookkeeping back; nothing else was changed.    *)
PublicationFails(c) ==
    /\ call[c].phase = "publishing" /\ IsPublished(c)
    /\ IF call[c].kind \in {"addWriter", "removeWriter"}
       THEN inFlight' = inFlight - 1 /\ _invalidateWriterKeyCache
       ELSE UNCHANGED cacheVars
    /\ Ends(c)
    /\ UNCHANGED <<createdLocally, liveVars, poisoned, calls, fetch>>

(* A finalizer throws: any of the rows may have changed, the rest of the    *)
(* commit is not reached.                                                   *)
CommitThrows(c) ==
    /\ call[c].phase = "publishing"
    /\ call[c].kind = "addReader" => IsPublished(c)
    /\ poisoned' = TRUE
    /\ LET x == call[c].who
       IN  CASE call[c].kind \in {"addWriter", "removeWriter"} ->
                   /\ writers' \in {writers, IF call[c].kind = "addWriter" THEN writers \cup {x} ELSE writers \ {x}}
                   /\ inFlight' = inFlight - 1 /\ _invalidateWriterKeyCache
                   /\ UNCHANGED <<readers, leaves, kemOf, leafOf, holders>>
             [] call[c].kind = "addReader" ->
                   /\ Install(x, call[c].staged)
                   /\ readers' \in {readers, readers \cup {x}}
                   /\ UNCHANGED <<writers, holders, cacheVars>>
             [] call[c].kind = "removeReader" ->
                   /\ readers' \in {readers, readers \ {x}}
                   /\ UNCHANGED <<writers, leaves, kemOf, leafOf, holders, cacheVars>>
    /\ Ends(c)
    /\ UNCHANGED <<createdLocally, revoked, calls, fetch>>

-----------------------------------------------------------------------------
(* Remote changes                                                           *)

MergeBegins(c) ==
    /\ call[c].phase = "queued" /\ call[c].kind \in MergeKinds
    /\ _runStateMutation(c)
    /\ call' = [call EXCEPT ![c].phase = "merging"]
    /\ inFlight' = IF call[c].kind \in {"mergeWriter", "dropWriter"} THEN inFlight + 1 ELSE inFlight
    /\ UNCHANGED <<createdLocally, liveVars, poisoned, calls, cached, version, fetch>>

KeepRecord(x) == UNCHANGED <<kemOf, leafOf>>

(* The row goes, the leaf and its record stay.                              *)
_mergeReaders(x, grants) ==
    /\ readers' = IF grants THEN readers \cup {x} ELSE readers \ {x}
    /\ KeepRecord(x)

_mergeWriters(x, grants) ==
    writers' = IF grants THEN writers \cup {x} ELSE writers \ {x}

MergeReaderRow(c) ==
    /\ call[c].phase = "merging" /\ call[c].kind \in {"mergeReader", "dropReader"}
    /\ _mergeReaders(call[c].who, call[c].kind = "mergeReader")
    /\ call' = [call EXCEPT ![c] = NoCall]
    /\ UNCHANGED <<createdLocally, writers, leaves, holders, revoked, poisoned, calls, cacheVars, fetch>>

MergeWriterRow(c) ==
    /\ call[c].phase = "merging" /\ call[c].kind \in {"mergeWriter", "dropWriter"}
    /\ _mergeWriters(call[c].who, call[c].kind = "mergeWriter")
    /\ call' = [call EXCEPT ![c].phase = "merged"]
    /\ UNCHANGED <<createdLocally, readers, leaves, kemOf, leafOf, holders, revoked, poisoned, calls,
                   cacheVars, fetch>>

(* The merge has settled; a failure after it was applied poisons.           *)
WriterMergeEnds(c) ==
    /\ call[c].phase = "merged"
    /\ inFlight' = inFlight - 1
    /\ _invalidateWriterKeyCache
    /\ poisoned' \in {poisoned, TRUE}
    /\ Ends(c)
    /\ UNCHANGED <<createdLocally, liveVars, calls, fetch>>

-----------------------------------------------------------------------------

MembershipInit ==
    /\ createdLocally \in BOOLEAN
    /\ writers = {Local}
    /\ readers = {}
    /\ leaves = << >>
    /\ kemOf = [x \in Identities |-> None]
    /\ leafOf = [x \in Identities |-> None]
    /\ holders = {Local}
    /\ revoked = {}
    /\ poisoned = FALSE
    /\ call = [c \in Slots |-> NoCall]
    /\ calls = 0
    /\ cached = NotCached
    /\ version = [v \in Verifiers |-> FALSE]
    /\ inFlight = 0
    /\ fetch = [v \in Verifiers |-> NoFetch]

MembershipNext ==
    \/ \E v \in Verifiers : GetWriterKeys(v)
    \/ \E v \in Verifiers : FetchReads(v)
    \/ \E v \in Verifiers : FetchReturns(v)
    \/ \E v \in Verifiers : _verifyWriterSignature(v)
    \/ \E c \in Slots, kind \in LocalKinds \ {"addReader"}, x \in Identities : Call(c, kind, x, None)
    \/ \E c \in Slots, x \in Others, key \in Keys : Call(c, "addReader", x, key)
    \/ \E c \in Slots, kind \in MergeKinds, x \in Others : Call(c, kind, x, None)
    \/ \E c \in Slots : CallRefused(c)
    \/ \E c \in Slots : ReturnsUnchanged(c)
    \/ \E c \in Slots : PublishWriterChange(c)
    \/ \E c \in Slots : PrepareAddReader(c)
    \/ \E c \in Slots : PrepareRemoveReader(c)
    \/ \E c \in Slots : _claimPreparedCommit(c)
    \/ \E c \in Slots : ClaimThrows(c)
    \/ \E c \in Slots : CommitWriterChange(c)
    \/ \E c \in Slots : WriterMutationEnds(c)
    \/ \E c \in Slots : CommitAddReader(c)
    \/ \E c \in Slots : CommitRemoveReader(c)
    \/ \E c \in Slots : PublicationFails(c)
    \/ \E c \in Slots : CommitThrows(c)
    \/ \E c \in Slots : MergeBegins(c)
    \/ \E c \in Slots : MergeReaderRow(c)
    \/ \E c \in Slots : MergeWriterRow(c)
    \/ \E c \in Slots : WriterMergeEnds(c)

MembershipSpec == MembershipInit /\ [][MembershipNext]_membershipVars

-----------------------------------------------------------------------------
(* Properties                                                               *)

(* Signatures are never verified against writers that are no longer the     *)
(* live ones: what the cache holds outside a mutation is the ACL, and what a *)
(* read returns is the ACL of that moment, however changes were committed   *)
(* while it was under way.  The one exception is a remote merge that is     *)
(* applied and not yet settled.                                             *)
WriterKeysCurrent ==
    [][/\ cached.known /\ inFlight = 0 => cached.keys = writers
       /\ \A v \in Verifiers :
              fetch[v].phase # "answered" /\ fetch'[v].phase = "answered"
              => fetch'[v].keys = writers \/ \E c \in Slots : call[c].phase = "merged"]_membershipVars

(* Whoever holds a live leaf besides the local one can be revoked: exactly  *)
(* one identity is recorded with the key of that leaf, and its cached index *)
(* is that of the leaf, whatever failed or was merged in between.           *)
LeavesRevocable ==
    \A i \in DOMAIN leaves \ {1} :
        leaves[i] # Blank =>
            \E x \in Identities : /\ kemOf[x] = leaves[i] /\ leafOf[x] \in {None, i}
                              /\ \A y \in Identities \ {x} : kemOf[y] # leaves[i]

(* A removeReader that returned means that the reader cannot derive the     *)
(* current document key, also when a remote change had taken the ACL row    *)
(* away before or brings it back later.                                     *)
RevokedLockedOut == ~poisoned => revoked \cap holders = {}

(* Local operations keep writers among the readers: only a reader is made a *)
(* writer and no writer's reader row is removed, although each looks before *)
(* its awaits and acts after them.                                          *)
RolesNested ==
    [][\A c \in Slots :
          call[c].phase = "publishing" /\ call'[c].phase \in {"idle", "notifying"} /\ poisoned' = poisoned
          => /\ (writers' \ writers) \subseteq readers'
             /\ (readers \ readers') \cap writers' = {}]_membershipVars

(* Once a provider has failed in a claim, a finalizer or a merge, no        *)
(* operation that was already waiting for its turn changes anything.        *)
PoisonStops == [][poisoned => UNCHANGED <<writers, readers, leaves, kemOf, leafOf, holders>>]_membershipVars
=============================================================================
