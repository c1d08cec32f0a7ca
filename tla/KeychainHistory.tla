-------------------------- MODULE KeychainHistory --------------------------
(***************************************************************************)
(* The document keychains of automerge/src/peerborne-automerge.ts and       *)
(* yjs/src/peerborne-yjs.ts over core/src/keychain-canonical.ts and         *)
(* policy/keychain-order.ts: append-only lists of epoch keys kept in a CRDT *)
(* document, staged outside the live document and committed by a claim.     *)
(*                                                                          *)
(* A key operation is the path of authored entries that ends in it: its     *)
(* last element is what the change or struct says, the rest is what it was  *)
(* appended to.  A document is a set of paths, linear when it is one path   *)
(* with its prefixes.  An author is the random actor or client of one       *)
(* append, or Projection, the identity derived from the entry itself.       *)
(* Malformed, oversized and undecodable changes are refused before anything *)
(* is staged and left out.                                                  *)
(***************************************************************************)
EXTENDS Integers, FiniteSets, Sequences, SequencesExt

CONSTANTS
    Keychains,          \* the replicas of one document's keychain
    Entries,            \* the <<key id, material>> tuples that may be authored
    MAX_KEYCHAIN_EPOCHS,
    MaxAuthored         \* bound: random authors

ASSUME KeychainAssumption ==
    /\ Entries \subseteq Nat \X Nat
    /\ MAX_KEYCHAIN_EPOCHS \in Nat \ {0}
    /\ MaxAuthored \in Nat

VARIABLES
    adapter,    \* "automerge" or "yjs": the CRDT of all the replicas
    keychain,   \* _keychain: the paths each replica retains
    keyCache,   \* _keyCache: the key ids each replica can use at once
    stage,      \* the change each replica has staged, or NoStage
    authored,   \* random authors used so far
    exported    \* the paths that were the tip of a replica

keychainVars == <<adapter, keychain, keyCache, stage, authored, exported>>

Projection == 0

-----------------------------------------------------------------------------
(* Key histories                                                            *)

sameKeychainEntry(left, right) == left[1] = right[1] /\ left[2] = right[2]

isKeychainPrefix(prefix, entries) ==
    /\ Len(prefix) <= Len(entries)
    /\ \A i \in DOMAIN prefix : sameKeychainEntry(prefix[i], entries[i])

firstKeychainRewrite(before, after) ==
    LET rewritten == {i \in DOMAIN before : ~sameKeychainEntry(before[i], after[i])}
    IN  IF rewritten = {} THEN -1 ELSE (CHOOSE i \in rewritten : \A j \in rewritten : i <= j) - 1

assertAppendOnlyTransition(before, after) ==
    Len(after) >= Len(before) /\ firstKeychainRewrite(before, after) = -1

EntriesOf(path) == [i \in DOMAIN path |-> path[i].entry]

validateCanonicalKeychainEntries(entries) ==
    /\ Len(entries) <= MAX_KEYCHAIN_EPOCHS
    /\ \A i, j \in DOMAIN entries : entries[i][1] = entries[j][1] => i = j

(* The chain that starts at the empty parent, one unique child at a time.   *)
orderKeychainHistory(paths) ==
    LET wellFormed == \A p, q \in paths : Front(p) = Front(q) => p = q
        chain == {p \in paths : \A i \in DOMAIN p : SubSeq(p, 1, i) \in paths}
    IN  wellFormed /\ chain = paths

Tip(paths) ==
    IF paths = {} THEN << >> ELSE CHOOSE p \in paths : \A q \in paths : Len(q) <= Len(p)

(* Every change depends on exactly the change before it.                    *)
validateAutomergeKeychain(paths) ==
    /\ \A p, q \in paths : Len(p) = Len(q) => p = q
    /\ \A p \in paths : Len(p) = 1 \/ Front(p) \in paths
    /\ validateCanonicalKeychainEntries(EntriesOf(Tip(paths)))

VisibleKeysOnly(paths) == validateCanonicalKeychainEntries(EntriesOf(Tip(paths)))

(* The structs form one chain of origins.                                   *)
validateYjsKeychain(paths) ==
    /\ orderKeychainHistory(paths)
    /\ validateCanonicalKeychainEntries(EntriesOf(Tip(paths)))

Validated(paths) ==
    IF adapter = "automerge" THEN validateAutomergeKeychain(paths) ELSE validateYjsKeychain(paths)

History(path) == {SubSeq(path, 1, i) : i \in DOMAIN path}
EntriesIn(paths) == EntriesOf(Tip(paths))
KeyIds(entries) == {entries[i][1] : i \in DOMAIN entries}

currentKeyProjection(entry) == {<<[author |-> Projection, entry |-> entry]>>}

currentKeyChange(path) ==
    IF Len(path) = 1 THEN {path} ELSE currentKeyProjection(Last(path).entry)

AppendEntry(paths, entry, author) ==
    paths \cup {Append(Tip(paths), [author |-> author, entry |-> entry])}

(* A first key is authored under its projection identity.                   *)
appendKeychainEntry(paths, entry, author) ==
    AppendEntry(paths, entry, IF paths = {} THEN Projection ELSE author)

(* The bytes of two histories differ where their authors do; any total      *)
(* order of them serves.                                                    *)
LexicographicallyFirst(left, right) ==
    \/ left = right
    \/ \E i \in DOMAIN left : /\ left[i].author < right[i].author
                               /\ \A j \in 1 .. i - 1 : left[j] = right[j]

(* Change by change.                                                        *)
compareAutomergeHistories(left, right) == LexicographicallyFirst(Tip(left), Tip(right))

(* The encoded update, whose clients come in descending order.              *)
compareBytes(left, right) == LexicographicallyFirst(Reverse(Tip(left)), Reverse(Tip(right)))

compareHistories(left, right) ==
    IF adapter = "automerge" THEN compareAutomergeHistories(left, right) ELSE compareBytes(left, right)

(* What a standalone history makes of the base.                             *)
Refused == [ok |-> FALSE, paths |-> {}]
Merged(paths) == [ok |-> Validated(paths), paths |-> paths]

MergeStandalone(base, incoming) ==
    LET old == EntriesIn(base)
        new == EntriesIn(incoming)
    IN  CASE Len(old) > 1 /\ Len(new) = 1 /\ sameKeychainEntry(Last(old), new[1]) -> Merged(base)
          [] Len(old) = Len(new) /\ isKeychainPrefix(old, new) ->
                 Merged(IF compareHistories(base, incoming) THEN base ELSE incoming)
          [] Len(old) < Len(new) /\ isKeychainPrefix(old, new) -> Merged(incoming)
          [] Len(new) < Len(old) /\ isKeychainPrefix(new, old) -> Merged(base)
          [] OTHER -> Refused

(* A standalone single key, appended behind the key it names or recognised  *)
(* as the replay of that append.                                            *)
MergeIntent(base, incoming, intent, author) ==
    LET old == EntriesIn(base)
        projected == EntriesIn(incoming)[1]
    IN  IF ~Validated(incoming) \/ Len(EntriesIn(incoming)) # 1 \/ projected[1] # intent.new
        THEN Refused
        ELSE IF old # << >> /\ Last(old)[1] = intent.new
        THEN IF /\ sameKeychainEntry(Last(old), projected)
                /\ Len(old) > 1 /\ old[Len(old) - 1][1] = intent.previous
             THEN Merged(base) ELSE Refused
        ELSE IF \/ old = << >> \/ Last(old)[1] # intent.previous
                \/ projected[1] \in KeyIds(old)
             THEN Refused
             ELSE Merged(AppendEntry(base, projected, author))

(* _prepareMerge.  A change that is not a history by itself, such as a      *)
(* delta, is applied to the base and the result has to be linear.           *)
AutomergePrepareMerge(base, changes) ==
    IF validateAutomergeKeychain(changes) THEN MergeStandalone(base, changes)
    ELSE Merged(base \cup changes)

YjsPrepareMerge(base, update) ==
    IF validateYjsKeychain(update) THEN MergeStandalone(base, update)
    ELSE Merged(base \cup update)

MergeHistory(base, changes) ==
    LET merged == IF adapter = "automerge" THEN AutomergePrepareMerge(base, changes)
                  ELSE YjsPrepareMerge(base, changes)
    IN  IF merged.ok /\ assertAppendOnlyTransition(EntriesIn(base), EntriesIn(merged.paths))
        THEN merged ELSE Refused

-----------------------------------------------------------------------------
(* Staging and committing                                                   *)

NoStage == [on |-> FALSE, paths |-> {}, current |-> FALSE, hydration |-> "none"]
Staged(paths, hydration) ==
    [on |-> TRUE, paths |-> paths, current |-> TRUE, hydration |-> hydration]

Fresh == authored + 1

(* A published document replaces the one that another stage was based on.   *)
Publish(k, paths, cached, other) ==
    /\ keychain' = [keychain EXCEPT ![k] = paths]
    /\ keyCache' = [keyCache EXCEPT ![k] = @ \cup cached]
    /\ stage' = [stage EXCEPT ![k] = other]
    /\ exported' = exported \cup {Tip(paths)}

prepareEpochKey(k, entry) ==
    /\ ~stage[k].on
    /\ authored < MaxAuthored \/ keychain[k] = {}
    /\ Len(EntriesIn(keychain[k])) < MAX_KEYCHAIN_EPOCHS
    /\ entry[1] \notin KeyIds(EntriesIn(keychain[k]))
    /\ stage' = [stage EXCEPT ![k] =
           Staged(appendKeychainEntry(keychain[k], entry, Fresh), "none")]
    /\ authored' = IF keychain[k] = {} THEN authored ELSE authored + 1
    /\ UNCHANGED <<adapter, keychain, keyCache, exported>>

(* The forms a path travels in: the last change alone, the full history and *)
(* the current key alone.                                                   *)
Forms(path) ==
    {{path}, History(path), currentKeyChange(path)}

PrepareMerge(k, path) ==
    /\ ~stage[k].on
    /\ \E changes \in Forms(path) :
       \E merged \in {MergeHistory(keychain[k], changes)} :
           merged.ok /\ stage' = [stage EXCEPT ![k] = Staged(merged.paths, "idle")]
    /\ UNCHANGED <<adapter, keychain, keyCache, authored, exported>>

(* merge: staged and committed in one step, over another stage if there is  *)
(* one.                                                                     *)
Merge(k, path) ==
    /\ \E changes \in Forms(path) :
       \E merged \in {MergeHistory(keychain[k], changes)} :
           merged.ok /\ Publish(k, merged.paths, {}, [stage[k] EXCEPT !.current = FALSE])
    /\ UNCHANGED <<adapter, authored>>

(* prepareAppend: the current key of a path with the key before it.         *)
PrepareAppend(k, path) ==
    /\ ~stage[k].on
    /\ authored < MaxAuthored
    /\ Len(path) > 1
    /\ LET entries == EntriesOf(path)
           merged == MergeIntent(keychain[k], currentKeyProjection(Last(entries)),
                                 [previous |-> entries[Len(path) - 1][1], new |-> Last(entries)[1]], Fresh)
       IN  /\ merged.ok /\ assertAppendOnlyTransition(EntriesIn(keychain[k]), EntriesIn(merged.paths))
           /\ stage' = [stage EXCEPT ![k] = Staged(merged.paths, "idle")]
    /\ authored' = authored + 1
    /\ UNCHANGED <<adapter, keychain, keyCache, exported>>

hydrateKeys(k) ==
    /\ stage[k].on /\ stage[k].hydration = "idle"
    /\ stage' = [stage EXCEPT ![k].hydration = "running"]
    /\ UNCHANGED <<adapter, keychain, keyCache, authored, exported>>

HydrationEnds(k) ==
    /\ stage[k].on /\ stage[k].hydration = "running"
    /\ \E outcome \in {"done", "idle"} : stage' = [stage EXCEPT ![k].hydration = outcome]
    /\ UNCHANGED <<adapter, keychain, keyCache, authored, exported>>

claimPreparedCommit(s) == s.on /\ s.current /\ s.hydration # "running"

(* The key of a staged epoch and the keys of a hydrated merge enter the     *)
(* cache with the commit; those of a merge nobody hydrated do not.          *)
CachedBy(s) ==
    CASE s.hydration = "none" -> {Last(EntriesIn(s.paths))[1]}
      [] s.hydration = "done" -> KeyIds(EntriesIn(s.paths))
      [] OTHER -> {}

CommitStage(k) ==
    /\ claimPreparedCommit(stage[k])
    /\ Publish(k, stage[k].paths, CachedBy(stage[k]), NoStage)
    /\ UNCHANGED <<adapter, authored>>

(* A claim refused, or a caller that gives up.                              *)
AbandonStage(k) ==
    /\ stage[k].on /\ stage[k].hydration # "running"
    /\ stage' = [stage EXCEPT ![k] = NoStage]
    /\ UNCHANGED <<adapter, keychain, keyCache, authored, exported>>

(* keys(): every key is imported into the cache.                            *)
ImportKeys(k) ==
    /\ keyCache' = [keyCache EXCEPT ![k] = @ \cup KeyIds(EntriesIn(keychain[k]))]
    /\ UNCHANGED <<adapter, keychain, stage, authored, exported>>

KeychainInit ==
    /\ adapter \in {"automerge", "yjs"}
    /\ keychain = [k \in Keychains |-> {}]
    /\ keyCache = [k \in Keychains |-> {}]
    /\ stage = [k \in Keychains |-> NoStage]
    /\ authored = 0
    /\ exported = {}

KeychainNext ==
    \/ \E k \in Keychains, entry \in Entries : prepareEpochKey(k, entry)
    \/ \E k \in Keychains, path \in exported : PrepareMerge(k, path)
    \/ \E k \in Keychains, path \in exported : Merge(k, path)
    \/ \E k \in Keychains, path \in exported : PrepareAppend(k, path)
    \/ \E k \in Keychains : hydrateKeys(k)
    \/ \E k \in Keychains : HydrationEnds(k)
    \/ \E k \in Keychains : CommitStage(k)
    \/ \E k \in Keychains : AbandonStage(k)
    \/ \E k \in Keychains : ImportKeys(k)

KeychainSpec == KeychainInit /\ [][KeychainNext]_keychainVars

-----------------------------------------------------------------------------
(* Properties                                                               *)

(* Whatever was staged, merged or replayed, in any order and form, what a   *)
(* replica keeps is one linear history of distinct keys within the limit,   *)
(* and the keys it can use at once are keys of that history: a stage that   *)
(* went stale or was abandoned leaves no key behind.                        *)
KeychainLinear ==
    \A k \in Keychains :
        /\ keychain[k] = History(Tip(keychain[k]))
        /\ Len(Tip(keychain[k])) <= MAX_KEYCHAIN_EPOCHS
        /\ Cardinality(KeyIds(EntriesIn(keychain[k]))) = Len(Tip(keychain[k]))
        /\ keyCache[k] \subseteq KeyIds(EntriesIn(keychain[k]))

(* The first key of every replica has the author of its own current-key     *)
(* export, so that a peer that holds the export and a peer that holds the   *)
(* history share one lineage.                                               *)
FirstKeyCanonical ==
    \A k \in Keychains : keychain[k] # {} => Tip(keychain[k])[1].author = Projection

(* The current key of one replica, sent alone, is a replay on every replica *)
(* that has the same current key: accepted, and nothing changes.            *)
CurrentKeyReplays ==
    \A k, m \in Keychains :
        /\ keychain[k] # {} /\ keychain[m] # {}
        /\ Last(EntriesIn(keychain[k])) = Last(EntriesIn(keychain[m]))
        /\ Len(Tip(keychain[k])) > 1
        => MergeHistory(keychain[k], currentKeyProjection(Last(EntriesIn(keychain[m]))))
               = Merged(keychain[k])

(* Two replicas with the same keys under different authors settle on the    *)
(* same history once each has merged the other's.                           *)
LineagesSettle ==
    \A k, m \in Keychains :
        EntriesIn(keychain[k]) = EntriesIn(keychain[m])
        => MergeHistory(keychain[k], keychain[m]) = MergeHistory(keychain[m], keychain[k])

(* No operation of any caller removes, reorders or replaces a key: what is  *)
(* encrypted under a key stays readable to whoever had it.                  *)
KeysAppendOnly ==
    [][\A k \in Keychains : IsPrefix(EntriesIn(keychain[k]), EntriesIn(keychain'[k]))]_keychainVars

(* A merge whose keys were hydrated has all of them in the cache when it    *)
(* commits, and none is committed while its keys are being imported.        *)
HydratedKeysUsable ==
    [][\A k \in Keychains :
          stage[k].on /\ stage'[k] = NoStage /\ keychain'[k] # keychain[k]
          => /\ stage[k].hydration # "running"
             /\ stage[k].hydration \in {"done"} => KeyIds(EntriesIn(keychain'[k])) \subseteq keyCache'[k]]_keychainVars
=============================================================================
