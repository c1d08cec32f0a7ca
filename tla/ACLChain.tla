----------------------------- MODULE ACLChain -----------------------------
(***************************************************************************)
(* core/src/acl-chain.ts: a hash-linked list of signed ACL changes, each    *)
(* authorised by the state the entries before it produce.                   *)
(*                                                                          *)
(* A payload is what an entry's hash covers beside its position; the hash   *)
(* of an entry is therefore the list of payloads up to it.  An ingestion    *)
(* awaits the codec, the digest and the signature between the check of its  *)
(* position and the check of its authority; the mutation queue is what      *)
(* keeps another one out.  Sizes and shapes are left out: an entry that     *)
(* fails them is refused like one with a bad signature.                     *)
(***************************************************************************)
EXTENDS Integers, FiniteSets, Sequences, SequencesExt

CONSTANTS
    Signers,                \* public keys
    genesisAuthorizedKeys,
    MaxEntries              \* bound: entries of the chain

ASSUME ChainAssumption == genesisAuthorizedKeys \subseteq Signers /\ MaxEntries \in Nat

VARIABLES
    chain,      \* _entries, with the state they produce in WritersAfter
    tasks       \* the ingestions and replays under way, in the order they were called

chainVars == <<chain, tasks>>

Payload == [signer : Signers, effect : {"add", "remove"}, subject : Signers]

(* What a peer may send: any position and parent, genuinely signed or not.  *)
ACLEntry(payload, seq, parent, signed) ==
    [sequenceNumber |-> seq, parentHash |-> parent, payload |-> payload, signed |-> signed]

Payloads(entries) == [i \in DOMAIN entries |-> entries[i].payload]
headHash(entries) == Payloads(entries)

ApplyChange(writers, payload) ==
    IF payload.effect = "add" THEN writers \cup {payload.subject} ELSE writers \ {payload.subject}

WritersAfter(entries) == FoldLeft(ApplyChange, {}, Payloads(entries))

_isInBootstrapSet(signer) == signer \in genesisAuthorizedKeys

(* Authority comes from the state before the entry.                         *)
Authorized(entries, entry) ==
    IF entries = << >> THEN _isInBootstrapSet(entry.payload.signer)
    ELSE entry.payload.signer \in WritersAfter(entries)

Positioned(entries, entry) ==
    entry.sequenceNumber = Len(entries) /\ entry.parentHash = headHash(entries)

Ingestion(entry) == [kind |-> "ingest", todo |-> <<entry>>, checked |-> FALSE]
Replay(entries) == [kind |-> "replay", todo |-> entries, checked |-> FALSE]

_runExclusive == {i \in 1 .. Len(tasks) : i = 1}

Settle(i) == tasks' = RemoveAt(tasks, i)

(* ingestEntry                                                              *)
IngestCalled ==
    /\ Len(tasks) < 2 /\ Len(chain) < MaxEntries
    /\ \E payload \in Payload, seq \in 0 .. Len(chain), k \in 0 .. Len(chain), signed \in BOOLEAN :
           tasks' = Append(tasks, Ingestion(ACLEntry(payload, seq, Payloads(SubSeq(chain, 1, k)), signed)))
    /\ UNCHANGED chain

(* authorAndAppend stamps position and head when its turn comes.            *)
authorAndAppend(payload) ==
    LET entry == ACLEntry(payload, Len(chain), headHash(chain), TRUE)
    IN  /\ tasks = << >> /\ Len(chain) < MaxEntries
        /\ Authorized(chain, entry)
        /\ chain' = Append(chain, entry)
        /\ UNCHANGED tasks

(* _ingestEntryInternal up to the signature.                                *)
IngestChecks(i) ==
    /\ ~tasks[i].checked /\ tasks[i].kind = "ingest"
    /\ IF Positioned(chain, tasks[i].todo[1]) /\ tasks[i].todo[1].signed
       THEN tasks' = [tasks EXCEPT ![i].checked = TRUE] ELSE Settle(i)
    /\ UNCHANGED chain

(* ... and from the authorization on.                                       *)
IngestApplies(i) ==
    /\ tasks[i].checked /\ tasks[i].kind = "ingest"
    /\ chain' = IF Authorized(chain, tasks[i].todo[1]) THEN Append(chain, tasks[i].todo[1]) ELSE chain
    /\ Settle(i)

(* replay resets the chain and takes the entries one by one, up to the      *)
(* first that fails; the caller offers its own chain with one entry altered.*)
ReplayCalled ==
    /\ Len(tasks) < 2 /\ chain # << >>
    /\ \E i \in DOMAIN chain, payload \in Payload, signed \in BOOLEAN :
           tasks' = Append(tasks, Replay([chain EXCEPT ![i].payload = payload, ![i].signed = signed]))
    /\ UNCHANGED chain

ReplayStarts(i) ==
    /\ ~tasks[i].checked /\ tasks[i].kind = "replay"
    /\ chain' = << >>
    /\ tasks' = [tasks EXCEPT ![i].checked = TRUE]

ReplayIngests(i) ==
    /\ tasks[i].checked /\ tasks[i].kind = "replay"
    /\ IF /\ tasks[i].todo # << >> /\ tasks[i].todo[1].signed
          /\ Positioned(chain, tasks[i].todo[1]) /\ Authorized(chain, tasks[i].todo[1])
       THEN /\ chain' = Append(chain, tasks[i].todo[1])
            /\ tasks' = [tasks EXCEPT ![i].todo = Tail(@)]
       ELSE UNCHANGED chain /\ Settle(i)

ChainInit == chain = << >> /\ tasks = << >>

ChainNext ==
    \/ IngestCalled
    \/ ReplayCalled
    \/ \E payload \in Payload : authorAndAppend(payload)
    \/ \E i \in _runExclusive : IngestChecks(i)
    \/ \E i \in _runExclusive : IngestApplies(i)
    \/ \E i \in _runExclusive : ReplayStarts(i)
    \/ \E i \in _runExclusive : ReplayIngests(i)

ChainSpec == ChainInit /\ [][ChainNext]_chainVars

(* Whatever is offered, called concurrently or replayed, every entry stands *)
(* at its own position on the hash of the entries before it.                *)
ChainLinked ==
    \A i \in DOMAIN chain : /\ chain[i].sequenceNumber = i - 1
                            /\ chain[i].parentHash = Payloads(SubSeq(chain, 1, i - 1))

(* Every entry is signed by a founder or by a writer of the state before    *)
(* it: nobody enters the chain by an entry of their own, and no entry of    *)
(* somebody removed earlier is kept.                                        *)
ChainAuthorized ==
    \A i \in DOMAIN chain :
        /\ chain[i].signed
        /\ IF i = 1 THEN chain[i].payload.signer \in genesisAuthorizedKeys
           ELSE chain[i].payload.signer \in WritersAfter(SubSeq(chain, 1, i - 1))
=============================================================================
