-------------------------- MODULE DocumentWelcome --------------------------
(***************************************************************************)
(* How a document becomes able to read: the receive side of BeeKEM Welcomes *)
(* and PathUpdates in core/src/peerborne-document.ts, with the buffer for   *)
(* Welcomes that arrive before their readers-ACL update                     *)
(* (pending-welcome-buffer.ts, policy/welcome-admission.ts) and the life    *)
(* cycle of the first load, which applies the ACL and drains that buffer    *)
(* against a deadline.                                                      *)
(*                                                                          *)
(* One receiving document.  Handlers, syncs, the load and the drains take   *)
(* turns in the mutation queue; `job' is the one that has it.  Only a load  *)
(* gives it up before it is done: at its deadline the queue moves on while  *)
(* the drain or the ACL merge it was waiting for goes on by itself.         *)
(*                                                                          *)
(* The epoch of a Welcome or PathUpdate is the number of its document key   *)
(* in the writer's chain, its generation that of the writer's tree; a body  *)
(* is signed by the writer or by a stranger.  Malformed and misaddressed    *)
(* messages are dropped by the same handler without a trace and left out.   *)
(***************************************************************************)
EXTENDS Integers, FiniteSets, Sequences, Functions

CONSTANTS
    Welcomes,       \* the Welcome bodies that may arrive
    Rotations,      \* the PathUpdates that may arrive: <<generation, epoch>> they lead to
    MaxEntries,     \* PENDING_WELCOMES_MAX_ENTRIES
    MaxBytes,       \* PENDING_WELCOMES_MAX_RETAINED_BYTES
    Ttl,            \* PENDING_WELCOMES_TTL_MS
    Clock,          \* the readings of the wall clock, which may go back
    MaxMerges,      \* bound: ACL merges of later syncs
    MaxFaults       \* bound: providers that fail in a commit

ASSUME WelcomeAssumption ==
    /\ \A w \in Welcomes : /\ w.bytes \in 1 .. MaxBytes
                           /\ w.generation >= 1 /\ w.epoch \in w.keys
                           /\ \A k \in w.keys : k <= w.epoch
    /\ MaxEntries \in Nat \ {0}
    /\ Ttl \in Nat /\ Clock \subseteq Nat /\ Clock # {}
    /\ {MaxMerges, MaxFaults} \subseteq Nat

VARIABLES
    state,      \* _bootstrapLoadApplicationState
    job,        \* who has the mutation queue
    merging,    \* the ACL merges of the load that have not settled
    reader,     \* the readers ACL has the local user
    writer,     \* the writers ACL has the writer's key
    keys,       \* the epochs whose keys the keychain has
    invited,    \* _invitationEpoch, 0 when undefined
    generation, \* of the local tree, 0 without one
    buffer,     \* the pending Welcomes, oldest first
    observed,   \* the buffer's nondecreasing clock
    drain,      \* the drain under way
    drainDue,   \* a drain is queued
    merges,     \* ACL merges so far
    faults      \* failed commits so far

secrets == <<keys, invited, generation>>
acl == <<reader, writer>>
welcomeVars == <<state, job, merging, reader, writer, keys, invited, generation,
          buffer, observed, drain, drainDue, merges, faults>>

Entry == [body : Welcomes, authenticated : BOOLEAN, at : Clock]
KeyOf(entry) == entry.body.epoch
Keys(entries) == {KeyOf(e) : e \in Range(entries)}

NoDrain == [on |-> FALSE, aborted |-> FALSE, todo |-> << >>, at |-> 0, read |-> << >>]

-----------------------------------------------------------------------------
(* Admission to the buffer                                                  *)

Bytes[entries \in Seq(Entry)] ==
    IF entries = << >> THEN 0 ELSE Head(entries).body.bytes + Bytes[Tail(entries)]

Protected(entries) == SelectSeq(entries, LAMBDA e : e.authenticated)

canReplacePendingWelcome(existing, authenticated) == ~existing \/ authenticated

(* An unauthenticated arrival may push out unauthenticated entries only.    *)
canAdmitPendingWelcome(entries, existing, authenticated, bytes) ==
    /\ canReplacePendingWelcome(existing, authenticated)
    /\ \/ authenticated
       \/ /\ Len(Protected(entries)) < MaxEntries
          /\ Bytes[Protected(entries)] <= MaxBytes - bytes

planPendingWelcomeRemoval(entries, key) ==
    SelectSeq(entries, LAMBDA e : KeyOf(e) # key)

Fits(count, total, bytes) ==
    /\ count < MaxEntries
    /\ total <= MaxBytes - bytes

(* Entries are dropped from the oldest until the new body fits: among those *)
(* not authenticated, or among all.                                         *)
RECURSIVE trimPendingWelcomes(_, _, _, _, _)
trimPendingWelcomes(entries, count, total, bytes, allowAuthenticated) ==
    IF entries = << >> THEN << >>
    ELSE LET e == Head(entries)
         IN  IF (allowAuthenticated \/ ~e.authenticated) /\ ~Fits(count, total, bytes)
             THEN trimPendingWelcomes(Tail(entries), count - 1, total - e.body.bytes,
                                      bytes, allowAuthenticated)
             ELSE <<e>> \o trimPendingWelcomes(Tail(entries), count, total,
                                               bytes, allowAuthenticated)

Trimmed(entries, bytes, allowAuthenticated) ==
    trimPendingWelcomes(entries, Len(entries), Bytes[entries], bytes, allowAuthenticated)

planPendingWelcomeAdmission(entries, key, bytes, authenticated) ==
    LET unverified == Trimmed(planPendingWelcomeRemoval(entries, key), bytes, FALSE)
    IN  IF authenticated THEN Trimmed(unverified, bytes, TRUE) ELSE unverified

advancePendingWelcomeClock(previous, now) == IF previous >= now THEN previous ELSE now

isPendingWelcomeExpired(entry, now) == now - entry.at > Ttl

insertPendingWelcomeValue(entries, entry) == Append(entries, entry)

(* PendingWelcomeBuffer.store, by way of storeMessage.                      *)
Store(w, authenticated, now) ==
    LET at == advancePendingWelcomeClock(observed, now)
        admitted == canAdmitPendingWelcome(buffer, w.epoch \in Keys(buffer),
                                           authenticated, w.bytes)
        kept == planPendingWelcomeAdmission(buffer, w.epoch, w.bytes, authenticated)
        entry == [body |-> w, authenticated |-> authenticated, at |-> at]
    IN  IF admitted
        THEN /\ buffer' = insertPendingWelcomeValue(kept, entry)
             /\ observed' = at
        ELSE UNCHANGED <<buffer, observed>>

-----------------------------------------------------------------------------
(* Evaluating a Welcome                                                     *)

SignatureValid(w) == w.by = "writer" /\ writer

(* evaluateBeeKEMWelcome: the reader check comes before the verdict on the  *)
(* signature, since the update that makes the user a reader may also bring  *)
(* the key that verifies it.                                                *)
evaluateBeeKEMWelcome(w) ==
    IF ~reader THEN "not-in-readers-acl"
    ELSE IF ~SignatureValid(w) THEN "invalid-signature"
    ELSE "accept"

Latest(epochs) == CHOOSE e \in epochs : \A f \in epochs : f <= e

(* What is staged beside the live state: the merged keychain must lead from *)
(* the last invitation to this one and end in it, and the tree must be new. *)
WelcomeAdvances(w, at) ==
    LET staged == at.keys \cup w.keys
    IN  /\ w.epoch # at.invited
        /\ at.invited # 0 => at.invited \in staged /\ w.epoch > at.invited
        /\ Latest(staged) = w.epoch
        /\ w.generation > at.generation

Here == [keys |-> keys, invited |-> invited, generation |-> generation]

(* What the evaluation saw, kept over its awaits until the commit.          *)
Evaluated(w) ==
    [body |-> w, at |-> Here,
     outcome |-> IF evaluateBeeKEMWelcome(w) # "accept" THEN "retry"
                 ELSE IF WelcomeAdvances(w, Here) THEN "apply" ELSE "terminal"]

Unmoved(read) == read.at.invited = invited /\ read.at.generation = generation

(* The commit: keychain, tree and invitation epoch together.                *)
CommitWelcome(read) ==
    /\ keys' = read.at.keys \cup read.body.keys
    /\ invited' = read.body.epoch
    /\ generation' = read.body.generation

(* A provider fails while the claimed commit is finalized: the keychain may *)
(* or may not have the new keys, the rest is as before.                     *)
CommitFails(newKeys) ==
    /\ faults < MaxFaults
    /\ faults' = faults + 1
    /\ keys' \in {keys, newKeys}
    /\ state' = "poisoned"
    /\ UNCHANGED <<invited, generation>>

-----------------------------------------------------------------------------
(* The mutation queue                                                       *)

Blocked == state \in {"pending", "poisoned"}

(* _runStateMutation: the queue is free and no load was left half applied.  *)
Turn == job = "none" /\ ~Blocked

(* A Welcome arrives.  If the user is not a reader yet it is parked.        *)
HandleWelcome(w) ==
    /\ Turn
    /\ LET read == Evaluated(w)
       IN  CASE evaluateBeeKEMWelcome(w) = "not-in-readers-acl" ->
                    /\ \E now \in Clock : Store(w, SignatureValid(w), now)
                    /\ UNCHANGED <<secrets, state, faults>>
             [] read.outcome = "apply" ->
                    /\ \/ CommitWelcome(read) /\ UNCHANGED <<state, faults>>
                       \/ CommitFails(keys \cup w.keys)
                    /\ UNCHANGED <<buffer, observed>>
             [] OTHER -> UNCHANGED <<buffer, observed, secrets, state, faults>>
    /\ UNCHANGED <<job, merging, acl, drain, drainDue, merges>>

(* A bug: an update is applied to any older tree.                           *)
RotationSkips(r) == generation # 0 /\ r[1] > generation /\ writer

(* classifyBeeKEMGeneration of a PathUpdate that leads to r.                *)
RotationFollows(r) == generation # 0 /\ r[1] = generation + 1 /\ writer

(* A PathUpdate arrives.  It has to follow the tree's generation.           *)
HandlePathUpdate(r) ==
    /\ Turn
    /\ RotationFollows(r)
    /\ \/ /\ keys' = keys \cup {r[2]}
          /\ generation' = r[1]
          /\ UNCHANGED <<invited, state, faults>>
       \/ CommitFails(keys \cup {r[2]})
    /\ UNCHANGED <<job, merging, acl, buffer, observed, drain, drainDue, merges>>

(* A bug: a merge does not look for Welcomes that waited for it.            *)
MergeOnly(due) == due

(* _schedulePendingWelcomeDrain                                             *)
schedulePendingWelcomeDrain(due) == due \/ buffer # << >>

(* A later sync merges an ACL.  Only the readers ACL queues a drain.        *)
SyncReaders(value) ==
    /\ Turn
    /\ merges < MaxMerges
    /\ merges' = merges + 1
    /\ reader' = value
    /\ drainDue' = schedulePendingWelcomeDrain(drainDue)
    /\ UNCHANGED <<state, job, merging, writer, secrets, buffer, observed, drain, faults>>

SyncWriters ==
    /\ Turn
    /\ merges < MaxMerges
    /\ merges' = merges + 1
    /\ writer' = TRUE
    /\ UNCHANGED <<state, job, merging, reader, secrets, buffer, observed, drain,
                   drainDue, faults>>

-----------------------------------------------------------------------------
(* Draining the buffer                                                      *)

Kept(entries, now) == SelectSeq(entries, LAMBDA e : ~isPendingWelcomeExpired(e, now))

(* Expired entries go first; then the keys are replayed oldest first.       *)
BeginDrain(now) ==
    LET at == advancePendingWelcomeClock(observed, now)
    IN  /\ buffer' = Kept(buffer, at)
        /\ observed' = at
        /\ drain' = [NoDrain EXCEPT
                        !.on = TRUE,
                        !.todo = [i \in DOMAIN Kept(buffer, at) |-> KeyOf(Kept(buffer, at)[i])]]

StartDrain ==
    /\ Turn
    /\ drainDue
    /\ drainDue' = FALSE
    /\ IF buffer = << >> THEN UNCHANGED <<job, buffer, observed, drain>>
       ELSE /\ job' = "drain"
            /\ \E now \in Clock : BeginDrain(now)
    /\ UNCHANGED <<state, merging, acl, secrets, merges, faults>>

Buffered(key) == {e \in Range(buffer) : KeyOf(e) = key}

(* One key: its entry is read and evaluated, which awaits.                  *)
DrainRead ==
    /\ drain.on /\ drain.read = << >> /\ drain.todo # << >>
    /\ ~drain.aborted
    /\ LET key == Head(drain.todo)
       IN  drain' = [drain EXCEPT
                        !.todo = Tail(@),
                        !.at = key,
                        !.read = IF Buffered(key) = {} THEN << >>
                                 ELSE <<Evaluated((CHOOSE e \in Buffered(key) : TRUE).body)>>]
    /\ UNCHANGED <<state, job, merging, acl, secrets, buffer, observed, drainDue,
                   merges, faults>>

StillActive(d) == ~d.aborted

Done(outcome) == outcome # "retry"

(* The awaits are over: the deadline is checked, the Welcome committed if   *)
(* the state it was evaluated on is still there, and its entry deleted.     *)
DrainApply ==
    /\ drain.on /\ drain.read # << >>
    /\ StillActive(drain)
    /\ LET read == drain.read[1]
           without == planPendingWelcomeRemoval(buffer, drain.at)
           outcome == IF read.outcome = "apply" /\ ~Unmoved(read) THEN "retry"
                                                                 ELSE read.outcome
       IN  \/ /\ IF outcome = "apply" THEN CommitWelcome(read) ELSE UNCHANGED secrets
              /\ buffer' = IF Done(outcome) THEN without ELSE buffer
              /\ drain' = [drain EXCEPT !.read = << >>]
              /\ UNCHANGED <<state, faults, job>>
           \/ /\ outcome = "apply"
              /\ CommitFails(read.at.keys \cup read.body.keys)
              /\ drain' = NoDrain
              /\ job' = "none"
              /\ UNCHANGED buffer
    /\ UNCHANGED <<merging, acl, observed, drainDue, merges>>

(* The drain of a load that has passed its deadline throws at its next step.*)
DrainThrows ==
    /\ drain.on /\ drain.aborted
    /\ drain' = NoDrain
    /\ UNCHANGED <<state, job, merging, acl, secrets, buffer, observed, drainDue,
                   merges, faults>>

DrainEnds ==
    /\ drain.on /\ drain.read = << >> /\ drain.todo = << >> /\ ~drain.aborted
    /\ drain' = NoDrain
    /\ job' = IF job = "drain" THEN "none" ELSE "finish"
    /\ UNCHANGED <<state, merging, acl, secrets, buffer, observed, drainDue,
                   merges, faults>>

-----------------------------------------------------------------------------
(* The first load                                                           *)

StartLoad ==
    /\ job = "none"
    /\ state = "pristine"
    /\ job' = "load"
    /\ UNCHANGED <<state, merging, acl, secrets, buffer, observed, drain, drainDue,
                   merges, faults>>

(* The response is applied: from its first write on the instance is marked. *)
LoadMerges(lists) ==
    /\ job = "load"
    /\ state = "pristine"
    /\ state' = "pending"
    /\ job' = "merge"
    /\ merging' = lists
    /\ UNCHANGED <<acl, secrets, buffer, observed, drain, drainDue, merges, faults>>

(* A merge of the load settles.                                             *)
MergeSettles(list) ==
    /\ list \in merging
    /\ merging' = merging \ {list}
    /\ reader' = (reader \/ list = "readers")
    /\ writer' = (writer \/ list = "writers")
    /\ UNCHANGED <<state, job, secrets, buffer, observed, drain, drainDue, merges, faults>>

(* The response was complete: what was parked is replayed before the load   *)
(* is declared done.                                                        *)
LoadDrains ==
    /\ job = "merge" /\ merging = {}
    /\ IF buffer = << >>
       THEN job' = "finish" /\ UNCHANGED <<buffer, observed, drain>>
       ELSE job' = "loaddrain" /\ \E now \in Clock : BeginDrain(now)
    /\ UNCHANGED <<state, merging, acl, secrets, drainDue, merges, faults>>

LoadCompletes ==
    /\ job = "finish"
    /\ state = "pending"
    /\ state' = "complete"
    /\ job' = "none"
    /\ UNCHANGED <<merging, acl, secrets, buffer, observed, drain, drainDue,
                   merges, faults>>

(* The deadline of the load: the queue is free again.  Before its first     *)
(* write the instance stays pristine, after it it stays pending, and an ACL *)
(* merge given up before it settled poisons it.                             *)
LoadDeadline ==
    /\ job \in {"load", "merge", "loaddrain", "finish"}
    /\ job' = "none"
    /\ state' = IF job = "merge" /\ merging # {} THEN "poisoned" ELSE state
    /\ drain' = [drain EXCEPT !.aborted = drain.on]
    /\ UNCHANGED <<merging, acl, secrets, buffer, observed, drainDue, merges, faults>>

-----------------------------------------------------------------------------
WelcomeInit ==
    /\ state = "pristine"
    /\ job = "none"
    /\ merging = {}
    /\ reader = FALSE /\ writer = FALSE
    /\ keys = {} /\ invited = 0 /\ generation = 0
    /\ buffer = << >> /\ observed = 0
    /\ drain = NoDrain
    /\ drainDue = FALSE
    /\ merges = 0 /\ faults = 0

Work ==
    \/ StartDrain
    \/ DrainRead
    \/ DrainApply
    \/ DrainThrows
    \/ DrainEnds
    \/ LoadDrains
    \/ LoadCompletes

WelcomeNext ==
    \/ \E w \in Welcomes : HandleWelcome(w)
    \/ \E r \in Rotations : HandlePathUpdate(r)
    \/ \E value \in BOOLEAN : SyncReaders(value)
    \/ SyncWriters
    \/ StartLoad
    \/ \E lists \in SUBSET {"readers", "writers"} : LoadMerges(lists)
    \/ \E list \in {"readers", "writers"} : MergeSettles(list)
    \/ LoadDeadline
    \/ Work

(* The queue goes on, and a load ends, at the latest at its deadline.  The  *)
(* queue is first in, first out: a drain that waits in it is not overtaken  *)
(* for ever.                                                                *)
WelcomeFairness ==
    /\ WF_welcomeVars(Work)
    /\ WF_welcomeVars(LoadDeadline)
    /\ SF_welcomeVars(StartDrain)

WelcomeSpec == WelcomeInit /\ [][WelcomeNext]_welcomeVars /\ WelcomeFairness

-----------------------------------------------------------------------------
(* Properties                                                               *)

TypeOK ==
    /\ state \in {"pristine", "pending", "complete", "poisoned"}
    /\ job \in {"none", "drain", "load", "merge", "loaddrain", "finish"}
    /\ merging \subseteq {"readers", "writers"}
    /\ {reader, writer, drainDue} \subseteq BOOLEAN
    /\ buffer \in Seq(Entry)
    /\ observed \in Clock
    /\ merges \in 0 .. MaxMerges /\ faults \in 0 .. MaxFaults

(* The buffer is within its limits of entries and of bytes, and parks at    *)
(* most one Welcome per epoch, whatever arrived in which order.             *)
BufferBounded ==
    /\ Len(buffer) <= MaxEntries
    /\ Bytes[buffer] <= MaxBytes
    /\ Cardinality(Keys(buffer)) = Len(buffer)

(* Once a load has failed after its first write, or a commit has failed,    *)
(* nothing touches the keys, the tree or the parked Welcomes any more: a    *)
(* drain that outlives the deadline applies and deletes nothing.            *)
Failed == state = "poisoned" \/ (state = "pending" /\ job = "none")

FrozenAfterFailure == [][Failed => UNCHANGED <<secrets, buffer, state>>]_welcomeVars

(* An authenticated Welcome leaves the buffer only because it expired, was  *)
(* applied or overtaken by the state of the document, or made room for      *)
(* another authenticated one; never for something unverified, and never     *)
(* because a replay could not be decided yet.                               *)
AuthenticatedKept ==
    [][\A e \in Range(buffer) : e.authenticated =>
          \/ e \in Range(buffer')
          \/ isPendingWelcomeExpired(e, observed')
          \/ \E n \in Range(buffer') \ Range(buffer) : n.authenticated
          \/ ~WelcomeAdvances(e.body, Here)']_welcomeVars

(* The document only moves forward: its tree, its invitation epoch and its  *)
(* newest key are never replaced by older ones, and no key is lost.         *)
RatchetForward ==
    [][/\ keys \subseteq keys'
       /\ invited <= invited'
       /\ generation <= generation'
       /\ invited # invited' => generation < generation']_welcomeVars

(* Unless a commit failed, the keys the document has are those of every     *)
(* epoch from some invitation on without a gap, and the newest belongs to   *)
(* the generation of its tree.                                              *)
NoKeyGap ==
    faults = 0 =>
        /\ (keys = {}) = (generation = 0)
        /\ \A k \in keys : \A j \in keys : \A i \in j .. k : i \in keys
        /\ generation # 0 =>
              \/ \E w \in Welcomes : w.generation = generation /\ w.epoch = Latest(keys)
              \/ <<generation, Latest(keys)>> \in Rotations

(* An authenticated parked Welcome does not wait for ever for a document    *)
(* that has become its reader: it leaves the buffer, unless the document    *)
(* loses that role, fails, or is loading.                                   *)
WelcomeServed ==
    \A w \in Welcomes :
        (\E e \in Range(buffer) : e.body = w /\ e.authenticated /\ reader)
            ~> \/ ~\E e \in Range(buffer) : e.body = w /\ e.authenticated
               \/ ~reader \/ Blocked \/ faults > 0
=============================================================================
