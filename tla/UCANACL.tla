------------------------------ MODULE UCANACL ------------------------------
(***************************************************************************)
(* core/src/ucan-acl.ts: capabilities and local revocations over a backing  *)
(* member list (core/src/acl.ts).  One wrapper, its public operations with  *)
(* the awaits of the identity codec and of the backing list, the changes    *)
(* callers have prepared, claims that are finalized later, remote merges    *)
(* and a backing list that fails.                                           *)
(*                                                                          *)
(* The backing list is external: members are added, removed and merged as   *)
(* its contract says, and after a failed mutation it may hold either state. *)
(* The revision object of the code is a flag in whatever has captured it:   *)
(* rotating the revision makes all captured ones stale.  As                 *)
(* PreparedCommitClaim asks, callers start no other mutation between a      *)
(* claim and its finalization; reads they may.                              *)
(***************************************************************************)
EXTENDS Integers, FiniteSets, Sequences

CONSTANTS
    Users,                      \* public keys
    Capabilities,               \* those a grant may carry
    MAX_STABLE_READ_ATTEMPTS,
    MaxMutations                \* bound: operations on the backing list

ASSUME UCANAssumption == {MAX_STABLE_READ_ATTEMPTS, MaxMutations} \subseteq Nat

VARIABLES
    backing,    \* the members of the backing list
    entries,    \* _entries: the capability granted to a key, or NoEntry
    revokedKeys,\* _revokedKeys
    uncertain,  \* _backingStateUncertain or _backingSyncContractViolated
    operation,  \* the public operation in flight, or Idle
    change,     \* the change a caller has prepared, or NoChange
    mutations   \* operations on the backing list so far

ucanVars == <<backing, entries, revokedKeys, uncertain, operation, change, mutations>>

NoEntry == "none"
AnyCapability == "any"
Idle == [kind |-> "idle"]
NoChange == [state |-> "none"]

capabilityImplies(held, wanted) == held = wanted

(* Membership is what the backing list says; a capability is refused to a   *)
(* key revoked here and to a key granted another one.                       *)
_isLocallyAuthorized(key, capability) ==
    \/ capability = AnyCapability
    \/ /\ key \notin revokedKeys
       /\ entries[key] = NoEntry \/ capabilityImplies(entries[key], capability)

_assertHealthy == ~uncertain

_assertPublicOperationAvailable == _assertHealthy /\ operation = Idle

Reserved == change.state = "claimed"

(* A read under way and a change still to be claimed are stale from now on. *)
_markBackingMutation(c) == IF c.state = "prepared" THEN [c EXCEPT !.current = FALSE] ELSE c
ReadStale(op) == IF op.kind = "check" THEN [op EXCEPT !.current = FALSE] ELSE op

Mutation(kind, key, capability) ==
    [kind |-> kind, key |-> key, capability |-> capability, phase |-> "codec"]

-----------------------------------------------------------------------------
(* Mutations                                                                *)

_startMembershipMutation ==
    /\ _assertPublicOperationAvailable /\ ~Reserved
    /\ mutations < MaxMutations
    /\ \E key \in Users, kind \in {"add", "remove", "prepareAdd", "prepareRemove"} :
           operation' = Mutation(kind, key, AnyCapability)
    /\ mutations' = mutations + 1
    /\ UNCHANGED <<backing, entries, revokedKeys, uncertain, change>>

StartGrant ==
    /\ _assertPublicOperationAvailable /\ ~Reserved
    /\ mutations < MaxMutations
    /\ \E key \in Users, capability \in Capabilities : operation' = Mutation("grant", key, capability)
    /\ mutations' = mutations + 1
    /\ UNCHANGED <<backing, entries, revokedKeys, uncertain, change>>

InCodec == operation.kind \notin {"idle", "check"} /\ operation.phase = "codec"
InBacking(kinds) == operation.kind \in kinds /\ operation.phase = "backing"

(* The key is canonical; the backing method is looked up, which rotates the *)
(* revision.                                                                *)
CodecEnds ==
    /\ InCodec
    /\ operation' = IF _assertHealthy THEN [operation EXCEPT !.phase = "backing"] ELSE Idle
    /\ change' = IF _assertHealthy THEN _markBackingMutation(change) ELSE change
    /\ UNCHANGED <<backing, entries, revokedKeys, uncertain, mutations>>

(* The codec fails, or the preparation does: only the lookup of the backing *)
(* method rotates the revision.                                             *)
MutationRejected ==
    /\ InCodec \/ InBacking({"add", "remove", "prepareAdd", "prepareRemove"})
    /\ operation' = Idle
    /\ change' = IF InCodec THEN change ELSE _markBackingMutation(change)
    /\ UNCHANGED <<backing, entries, revokedKeys, uncertain, mutations>>

Removes(kind) == kind \in {"remove", "prepareRemove"}
StagedMembers(op) == IF Removes(op.kind) THEN backing \ {op.key} ELSE backing \cup {op.key}

(* What an addition or removal of the key leaves of the local metadata.     *)
CommitMetadata(key, removes) ==
    /\ revokedKeys' = IF removes THEN revokedKeys \cup {key} ELSE revokedKeys \ {key}
    /\ entries' = IF removes THEN [entries EXCEPT ![key] = NoEntry] ELSE entries

(* add, remove: prepared and committed under the operation's own turn.      *)
MutationCommits ==
    /\ InBacking({"add", "remove"})
    /\ backing' = StagedMembers(operation)
    /\ CommitMetadata(operation.key, Removes(operation.kind))
    /\ change' = _markBackingMutation(change)
    /\ operation' = Idle
    /\ UNCHANGED <<uncertain, mutations>>

(* prepareAdd, prepareRemove: a caller has one change prepared at a time.   *)
ChangePrepared ==
    /\ InBacking({"prepareAdd", "prepareRemove"})
    /\ change' = [state |-> "prepared", key |-> operation.key, removes |-> Removes(operation.kind),
                  members |-> StagedMembers(operation), current |-> TRUE]
    /\ operation' = Idle
    /\ UNCHANGED <<backing, entries, revokedKeys, uncertain, mutations>>

GrantCommits ==
    /\ InBacking({"grant"})
    /\ backing' = backing \cup {operation.key}
    /\ revokedKeys' = revokedKeys \ {operation.key}
    /\ entries' = [entries EXCEPT ![operation.key] = operation.capability]
    /\ change' = _markBackingMutation(change)
    /\ operation' = Idle
    /\ UNCHANGED <<uncertain, mutations>>

(* A failed backing mutation may have changed the list.                     *)
GrantFails ==
    /\ InBacking({"grant"})
    /\ uncertain' = TRUE
    /\ backing' \in {backing, backing \cup {operation.key}}
    /\ change' = _markBackingMutation(change)
    /\ operation' = Idle
    /\ UNCHANGED <<entries, revokedKeys, mutations>>

-----------------------------------------------------------------------------
(* Prepared changes                                                         *)

Claimable == change.state = "prepared" /\ change.current /\ _assertPublicOperationAvailable

ClaimCommit ==
    /\ Claimable
    /\ change' = [change EXCEPT !.state = "claimed"]
    /\ UNCHANGED <<backing, entries, revokedKeys, uncertain, operation, mutations>>

(* The backing list refuses the claim or breaks its contract in it.         *)
ClaimFails ==
    /\ Claimable
    /\ change' = NoChange
    /\ uncertain' \in {uncertain, TRUE}
    /\ UNCHANGED <<backing, entries, revokedKeys, operation, mutations>>

(* Runs although the wrapper became uncertain after the claim.             *)
Finalize ==
    /\ change.state = "claimed"
    /\ backing' = change.members
    /\ CommitMetadata(change.key, change.removes)
    /\ change' = NoChange
    /\ operation' = ReadStale(operation)
    /\ UNCHANGED <<uncertain, mutations>>

FinalizerFails ==
    /\ change.state = "claimed"
    /\ uncertain' = TRUE
    /\ backing' \in {backing, change.members}
    /\ change' = NoChange
    /\ operation' = ReadStale(operation)
    /\ UNCHANGED <<entries, revokedKeys, mutations>>

AbandonChange ==
    /\ change.state \in {"prepared", "claimed"}
    /\ change' = NoChange
    /\ UNCHANGED <<backing, entries, revokedKeys, uncertain, operation, mutations>>

(* merge: remote members come and go; a rejected merge poisons nothing.     *)
RemoteMerge ==
    /\ _assertPublicOperationAvailable /\ ~Reserved
    /\ mutations < MaxMutations
    /\ \E key \in Users : backing' \in {backing \cup {key}, backing \ {key}}
    /\ change' = _markBackingMutation(change)
    /\ mutations' = mutations + 1
    /\ UNCHANGED <<entries, revokedKeys, uncertain, operation>>

-----------------------------------------------------------------------------
(* check                                                                    *)

CheckCalled ==
    /\ _assertPublicOperationAvailable
    /\ \E key \in Users, capability \in Capabilities \cup {AnyCapability} :
           operation' = [kind |-> "check", key |-> key, capability |-> capability, attempt |-> 1,
                         current |-> TRUE, member |-> key \in backing, answer |-> "pending"]
    /\ UNCHANGED <<backing, entries, revokedKeys, uncertain, change, mutations>>

StableRead(op) == op.current

(* The backing read returns.  It is answered, read again, or given up.      *)
CheckReads ==
    /\ operation.kind = "check" /\ operation.answer = "pending"
    /\ operation' =
          CASE ~_assertHealthy -> Idle
            [] _assertHealthy /\ StableRead(operation) ->
                   [operation EXCEPT !.answer =
                       IF operation.member /\ _isLocallyAuthorized(operation.key, operation.capability)
                       THEN "yes" ELSE "no"]
            [] _assertHealthy /\ ~StableRead(operation) /\ operation.attempt < MAX_STABLE_READ_ATTEMPTS ->
                   [operation EXCEPT !.attempt = @ + 1, !.current = TRUE, !.member = operation.key \in backing]
            [] OTHER -> Idle
    /\ UNCHANGED <<backing, entries, revokedKeys, uncertain, change, mutations>>

CheckAnswered ==
    /\ operation.kind = "check" /\ operation.answer # "pending"
    /\ operation' = Idle
    /\ UNCHANGED <<backing, entries, revokedKeys, uncertain, change, mutations>>

UCANInit ==
    /\ backing = {}
    /\ entries = [key \in Users |-> NoEntry]
    /\ revokedKeys = {}
    /\ uncertain = FALSE
    /\ operation = Idle
    /\ change = NoChange
    /\ mutations = 0

UCANNext ==
    \/ _startMembershipMutation
    \/ StartGrant
    \/ CodecEnds
    \/ MutationRejected
    \/ MutationCommits
    \/ ChangePrepared
    \/ GrantCommits
    \/ GrantFails
    \/ ClaimCommit
    \/ ClaimFails
    \/ Finalize
    \/ FinalizerFails
    \/ AbandonChange
    \/ RemoteMerge
    \/ CheckCalled
    \/ CheckReads
    \/ CheckAnswered

UCANSpec == UCANInit /\ [][UCANNext]_ucanVars

-----------------------------------------------------------------------------
(* Properties                                                               *)

(* A key that was removed here has no capability left, not even when a      *)
(* remote change makes it a member again; only an addition or a grant made  *)
(* here gives it one.                                                       *)
RevocationSticks ==
    [][\A key \in Users :
          /\ key \in revokedKeys => entries[key] = NoEntry
          /\ key \in revokedKeys /\ key \notin revokedKeys'
             => \/ operation.kind \in {"add", "grant"} /\ operation.key = key
                \/ change.state = "claimed" /\ ~change.removes /\ change.key = key]_ucanVars

(* An affirmative answer is true when it is given, also when a claimed      *)
(* change was finalized while the backing list was being read.              *)
CheckSound ==
    [][operation.kind = "check" /\ operation'.kind = "check"
       /\ operation.answer = "pending" /\ operation'.answer = "yes"
       => /\ operation.key \in backing
          /\ operation.capability # AnyCapability => operation.key \notin revokedKeys]_ucanVars

(* A prepared change alters the membership of its own key and of no other:  *)
(* what was added, removed or merged since it was staged is not undone.     *)
PreparedChangesOne ==
    [][change.state = "claimed" /\ change'.state = "none" /\ backing' # backing
       => (backing \ backing') \cup (backing' \ backing) = {change.key}]_ucanVars

(* After a failure that may have left the backing list half changed, only a *)
(* change claimed before it is installed; nothing else is changed again.    *)
PoisonedIsFrozen ==
    [][uncertain /\ change.state # "claimed"
       => backing' = backing /\ entries' = entries /\ revokedKeys' = revokedKeys]_ucanVars
=============================================================================
