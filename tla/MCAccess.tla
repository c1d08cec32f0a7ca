------------------------------- MODULE MCAccess -------------------------------
(* The parts that decide who is a member, which share no state, side by side: *)
(* a behaviour is one of the chosen component, the others stay in their       *)
(* initial state.                                                            *)
EXTENDS KeychainHistory, MemberList, UCANACL, ACLChain, DocumentMembership, MembershipControl

CONSTANTS k1, k2, ma, mb

VARIABLE component

SmallEntries == {<<1, 1>>, <<2, 1>>, <<1, 2>>}

(* What the founder asks for, and what the dishonest member makes up.         *)
SmallRequests ==
    {<<>>, <<AddMember("j", "j")>>, <<AddMember("j", "m")>>, <<RemoveMember("h")>>}
SmallForgeries ==
    {<<>>, <<AddMember("j", "j")>>, <<RemoveMember("h")>>,
     <<AddMember("j", "j"), RemoveMember("h")>>}

(* Of two calls of a chain under way the later one offers genuine signatures. *)
GenuineSecond(called) ==
    Len(called) = 2 => \A j \in DOMAIN called[2].todo : called[2].todo[j].signed

(* One replica of a keychain stages at a time: a stage is local to its replica *)
(* and meets the others only in what they have exported.                      *)
OneStaged(staged) == Cardinality({k \in Keychains : staged[k].on}) <= 1

(* Mutations of the member lists are queued at one replica at a time: replicas *)
(* meet in merges only, which a queued mutation refuses.                      *)
OneQueued(mutation) == Cardinality({r \in Lists : mutation[r].on}) <= 1

(* Replicas of a keychain are interchangeable, and so are members of a list   *)
(* and the collaborators of a node.                                           *)
Symmetry == Permutations({k1, k2}) \cup Permutations({ma, mb}) \cup Permutations(Others)

Init ==
    /\ component \in {"keychain", "list", "ucan", "chain", "membership", "control"}
    /\ KeychainInit
    /\ component # "keychain" => adapter = "yjs"
    /\ MemberListInit
    /\ component # "list" => crdt = "yjs"
    /\ UCANInit
    /\ ChainInit
    /\ MembershipInit
    /\ component # "membership" => createdLocally
    /\ ControlInit

Next ==
    \/ component = "keychain" /\ KeychainNext /\ OneStaged(stage')
       /\ UNCHANGED <<component, listVars, ucanVars, chainVars, membershipVars, controlVars>>
    \/ component = "list" /\ MemberListNext /\ OneQueued(queued')
       /\ UNCHANGED <<component, keychainVars, ucanVars, chainVars, membershipVars, controlVars>>
    \/ component = "ucan" /\ UCANNext
       /\ UNCHANGED <<component, keychainVars, listVars, chainVars, membershipVars, controlVars>>
    \/ component = "chain" /\ ChainNext /\ GenuineSecond(tasks')
       /\ UNCHANGED <<component, keychainVars, listVars, ucanVars, membershipVars, controlVars>>
    \/ component = "membership" /\ MembershipNext
       /\ UNCHANGED <<component, keychainVars, listVars, ucanVars, chainVars, controlVars>>
    \/ component = "control" /\ ControlNext
       /\ UNCHANGED <<component, keychainVars, listVars, ucanVars, chainVars, membershipVars>>

vars == <<component, keychainVars, listVars, ucanVars, chainVars, membershipVars, controlVars>>

Spec == Init /\ [][Next]_vars

-------------------------------------------------------------------------------
(* Properties: what is asked of each part, by theme, in the behaviours in     *)
(* which that part takes steps.                                               *)

(* Replicas of a keychain agree: one history per lineage whose newest key all *)
(* can name, keys are only ever appended, and a hydrated merge commits with   *)
(* every key usable.                                                          *)
KeysKept ==
    /\ [](component = "keychain" =>
            KeychainLinear /\ FirstKeyCanonical /\ CurrentKeyReplays /\ LineagesSettle)
    /\ KeysAppendOnly /\ HydratedKeysUsable

(* Member lists stay within their limits, drop no change they took in, let no *)
(* removed member back in by the order of arrival, and the capabilities kept  *)
(* beside them are right when they are asked for: a revocation sticks, a      *)
(* prepared change alters one key, an uncertain list is frozen.               *)
ListsSound ==
    /\ [](component = "list" =>
            IdentifiersUnique /\ RemovalEffective /\ MembershipUnambiguous /\ ListBounded)
    /\ ChangesKept /\ RevocationSticks /\ CheckSound
    /\ PreparedChangesOne /\ PoisonedIsFrozen

(* Every entry of an ACL chain is linked and signed by a writer of the state  *)
(* before it; who holds a leaf of the key tree can be revoked and is then     *)
(* without the current key, whatever failed or was merged in between;         *)
(* signatures are verified against the writers of now, and a failed provider  *)
(* stops everything.                                                          *)
RevocationHolds ==
    /\ [](ChainLinked /\ ChainAuthorized /\ LeavesRevocable /\ RevokedLockedOut)
    /\ WriterKeysCurrent /\ RolesNested /\ PoisonStops

(* Two honest members at the same epoch hold the same signed history and the  *)
(* same roster, with a dishonest member signing and applying what it likes:   *)
(* what one of them publishes every follower at its parent accepts, with      *)
(* exactly one Welcome per member added, to a key package that member owns.   *)
MembersAgree ==
    component = "control" =>
        OneHistory /\ RosterAgrees /\ AcceptedByAll /\ OneDelivery /\ AddsJoinable
===============================================================================
