-------------------------- MODULE MembershipControl --------------------------
(***************************************************************************)
(* What a control record of a group binds, and who accepts it: the record   *)
(* an author signs over a provider commit (createCommit), the checks of a   *)
(* member that follows the group (applyCommit), and those of a member that  *)
(* joins through an invitation (joinFromInvitation).                        *)
(*                                                                          *)
(* Honest members run the coordinator.  One dishonest member, authorized    *)
(* like the others, signs what it likes over commits and Welcomes of its    *)
(* own or of others, and the network pairs records with any commit and any  *)
(* Welcomes that were ever published.  Signatures cannot be forged, hashes  *)
(* do not collide: a hash is the value hashed, a record id the place of the *)
(* record in `published`.  The provider (an MLS group) is external: its     *)
(* state is the sequence of the commits it applied.  A refused delivery     *)
(* leaves no trace (withProviderRollback); crashes, the store and the       *)
(* retention window are those of GroupSecurity.                             *)
(***************************************************************************)
EXTENDS Integers, Sequences, FiniteSets, SequencesExt

CONSTANTS
    Founder, Follower,      \* honest members of the group
    Dishonest,              \* a member that signs anything
    Joiner,                 \* an honest device that is not a member at first
    RequestedChanges,       \* what applications pass to createCommit
    ForgedChanges,          \* what the dishonest member commits
    MaxLies,                \* bound: fields in which a forged record differs from a true one
    MaxForged,              \* bound: forged records
    MaxPublished            \* bound: control records

Honest == {Founder, Follower, Joiner}
People == Honest \cup {Dishonest}

ASSUME ControlAssumption ==
    /\ Founder # Follower /\ Joiner \notin {Founder, Follower}
    /\ Dishonest \notin Honest /\ MaxPublished >= 3

VARIABLES
    commits,        \* external: every provider commit
    published,      \* every control record with the attachments its author gave it
    views           \* the coordinator of each honest member

controlVars == <<commits, published, views>>

Genesis == 1

-----------------------------------------------------------------------------
(* The provider (external)                                                  *)

\* The key package of a device is named like the device.
AddMember(m, ref) == [kind |-> "add", member |-> m, keyPackageRef |-> ref]
RemoveMember(m) == [kind |-> "remove", member |-> m, keyPackageRef |-> "none"]

AppliedTo(roster, change) ==
    CASE change.kind = "add" -> roster \cup {change.member}
      [] change.kind = "remove" -> roster \ {change.member}
      [] OTHER -> roster

\* The members of the group in a provider state.
Roster(state) ==
    FoldLeft(LAMBDA roster, c : FoldLeft(AppliedTo, roster, commits[c].changes), {Founder}, state)

Meaningful(changes, roster) ==
    \A i \in DOMAIN changes :
        /\ changes[i].member \in roster <=> changes[i].kind # "add"
        /\ \A k \in 1 .. i - 1 : changes[k].member # changes[i].member

Commit(prior, changes, rekeys) == [prior |-> prior, changes |-> changes, rekeys |-> rekeys]
CommitEpoch(c) == Len(commits[c].prior) + 1
WelcomeOf(state, ref) == [state |-> state, to |-> ref, epoch |-> Len(state)]
WelcomesOf(state, changes) ==
    LET added == SelectSeq(changes, LAMBDA change : change.kind = "add")
    IN  [i \in DOMAIN added |-> WelcomeOf(state, added[i].keyPackageRef)]

-----------------------------------------------------------------------------
(* Records                                                                  *)

\* The claims are the control payload: the state reached, the applied
\* changes, the Welcomes and the commit itself.
ControlPayload(state, delta, welcomes, commit) ==
    [state |-> state, delta |-> delta, welcomes |-> welcomes, commit |-> commit]
GenesisPayload == ControlPayload(<<>>, <<>>, <<>>, 0)

ControlRecord(parent, epoch, operation, action, actor, subject, payload) ==
    [parent |-> parent, epoch |-> epoch, operation |-> operation, action |-> action,
     actor |-> actor, subject |-> subject, payload |-> payload]

Delivery(record, commit, welcomes) == [record |-> record, commit |-> commit, welcomes |-> welcomes]
Records == DOMAIN published
RecordOf(r) == published[r].record

RECURSIVE ChainTo(_)
ChainTo(r) == IF r = 0 THEN <<>> ELSE Append(ChainTo(RecordOf(r).parent), r)

-----------------------------------------------------------------------------
(* What a record must say                                                   *)

ValidateGenesisPayload(record) ==
    record.action = "create" /\ record.epoch = 0 /\ record.parent = 0 /\ record.payload = GenesisPayload

\* Without the commit: the one embedded must be for the epoch of the record.
ParsesAlone(record) ==
    record.payload.commit \in DOMAIN commits /\ CommitEpoch(record.payload.commit) = record.epoch
BindsCommit(record, commit) == record.payload.commit = commit

BindsWelcomes(record, welcomes) == record.payload.welcomes = welcomes

ValidateWelcomes(welcomes, commit) ==
    \A i \in DOMAIN welcomes : welcomes[i].epoch = CommitEpoch(commit)

\* An empty delta is claimed only by an update of the actor itself.
SelfUpdateShaped(record) ==
    record.payload.delta = <<>> =>
        record.action = "update" /\ record.actor = record.subject /\ record.payload.welcomes = <<>>

VerifyControlAuthenticity(record) == record.action = "create" \/ SelfUpdateShaped(record)

\* External: the application lets the founder create the group and every
\* member that ever was one sign records.
AuthorizeControl(record) ==
    IF record.action = "create" THEN record.actor = Founder ELSE record.actor \in People

-----------------------------------------------------------------------------
(* Membership changes against what was asked or signed                      *)

ValidateWelcomeRecipients(change, welcomes) ==
    IF change.kind = "add"
    THEN Len(welcomes) = 1 /\ welcomes[1].to = change.keyPackageRef
    ELSE welcomes = <<>>

SelfUpdateAllowed(record, welcomes, commit) ==
    record.action = "update" /\ record.actor = record.subject /\ welcomes = <<>> /\ commits[commit].rekeys

ProviderMatchesControl(delta, record, welcomes) ==
    IF delta = <<>>
    THEN record.action = "update" /\ record.actor = record.subject /\ welcomes = <<>>
    ELSE /\ Len(delta) = 1
         /\ record.action = delta[1].kind /\ record.subject = delta[1].member
         /\ ValidateWelcomeRecipients(delta[1], welcomes)

RequestedIntent(changes, action, subject, actor) ==
    /\ Len(changes) <= 1
    /\ IF changes = <<>>
       THEN action = "update" /\ subject = actor
       ELSE changes[1].kind = action /\ changes[1].member = subject

ProviderMatchesRequest(delta, changes, welcomes) ==
    IF changes = <<>>
    THEN delta = <<>> /\ welcomes = <<>>
    ELSE Len(delta) = 1 /\ delta[1] = changes[1] /\ ValidateWelcomeRecipients(delta[1], welcomes)

KeyPackageOfMember(change) ==
    change.kind \in {"add", "update"} => change.keyPackageRef = change.member

-----------------------------------------------------------------------------
(* verifyControl                                                            *)

AcceptedAtEpoch(v, epoch) == {r \in v.accepted : RecordOf(r).epoch = epoch}

ParsesControl(record) ==
    IF record.action = "create" THEN ValidateGenesisPayload(record) ELSE ParsesAlone(record)

\* Another record in the place of an accepted one stops the coordinator.
ForkCandidate(v, r) ==
    /\ r \notin v.accepted
    /\ VerifyControlAuthenticity(RecordOf(r)) /\ ParsesControl(RecordOf(r))
    /\ \E a \in AcceptedAtEpoch(v, RecordOf(r).epoch) : RecordOf(a).parent = RecordOf(r).parent
    /\ AuthorizeControl(RecordOf(r))

BindsAttachments(record, commit, welcomes) ==
    /\ commit \in DOMAIN commits
    /\ BindsCommit(record, commit)
    /\ ValidateWelcomes(welcomes, commit)
    /\ BindsWelcomes(record, welcomes)
    /\ record.action # "create" /\ record.epoch = CommitEpoch(commit)

\* Outcome "new": not a duplicate, no operation id of another record, next
\* epoch, on the current head.
IsNewControl(v, r, record, commit, welcomes) ==
    /\ r \notin v.accepted /\ record.parent = v.head
    /\ \A a \in v.accepted : RecordOf(a).operation # record.operation
    /\ VerifyControlAuthenticity(record) /\ ParsesControl(record)
    /\ BindsAttachments(record, commit, welcomes)
    /\ record.epoch = Len(v.state) + 1 /\ CommitEpoch(commit) = Len(v.state) + 1
    /\ AuthorizeControl(record)

-----------------------------------------------------------------------------
(* A coordinator                                                            *)

NoView == [status |-> "none", head |-> 0, state |-> <<>>, accepted |-> {}, outbox |-> {}]
IsUsable(x) == views[x].status = "member"

\* What makeOutboxEntry asks of the entry before it is stored.
ValidateDelivery(delivery) ==
    /\ BindsCommit(delivery.record, delivery.commit)
    /\ ValidateWelcomes(delivery.welcomes, delivery.commit)
    /\ BindsWelcomes(delivery.record, delivery.welcomes)

Outbox(v, r, delivery) == v.outbox \cup {[id |-> r, delivery |-> delivery]}
PersistTransition(v, r, delivery, state) ==
    [v EXCEPT !.head = r, !.state = state, !.accepted = @ \cup {r}, !.outbox = Outbox(v, r, delivery)]

ProviderApplies(x, commit) ==
    /\ commits[commit].prior = views[x].state
    /\ Meaningful(commits[commit].changes, Roster(views[x].state))

RemovesSelf(x, commit) == RemoveMember(x) \in Range(commits[commit].changes)

ValidateApplyResult(record, commit, welcomes, state) ==
    LET delta == commits[commit].changes
    IN  /\ record.payload.state = state
        /\ ProviderMatchesControl(delta, record, welcomes)
        /\ delta = <<>> => SelfUpdateAllowed(record, welcomes, commit)
        /\ record.payload.delta = delta

LocalRemovalMatches(x, record, commit, welcomes) ==
    /\ commits[commit].changes = <<RemoveMember(x)>>
    /\ record.action = "remove" /\ record.subject = x
    /\ welcomes = <<>>
    /\ record.payload.delta = commits[commit].changes

\* Whether x, at its head, takes the delivery of record r.
Accepts(x, r, commit, welcomes) ==
    /\ IsNewControl(views[x], r, RecordOf(r), commit, welcomes)
    /\ ProviderApplies(x, commit)
    /\ IF RemovesSelf(x, commit)
       THEN LocalRemovalMatches(x, RecordOf(r), commit, welcomes)
       ELSE /\ ValidateApplyResult(RecordOf(r), commit, welcomes, Append(views[x].state, commit))
            /\ ValidateDelivery(Delivery(RecordOf(r), commit, welcomes))

DetectFork(x, r) ==
    /\ IsUsable(x) /\ ForkCandidate(views[x], r)
    /\ views' = [views EXCEPT ![x].status = "stopped"]
    /\ UNCHANGED <<commits, published>>

ApplyCommit(x, r, commit, welcomes) ==
    /\ IsUsable(x) /\ Accepts(x, r, commit, welcomes) /\ ~RemovesSelf(x, commit)
    /\ views' = [views EXCEPT ![x] =
           PersistTransition(@, r, Delivery(RecordOf(r), commit, welcomes), Append(@.state, commit))]
    /\ UNCHANGED <<commits, published>>

AcceptLocalRemoval(x, r, commit, welcomes) ==
    /\ IsUsable(x) /\ Accepts(x, r, commit, welcomes) /\ RemovesSelf(x, commit)
    /\ views' = [views EXCEPT ![x].status = "removed", ![x].accepted = @ \cup {r}]
    /\ UNCHANGED <<commits, published>>

CreateCommit(x, changes, action, subject) ==
    LET v == views[x]
        c == Len(commits) + 1
        r == Len(published) + 1
        state == Append(v.state, c)
        welcomes == WelcomesOf(state, changes)
        record == ControlRecord(v.head, Len(state), r, action, x, subject,
                                ControlPayload(state, changes, welcomes, c))
    IN  /\ IsUsable(x) /\ r <= MaxPublished
        /\ RequestedIntent(changes, action, subject, x)
        /\ \A i \in DOMAIN changes : KeyPackageOfMember(changes[i])
        /\ Meaningful(changes, Roster(v.state)) /\ RemoveMember(x) \notin Range(changes)
        /\ ProviderMatchesRequest(changes, changes, welcomes)
        /\ commits' = Append(commits, Commit(v.state, changes, TRUE))
        /\ VerifyControlAuthenticity(record) /\ AuthorizeControl(record)
        /\ published' = Append(published, Delivery(record, c, welcomes))
        /\ views' = [views EXCEPT ![x] = PersistTransition(@, r, Delivery(record, c, welcomes), state)]

-----------------------------------------------------------------------------
(* Joining                                                                  *)

\* MembershipControlChain takes exactly the chain of parents.
ChainVerifies(chain) ==
    /\ Len(chain) >= 2
    /\ \A i \in DOMAIN chain :
        LET record == RecordOf(chain[i])
        IN  /\ record.epoch = i - 1 /\ (record.action = "create" <=> i = 1)
            /\ AuthorizeControl(record)
            /\ \A k \in 1 .. i - 1 : RecordOf(chain[k]).operation # record.operation
    /\ ValidateGenesisPayload(RecordOf(chain[1]))
    /\ \A i \in 2 .. Len(chain) - 1 : ParsesAlone(RecordOf(chain[i]))

\* subject holds the key package the invitation names.
VerifyJoinInvitation(subject, r, commit, welcome) ==
    LET record == RecordOf(r)
    IN  /\ record.action = "add" /\ record.subject = subject /\ welcome.to = subject
        /\ commit \in DOMAIN commits /\ BindsCommit(record, commit)
        /\ record.epoch = CommitEpoch(commit) /\ welcome.epoch = record.epoch
        /\ ChainVerifies(ChainTo(r))
        /\ record.payload.delta = <<AddMember(subject, subject)>>
        /\ BindsWelcomes(record, <<welcome>>)

\* Mutant: any state of the right epoch is joined.
EpochMatches(state, record) == Len(state) = record.epoch
JoinedStateMatches(state, record) == Len(state) = record.epoch /\ state = record.payload.state

CanJoin(subject, r, commit, welcome) ==
    VerifyJoinInvitation(subject, r, commit, welcome) /\ JoinedStateMatches(welcome.state, RecordOf(r))

JoinFromInvitation(r, commit, welcome) ==
    /\ views[Joiner].status = "none"
    /\ CanJoin(Joiner, r, commit, welcome)
    /\ views' = [views EXCEPT ![Joiner] =
           [NoView EXCEPT !.status = "member", !.head = r, !.state = welcome.state,
                          !.accepted = Range(ChainTo(r))]]
    /\ UNCHANGED <<commits, published>>

-----------------------------------------------------------------------------
(* The dishonest member                                                     *)

Forged == Cardinality({r \in Records : r > 3 /\ RecordOf(r).actor = Dishonest})
States == {RecordOf(r).payload.state : r \in Records}
WelcomesSeen == {<<>>} \cup {published[r].welcomes : r \in Records}

TrueAction(changes) == IF changes = <<>> THEN "update" ELSE changes[1].kind
TrueSubject(changes) == IF changes = <<>> THEN Dishonest ELSE changes[1].member

OtherWelcomes(welcomes) ==
    {<<>>, welcomes \o welcomes} \cup
    {[i \in DOMAIN welcomes |-> [welcomes[i] EXCEPT !.state = state]] :
        state \in {s \in States : \A i \in DOMAIN welcomes : Len(s) = welcomes[i].epoch}}

\* One field of the record replaced.
Lies(record) ==
    {[record EXCEPT !.epoch = @ + 1], [record EXCEPT !.operation = 3]}
    \cup {[record EXCEPT !.action = action] : action \in {"create", "add", "remove", "update"}}
    \cup {[record EXCEPT !.subject = subject] : subject \in People}
    \cup {[record EXCEPT !.payload.state = state] : state \in States}
    \cup {[record EXCEPT !.payload.delta = delta] : delta \in ForgedChanges}
    \cup {[record EXCEPT !.payload.welcomes = welcomes] : welcomes \in OtherWelcomes(record.payload.welcomes)}

RECURSIVE Lied(_, _)
Lied(records, n) ==
    IF n = 0 THEN records ELSE Lied(records \cup UNION {Lies(record) : record \in records}, n - 1)

Forge(parent, prior, changes, rekeys) ==
    LET c == Len(commits) + 1
        r == Len(published) + 1
        state == Append(prior, c)
        \* What she hands out as the Welcomes; the record may bind others.
        truth(welcomes) == ControlRecord(parent, RecordOf(parent).epoch + 1, r, TrueAction(changes),
                               Dishonest, TrueSubject(changes),
                               ControlPayload(state, changes, welcomes, c))
        true == WelcomesOf(state, changes)
    IN  /\ r <= MaxPublished /\ Forged < MaxForged
        /\ Dishonest \in Roster(prior) /\ Meaningful(changes, Roster(prior))
        /\ RemoveMember(Dishonest) \notin Range(changes)
        /\ commits' = Append(commits, Commit(prior, changes, rekeys \/ changes # <<>>))
        /\ \E welcomes \in {true} \cup OtherWelcomes(true) :
             \E record \in Lied({truth(welcomes)}, MaxLies) :
               published' = Append(published, Delivery(record, c, welcomes))
        /\ UNCHANGED views

\* A record of her own over a commit of somebody else.
Steal(r) ==
    LET delivery == published[r]
    IN  /\ Len(published) < MaxPublished /\ Forged < MaxForged
        /\ RecordOf(r).actor # Dishonest /\ r # Genesis
        /\ \E record \in Lied({[delivery.record EXCEPT !.actor = Dishonest]}, MaxLies) :
             published' = Append(published, [delivery EXCEPT !.record = record])
        /\ UNCHANGED <<commits, views>>

-----------------------------------------------------------------------------
(* The founder has created the group and added the follower and the other.  *)
Founding(r, changes) ==
    LET state == [i \in 1 .. r - 1 |-> i]
        record == IF r = Genesis
                  THEN ControlRecord(0, 0, 1, "create", Founder, Founder, GenesisPayload)
                  ELSE ControlRecord(r - 1, r - 1, r, "add", Founder, changes[1].member,
                           ControlPayload(state, changes, WelcomesOf(state, changes), r - 1))
    IN  Delivery(record, r - 1, WelcomesOf(state, changes))

ControlInit ==
    /\ commits = <<Commit(<<>>, <<AddMember(Follower, Follower)>>, TRUE),
                   Commit(<<1>>, <<AddMember(Dishonest, Dishonest)>>, TRUE)>>
    /\ published = <<Founding(1, <<>>), Founding(2, <<AddMember(Follower, Follower)>>),
                     Founding(3, <<AddMember(Dishonest, Dishonest)>>)>>
    /\ LET member == [NoView EXCEPT !.status = "member", !.head = 3, !.state = <<1, 2>>, !.accepted = 1 .. 3]
       IN  views = [x \in Honest |->
             CASE x = Founder -> [member EXCEPT !.outbox =
                      {[id |-> r, delivery |-> published[r]] : r \in 1 .. 3}]
               [] x = Follower -> [member EXCEPT !.outbox = {[id |-> 3, delivery |-> published[3]]}]
               [] OTHER -> NoView]

ControlNext ==
    \/ \E x \in Honest, changes \in RequestedChanges,
          action \in {"add", "remove", "update"}, subject \in People :
            CreateCommit(x, changes, action, subject)
    \/ \E x \in Honest, r \in Records : DetectFork(x, r)
    \/ \E x \in Honest, r \in Records, commit \in DOMAIN commits, welcomes \in WelcomesSeen :
            ApplyCommit(x, r, commit, welcomes) \/ AcceptLocalRemoval(x, r, commit, welcomes)
    \/ \E r \in Records, commit \in DOMAIN commits, welcomes \in WelcomesSeen :
         \E welcome \in Range(welcomes) : JoinFromInvitation(r, commit, welcome)
    \/ \E parent \in Records, prior \in States, changes \in ForgedChanges, rekeys \in BOOLEAN :
            Forge(parent, prior, changes, rekeys)
    \/ \E r \in Records : Steal(r)

ControlSpec == ControlInit /\ [][ControlNext]_controlVars

-----------------------------------------------------------------------------
Following == {Founder, Follower}

(* Whoever is at one control record is in one provider state, a member that *)
(* joined there through an invitation of the dishonest member too.          *)
OneHistory ==
    \A x, y \in {z \in Honest : views[z].status \in {"member", "stopped"}} :
        views[x].head = views[y].head => views[x].state = views[y].state

(* A member that followed the group from its founding finds in its provider *)
(* exactly the members the signed actions and subjects of its chain name.   *)
SignedRoster(chain) ==
    FoldLeft(LAMBDA roster, r :
                CASE RecordOf(r).action = "add" -> roster \cup {RecordOf(r).subject}
                  [] RecordOf(r).action = "remove" -> roster \ {RecordOf(r).subject}
                  [] OTHER -> roster,
             {Founder}, chain)

RosterAgrees ==
    \A x \in Following :
        views[x].status = "member" => Roster(views[x].state) = SignedRoster(ChainTo(views[x].head))

(* What one following member signed or took, every other at the parent of   *)
(* the record takes from it: no delivery splits honest members.             *)
AcceptedByAll ==
    \A x \in Following, y \in Honest : \A entry \in views[x].outbox :
        /\ IsUsable(y) /\ views[y].head = RecordOf(entry.id).parent
        /\ ~ForkCandidate(views[y], entry.id)
        => Accepts(y, entry.id, entry.delivery.commit, entry.delivery.welcomes)

(* Members that forward one record forward one commit and the same Welcomes,*)
(* whatever the network paired the record with.                             *)
OneDelivery ==
    \A x, y \in Honest : \A a \in views[x].outbox, b \in views[y].outbox :
        a.id = b.id => a.delivery = b.delivery

(* The member a following member adds can join with what that member sent.  *)
AddsJoinable ==
    \A x \in Following : \A entry \in views[x].outbox :
        RecordOf(entry.id).actor = x /\ RecordOf(entry.id).action = "add" =>
            LET welcomes == entry.delivery.welcomes
            IN  Len(welcomes) = 1 /\ CanJoin(RecordOf(entry.id).subject, entry.id, entry.delivery.commit, welcomes[1])
===============================================================================
