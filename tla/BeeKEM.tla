------------------------------- MODULE BeeKEM -------------------------------
(***************************************************************************)
(* The BeeKEM ratchet tree of core/src/beekem/beekem.ts: each member keeps  *)
(* a copy of a binary tree of key pairs, knows the private keys on the path *)
(* from its own leaf to the root, and takes the group secret from the root. *)
(* A commit (add, remove, update) replaces the keys on the committer's path *)
(* and broadcasts them, sealed to the keys that resolve each sibling        *)
(* subtree; a new member gets the keys of its path in a Welcome.            *)
(*                                                                          *)
(* Commits of several members race, and broadcasts are lost, delayed and    *)
(* repeated: they stay in `updates' and `welcomes' and are processed in any *)
(* order, any number of times, or never.  A member may be restarted from an *)
(* old checkpoint of its tree.  Every transition of the class works on a    *)
(* staged copy behind a queue and publishes it at the end (_runTransition), *)
(* so a transition is one action and a refused one changes nothing.         *)
(*                                                                          *)
(* A key pair is <<owner, node, serial>>: who generated it, for which node, *)
(* in which transition; the same tuple names its public and its private     *)
(* half.  Hashes and digests are what they are computed from.               *)
(***************************************************************************)
EXTENDS Integers, FiniteSets, Sequences, SequencesExt

CONSTANTS
    Members,            \* the devices that may ever be in the group
    Founder,
    MaxLeaves,          \* MAX_BEEKEM_TREE_LEAVES, leaves of removed members included
    MaxGeneration,      \* the last generation number, 2^32 - 1 in the code
    MaxTransitions,     \* bound: commits made in all
    MaxCheckpoints,     \* bound: checkpoints taken, each of another member
    WidestTree          \* bound: the tree sizes for which the index arithmetic is compared

ASSUME BeeKEMAssumption ==
    /\ Founder \in Members
    /\ {MaxLeaves, MaxGeneration, MaxTransitions, MaxCheckpoints} \subseteq Nat \ {0}
    /\ WidestTree \in Nat /\ WidestTree >= MaxLeaves

VARIABLES
    tree,       \* the members that hold a tree -> that tree
    updates,    \* the PathUpdates broadcast
    welcomes,   \* the Welcomes sent
    saved,      \* the members with a checkpoint -> the local state in it
    serial      \* transitions so far, which makes generated keys fresh

treeVars == <<tree, updates, welcomes, saved, serial>>

-------------------------------------------------------------------------------
(* The index arithmetic of the tree (policy/tree-index.ts, behind           *)
(* tree-math.ts): a left-balanced binary tree of `leaves' leaves stored in  *)
(* an array, leaves at the even indices, internal nodes at the odd ones.    *)
(* The recursive definitions keep the recursion of the source.              *)

powerOfTwo(exponent) == 2 ^ exponent

nodeLevel[index \in Nat] ==
    IF index % 2 = 0 THEN 0 ELSE nodeLevel[(index - 1) \div 2] + 1

floorLog2[value \in Nat] ==
    IF value < 2 THEN 0 ELSE floorLog2[value \div 2] + 1

treeWidth(leaves) == 2 * leaves - 1

treeRoot(leaves) == powerOfTwo(floorLog2[treeWidth(leaves)]) - 1

leafNodeIndex(position) == position * 2

leafPosition(index) == index \div 2

isLeaf(index) == index % 2 = 0

leftChild(index) == index - powerOfTwo(nodeLevel[index] - 1)

rightChild(index) == index + powerOfTwo(nodeLevel[index] - 1)

clampRightChild[index \in Nat, width \in Nat] ==
    IF index < width THEN index ELSE clampRightChild[leftChild(index), width]

parentStep(index) ==
    LET step == powerOfTwo(nodeLevel[index])
    IN  IF (index \div (2 * step)) % 2 = 0 THEN index + step ELSE index - step

parentInWidth[index \in Nat, width \in Nat] ==
    LET next == parentStep(index)
    IN  IF next < width THEN next ELSE parentInWidth[next, width]

treeParent(index, leaves) == parentInWidth[index, treeWidth(leaves)]

treeRight(index, leaves) == clampRightChild[rightChild(index), treeWidth(leaves)]

treeSibling(index, leaves) ==
    LET parent == treeParent(index, leaves)
    IN  IF leftChild(parent) = index THEN treeRight(parent, leaves)
                                     ELSE leftChild(parent)

(* The ancestors of a node, its parent first and the root last.             *)
treeDirectPath[index \in Nat, leaves \in Nat] ==
    IF index = treeRoot(leaves) THEN << >>
    ELSE LET parent == treeParent(index, leaves)
         IN  <<parent>> \o treeDirectPath[parent, leaves]

(* The siblings of a node and of its ancestors below the root.              *)
treeCopath[index \in Nat, leaves \in Nat] ==
    IF index = treeRoot(leaves) THEN << >>
    ELSE <<treeSibling(index, leaves)>>
            \o treeCopath[treeParent(index, leaves), leaves]

-------------------------------------------------------------------------------
Blank == << >>
NoDigest == << >>

(* The key pair a member keeps for life and publishes out of band.          *)
KemKey(m) == <<m, -1, 0>>
Owner(key) == key[1]
FreshKey(m, index) == <<m, index, serial + 1>>

Known(key) == [key |-> key, private |-> TRUE]
Public(key) == [key |-> key, private |-> FALSE]

Nodes(leaves) == 0 .. (treeWidth(leaves) - 1)
Leaves(leaves) == {leafNodeIndex(position) : position \in 0 .. leaves - 1}

(* The paths of all leaves, tabulated: a constant is computed once.         *)
DirectPaths ==
    [n \in 1 .. WidestTree |-> [i \in Leaves(n) |-> treeDirectPath[i, n]]]
Copaths ==
    [n \in 1 .. WidestTree |-> [i \in Leaves(n) |-> treeCopath[i, n]]]

DirectPath(index, leaves) == DirectPaths[leaves][index]
Copath(index, leaves) == Copaths[leaves][index]
Ancestors(index, leaves) == Range(DirectPath(index, leaves))

KeyAt(nodes, i) == IF i \in DOMAIN nodes THEN nodes[i].key ELSE Blank
Holds(nodes, i) == i \in DOMAIN nodes /\ nodes[i].key # Blank /\ nodes[i].private

-----------------------------------------------------------------------------
(* Trees                                                                    *)

(* The public keys of a tree: what its hash binds and a snapshot carries.   *)
TreeHash(nodes, leaves) == [i \in Nodes(leaves) |-> KeyAt(nodes, i)]

HashOf(t) == TreeHash(t.nodes, t.numLeaves)

LiveLeaves(hash) == {i \in DOMAIN hash : isLeaf(i) /\ hash[i] # Blank}

LeafKeysDistinct(hash) ==
    \A i, j \in LiveLeaves(hash) : hash[i] = hash[j] => i = j

MatchingLiveLeaves(hash, key) == {i \in LiveLeaves(hash) : hash[i] = key}

(* The keys that reach every live leaf below a node: its own, or those of   *)
(* both subtrees.                                                           *)
RECURSIVE ResolvePublicKeys(_, _, _)
ResolvePublicKeys(i, leaves, nodes) ==
    IF KeyAt(nodes, i) # Blank THEN {i}
    ELSE IF isLeaf(i) THEN {}
    ELSE ResolvePublicKeys(leftChild(i), leaves, nodes)
            \cup ResolvePublicKeys(treeRight(i, leaves), leaves, nodes)

(* The secret of the group: of the root key, or of the only leaf.           *)
RootSecret(t) == KeyAt(t.nodes, IF t.numLeaves = 1 THEN 0 ELSE treeRoot(t.numLeaves))

Initialize(m) ==
    [nodes |-> [i \in {0} |-> Known(KemKey(m))], numLeaves |-> 1, myLeaf |-> 0,
     generation |-> 0, digest |-> NoDigest]

With(nodes, more) == more @@ nodes

-----------------------------------------------------------------------------
(* Commits                                                                  *)

(* A bundle: the private keys of a path from some node up, sealed to a key. *)
EncryptPathKeyBundle(recipient, key) == [to |-> recipient, sealedTo |-> key]

(* New keys on the committer's path, each sealed, with those above it, to   *)
(* the resolution of the sibling subtree it closes.                         *)
UpdatePath(m, t, parentHash) ==
    LET path   == DirectPath(t.myLeaf, t.numLeaves)
        copath == Copath(t.myLeaf, t.numLeaves)
        next   == With(t.nodes, [i \in Range(path) |-> Known(FreshKey(m, i))])
        node(k) ==
            [index |-> path[k], key |-> FreshKey(m, path[k]),
             bundles |-> {EncryptPathKeyBundle(r, KeyAt(next, r)) :
                            r \in ResolvePublicKeys(copath[k], t.numLeaves, next)}]
    IN  [tree |-> [t EXCEPT !.nodes = next, !.generation = @ + 1, !.digest = NoDigest],
         update |-> [generation |-> t.generation + 1, parentHash |-> parentHash,
                     numLeaves |-> t.numLeaves, sender |-> t.myLeaf,
                     senderKey |-> KeyAt(next, t.myLeaf),
                     nodes |-> [k \in DOMAIN path |-> node(k)],
                     snapshot |-> TreeHash(next, t.numLeaves),
                     serial |-> serial + 1]]

(* The keys of a leaf's path that the builder holds, each sealed to the one *)
(* below it, and the rest of the tree's public keys.                        *)
BuildWelcome(t, leaf, leafKey) ==
    LET held == SelectSeq(DirectPath(leaf, t.numLeaves), LAMBDA i : Holds(t.nodes, i))
        below(k) == IF k = 1 THEN leafKey ELSE KeyAt(t.nodes, held[k - 1])
    IN  [numLeaves |-> t.numLeaves, leaf |-> leaf, generation |-> t.generation,
         pathKeys |-> [k \in DOMAIN held |->
                          [index |-> held[k], key |-> KeyAt(t.nodes, held[k]),
                           sealedTo |-> below(k)]],
         rest |-> [i \in Nodes(t.numLeaves) \ (Range(held) \cup {leaf}) |->
                      KeyAt(t.nodes, i)],
         treeHash |-> HashOf(t)]

InitializedForMutation(m) ==
    /\ m \in DOMAIN tree
    /\ tree[m].generation < MaxGeneration
    /\ serial < MaxTransitions

Blanked(nodes, indices) == With(nodes, [i \in indices |-> Public(Blank)])

(* The tree a new rightmost leaf is appended to, without the keys above it  *)
(* that the committer does not hold: the new member cannot be given them.   *)
Appended(t, key) ==
    LET leaves  == t.numLeaves + 1
        leaf    == leafNodeIndex(t.numLeaves)
        nodes   == With(t.nodes, [i \in {leaf} |-> Public(key)])
        unknown == {i \in Ancestors(leaf, leaves) \ Ancestors(t.myLeaf, leaves) :
                        KeyAt(nodes, i) # Blank /\ ~Holds(nodes, i)}
    IN  [t EXCEPT !.nodes = Blanked(nodes, unknown), !.numLeaves = leaves]

Committed(m, commit) ==
    /\ LeafKeysDistinct(commit.update.parentHash)
    /\ LeafKeysDistinct(commit.update.snapshot)
    /\ tree' = [tree EXCEPT ![m] = commit.tree]
    /\ updates' = updates \cup {commit.update}
    /\ serial' = serial + 1
    /\ UNCHANGED saved

(* m appends the leaf of x, commits, and sends x its Welcome.               *)
AddMember(m, x) ==
    /\ InitializedForMutation(m)
    /\ tree[m].numLeaves < MaxLeaves
    /\ MatchingLiveLeaves(HashOf(tree[m]), KemKey(x)) = {}
    /\ \E commit \in {UpdatePath(m, Appended(tree[m], KemKey(x)), HashOf(tree[m]))} :
          /\ Committed(m, commit)
          /\ welcomes' = welcomes \cup
                {BuildWelcome(commit.tree, leafNodeIndex(tree[m].numLeaves), KemKey(x))}

(* A bug: the keys the removed member shares with its neighbours stay.      *)
WithoutLeafOnly(m, t, leaf) ==
    [t EXCEPT !.nodes =
        With(Blanked(@, {leaf}),
             [i \in {t.myLeaf} |-> Known(FreshKey(m, t.myLeaf))])]

(* The removed leaf and every key above it are blanked; the committer's own *)
(* leaf key is replaced as well.                                            *)
WithoutLeaf(m, t, leaf) ==
    [t EXCEPT !.nodes =
        With(Blanked(@, {leaf} \cup Ancestors(leaf, t.numLeaves)),
             [i \in {t.myLeaf} |-> Known(FreshKey(m, t.myLeaf))])]

RemoveMember(m, leaf) ==
    /\ InitializedForMutation(m)
    /\ leaf \in Leaves(tree[m].numLeaves) \ {tree[m].myLeaf}
    /\ KeyAt(tree[m].nodes, leaf) # Blank
    /\ \E commit \in {UpdatePath(m, WithoutLeaf(m, tree[m], leaf), HashOf(tree[m]))} :
          Committed(m, commit)
    /\ UNCHANGED welcomes

Update(m) ==
    /\ InitializedForMutation(m)
    /\ LET fresh == [i \in {tree[m].myLeaf} |-> Known(FreshKey(m, tree[m].myLeaf))]
       IN  \E commit \in {UpdatePath(m, [tree[m] EXCEPT !.nodes = With(@, fresh)],
                                      HashOf(tree[m]))} :
              Committed(m, commit)
    /\ UNCHANGED welcomes

-----------------------------------------------------------------------------
(* Processing a PathUpdate                                                  *)

PathUpdateWellFormed(u) ==
    /\ u.generation \in 1 .. MaxGeneration
    /\ u.numLeaves \in 1 .. MaxLeaves
    /\ u.sender \in Leaves(u.numLeaves)
    /\ DOMAIN u.snapshot = Nodes(u.numLeaves)
    /\ \A k \in DOMAIN u.nodes :
          /\ u.nodes[k].index \in Nodes(u.numLeaves) \ Leaves(u.numLeaves)
          /\ Cardinality(u.nodes[k].bundles) <= u.numLeaves
          /\ \A b \in u.nodes[k].bundles : b.to \in Nodes(u.numLeaves)

(* What a second delivery is compared with: the digest of the whole update. *)
Digest(u) == <<u.sender, u.serial>>

ClassifyGeneration(t, u) ==
    CASE u.generation < t.generation -> "stale"
      [] u.generation = t.generation ->
            IF t.digest # NoDigest /\ t.digest = Digest(u) THEN "duplicate" ELSE "fork"
      [] u.generation = t.generation + 1 -> "next"
      [] OTHER -> "gap"

IsAppendOnlyLeafCount(t, u) ==
    /\ u.numLeaves <= MaxLeaves
    /\ u.numLeaves \in {t.numLeaves, t.numLeaves + 1}

(* Leaves the update takes away, the sender's place apart.                  *)
RemovedLeaves(t, u) ==
    {i \in Leaves(t.numLeaves) \ {u.sender} :
        KeyAt(t.nodes, i) # Blank /\ u.snapshot[i] = Blank}

LeafTransitionValid(t, u) ==
    /\ u.sender < 2 * t.numLeaves
    /\ LeafKeysDistinct(u.snapshot)
    /\ \A i \in Leaves(t.numLeaves) :
          LET now == KeyAt(t.nodes, i)  next == u.snapshot[i]
          IN  IF now = Blank THEN next = Blank
              ELSE IF i = u.sender THEN next # Blank
              ELSE next \in {Blank, now}
    /\ IF u.numLeaves = t.numLeaves + 1
       THEN /\ u.snapshot[leafNodeIndex(t.numLeaves)] # Blank
            /\ RemovedLeaves(t, u) = {}
       ELSE Cardinality(RemovedLeaves(t, u)) <= 1

InternalTransitionValid(t, u) ==
    LET mustBlank == UNION {Ancestors(i, t.numLeaves) : i \in
                        {j \in Leaves(t.numLeaves) :
                            KeyAt(t.nodes, j) # Blank /\ u.snapshot[j] = Blank}}
        mayBlank  == IF u.numLeaves = t.numLeaves + 1
                     THEN Ancestors(leafNodeIndex(t.numLeaves), u.numLeaves) ELSE {}
    IN  \A i \in (Nodes(u.numLeaves) \ Leaves(u.numLeaves))
                    \ Ancestors(u.sender, u.numLeaves) :
            IF i \in mustBlank THEN u.snapshot[i] = Blank
            ELSE \/ u.snapshot[i] = Blank /\ i \in mayBlank
                 \/ u.snapshot[i] = (IF i \in Nodes(t.numLeaves)
                                     THEN KeyAt(t.nodes, i) ELSE Blank)

(* The update names the sender's path, and seals each key of it to exactly  *)
(* the resolution of the sibling subtree in the tree it leads to.           *)
PathValid(u) ==
    LET path   == DirectPath(u.sender, u.numLeaves)
        copath == Copath(u.sender, u.numLeaves)
        next   == [i \in DOMAIN u.snapshot |-> Public(u.snapshot[i])]
    IN  /\ Len(path) = Len(u.nodes)
        /\ u.snapshot[u.sender] = u.senderKey
        /\ \A k \in DOMAIN path :
              /\ u.nodes[k].index = path[k]
              /\ u.snapshot[path[k]] = u.nodes[k].key
              /\ {b.to : b \in u.nodes[k].bundles}
                    = ResolvePublicKeys(copath[k], u.numLeaves, next)

DecryptPathKeyBundle(t, bundle) ==
    Holds(t.nodes, bundle.to) /\ KeyAt(t.nodes, bundle.to) = bundle.sealedTo

(* The places in the update where a bundle is sealed to a key t holds and   *)
(* the next tree keeps.                                                     *)
AuthorizedBundles(t, u) ==
    {<<k, b>> \in UNION {{k} \X u.nodes[k].bundles : k \in DOMAIN u.nodes} :
        DecryptPathKeyBundle(t, b) /\ KeyAt(t.nodes, b.to) = u.snapshot[b.to]}

LocalLeafKept(t, u) ==
    /\ Holds(t.nodes, t.myLeaf)
    /\ u.snapshot[t.myLeaf] = KeyAt(t.nodes, t.myLeaf)

(* The tree after an update: its snapshot, with the private keys t still    *)
(* has the public key of and those of the one bundle it opened.             *)
Recovered(t, u) ==
    LET from == CHOOSE k \in DOMAIN u.nodes : \E b \in u.nodes[k].bundles :
                    <<k, b>> \in AuthorizedBundles(t, u)
        opened == {u.nodes[k].index : k \in from .. Len(u.nodes)}
        kept   == {i \in DOMAIN u.snapshot :
                     Holds(t.nodes, i) /\ KeyAt(t.nodes, i) = u.snapshot[i]}
    IN  [t EXCEPT !.nodes = [i \in DOMAIN u.snapshot |->
                                IF i \in kept \cup opened THEN Known(u.snapshot[i])
                                                          ELSE Public(u.snapshot[i])],
                  !.numLeaves = u.numLeaves,
                  !.generation = u.generation,
                  !.digest = Digest(u)]

(* _processPathUpdateV2: what comes of update u at a member with tree t.    *)
Disposition(t, u) ==
    LET generation == ClassifyGeneration(t, u)
    IN  IF ~PathUpdateWellFormed(u) THEN "malformed"
        ELSE IF u.sender = t.myLeaf THEN "own"
        ELSE IF generation # "next" THEN generation
        ELSE IF /\ IsAppendOnlyLeafCount(t, u)
                /\ HashOf(t) = u.parentHash
                /\ LeafTransitionValid(t, u)
                /\ InternalTransitionValid(t, u)
                /\ PathValid(u)
                /\ LocalLeafKept(t, u)
                /\ Cardinality(AuthorizedBundles(t, u)) = 1
             THEN "applied" ELSE "refused"

ProcessPathUpdate(m, u) ==
    /\ m \in DOMAIN tree
    /\ Disposition(tree[m], u) = "applied"
    /\ tree' = [tree EXCEPT ![m] = Recovered(tree[m], u)]
    /\ UNCHANGED <<updates, welcomes, saved, serial>>

-----------------------------------------------------------------------------
(* Processing a Welcome, and local recovery                                 *)

PathIndices(w) == {w.pathKeys[k].index : k \in DOMAIN w.pathKeys}

WelcomeValid(w, localRecovery) ==
    LET path == DirectPath(w.leaf, w.numLeaves)
        offset(k) == CHOOSE o \in DOMAIN path : path[o] = w.pathKeys[k].index
    IN  /\ w.generation >= 1
        /\ w.numLeaves >= 2 /\ w.numLeaves <= MaxLeaves
        /\ w.leaf \in Leaves(w.numLeaves)
        /\ localRecovery \/ w.leaf = leafNodeIndex(w.numLeaves - 1)
        /\ w.pathKeys # << >>
        /\ PathIndices(w) \subseteq Range(path)
        /\ \A j, k \in DOMAIN w.pathKeys : j < k => offset(j) < offset(k)
        /\ Last(w.pathKeys).index = treeRoot(w.numLeaves)
        /\ \A i \in DOMAIN w.rest : i \in Range(path) => w.rest[i] = Blank
        /\ DOMAIN w.rest = Nodes(w.numLeaves) \ (PathIndices(w) \cup {w.leaf})

(* Each path key is opened with the one below it, the first with the leaf's.*)
WelcomeOpens(w, leafKey) ==
    \A k \in DOMAIN w.pathKeys :
        w.pathKeys[k].sealedTo = IF k = 1 THEN leafKey ELSE w.pathKeys[k - 1].key

FromWelcome(w, leafKey, digest) ==
    [nodes |-> With([i \in DOMAIN w.rest |-> Public(w.rest[i])],
                    [i \in PathIndices(w) \cup {w.leaf} |->
                        Known(IF i = w.leaf THEN leafKey
                              ELSE (CHOOSE p \in Range(w.pathKeys) : p.index = i).key)]),
     numLeaves |-> w.numLeaves, myLeaf |-> w.leaf, generation |-> w.generation,
     digest |-> digest]

WelcomeAccepted(w, leafKey, localRecovery) ==
    /\ WelcomeValid(w, localRecovery)
    /\ WelcomeOpens(w, leafKey)
    /\ HashOf(FromWelcome(w, leafKey, NoDigest)) = w.treeHash

(* A document installs the tree of a Welcome in place of an older one only. *)
ProcessWelcome(m, w) ==
    /\ WelcomeAccepted(w, KemKey(m), FALSE)
    /\ m \in DOMAIN tree => w.generation > tree[m].generation
    /\ tree' = [x \in DOMAIN tree \cup {m} |->
                   IF x = m THEN FromWelcome(w, KemKey(m), NoDigest) ELSE tree[x]]
    /\ UNCHANGED <<updates, welcomes, saved, serial>>

(* The leaf key is sealed to the member's own KEM key when it differs; a    *)
(* tree of more than one leaf is exported as a Welcome to oneself.          *)
ExportLocalState(m) ==
    LET t == tree[m]  leafKey == KeyAt(t.nodes, t.myLeaf)
    IN  [leafKey |-> leafKey,
         welcomes |-> IF t.numLeaves = 1 THEN {}
                      ELSE {BuildWelcome(t, t.myLeaf, leafKey)},
         digest |-> t.digest]

ExportCheckpoint(m) ==
    /\ m \in DOMAIN tree
    /\ Holds(tree[m].nodes, tree[m].myLeaf)
    /\ m \notin DOMAIN saved
    /\ Cardinality(DOMAIN saved) < MaxCheckpoints
    /\ saved' = [x \in DOMAIN saved \cup {m} |->
                    IF x = m THEN [state |-> ExportLocalState(m), of |-> tree[m]]
                             ELSE saved[x]]
    /\ UNCHANGED <<tree, updates, welcomes, serial>>

RestoredTree(m, s) ==
    IF s.welcomes = {}
    THEN [Initialize(m) EXCEPT !.nodes = [i \in {0} |-> Known(s.leafKey)]]
    ELSE FromWelcome(CHOOSE w \in s.welcomes : TRUE, s.leafKey, s.digest)

RestoreAccepted(s) ==
    /\ s.welcomes = {} => s.digest = NoDigest
    /\ \A w \in s.welcomes : WelcomeAccepted(w, s.leafKey, TRUE)

(* The process of m ends and its document is restored from the checkpoint.  *)
RestoreCheckpoint(m) ==
    /\ m \in DOMAIN saved
    /\ m \in DOMAIN tree
    /\ RestoreAccepted(saved[m].state)
    /\ tree' = [tree EXCEPT ![m] = RestoredTree(m, saved[m].state)]
    /\ UNCHANGED <<updates, welcomes, saved, serial>>

-----------------------------------------------------------------------------
TreeInit ==
    /\ tree = [m \in {Founder} |-> Initialize(Founder)]
    /\ updates = {}
    /\ welcomes = {}
    /\ saved = [m \in {} |-> {}]
    /\ serial = 0

TreeNext ==
    \E m \in Members :
        \/ \E x \in Members \ {m} : AddMember(m, x)
        \/ \E leaf \in Leaves(MaxLeaves) : RemoveMember(m, leaf)
        \/ Update(m)
        \/ \E u \in updates : ProcessPathUpdate(m, u)
        \/ \E w \in welcomes : ProcessWelcome(m, w)
        \/ ExportCheckpoint(m)
        \/ RestoreCheckpoint(m)

TreeSpec == TreeInit /\ [][TreeNext]_treeVars

-----------------------------------------------------------------------------
(* Properties                                                               *)

(* The direct path and the copath computed by index arithmetic, against     *)
(* their meaning in a left-balanced tree: a node of level k stands over the *)
(* indices less than 2^k away, the path of a leaf is the nodes over it from *)
(* the lowest to the highest, and each copath node covers exactly the       *)
(* leaves its path node adds.  (No variable occurs in it, so one state, the *)
(* founder's first checkpoint, is enough.)                                  *)
TreeMathAgrees ==
    serial = 0 /\ DOMAIN saved # {} => \A n \in 1 .. WidestTree : \A leaf \in Leaves(n) :
        LET covers(i) == {j \in Leaves(n) : j < i + powerOfTwo(nodeLevel[i])
                                             /\ i < j + powerOfTwo(nodeLevel[i])}
            over   == {i \in Nodes(n) \ {leaf} : leaf \in covers(i)}
            path   == DirectPath(leaf, n)
            copath == Copath(leaf, n)
        IN  /\ Range(path) = over
            /\ Len(path) = Cardinality(over)
            /\ Len(copath) = Len(path)
            /\ \A k \in DOMAIN path :
                  LET lower == IF k = 1 THEN leaf ELSE path[k - 1]
                  IN  /\ covers(lower) \subseteq covers(path[k])
                      /\ copath[k] \in Nodes(n)
                      /\ covers(copath[k]) = covers(path[k]) \ covers(lower)

(* A member holds the private keys on its own path and no others: whatever  *)
(* commits, Welcomes and restarts brought it to its tree, it can take the   *)
(* group secret from the root, and it is reached by exactly one bundle.     *)
PathOwned ==
    \A m \in DOMAIN tree :
        LET t == tree[m]
        IN  /\ {i \in DOMAIN t.nodes : Holds(t.nodes, i)}
                  = {i \in Ancestors(t.myLeaf, t.numLeaves) : KeyAt(t.nodes, i) # Blank}
                       \cup {t.myLeaf}
            /\ RootSecret(t) # Blank

(* No commit of the group's own members is ever refused by a member that is *)
(* at its parent tree and still in the group after it: the checks on leaf   *)
(* and internal transitions and on the bundles reject no honest update.     *)
UpdatesApply ==
    \A u \in updates : \A m \in DOMAIN tree :
        LET t == tree[m]
        IN  (/\ HashOf(t) = u.parentHash
             /\ t.generation + 1 = u.generation
             /\ u.sender # t.myLeaf
             /\ u.snapshot[t.myLeaf] = KeyAt(t.nodes, t.myLeaf))
            => Disposition(t, u) = "applied"

(* Every private key a device can ever derive: those it generated and those *)
(* it can open, one after another, in all the updates and Welcomes sent.    *)
RECURSIVE Derivable(_)
Derivable(keys) ==
    LET opened ==
          UNION {{u.nodes[j].key : j \in {j \in DOMAIN u.nodes :
                    \E k \in 1 .. j : \E b \in u.nodes[k].bundles : b.sealedTo \in keys}} :
                 u \in updates}
          \cup UNION {{p.key : p \in {q \in Range(w.pathKeys) : q.sealedTo \in keys}} :
                      w \in welcomes}
    IN  IF opened \subseteq keys THEN keys ELSE Derivable(keys \cup opened)

Generated(m) ==
    {key \in {KemKey(m)}
              \cup UNION {Range([k \in DOMAIN u.nodes |-> u.nodes[k].key])
                            \cup {u.senderKey} : u \in updates} : Owner(key) = m}

(* A device learns the secret of a commit only if it has a live leaf in the *)
(* tree of that commit: one removed learns none of the later secrets, one   *)
(* added none of the earlier, even from keys it kept and all messages sent. *)
Confidential ==
    \A m \in Members :
        LET known == Derivable(Generated(m))
        IN  \A u \in updates :
               (u.nodes # << >> /\ Last(u.nodes).key \in known) =>
                   \E i \in LiveLeaves(u.snapshot) : Owner(u.snapshot[i]) = m

(* A checkpoint of a tree of several leaves restores exactly that tree: its *)
(* keys public and private, its generation, and the digest by which an      *)
(* update delivered again is told from a fork.                              *)
RestoresExactly ==
    \A m \in DOMAIN saved :
        LET t == saved[m].of  r == RestoredTree(m, saved[m].state)
        IN  t.numLeaves > 1 =>
              /\ RestoreAccepted(saved[m].state)
              /\ HashOf(r) = HashOf(t)
              /\ \A i \in Nodes(t.numLeaves) : Holds(r.nodes, i) <=> Holds(t.nodes, i)
              /\ <<r.numLeaves, r.myLeaf, r.generation, r.digest>>
                    = <<t.numLeaves, t.myLeaf, t.generation, t.digest>>
=============================================================================
