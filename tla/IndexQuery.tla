----------------------------- MODULE IndexQuery -----------------------------
(***************************************************************************)
(* How a query on a local index is planned, executed and paged:             *)
(* packages/index/src/query-planner.ts, query-ast.ts, query-execution.ts,   *)
(* memory-index-storage.ts (and the same walk in idb-index-storage.ts),     *)
(* query-order.ts and query-cursor.ts.                                      *)
(*                                                                          *)
(* Scalars are 0 .. 2, standing for the strings "a" < "ab" < "b"; Missing   *)
(* is a value an optional field lacks.  Document paths are numbers.  A      *)
(* condition is a tree of field conditions, conjunctions and disjunctions.  *)
(***************************************************************************)
EXTENDS Integers, Sequences, FiniteSets

CONSTANTS
    Documents,      \* document paths, numbers
    RowChoices,     \* the rows a document may have: functions from fields to scalars
    Indexes,        \* physicalIndexesFor: the physical indexes, sequences of required fields
    Conditions,     \* the where clauses asked
    Orders,         \* the orderBy clauses asked: sequences of [path, direction]
    PageSizes,      \* values of first
    Changing        \* documents whose row may change, once, between the pages of a query

ASSUME IndexQueryAssumption ==
    /\ Documents \subseteq Nat /\ PageSizes \subseteq Nat \ {0} /\ Changing \subseteq Documents
    /\ \A i \in 1 .. Len(Indexes) : Len(Indexes[i]) > 0

VARIABLES
    entries,        \* the row of every indexed document
    where, orderBy,
    first,          \* the page size, 0 before a query is asked
    cursor,         \* the position after the last page: <<>> before the first
    pages,          \* the documents of the pages so far
    untouched,      \* documents whose row has been the same for all of them
    ended           \* the last page said there is no more

queryVars == <<entries, where, orderBy, first, cursor, pages, untouched, ended>>

Missing == -1
Absent == [kind |-> "absent"]

startsWith(v, p) == v = p \/ (v = 1 /\ p = 0)
includes(v, p) == startsWith(v, p) \/ (v = 1 /\ p = 2)

(* compareIndexScalars: Missing comes first.                                *)
compareIndexScalars(a, b) == IF a = b THEN 0 ELSE IF a < b THEN -1 ELSE 1

FieldHolds(fields, leaf) ==
    LET v == fields[leaf.path]
        compared == compareIndexScalars(v, leaf.value)
    IN  CASE leaf.operator = "contains" -> v # Missing /\ includes(v, leaf.value)
          [] leaf.operator = "prefix" -> v # Missing /\ startsWith(v, leaf.value)
          [] leaf.operator = "in" -> v \in leaf.values
          [] leaf.operator = "neq" -> compared # 0
          [] leaf.operator = "eq" -> v # Missing /\ compared = 0
          [] leaf.operator = "gt" -> v # Missing /\ compared > 0
          [] leaf.operator = "gte" -> v # Missing /\ compared >= 0
          [] leaf.operator = "lt" -> v # Missing /\ compared < 0
          [] leaf.operator = "lte" -> v # Missing /\ compared <= 0

RECURSIVE evaluateQueryExpression(_, _)
evaluateQueryExpression(fields, e) ==
    CASE e.kind = "absent" -> TRUE
      [] e.kind = "and" -> \A i \in 1 .. Len(e.expressions) : evaluateQueryExpression(fields, e.expressions[i])
      [] e.kind = "or" -> \E i \in 1 .. Len(e.expressions) : evaluateQueryExpression(fields, e.expressions[i])
      [] e.kind = "field" -> FieldHolds(fields, e)

-----------------------------------------------------------------------------
(* Order                                                                    *)

compareQueryKeys(keyL, keyR, order, l, r) ==
    LET differing == {i \in 1 .. Len(order) : compareIndexScalars(keyL[i], keyR[i]) # 0}
    IN  IF differing = {} THEN compareIndexScalars(l, r)
        ELSE LET i == CHOOSE n \in differing : \A m \in differing : n <= m
                 c == compareIndexScalars(keyL[i], keyR[i])
             IN  IF order[i].direction = "desc" THEN -c ELSE c

SortKey(fields, order) == [i \in 1 .. Len(order) |-> fields[order[i].path]]

(* A set of documents in an order.                                          *)
Sorted(docs, before(_, _)) ==
    [i \in 1 .. Cardinality(docs) |->
        CHOOSE d \in docs : Cardinality({e \in docs : e # d /\ before(e, d)}) = i - 1]

EntriesBefore(order, l, r) ==
    compareQueryKeys(SortKey(entries[l], order), SortKey(entries[r], order), order, l, r) < 0

-----------------------------------------------------------------------------
(* Planning                                                                 *)

RECURSIVE flattenAnd(_)
flattenAnd(e) ==
    CASE e.kind = "field" -> {e}
      [] e.kind = "and" -> UNION {flattenAnd(e.expressions[i]) : i \in 1 .. Len(e.expressions)}
      [] OTHER -> {}

Leaf(leaves, path, operators) == {l \in leaves : l.path = path /\ l.operator \in operators}
TheLeaf(S) == CHOOSE l \in S : TRUE

(* The leading fields of an index that a condition fixes; a range condition *)
(* on the next one ends them.                                               *)
Fixed(leaves, index) ==
    CHOOSE n \in 0 .. Len(index) :
        /\ \A i \in 1 .. n : Leaf(leaves, index[i], {"eq", "in"}) # {}
        /\ n < Len(index) => Leaf(leaves, index[n + 1], {"eq", "in"}) = {}

FixedValues(leaves, path) ==
    LET l == TheLeaf(Leaf(leaves, path, {"eq", "in"}))
    IN  IF l.operator = "in" THEN l.values ELSE {l.value}

NoRange == [position |-> 0, prefix |-> {}, lower |-> {}, upper |-> {}]
RangeOf(leaves, index, n) ==
    IF n = Len(index) THEN NoRange
    ELSE LET prefix == Leaf(leaves, index[n + 1], {"prefix"})
             lower == Leaf(leaves, index[n + 1], {"gt", "gte"})
             upper == Leaf(leaves, index[n + 1], {"lt", "lte"})
         IN  IF prefix \cup lower \cup upper = {} THEN NoRange
             ELSE [position |-> n + 1,
                   prefix |-> IF prefix = {} THEN {} ELSE {TheLeaf(prefix)},
                   lower |-> IF lower = {} THEN {} ELSE {TheLeaf(lower)},
                   upper |-> IF upper = {} THEN {} ELSE {TheLeaf(upper)}]

sortCovered(index, n, lookups, order) ==
    /\ Cardinality(lookups) = 1 /\ Len(order) > 0
    /\ n + Len(order) = Len(index)
    /\ \A i \in 1 .. Len(order) : order[i].direction = "asc" /\ index[n + i] = order[i].path

Lookups(leaves, index, n) ==
    {f \in [1 .. n -> 0 .. 2] : \A k \in 1 .. n : f[k] \in FixedValues(leaves, index[k])}

Score(n, range, sorted, lookups) ==
    n * 100 + (IF range # NoRange THEN 10 ELSE 0) + (IF sorted THEN 5 ELSE 0) - Cardinality(lookups)

(* What the index offers that fixes n fields: the range on the next one.    *)
OfferOf(i, n, lookups, range, e, order) ==
    LET sorted == sortCovered(Indexes[i], n, lookups, order)
    IN  [kind |-> "physical", index |-> i, lookups |-> lookups, range |-> range, sortCovered |-> sorted,
         usable |-> /\ n > 0 \/ range # NoRange \/ e.kind = "absent"
                    /\ n > 0 \/ range # NoRange \/ sorted,
         score |-> Score(n, range, sorted, lookups)]

OfferFixing(i, leaves, n, e, order) ==
    OfferOf(i, n, Lookups(leaves, Indexes[i], n), RangeOf(leaves, Indexes[i], n), e, order)

OfferFor(i, leaves, e, order) == OfferFixing(i, leaves, Fixed(leaves, Indexes[i]), e, order)

(* What one physical index offers for a conjunction.                        *)
Offer(i, e, order) == OfferFor(i, flattenAnd(e), e, order)

FullScan == [kind |-> "full", plans |-> {}]

(* The usable offer of the highest score, the first one of several.         *)
Best(offers) ==
    LET usable == {i \in DOMAIN offers : offers[i].usable}
    IN  IF usable = {} THEN FullScan
        ELSE LET best == CHOOSE i \in usable : \A j \in usable :
                     \/ offers[j].score < offers[i].score
                     \/ offers[j].score = offers[i].score /\ i <= j
             IN  [kind |-> "physical", plans |-> {offers[best]}]

planConjunction(e, order) == Best([i \in 1 .. Len(Indexes) |-> Offer(i, e, order)])

UnionOf(plans) ==
    IF FullScan \in plans THEN FullScan
    ELSE [kind |-> "union", plans |-> UNION {p.plans : p \in plans}]

planQuery(e, order) ==
    IF e.kind = "or"
    THEN UnionOf({planConjunction(e.expressions[i], order) : i \in 1 .. Len(e.expressions)})
    ELSE planConjunction(e, order)

-----------------------------------------------------------------------------
(* Execution                                                                *)

Key(d, index) == [i \in 1 .. Len(index) |-> entries[d][index[i]]]

compareKeyPrefix(key, target) ==
    LET differing == {i \in 1 .. Len(target) : key[i] # target[i]}
    IN  IF differing = {} THEN 0
        ELSE LET i == CHOOSE n \in differing : \A m \in differing : n <= m
             IN  compareIndexScalars(key[i], target[i])

(* The rows of a physical index, by key and then by path.                   *)
PhysicalRows(index) ==
    LET Before(l, r) ==
            LET c == compareKeyPrefix(Key(l, index), Key(r, index)) IN c < 0 \/ (c = 0 /\ l < r)
    IN  Sorted(DOMAIN entries, Before)

lookupStart(lookup, range) ==
    IF range.lower # {} THEN Append(lookup, TheLeaf(range.lower).value)
    ELSE IF range.prefix # {} THEN Append(lookup, TheLeaf(range.prefix).value)
    ELSE lookup

PastAtTheBound(compared, inclusive) == compared >= 0
PastUpper(compared, inclusive) == compared > 0 \/ (compared = 0 /\ ~inclusive)

matchesLookup(key, lookup, range) ==
    LET equal == compareKeyPrefix(key, lookup)
        v == key[range.position]
    IN  IF equal # 0 THEN (IF equal < 0 THEN "before" ELSE "past")
        ELSE IF range = NoRange THEN "match"
        ELSE IF range.prefix # {} THEN
             (IF startsWith(v, TheLeaf(range.prefix).value) THEN "match"
              ELSE IF v < TheLeaf(range.prefix).value THEN "before" ELSE "past")
        ELSE IF range.lower # {} /\ \/ compareIndexScalars(v, TheLeaf(range.lower).value) < 0
                                    \/ v = TheLeaf(range.lower).value /\ TheLeaf(range.lower).operator = "gt"
             THEN "before"
        ELSE IF range.upper # {} /\ PastUpper(compareIndexScalars(v, TheLeaf(range.upper).value),
                                              TheLeaf(range.upper).operator = "lte")
             THEN "past"
        ELSE "match"

(* The walk starts at the lower bound and stops at the first row past it.   *)
Visited(keys, start) == {i \in DOMAIN keys : compareKeyPrefix(keys[i], start) >= 0}

Matching(rows, visited, decision) ==
    SelectSeq([i \in DOMAIN rows |->
        IF i \in visited /\ decision[i] = "match" /\ \A j \in visited : j <= i => decision[j] # "past"
        THEN rows[i] ELSE Missing], LAMBDA d : d # Missing)

WalkKeys(rows, keys, lookup, range) ==
    Matching(rows, Visited(keys, lookupStart(lookup, range)),
             [i \in DOMAIN keys |-> matchesLookup(keys[i], lookup, range)])

WalkRows(rows, index, lookup, range) ==
    WalkKeys(rows, [i \in 1 .. Len(rows) |-> Key(rows[i], index)], lookup, range)

Walk(plan, lookup) ==
    WalkRows(PhysicalRows(Indexes[plan.index]), Indexes[plan.index], lookup, plan.range)

Candidates(plan) ==
    IF plan.kind = "full" THEN DOMAIN entries
    ELSE UNION {LET found == Walk(p, l) IN {found[i] : i \in 1 .. Len(found)} : <<p, l>> \in
                {<<q, m>> \in plan.plans \X UNION {q.lookups : q \in plan.plans} : m \in q.lookups}}

(* finalizeQueryCandidates: only a single walk in index order is not sorted *)
(* again.                                                                   *)
SortedWalk(plan) == plan.kind = "physical" /\ \A p \in plan.plans : p.sortCovered /\ Cardinality(p.lookups) = 1
OnlyWalk(p) == Walk(p, CHOOSE l \in p.lookups : TRUE)

Executed(plan, e, order) ==
    LET holds(d) == evaluateQueryExpression(entries[d], e)
        Before(l, r) == EntriesBefore(order, l, r)
    IN  IF SortedWalk(plan)
        THEN SelectSeq(OnlyWalk(CHOOSE p \in plan.plans : TRUE), holds)
        ELSE Sorted({d \in Candidates(plan) : holds(d)}, Before)

execute(e, order) == Executed(planQuery(e, order), e, order)

-----------------------------------------------------------------------------
(* Paging                                                                   *)

isAfterQueryCursor(d, position) ==
    compareQueryKeys(SortKey(entries[d], orderBy), position.sort, orderBy, d, position.documentPath) > 0

Remaining ==
    LET After(d) == cursor = <<>> \/ isAfterQueryCursor(d, cursor[1])
    IN  SelectSeq(execute(where, orderBy), After)

(* query(), first called: a query over whatever rows are indexed.           *)
QueryAsked(rows, condition, order, size) ==
    /\ first = 0
    /\ entries' = rows /\ where' = condition /\ orderBy' = order /\ first' = size
    /\ UNCHANGED <<cursor, pages, untouched, ended>>

PageOf(remaining) == SubSeq(remaining, 1, IF first < Len(remaining) THEN first ELSE Len(remaining))
CursorAt(d) == <<[sort |-> SortKey(entries[d], orderBy), documentPath |-> d]>>

(* query(): the next page, and the cursor of its last document.             *)
NextPage ==
    /\ first > 0 /\ ~ended
    /\ \E remaining \in {Remaining} : \E page \in {PageOf(remaining)} :
         /\ pages' = pages \o page
         /\ cursor' = IF page = <<>> THEN cursor ELSE CursorAt(page[Len(page)])
         /\ ended' = (Len(remaining) <= first)
    /\ UNCHANGED <<entries, where, orderBy, first, untouched>>

(* A row is written, or removed, between two pages.                         *)
RowReplaced(d, row) ==
    /\ ~ended /\ cursor # <<>> /\ d \in untouched
    /\ entries' = [e \in DOMAIN entries \cup {d} |-> IF e = d THEN row ELSE entries[e]]
    /\ untouched' = untouched \ {d}
    /\ UNCHANGED <<where, orderBy, first, cursor, pages, ended>>

RowRemoved(d) ==
    /\ ~ended /\ cursor # <<>> /\ d \in untouched \cap DOMAIN entries
    /\ entries' = [e \in DOMAIN entries \ {d} |-> entries[e]]
    /\ untouched' = untouched \ {d}
    /\ UNCHANGED <<where, orderBy, first, cursor, pages, ended>>

QueryInit ==
    /\ entries = <<>> /\ where = Absent /\ orderBy = <<>> /\ first = 0
    /\ cursor = <<>> /\ pages = <<>> /\ untouched = Documents /\ ended = FALSE

QueryNext ==
    \/ \E rows \in [Documents -> RowChoices], condition \in Conditions, order \in Orders, size \in PageSizes :
           QueryAsked(rows, condition, order, size)
    \/ NextPage
    \/ \E d \in Changing, row \in RowChoices : RowReplaced(d, row)
    \/ \E d \in Changing : RowRemoved(d)

QuerySpec == QueryInit /\ [][QueryNext]_queryVars

-----------------------------------------------------------------------------
(* The rows of a query without any index.                                   *)
FullScanResult ==
    LET Before(l, r) == EntriesBefore(orderBy, l, r)
    IN  Sorted({d \in DOMAIN entries : evaluateQueryExpression(entries[d], where)}, Before)

(* Whatever plan is chosen, a query returns what a scan of every row would, *)
(* in the order asked for.  (Every set of rows is one to start paging from.) *)
PlanEqualsScan == first > 0 /\ cursor = <<>> => execute(where, orderBy) = FullScanResult

(* Paging through a query returns every matching document whose row stays   *)
(* as it is exactly once and in order, although others change between       *)
(* pages; the cursor neither repeats nor skips rows with equal sort keys.   *)
PagesComplete ==
    /\ \A i, j \in 1 .. Len(pages) : i < j /\ pages[i] = pages[j] => pages[i] \notin untouched
    /\ \A i, j \in 1 .. Len(pages) :
           i < j /\ {pages[i], pages[j]} \subseteq untouched => EntriesBefore(orderBy, pages[i], pages[j])
    /\ ended => \A d \in untouched : evaluateQueryExpression(entries[d], where) => \E i \in 1 .. Len(pages) : pages[i] = d
===============================================================================
